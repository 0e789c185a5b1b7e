------------------------------ MODULE Packages ------------------------------
(* The package manager (pkg_service.rs), the store in front of it            *)
(* (store_service.rs) and the shell's pkg command (shell_service.rs).  The   *)
(* store hands the package manager a bare name where it parses a manifest,   *)
(* so that what the store installs is filed under the parser's default name. *)
EXTENDS Integers, Sequences, FiniteSets, Functions

CONSTANTS Catalog,      \* apps of the store's repository
          Seeded,       \* packages of seed_defaults
          Others        \* other names the shell may be given

Default == "Unknown"    \* the name of a manifest without one
Latest == 2
VARIABLES packages,     \* names of the registry
          installed,    \* app of the store -> version, of the installed ones
          byShell       \* names the shell installed and nobody removed since
packageVars == <<packages, installed, byShell>>

(* The repository has one app at an older version. *)
PackagesInit ==
    /\ packages \in {{}, Seeded} /\ byShell = {}
    /\ \E old \in Catalog : installed = [a \in {old} |-> 1]

(* PackageManifest::parse: the name of a manifest, or the default one. *)
ParsedName(text, isManifest) == IF isManifest THEN text ELSE Default
InstallPackage(text, isManifest) == packages \cup {ParsedName(text, isManifest)}

PkgInstall(name) ==
    /\ packages' = InstallPackage(name, TRUE) /\ byShell' = byShell \cup {name}
    /\ UNCHANGED installed
PkgRemove(name) ==
    /\ name \in packages
    /\ packages' = packages \ {name} /\ byShell' = byShell \ {name}
    /\ UNCHANGED installed
StoreInstall(name) ==
    /\ installed' = [a \in DOMAIN installed \cup {name} |-> IF a = name THEN Latest ELSE installed[a]]
    /\ packages' = InstallPackage(name, FALSE)
    /\ UNCHANGED byShell
StoreUpdate(name) ==
    /\ name \in DOMAIN installed /\ installed[name] # Latest
    /\ installed' = [installed EXCEPT ![name] = Latest]
    /\ UNCHANGED <<packages, byShell>>
StoreUninstall(name) ==
    /\ name \in DOMAIN installed
    /\ installed' = Restrict(installed, DOMAIN installed \ {name})
    /\ packages' = packages \ {name} /\ byShell' = byShell \ {name}

PackagesNext ==
    \/ \E name \in Catalog \cup Seeded \cup Others : PkgInstall(name)
    \/ \E name \in Catalog \cup Seeded \cup Others \cup {Default} : PkgRemove(name)
    \/ \E name \in Catalog : StoreInstall(name) \/ StoreUpdate(name) \/ StoreUninstall(name)
-----------------------------------------------------------------------------
(* What the registry holds beyond its seed came from the shell, or is the    *)
(* one package without a name that stands for all the store ever installed.  *)
RegistryIsExplained == packages \subseteq Seeded \cup byShell \cup {Default}
=============================================================================
