---------------------------- MODULE QueueLemmas -----------------------------
(* Facts about indices, sequences and queues that the proofs about the       *)
(* kernel's tables and queues share.                                         *)
EXTENDS Integers, SequencesExt, FiniteSetTheorems, SequenceTheorems, TLAPS

(* A set of indices has a first one, as every scan of a table or a queue    *)
(* for the first entry of a kind takes for granted.                         *)
LEMMA MinExists ==
    ASSUME NEW T \in SUBSET Nat, T # {}
    PROVE  \E m \in T : \A t \in T : m <= t
<1>1. IsWellFoundedOn(OpToRel(<, Nat), Nat)
    BY NatLessThanWellFounded
<1>2. PICK m \in T : \A t \in T : ~ (<<t, m>> \in OpToRel(<, Nat))
    BY <1>1, WFMin
<1>3. \A t \in T : t \in Nat /\ m \in Nat /\ ~(t < m)
    BY <1>2 DEF OpToRel
<1> QED BY <1>3

(* What holds at 0 and is handed on by each step up to n holds up to n.     *)
LEMMA Climbed ==
    ASSUME NEW n \in Nat, NEW G, 0 \in G, \A i \in 1 .. n : i - 1 \in G => i \in G
    PROVE  \A i \in 0 .. n : i \in G
<1> DEFINE Bad == {i \in 0 .. n : i \notin G}
<1>1. Bad \in SUBSET Nat
  OBVIOUS
<1>2. Bad = {}
  <2> SUFFICES ASSUME Bad # {} PROVE FALSE
    OBVIOUS
  <2>1. PICK m \in Bad : \A t \in Bad : m <= t
    <3> HIDE DEF Bad
    <3> QED BY <1>1, MinExists
  <2>2. m \in 1 .. n /\ m \notin G
    OBVIOUS
  <2>3. m - 1 \in Bad
    BY <2>2
  <2> QED BY <2>1, <2>2, <2>3
<1> QED BY <1>2

(* The values of a computation in n steps that starts with x0.              *)
Computes(f, n, x0, step) ==
    f[0] = x0 /\ \A i \in 1 .. n : f[i] = step[<<i, f[i - 1]>>]

(* It exists: the recursion over 1 .. n that makes each value from the one  *)
(* before has a solution.                                                   *)
LEMMA Iterated ==
    ASSUME NEW n \in Nat, NEW X, NEW x0 \in X, NEW step \in [(1 .. n) \X X -> X]
    PROVE  \E f \in [0 .. n -> X] : Computes(f, n, x0, step)
<1> DEFINE Sol(m) == {f \in [0 .. m -> X] :
                         f[0] = x0 /\ \A i \in 1 .. m : f[i] = step[<<i, f[i - 1]>>]}
           G == {m \in 0 .. n : Sol(m) # {}}
<1>1. 0 \in G
  <2>1. [i \in 0 .. 0 |-> x0] \in Sol(0)
    OBVIOUS
  <2> QED BY <2>1
<1>2. ASSUME NEW m \in 1 .. n, m - 1 \in G
      PROVE  m \in G
  <2>1. PICK f \in Sol(m - 1) : TRUE
    BY <1>2
  <2>2. /\ f \in [0 .. m - 1 -> X] /\ f[0] = x0
        /\ \A i \in 1 .. m - 1 : f[i] = step[<<i, f[i - 1]>>]
    BY <2>1
  <2> DEFINE g == [i \in 0 .. m |-> IF i = m THEN step[<<m, f[m - 1]>>] ELSE f[i]]
  <2>3. step[<<m, f[m - 1]>>] \in X
    BY <2>2
  <2>4. g \in [0 .. m -> X]
    BY <2>2, <2>3
  <2>5. g[0] = x0 /\ g[m] = step[<<m, f[m - 1]>>] /\ \A i \in 0 .. m - 1 : g[i] = f[i]
    BY <2>2
  <2> HIDE DEF g
  <2>6. \A i \in 1 .. m : g[i] = step[<<i, g[i - 1]>>]
    <3> TAKE i \in 1 .. m
    <3>1. CASE i = m
      <4>1. g[m - 1] = f[m - 1]
        BY <2>5
      <4> QED BY <3>1, <4>1, <2>5, Zenon
    <3>2. CASE i \in 1 .. m - 1
      <4>1. g[i] = f[i] /\ g[i - 1] = f[i - 1] /\ f[i] = step[<<i, f[i - 1]>>]
        BY <2>2, <2>5, <3>2
      <4> QED BY <4>1, Zenon
    <3> QED BY <3>1, <3>2
  <2>7. g \in Sol(m)
    BY <2>4, <2>5, <2>6
  <2> QED BY <2>7
<1> HIDE DEF G
<1>3. \A m \in 0 .. n : m \in G
  BY <1>1, <1>2, Climbed
<1>4. n \in G
  BY <1>3
<1> QED BY <1>4 DEF G, Computes

(* Queues without duplicates, and what the operations on them leave.        *)

LEMMA Elements ==
    ASSUME NEW S, NEW s \in Seq(S)
    PROVE  /\ \A x : x \in ToSet(s) <=> \E i \in 1 .. Len(s) : s[i] = x
           /\ IsInjective(s) <=> \A i, j \in 1 .. Len(s) : s[i] = s[j] => i = j
           /\ ToSet(s) \subseteq S
<1>1. DOMAIN s = 1 .. Len(s) /\ \A i \in 1 .. Len(s) : s[i] \in S
  OBVIOUS
<1>2. \A x : x \in ToSet(s) <=> \E i \in 1 .. Len(s) : s[i] = x
  BY <1>1, Zenon DEF ToSet
<1>3. IsInjective(s) <=> \A i, j \in 1 .. Len(s) : s[i] = s[j] => i = j
  BY <1>1, Zenon DEF IsInjective
<1> QED
  BY <1>1, <1>2, <1>3

LEMMA Appended ==
    ASSUME NEW S, NEW s \in Seq(S), NEW x \in S
    PROVE  /\ Append(s, x) \in Seq(S)
           /\ ToSet(Append(s, x)) = ToSet(s) \cup {x}
           /\ IsInjective(s) /\ x \notin ToSet(s) => IsInjective(Append(s, x))
<1> DEFINE r == Append(s, x)
<1>1. r \in Seq(S) /\ Len(r) = Len(s) + 1 /\ r[Len(r)] = x /\ Len(s) \in Nat
      /\ \A i \in 1 .. Len(s) : r[i] = s[i]
  OBVIOUS
<1>2. \A y : y \in ToSet(r) <=> \E i \in 1 .. Len(r) : r[i] = y
  BY <1>1, Elements
<1>3. \A y : y \in ToSet(s) <=> \E i \in 1 .. Len(s) : s[i] = y
  BY Elements
<1> HIDE DEF r
<1>4. ASSUME NEW y \in ToSet(r)
      PROVE  y \in ToSet(s) \cup {x}
  BY <1>1, <1>2, <1>3
<1>5. ASSUME NEW y \in ToSet(s) \cup {x}
      PROVE  y \in ToSet(r)
  BY <1>1, <1>2, <1>3
<1>6. ASSUME IsInjective(s), x \notin ToSet(s)
      PROVE  IsInjective(r)
  <2>1. \A i, j \in 1 .. Len(s) : s[i] = s[j] => i = j
    BY <1>6, Elements
  <2>2. \A i, j \in 1 .. Len(r) : r[i] = r[j] => i = j
    BY <1>1, <1>3, <1>6, <2>1
  <2> QED
    BY <1>1, <2>2, Elements
<1> QED
  BY <1>1, <1>4, <1>5, <1>6 DEF r

LEMMA HeadTaken ==
    ASSUME NEW S, NEW s \in Seq(S), s # <<>>
    PROVE  /\ Head(s) \in ToSet(s) /\ Head(s) \in S /\ Tail(s) \in Seq(S)
           /\ IsInjective(s) => IsInjective(Tail(s)) /\ ToSet(Tail(s)) = ToSet(s) \ {Head(s)}
<1>1. /\ Len(s) \in Nat \ {0} /\ DOMAIN s = 1 .. Len(s) /\ Head(s) = s[1] /\ Tail(s) \in Seq(S)
      /\ DOMAIN Tail(s) = 1 .. Len(s) - 1 /\ \A i \in 1 .. Len(s) - 1 : Tail(s)[i] = s[i + 1]
  OBVIOUS
<1>2. Head(s) \in ToSet(s) /\ Head(s) \in S
  BY <1>1 DEF ToSet
<1>3. ASSUME IsInjective(s)
      PROVE  IsInjective(Tail(s)) /\ ToSet(Tail(s)) = ToSet(s) \ {Head(s)}
  <2>1. IsInjective(Tail(s))
    BY <1>1, <1>3 DEF IsInjective
  <2>2. ASSUME NEW x \in ToSet(Tail(s))
        PROVE  x \in ToSet(s) \ {Head(s)}
    <3>1. PICK i \in 1 .. Len(s) - 1 : x = s[i + 1]
      BY <1>1, <2>2 DEF ToSet
    <3> QED
      BY <1>1, <1>3, <3>1 DEF ToSet, IsInjective
  <2>3. ASSUME NEW x \in ToSet(s), x # Head(s)
        PROVE  x \in ToSet(Tail(s))
    <3>1. PICK i \in 1 .. Len(s) : x = s[i]
      BY <1>1, <2>3 DEF ToSet
    <3>2. i - 1 \in 1 .. Len(s) - 1 /\ Tail(s)[i - 1] = x
      BY <1>1, <2>3, <3>1
    <3> QED
      BY <1>1, <3>2 DEF ToSet
  <2> QED
    BY <2>1, <2>2, <2>3
<1> QED
  BY <1>1, <1>2, <1>3

LEMMA LastTaken ==
    ASSUME NEW S, NEW s \in Seq(S), s # <<>>
    PROVE  LET r == SubSeq(s, 1, Len(s) - 1)
           IN  /\ Last(s) \in ToSet(s) /\ Last(s) \in S /\ r \in Seq(S)
               /\ ToSet(r) \subseteq ToSet(s) /\ ToSet(s) \subseteq ToSet(r) \cup {Last(s)}
               /\ IsInjective(s) => IsInjective(r) /\ Last(s) \notin ToSet(r)
<1> DEFINE r == SubSeq(s, 1, Len(s) - 1)
<1>1. Len(s) \in Nat \ {0} /\ DOMAIN s = 1 .. Len(s) /\ \A i \in 1 .. Len(s) : s[i] \in S
  OBVIOUS
<1>2. r \in Seq(S) /\ Len(r) = Len(s) - 1 /\ \A i \in 1 .. Len(s) - 1 : r[i] = s[i]
  BY <1>1, SubSeqProperties
<1>3. Last(s) = s[Len(s)] /\ Last(s) \in ToSet(s) /\ Last(s) \in S
  <2>1. Len(s) \in 1 .. Len(s)
    BY <1>1
  <2> QED BY <2>1, <1>1 DEF Last, ToSet
<1>4. \A x \in ToSet(r) : \E i \in 1 .. Len(s) - 1 : s[i] = x
  <2>1. DOMAIN r = 1 .. Len(s) - 1
    BY <1>2
  <2> QED BY <2>1, <1>2 DEF ToSet
<1>5. ToSet(r) \subseteq ToSet(s)
  BY <1>1, <1>4, Elements
<1>6. ASSUME IsInjective(s) PROVE IsInjective(r) /\ Last(s) \notin ToSet(r)
  <2>1. \A i, j \in 1 .. Len(s) : s[i] = s[j] => i = j
    BY <1>6, Elements
  <2>2. \A i, j \in 1 .. Len(r) : r[i] = r[j] => i = j
    BY <2>1, <1>1, <1>2
  <2>3. IsInjective(r)
    BY <2>2, <1>2, Elements
  <2>4. Last(s) \notin ToSet(r)
    BY <2>1, <1>1, <1>3, <1>4
  <2> QED BY <2>3, <2>4
<1>7. ToSet(s) \subseteq ToSet(r) \cup {Last(s)}
  <2> HIDE DEF r
  <2> SUFFICES ASSUME NEW x \in ToSet(s), x # Last(s) PROVE x \in ToSet(r)
    OBVIOUS
  <2>1. PICK i \in 1 .. Len(s) : s[i] = x
    BY Elements
  <2>2. i # Len(s)
    BY <2>1, <1>3
  <2>3. i \in 1 .. Len(s) - 1
    <3>1. PICK n \in Nat \ {0} : n = Len(s)
      BY <1>1
    <3>2. i \in 1 .. n - 1
      BY <2>1, <2>2, <3>1
    <3> QED BY <3>1, <3>2
  <2>4. i \in 1 .. Len(r) /\ r[i] = x
    BY <2>1, <2>3, <1>2
  <2> QED BY <2>4, <1>2, Elements
<1> QED BY <1>2, <1>3, <1>5, <1>6, <1>7

LEMMA SuffixTaken ==
    ASSUME NEW S, NEW s \in Seq(S), NEW k \in 1 .. Len(s)
    PROVE  LET r == SubSeq(s, k + 1, Len(s))
           IN  /\ r \in Seq(S)
               /\ ToSet(r) = {s[i] : i \in k + 1 .. Len(s)}
               /\ IsInjective(s) => IsInjective(r) /\ s[k] \notin ToSet(r)
<1> DEFINE r == SubSeq(s, k + 1, Len(s))
<1>1. /\ r \in Seq(S) /\ Len(r) = Len(s) - k /\ Len(s) \in Nat
      /\ \A i \in 1 .. Len(r) : r[i] = s[k + i]
  OBVIOUS
<1> HIDE DEF r
<1>2. \A y : y \in ToSet(r) <=> \E i \in 1 .. Len(r) : r[i] = y
  BY <1>1, Elements
<1>3. ASSUME NEW i \in k + 1 .. Len(s)
      PROVE  s[i] \in ToSet(r)
  <2>1. i - k \in 1 .. Len(r) /\ r[i - k] = s[i]
    BY <1>1
  <2> QED
    BY <1>2, <2>1
<1>4. ASSUME NEW y \in ToSet(r)
      PROVE  y \in {s[i] : i \in k + 1 .. Len(s)}
  <2>1. PICK i \in 1 .. Len(r) : r[i] = y
    BY <1>2, <1>4
  <2>2. k + i \in k + 1 .. Len(s) /\ s[k + i] = y
    BY <1>1, <2>1
  <2> QED
    BY <2>2
<1>5. ASSUME IsInjective(s)
      PROVE  IsInjective(r) /\ s[k] \notin ToSet(r)
  <2>1. \A i, j \in 1 .. Len(s) : s[i] = s[j] => i = j
    BY <1>5, Elements
  <2>2. ASSUME NEW i \in 1 .. Len(r), NEW j \in 1 .. Len(r), r[i] = r[j]
        PROVE  i = j
    <3>1. k + i \in 1 .. Len(s) /\ k + j \in 1 .. Len(s) /\ s[k + i] = s[k + j]
      BY <1>1, <2>2
    <3>2. k + i = k + j
      BY <2>1, <3>1
    <3> QED
      BY <1>1, <3>2
  <2>3. IsInjective(r)
    BY <1>1, <2>2, Elements
  <2>4. ASSUME NEW i \in 1 .. Len(r)
        PROVE  r[i] # s[k]
    <3>1. k + i \in 1 .. Len(s) /\ k + i # k /\ r[i] = s[k + i]
      BY <1>1
    <3> QED
      BY <2>1, <3>1
  <2>5. s[k] \notin ToSet(r)
    BY <1>2, <2>4
  <2> QED
    BY <2>3, <2>5
<1> QED
  BY <1>1, <1>3, <1>4, <1>5 DEF r

LEMMA Removed ==
    ASSUME NEW S, NEW s \in Seq(S), NEW k \in 1 .. Len(s)
    PROVE  LET r == RemoveAt(s, k)
           IN  /\ r \in Seq(S) /\ Len(r) = Len(s) - 1
               /\ \A i \in 1 .. Len(r) : r[i] = IF i < k THEN s[i] ELSE s[i + 1]
               /\ \A y \in ToSet(s) : y # s[k] => y \in ToSet(r)
               /\ ToSet(r) \subseteq ToSet(s)
               /\ IsInjective(s) => IsInjective(r) /\ s[k] \notin ToSet(r)
<1> DEFINE r == RemoveAt(s, k)
<1>1. /\ r \in Seq(S) /\ Len(r) = Len(s) - 1 /\ Len(s) \in Nat
      /\ \A i \in 1 .. Len(r) : r[i] = IF i < k THEN s[i] ELSE s[i + 1]
  <2> DEFINE a == SubSeq(s, 1, k - 1)
             b == SubSeq(s, k + 1, Len(s))
  <2>1. a \in Seq(S) /\ Len(a) = k - 1 /\ \A i \in 1 .. k - 1 : a[i] = s[i]
    OBVIOUS
  <2>2. /\ b \in Seq(S) /\ Len(b) = Len(s) - k /\ Len(s) \in Nat
        /\ \A i \in 1 .. Len(s) - k : b[i] = s[k + i]
    OBVIOUS
  <2>3. r = a \o b
    BY DEF RemoveAt
  <2> HIDE DEF a, b
  <2>4. /\ r \in Seq(S) /\ Len(r) = Len(a) + Len(b)
        /\ \A i \in 1 .. Len(a) + Len(b) : r[i] = IF i <= Len(a) THEN a[i] ELSE b[i - Len(a)]
    BY <2>1, <2>2, <2>3, ConcatProperties
  <2>5. Len(a) = k - 1 /\ Len(r) = Len(s) - 1 /\ k \in Int
    BY <2>1, <2>2, <2>4
  <2>6. ASSUME NEW i \in 1 .. Len(r)
        PROVE  r[i] = IF i < k THEN s[i] ELSE s[i + 1]
    <3>1. CASE i < k
      BY <2>1, <2>4, <2>5, <3>1
    <3>2. CASE i >= k
      <4>1. i - Len(a) \in 1 .. Len(s) - k /\ k + (i - Len(a)) = i + 1 /\ ~(i <= Len(a))
        BY <2>1, <2>2, <2>5, <3>2
      <4>2. r[i] = b[i - Len(a)] /\ b[i - Len(a)] = s[i + 1]
        BY <2>2, <2>4, <2>5, <4>1
      <4> QED
        BY <2>5, <3>2, <4>2
    <3> QED
      BY <2>5, <3>1, <3>2
  <2> QED
    BY <2>2, <2>4, <2>5, <2>6
<1> HIDE DEF r
<1>2. /\ \A y : y \in ToSet(r) <=> \E i \in 1 .. Len(r) : r[i] = y
      /\ \A y : y \in ToSet(s) <=> \E i \in 1 .. Len(s) : s[i] = y
  BY <1>1, Elements
<1>3. \A y \in ToSet(s) : y # s[k] => y \in ToSet(r)
  <2>1. TAKE y \in ToSet(s)
  <2>2. HAVE y # s[k]
  <2>3. PICK i \in 1 .. Len(s) : y = s[i]
    BY <1>2
  <2>4. CASE i < k
    <3>1. i \in 1 .. Len(r) /\ r[i] = y
      BY <1>1, <2>3, <2>4
    <3> QED
      BY <1>2, <3>1
  <2>5. CASE i > k
    <3>1. i - 1 \in 1 .. Len(r) /\ r[i - 1] = y
      BY <1>1, <2>3, <2>5
    <3> QED
      BY <1>2, <3>1
  <2> QED
    BY <2>2, <2>3, <2>4, <2>5
<1>4. ToSet(r) \subseteq ToSet(s)
  <2>1. ASSUME NEW i \in 1 .. Len(r)
        PROVE  \E j \in 1 .. Len(s) : s[j] = r[i]
    <3>1. (i \in 1 .. Len(s) /\ r[i] = s[i]) \/ (i + 1 \in 1 .. Len(s) /\ r[i] = s[i + 1])
      BY <1>1
    <3> QED
      BY <3>1
  <2> QED
    BY <1>2, <2>1
<1>5. ASSUME IsInjective(s)
      PROVE  IsInjective(r) /\ s[k] \notin ToSet(r)
  <2>1. \A i, j \in 1 .. Len(s) : s[i] = s[j] => i = j
    BY <1>5, Elements
  <2>2. \A i \in 1 .. Len(r) : r[i] # s[k]
    BY <1>1, <2>1
  <2>3. \A i, j \in 1 .. Len(r) : r[i] = r[j] => i = j
    BY <1>1, <2>1
  <2> QED
    BY <1>1, <1>2, <2>2, <2>3, Elements
<1> QED
  BY <1>1, <1>3, <1>4, <1>5 DEF r

(* A queue behind what was taken from it: adding to the queue adds to both, *)
(* and taking its first element leaves both together as they were.          *)
LEMMA PushedLast ==
    ASSUME NEW S, NEW r \in Seq(S), NEW b \in Seq(S), NEW x \in S
    PROVE  r \o Append(b, x) = Append(r \o b, x)
<1> DEFINE u == r \o Append(b, x)
           v == Append(r \o b, x)
<1>1. Append(b, x) \in Seq(S) /\ r \o b \in Seq(S) /\ Len(r \o b) = Len(r) + Len(b)
      /\ Len(Append(b, x)) = Len(b) + 1 /\ Len(r) \in Nat /\ Len(b) \in Nat
  OBVIOUS
<1>2. /\ u \in Seq(S) /\ Len(u) = Len(r) + Len(b) + 1
      /\ \A i \in 1 .. Len(r) + (Len(b) + 1) :
            u[i] = IF i <= Len(r) THEN r[i] ELSE Append(b, x)[i - Len(r)]
  <2> DEFINE a == Append(b, x)
  <2>1. a \in Seq(S) /\ Len(a) = Len(b) + 1
    BY <1>1
  <2> HIDE DEF a
  <2>2. /\ r \o a \in Seq(S) /\ Len(r \o a) = Len(r) + Len(a)
        /\ \A i \in 1 .. Len(r) + Len(a) : (r \o a)[i] = IF i <= Len(r) THEN r[i] ELSE a[i - Len(r)]
    BY <2>1, ConcatProperties
  <2> QED
    BY <1>1, <2>1, <2>2 DEF a
<1>3. v \in Seq(S) /\ Len(v) = Len(r) + Len(b) + 1
  BY <1>1
<1>4. ASSUME NEW i \in 1 .. Len(u)
      PROVE  u[i] = v[i]
  <2>1. CASE i = Len(r) + Len(b) + 1
    <3>1. v[i] = x
      BY <1>1, <2>1
    <3>2. Append(b, x)[Len(b) + 1] = x /\ i - Len(r) = Len(b) + 1 /\ ~(i <= Len(r))
          /\ i \in 1 .. Len(r) + (Len(b) + 1)
      BY <1>1, <2>1
    <3> HIDE DEF u, v
    <3> QED
      BY <1>2, <3>1, <3>2
  <2>2. CASE i \in 1 .. Len(r) + Len(b)
    <3>1. v[i] = (r \o b)[i]
      BY <1>1, <2>2
    <3>2. (r \o b)[i] = IF i <= Len(r) THEN r[i] ELSE b[i - Len(r)]
      BY <2>2, ConcatProperties
    <3>3. i - Len(r) \in 1 .. Len(b) => Append(b, x)[i - Len(r)] = b[i - Len(r)]
      OBVIOUS
    <3>4. ~(i <= Len(r)) => i - Len(r) \in 1 .. Len(b)
      BY <1>1, <2>2
    <3>5. i \in 1 .. Len(r) + (Len(b) + 1)
      BY <1>1, <2>2
    <3> HIDE DEF u, v
    <3> QED
      BY <1>2, <3>1, <3>2, <3>3, <3>4, <3>5
  <2>3. i \in 1 .. (Len(r) + Len(b)) + 1
    BY <1>2
  <2>4. i = Len(r) + Len(b) + 1 \/ i \in 1 .. Len(r) + Len(b)
    BY <1>1, <2>3
  <2> HIDE DEF u, v
  <2> QED
    BY <2>1, <2>2, <2>4
<1> HIDE DEF u, v
<1>5. u = v
  BY <1>2, <1>3, <1>4, SeqEqual
<1> QED
  BY <1>5 DEF u, v

LEMMA PoppedFirst ==
    ASSUME NEW S, NEW r \in Seq(S), NEW b \in Seq(S), b # <<>>
    PROVE  Append(r, Head(b)) \o Tail(b) = r \o b
<1> DEFINE h == Append(r, Head(b))
           u == h \o Tail(b)
           v == r \o b
<1>1. /\ Len(r) \in Nat /\ Len(b) \in Nat \ {0} /\ Head(b) \in S /\ Head(b) = b[1]
      /\ Tail(b) \in Seq(S) /\ Len(Tail(b)) = Len(b) - 1
      /\ \A i \in 1 .. Len(b) - 1 : Tail(b)[i] = b[i + 1]
  OBVIOUS
<1>2. /\ h \in Seq(S) /\ Len(h) = Len(r) + 1 /\ h[Len(r) + 1] = Head(b)
      /\ \A i \in 1 .. Len(r) : h[i] = r[i]
  BY <1>1
<1> HIDE DEF h
<1>3. /\ u \in Seq(S) /\ Len(u) = Len(r) + Len(b)
      /\ \A i \in 1 .. Len(h) + Len(Tail(b)) :
            u[i] = IF i <= Len(h) THEN h[i] ELSE Tail(b)[i - Len(h)]
  <2> DEFINE a == Tail(b)
  <2>1. a \in Seq(S) /\ Len(a) = Len(b) - 1
    BY <1>1
  <2> HIDE DEF a
  <2>2. /\ h \o a \in Seq(S) /\ Len(h \o a) = Len(h) + Len(a)
        /\ \A i \in 1 .. Len(h) + Len(a) : (h \o a)[i] = IF i <= Len(h) THEN h[i] ELSE a[i - Len(h)]
    BY <1>2, <2>1, ConcatProperties
  <2>3. Len(h) + Len(a) = Len(r) + Len(b)
    BY <1>1, <1>2, <2>1
  <2> QED
    BY <2>2, <2>3 DEF a
<1>4. /\ v \in Seq(S) /\ Len(v) = Len(r) + Len(b)
      /\ \A i \in 1 .. Len(r) + Len(b) : v[i] = IF i <= Len(r) THEN r[i] ELSE b[i - Len(r)]
  BY ConcatProperties
<1> HIDE DEF u, v
<1>5. ASSUME NEW i \in 1 .. Len(u)
      PROVE  u[i] = v[i]
  <2>0. i \in 1 .. Len(r) + Len(b) /\ i \in 1 .. Len(h) + Len(Tail(b))
    BY <1>1, <1>2, <1>3
  <2>1. CASE i <= Len(r)
    BY <1>1, <1>2, <1>3, <1>4, <2>0, <2>1
  <2>2. CASE i = Len(r) + 1
    BY <1>1, <1>2, <1>3, <1>4, <2>0, <2>2
  <2>3. CASE i > Len(r) + 1
    <3>1. /\ i - Len(h) \in 1 .. Len(b) - 1 /\ (i - Len(h)) + 1 = i - Len(r)
          /\ ~(i <= Len(h)) /\ ~(i <= Len(r))
      BY <1>1, <1>2, <2>0, <2>3
    <3>2. u[i] = Tail(b)[i - Len(h)] /\ v[i] = b[i - Len(r)]
      BY <1>3, <1>4, <2>0, <3>1
    <3> QED
      BY <1>1, <3>1, <3>2
  <2> QED
    BY <1>1, <2>0, <2>1, <2>2, <2>3
<1>6. u = v
  BY <1>3, <1>4, <1>5, SeqEqual
<1> QED
  BY <1>6 DEF u, v, h

LEMMA Joined ==
    ASSUME NEW S, NEW a \in Seq(S), NEW b \in Seq(S)
    PROVE  a \o b \in Seq(S) /\ ToSet(a \o b) = ToSet(a) \cup ToSet(b)
<1> DEFINE r == a \o b
<1>1. /\ r \in Seq(S) /\ Len(r) = Len(a) + Len(b) /\ Len(a) \in Nat /\ Len(b) \in Nat
      /\ \A i \in 1 .. Len(a) + Len(b) : r[i] = IF i <= Len(a) THEN a[i] ELSE b[i - Len(a)]
  BY ConcatProperties
<1> HIDE DEF r
<1>2. /\ \A y : y \in ToSet(r) <=> \E i \in 1 .. Len(r) : r[i] = y
      /\ \A y : y \in ToSet(a) <=> \E i \in 1 .. Len(a) : a[i] = y
      /\ \A y : y \in ToSet(b) <=> \E i \in 1 .. Len(b) : b[i] = y
  BY <1>1, Elements
<1>3. ASSUME NEW y \in ToSet(r)
      PROVE  y \in ToSet(a) \cup ToSet(b)
  <2>1. PICK i \in 1 .. Len(r) : r[i] = y
    BY <1>2
  <2>2. \/ i \in 1 .. Len(a) /\ a[i] = y
        \/ i - Len(a) \in 1 .. Len(b) /\ b[i - Len(a)] = y
    BY <1>1, <2>1
  <2> QED BY <1>2, <2>2
<1>4. ASSUME NEW y \in ToSet(a)
      PROVE  y \in ToSet(r)
  <2>1. PICK i \in 1 .. Len(a) : a[i] = y
    BY <1>2
  <2>2. i \in 1 .. Len(r) /\ r[i] = y
    BY <1>1, <2>1
  <2> QED BY <1>2, <2>2
<1>5. ASSUME NEW y \in ToSet(b)
      PROVE  y \in ToSet(r)
  <2>1. PICK i \in 1 .. Len(b) : b[i] = y
    BY <1>2
  <2>2. PICK k \in 1 .. Len(a) + Len(b) : k = Len(a) + i
    BY <1>1, <2>1
  <2>3. k \in 1 .. Len(r) /\ r[k] = b[k - Len(a)] /\ k - Len(a) = i
    BY <1>1, <2>1, <2>2
  <2>4. k \in 1 .. Len(r) /\ r[k] = y
    BY <2>1, <2>3
  <2> QED BY <1>2, <2>4
<1> QED BY <1>1, <1>3, <1>4, <1>5 DEF r
=============================================================================
