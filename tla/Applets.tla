------------------------------ MODULE Applets -------------------------------
(* The smaller applications of the desktop: the file manager, the terminal,  *)
(* and the task manager with the settings.  They share no state.             *)
EXTENDS Naturals, Sequences, SequencesExt, FiniteSets

-----------------------------------------------------------------------------
(* The file manager of kernel/src/files_app.rs: the directory shown, the     *)
(* history of directories, the selection and the double click.  A path is    *)
(* the sequence of its parts.  The listings are the ones built into the      *)
(* program: what is created, renamed or deleted is gone with the next        *)
(* load_directory.                                                           *)

CONSTANTS
    Lists,          \* the listings of the known directories
    Home,           \* the directory shown first
    Places,         \* the directories of the sidebar
    DoubleTicks,    \* 300: how long a second click counts
    MaxHistory, MaxEntries, MaxTicks    \* bounds

VARIABLES fm, fmTick, started   \* the state, the clock, the files editors were started for

fmVars == <<fm, fmTick, started>>
Unselected == 0 - 1
Entry(name, kind) == [name |-> name, kind |-> kind]
Listing(p) == IF p \in DOMAIN Lists THEN Lists[p] ELSE <<Entry("readme", "text")>>

LoadDirectory(s, p) == [s EXCEPT !.path = p, !.entries = Listing(p), !.sel = Unselected, !.picked = <<>>]

(* Mutant: navigation keeps what lay ahead. *)
NavigateKeeping(s, p) ==
    LET l == LoadDirectory(s, p) IN [l EXCEPT !.hist = Append(@, p), !.at = Len(s.hist)]

NavigateTo(s, p) ==
    LET l == LoadDirectory(s, p)
    IN [l EXCEPT !.hist = Append(SubSeq(@, 1, s.at + 1), p), !.at = s.at + 1]

GoParent(s) == NavigateTo(s, IF s.path = <<>> THEN <<>> ELSE Front(s.path))

GoBack(s) == IF s.at > 0 THEN [LoadDirectory(s, s.hist[s.at]) EXCEPT !.at = @ - 1] ELSE s
GoForward(s) == IF s.at + 1 < Len(s.hist) THEN [LoadDirectory(s, s.hist[s.at + 2]) EXCEPT !.at = @ + 1] ELSE s
Refresh(s) == LoadDirectory(s, s.path)

Create(s, kind) == [s EXCEPT !.entries = Append(@, Entry("new", kind))]

Rows(s) == 0 .. Len(s.entries) - 1
FirstOf(q) == IF q = <<>> THEN Unselected ELSE q[1]
SelectSingle(s, i) == [s EXCEPT !.picked = <<i>>, !.sel = i]
ToggleSelect(s, i) ==
    LET q == IF i \in ToSet(s.picked) THEN SelectSeq(s.picked, LAMBDA j : j # i) ELSE Append(s.picked, i)
    IN [s EXCEPT !.picked = q, !.sel = FirstOf(q)]
SelectRange(s, i, j) ==
    LET lo == IF i <= j THEN i ELSE j
        hi == IF i <= j THEN j ELSE i
        q == SelectSeq([k \in 1 .. hi - lo + 1 |-> lo + k - 1], LAMBDA k : k < Len(s.entries))
    IN [s EXCEPT !.picked = q, !.sel = FirstOf(q)]
SelectAllRows(s) == SelectRange(s, 0, IF s.entries = <<>> THEN 0 ELSE Len(s.entries) - 1)

Current(s) == s.entries[s.sel + 1]
CopyItem(s, cut) == [s EXCEPT !.item = <<[path |-> Append(s.path, Current(s).name), cut |-> cut]>>]
PasteItem(s) ==
    IF s.item = <<>> THEN s
    ELSE [s EXCEPT !.item = <<>>, !.entries = Append(@, Entry(Last(s.item[1].path), "text"))]
DeleteSelected(s) == [s EXCEPT !.entries = RemoveAt(@, s.sel + 1), !.sel = Unselected, !.picked = <<>>]
RenameSelected(s) == [s EXCEPT !.entries[s.sel + 1].name = "renamed"]

(* Up and Down move selected_idx and leave selected_indices alone. *)
ArrowUp(s) == IF s.entries = <<>> THEN s ELSE [s EXCEPT !.sel = IF @ > 0 THEN @ - 1 ELSE 0]
ArrowDown(s) ==
    IF s.entries = <<>> THEN s
    ELSE [s EXCEPT !.sel = IF @ = Unselected THEN 0 ELSE IF @ + 1 < Len(s.entries) THEN @ + 1 ELSE @]

(* Enter or a double click: a directory is entered, an editor started for a text. *)
OpenRow(s, i) ==
    IF s.entries[i + 1].kind = "directory" THEN NavigateTo(s, Append(s.path, s.entries[i + 1].name)) ELSE s
StartedBy(s, i) == IF s.entries[i + 1].kind = "text" THEN {Append(s.path, s.entries[i + 1].name)} ELSE {}

----------------------------------------------------------------------------
FmInit ==
    /\ fm = [path |-> Home, hist |-> <<Home>>, at |-> 0, entries |-> Listing(Home),
             sel |-> Unselected, picked |-> <<>>, item |-> <<>>, last |-> <<>>]
    /\ fmTick = 0 /\ started = {}

Becomes(s) == fm' = s /\ Len(s.hist) <= MaxHistory /\ Len(s.entries) <= MaxEntries

(* handle_key_input, and the buttons and the sidebar of handle_mouse_click. *)
FmNavigate ==
    /\ \/ \E p \in Places : Becomes(NavigateTo(fm, p))
       \/ Becomes(GoParent(fm)) \/ Becomes(GoBack(fm)) \/ Becomes(GoForward(fm)) \/ Becomes(Refresh(fm))
    /\ UNCHANGED <<fmTick, started>>

FmArrow == (Becomes(ArrowUp(fm)) \/ Becomes(ArrowDown(fm))) /\ UNCHANGED <<fmTick, started>>

FmEnter ==
    /\ fm.sel \in Rows(fm) /\ Becomes(OpenRow(fm, fm.sel))
    /\ started' = started \cup StartedBy(fm, fm.sel) /\ UNCHANGED fmTick

IsDouble(i) == fm.last # <<>> /\ fm.last[1] = i /\ fmTick - fm.last[2] <= DoubleTicks

(* load_directory leaves last_click_item: the first of two clicks may have  *)
(* been on the same row of another directory.                               *)
FmClickRow ==
    /\ \E i \in Rows(fm) :
         \/ /\ IsDouble(i) /\ Becomes(OpenRow([fm EXCEPT !.last = <<>>], i))
            /\ started' = started \cup StartedBy(fm, i)
         \/ /\ ~IsDouble(i) /\ Becomes([fm EXCEPT !.sel = i, !.last = <<i, fmTick>>]) /\ UNCHANGED started
    /\ UNCHANGED fmTick

FmCreate == (\E kind \in {"text", "directory"} : Becomes(Create(fm, kind))) /\ UNCHANGED <<fmTick, started>>

(* Operations the tests call. *)
FmSelect ==
    /\ \/ \E i \in Rows(fm) : Becomes(SelectSingle(fm, i)) \/ Becomes(ToggleSelect(fm, i))
       \/ \E i, j \in 0 .. MaxEntries - 1 : Becomes(SelectRange(fm, i, j))
       \/ Becomes(SelectAllRows(fm))
    /\ UNCHANGED <<fmTick, started>>

FmEdit ==
    /\ \/ fm.sel \in Rows(fm) /\ (Becomes(DeleteSelected(fm)) \/ Becomes(RenameSelected(fm)))
       \/ fm.sel \in Rows(fm) /\ \E cut \in BOOLEAN : Becomes(CopyItem(fm, cut))
       \/ Becomes(PasteItem(fm))
    /\ UNCHANGED <<fmTick, started>>

FmTime == fmTick < MaxTicks /\ fmTick' = fmTick + 1 /\ UNCHANGED <<fm, started>>

FmNext == FmNavigate \/ FmArrow \/ FmEnter \/ FmClickRow \/ FmCreate \/ FmSelect \/ FmEdit \/ FmTime

----------------------------------------------------------------------------
(* selected_idx and selected_indices name rows of the listing that is shown, *)
(* whatever was deleted, renamed or loaded since they were set: the code     *)
(* indexes entries with them.                                                *)
SelectionInList ==
    /\ fm.sel \in Rows(fm) \cup {Unselected}
    /\ ToSet(fm.picked) \subseteq Rows(fm)

(* The directory shown is the one history_idx points at, so that Back and    *)
(* Forward start from what the user sees.                                    *)
HistoryAgrees == fm.at < Len(fm.hist) /\ fm.hist[fm.at + 1] = fm.path

(* Navigation never rewrites where the user has been: after it Back leads to *)
(* the directory that was shown, and from there to what lay behind it.       *)
HistoryIsKept ==
    [][fm'.at > fm.at => fm'.hist[fm'.at] = fm.path /\ \A i \in 1 .. fm.at : fm'.hist[i] = fm.hist[i]]_fmVars

-----------------------------------------------------------------------------
(* The terminal of kernel/src/terminal_app.rs: the line being typed, the     *)
(* history of commands, the buffer of lines and the commands that act on     *)
(* more than the buffer.  A line of input is a sequence of characters, a     *)
(* command one of a few of them; the buffer is its length.                   *)

CONSTANTS
    Letters,        \* the characters typed
    MaxHist,        \* MAX_HISTORY
    MaxBuffer,      \* MAX_BUFFER_LINES
    Page,           \* lines a page key scrolls
    Kept,           \* lines of the buffer that stay in sight
    MaxInput        \* bound on the line typed

VARIABLES term      \* input, cursor_pos, history, history_cursor, length of lines, scroll_offset, pending_close

termVars == <<term>>
NotRecalled == 0 - 1
Least(a, b) == IF a <= b THEN a ELSE b
Less(a, b) == IF a >= b THEN a - b ELSE 0

PushLines(s, n) == [s EXCEPT !.lines = Least(@ + n, MaxBuffer)]
SetInput(s, q) == [s EXCEPT !.input = q, !.cur = Len(q)]

TermInsert(s, c) ==
    IF s.cur >= Len(s.input) THEN SetInput(s, Append(s.input, c))
    ELSE [s EXCEPT !.input = InsertAt(@, s.cur + 1, c), !.cur = @ + 1]
Backspace(s) ==
    IF s.cur > 0 /\ s.input # <<>> THEN [s EXCEPT !.input = RemoveAt(@, s.cur), !.cur = @ - 1] ELSE s
DeleteChar(s) == IF s.cur < Len(s.input) THEN [s EXCEPT !.input = RemoveAt(@, s.cur + 1)] ELSE s

HistoryUp(s) ==
    IF s.hist = <<>> THEN s
    ELSE LET i == IF s.recall = NotRecalled THEN Len(s.hist) - 1 ELSE Less(s.recall, 1)
         IN SetInput([s EXCEPT !.recall = i], s.hist[i + 1])
HistoryDown(s) ==
    IF s.recall = NotRecalled THEN s
    ELSE IF s.recall + 1 < Len(s.hist) THEN SetInput([s EXCEPT !.recall = @ + 1], s.hist[s.recall + 2])
    ELSE SetInput([s EXCEPT !.recall = NotRecalled], <<>>)

Remember(s) ==
    [s EXCEPT !.hist = IF @ # <<>> /\ Last(@) = s.input THEN @
                       ELSE Append(IF Len(@) >= MaxHist THEN Tail(@) ELSE @, s.input),
              !.recall = NotRecalled]

(* execute_command: the prompt and what the command prints, up to a screen. *)
Execute(s, printed, kind) ==
    LET ran == IF s.input = <<>> THEN PushLines(s, 1)
               ELSE IF kind = "clear" THEN [Remember(s) EXCEPT !.lines = 0]
               ELSE PushLines([Remember(s) EXCEPT !.closing = @ \/ kind = "exit"], 1 + printed)
    IN [SetInput(ran, <<>>) EXCEPT !.scroll = 0]

ScrollUp(s) == [s EXCEPT !.scroll = Least(@ + Page, Less(s.lines, Kept))]
ScrollDown(s) == [s EXCEPT !.scroll = Less(@, Page)]

TermInit ==
    term = [input |-> <<>>, cur |-> 0, hist |-> <<>>, recall |-> NotRecalled, lines |-> 3, scroll |-> 0, closing |-> FALSE]

TermBecomes(s) == term' = s /\ Len(s.input) <= MaxInput

TypeLine ==
    /\ \/ \E c \in Letters : TermBecomes(TermInsert(term, c))
       \/ TermBecomes(Backspace(term)) \/ TermBecomes(DeleteChar(term))
       \/ \E c \in {Less(term.cur, 1), Least(term.cur + 1, Len(term.input)), 0, Len(term.input)} : TermBecomes([term EXCEPT !.cur = c])
       \/ TermBecomes(SetInput(term, <<>>))
       \/ TermBecomes(SetInput(PushLines(term, 1), <<>>))
       \/ TermBecomes([term EXCEPT !.lines = 0])

Recall == TermBecomes(HistoryUp(term)) \/ TermBecomes(HistoryDown(term))
Enter == \E printed \in 0 .. 2, kind \in {"print", "clear", "exit"} : TermBecomes(Execute(term, printed, kind))
ScrollKey == TermBecomes(ScrollUp(term)) \/ TermBecomes(ScrollDown(term))

(* The window of a terminal that ran exit is closed with the key's event. *)
TermNext == ~term.closing /\ (TypeLine \/ Recall \/ Enter \/ ScrollKey)

----------------------------------------------------------------------------
(* cursor_pos and history_cursor stay inside what they index, though Escape  *)
(* and Ctrl+C clear the line and leave history_cursor, and a full history    *)
(* drops its oldest command.                                                 *)
TermInBounds ==
    /\ term.cur \in 0 .. Len(term.input)
    /\ term.recall \in {NotRecalled} \cup 0 .. Len(term.hist) - 1
    /\ Len(term.hist) <= MaxHist

(* Two commands next to each other in the history differ, also once the      *)
(* oldest were dropped: each press of Up shows another line.                 *)
NoEcho == \A i \in 1 .. Len(term.hist) - 1 : term.hist[i] # term.hist[i + 1]

-----------------------------------------------------------------------------
(* The task manager of kernel/src/taskmgr_app.rs, the settings of            *)
(* kernel/src/settings_app.rs and the theme both they and the shell service  *)
(* change.  Processes come and go while the task manager shows a snapshot.   *)

CONSTANTS
    Pids,           \* processes that come and go
    Protected,      \* pid 0, pid 1 and the processes named kernel or idle, always there
    KernelThreads   \* clock, mouse, keyboard, compositor and boot_orchestrator: not protected

VARIABLES
    live,       \* the processes in the scheduler's table that are not reaped
    tm,         \* snapshot, selected_pid, selected_row_idx, confirm_kill_pid
    asked,      \* history: the process the user saw selected when asking to end it
    ending,     \* processes handed to execute_ui_action, with the one asked for
    theme,      \* THEME_MANAGER: whether it is dark
    store,      \* SETTINGS_STORE.dark_theme
    toggling,   \* a toggle that has changed the theme and not the store yet
    shelled     \* history: the shell service toggled since the settings began to

tmVars == <<live, tm, asked, ending>>
themeVars == <<theme, store, toggling, shelled>>
NoPid == "none"

Shuffled == SetToSeqs(live)
RowOf(seq, p) == CHOOSE i \in 0 .. Len(seq) - 1 : seq[i + 1] = p

(* Mutant: a refresh leaves the selected row where it was. *)
RefreshedInPlace(s, seq) == [s EXCEPT !.rows = seq]

(* refresh: sorted by a column whose values change all the time. *)
Refreshed(s, seq) ==
    [s EXCEPT !.rows = seq,
              !.row = IF s.sel = NoPid THEN @ ELSE IF s.sel \in live THEN RowOf(seq, s.sel) ELSE 0,
              !.sel = IF s.sel \in live THEN s.sel ELSE NoPid]

SelectRow(s, i) == [s EXCEPT !.row = i, !.sel = s.rows[i + 1]]

TmInit ==
    /\ live \in {Protected \cup KernelThreads \cup S : S \in SUBSET Pids}
    /\ tm \in {[rows |-> q, row |-> 0, sel |-> NoPid, confirm |-> NoPid] : q \in SetToSeqs(live)}
    /\ asked = NoPid /\ ending = <<>>

ProcessComes == \E p \in Pids \ live : live' = live \cup {p} /\ UNCHANGED <<tm, asked, ending>>
ProcessGoes == \E p \in Pids \cap live : live' = live \ {p} /\ UNCHANGED <<tm, asked, ending>>

TmRefresh ==
    /\ tm.confirm = NoPid
    /\ \E seq \in Shuffled : tm' = Refreshed(tm, seq)
    /\ UNCHANGED <<live, asked, ending>>

TmSelect ==
    /\ tm.confirm = NoPid
    /\ \E i \in 0 .. Len(tm.rows) - 1 : tm' = SelectRow(tm, i)
    /\ UNCHANGED <<live, asked, ending>>

(* Up and Down index the snapshot with the row they arrive at; a row behind *)
(* its end is a panic, and the step is not taken.                           *)
TmArrow ==
    /\ tm.confirm = NoPid
    /\ \E i \in {IF tm.row > 0 THEN tm.row - 1 ELSE 0, IF tm.row + 1 < Len(tm.rows) THEN tm.row + 1 ELSE tm.row} :
         i < Len(tm.rows) /\ tm' = SelectRow(tm, i)
    /\ UNCHANGED <<live, asked, ending>>

RequestTerminate ==
    /\ tm.confirm = NoPid /\ tm.sel # NoPid /\ tm.sel \notin Protected
    /\ asked' = tm.rows[tm.row + 1]
    /\ tm' = [tm EXCEPT !.confirm = tm.sel]
    /\ UNCHANGED <<live, ending>>

(* confirm_terminate takes the selection away and leaves the row. *)
ConfirmTerminate ==
    /\ tm.confirm # NoPid
    /\ ending' = <<[pid |-> tm.confirm, seen |-> asked]>>
    /\ tm' = [tm EXCEPT !.confirm = NoPid, !.sel = NoPid]
    /\ UNCHANGED <<live, asked>>

CancelTerminate == tm.confirm # NoPid /\ tm' = [tm EXCEPT !.confirm = NoPid] /\ UNCHANGED <<live, asked, ending>>

(* execute_ui_action, once the task manager's lock is given back. *)
TerminatePid ==
    /\ ending # <<>> /\ live' = live \ {ending[1].pid} /\ ending' = <<>>
    /\ UNCHANGED <<tm, asked>>

TmNext ==
    \/ ProcessComes \/ ProcessGoes \/ TmRefresh \/ TmSelect \/ TmArrow
    \/ RequestTerminate \/ ConfirmTerminate \/ CancelTerminate \/ TerminatePid

----------------------------------------------------------------------------
ThemeInit == theme = TRUE /\ store = TRUE /\ toggling = <<>> /\ shelled = FALSE

(* toggle_theme of the settings, under the lock of their table. *)
ToggleTheme ==
    /\ toggling = <<>> /\ toggling' = <<~theme>>
    /\ theme' = ~theme /\ shelled' = FALSE /\ UNCHANGED store

StoreTheme == toggling # <<>> /\ store' = toggling[1] /\ toggling' = <<>> /\ UNCHANGED <<theme, shelled>>

(* The shell service does not tell the settings. *)
ShellToggle == theme' = ~theme /\ shelled' = TRUE /\ UNCHANGED <<store, toggling>>

ThemeNext == ToggleTheme \/ StoreTheme \/ ShellToggle

----------------------------------------------------------------------------
(* The row that is highlighted shows the process that End Task would end,    *)
(* however the list was sorted and refreshed and processes came and went;    *)
(* the row can lie behind the list, where the arrow keys panic, only after   *)
(* a kill took the selection away.                                           *)
SelectionAgrees == tm.sel # NoPid => tm.row < Len(tm.rows) /\ tm.rows[tm.row + 1] = tm.sel

(* The process that is ended is the one that was selected when the user      *)
(* asked, and never pid 0, pid 1 or one named kernel or idle.  The other     *)
(* threads of the kernel can be ended like any process, though the header of *)
(* taskmgr_app.rs promises termination "with kernel protection".             *)
EndsWhatWasAsked == ending # <<>> => ending[1].pid = ending[1].seen /\ ending[1].pid \notin Protected

(* The settings say which theme is in force, unless the shell service        *)
(* toggled it, before or in the middle of the settings' own toggle.          *)
StoreFollowsTheme == toggling = <<>> /\ ~shelled => store = theme
=============================================================================
