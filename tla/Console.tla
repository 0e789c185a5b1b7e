------------------------------ MODULE Console ------------------------------
(* The text console: the keyboard interrupt and its ring (keyboard.rs,       *)
(* task/keyboard.rs), and the shell that edits a line, keeps a history and   *)
(* runs commands (shell.rs), one thread with interrupts on, under the lock   *)
(* of the ring (a spin lock, which leaves interrupts on) and the lock of the *)
(* screen (which turns them off).                                            *)
EXTENDS Integers, Sequences, SequencesExt

CONSTANTS RingSize,    \* BUF_SIZE of the keyboard's ring
          LineSize,    \* CMD_BUF
          HistorySize, \* the 20 lines of the history
          Cols,        \* BUFFER_WIDTH
          PromptEnds,  \* columns at which a prompt can end, wherever it began
          OutputEnds,  \* columns at which the output of another process can end
          ScanSize,    \* the 256 scancodes of SCANCODE_QUEUE
          FileNames,   \* names of commands and of files, as sequences of characters
          Budgets      \* bound: pairs of keyboard interrupts and of serial bytes that may come
ASSUME ConsoleAssumption ==
    /\ RingSize \in Nat /\ RingSize > 1 /\ LineSize \in Nat \ {0} /\ HistorySize \in Nat \ {0}
    /\ FileNames \subseteq Seq(STRING)
    /\ Cols \in Nat \ {0} /\ PromptEnds \subseteq 1 .. Cols /\ OutputEnds \subseteq 0 .. Cols

Codes == {"a", "space", "c", "enter", "back", "esc", "tab", "48", "50", "ctrl", "ctrl up", "e0"}
SerialKeys == {"a", "space", "enter", "back", "esc", "tab", "ctrlc"}
NoKey == "none"
VARIABLES ring, readAt, writeAt, \* Keyboard: buffer, read, write
          ctrl, extended,        \* Keyboard: ctrl, extended (shift is told by the characters)
          unread,               \* the keys pushed and not yet read, as a queue
          scans,                 \* SCANCODE_QUEUE, telling ESC from the others
          budget,                \* keyboard interrupts and serial bytes still to come
          stuck,                 \* "irq", "shell", "writer" or "none": who spins on a lock that is never given back
          conAt, key,            \* the shell: where it is, and the key it has read
          line, history, historyIdx, gui,
          shown,                 \* the characters behind the prompt on the screen
          column,                \* VgaWriter: the column of the cursor
          room,                  \* columns that were left in the row behind the prompt
          fits,                  \* the line has never been longer than that
          lost,                  \* a backspace was written in the first column of a row
          mixed                  \* another process has written since the prompt
ringVars == <<ring, readAt, writeAt, ctrl, extended, unread, budget>>
screenVars == <<shown, column, room, fits, lost, mixed>>
lineVars == <<line, history, historyIdx, shown, column, room, fits, lost, mixed>>
consoleVars == <<ring, readAt, writeAt, ctrl, extended, unread, scans, budget, stuck, conAt, key, gui,
                 line, history, historyIdx, shown, column, room, fits, lost, mixed>>

ConsoleInit ==
    /\ ring = [i \in 0 .. RingSize - 1 |-> NoKey] /\ readAt = 0 /\ writeAt = 0 /\ ctrl = FALSE /\ extended = FALSE
    /\ unread = <<>> /\ scans = <<>> /\ budget \in Budgets /\ stuck = "none" /\ conAt = "prompt" /\ key = NoKey
    /\ line = <<>> /\ history = <<>> /\ historyIdx = 0 /\ gui = FALSE /\ shown = <<>>
    /\ column = 0 /\ room = 0 /\ fits = FALSE /\ lost = FALSE /\ mixed = FALSE
-----------------------------------------------------------------------------
(* The interrupt: a key for a scancode, pushed unless the ring is full.      *)
KeyOf(code) ==
    CASE extended -> CASE code = "48" -> "up" [] code = "50" -> "down" [] OTHER -> NoKey
      [] ~extended /\ code = "c" -> (IF ctrl THEN "ctrlc" ELSE "c")
      [] ~extended /\ code \in {"a", "space", "enter", "back", "esc", "tab"} -> code
      [] ~extended /\ code \in {"48", "50"} -> (IF code = "48" THEN "8" ELSE "2")
      [] OTHER -> NoKey
After(i) == (i + 1) % RingSize
(* Mutant: a full ring is written over. *)
FitsAlways == TRUE
Fits == After(writeAt) # readAt
Push(k) ==
    IF k # NoKey /\ Fits
    THEN /\ ring' = [ring EXCEPT ![writeAt] = k] /\ writeAt' = After(writeAt)
         /\ unread' = IF Len(unread) < RingSize - 1 THEN Append(unread, k) ELSE unread
    ELSE UNCHANGED <<ring, writeAt, unread>>
(* add_scancode: the queue of the keyboard thread, then the ring, whose lock *)
(* the interrupted shell may hold.                                           *)
AddScancode(code) ==
    /\ stuck = "none" /\ budget[1] > 0 /\ budget' = [budget EXCEPT ![1] = @ - 1]
    /\ scans' = IF Len(scans) < ScanSize THEN Append(scans, IF code = "esc" THEN code ELSE NoKey) ELSE scans
    /\ IF conAt = "pop" THEN stuck' = "irq" /\ UNCHANGED <<ring, writeAt, unread, ctrl, extended>>
       ELSE /\ Push(KeyOf(code)) /\ extended' = (~extended /\ code = "e0") /\ UNCHANGED stuck
            /\ ctrl' = (code = "ctrl" \/ (ctrl /\ code # "ctrl up"))
    /\ UNCHANGED <<readAt, conAt, key, gui>> /\ UNCHANGED lineVars
(* keyboard_thread takes the same scancodes for the desktop. *)
KeyboardThread ==
    /\ stuck = "none" /\ scans # <<>> /\ scans' = Tail(scans)
    /\ UNCHANGED <<stuck, conAt, key, gui>> /\ UNCHANGED ringVars /\ UNCHANGED lineVars
-----------------------------------------------------------------------------
(* The shell reads a key: from the serial line, or from the ring under its   *)
(* lock; while the desktop is up it only empties the ring.                   *)
Calm == UNCHANGED <<stuck, gui, scans>> /\ stuck = "none"
(* A row that is full is continued in the next one. *)
Advanced(c, n) == IF c + n = 0 THEN 0 ELSE ((c + n - 1) % Cols) + 1
Prompted(text) ==
    \E c \in PromptEnds :
        /\ shown' = text /\ column' = Advanced(c, Len(text)) /\ room' = Cols - c /\ fits' = (Len(text) <= Cols - c)
        /\ lost' = FALSE /\ mixed' = FALSE
Prompt ==
    /\ conAt = "prompt" /\ conAt' = "poll" /\ line' = <<>> /\ Prompted(<<>>)
    /\ UNCHANGED <<key, history, historyIdx>> /\ UNCHANGED ringVars /\ Calm
SerialByte ==
    /\ conAt = "poll" /\ key' \in SerialKeys /\ conAt' = "got" /\ budget[2] > 0 /\ budget' = [budget EXCEPT ![2] = @ - 1]
    /\ UNCHANGED <<ring, readAt, writeAt, ctrl, extended, unread>> /\ UNCHANGED lineVars /\ Calm
LockRing ==
    /\ conAt = "poll" /\ conAt' = "pop"
    /\ UNCHANGED key /\ UNCHANGED ringVars /\ UNCHANGED lineVars /\ Calm
Pop ==
    /\ conAt = "pop" /\ ~gui /\ readAt # writeAt /\ key' = ring[readAt] /\ ring' = [ring EXCEPT ![readAt] = NoKey]
    /\ readAt' = After(readAt) /\ unread' = Tail(unread) /\ conAt' = "got"
    /\ UNCHANGED <<writeAt, ctrl, extended, budget>> /\ UNCHANGED lineVars /\ Calm
PopNone ==
    /\ conAt = "pop" /\ ~gui /\ readAt = writeAt /\ conAt' = "poll"
    /\ UNCHANGED key /\ UNCHANGED ringVars /\ UNCHANGED lineVars /\ Calm
ClearRing ==
    /\ conAt = "pop" /\ gui /\ readAt' = 0 /\ writeAt' = 0 /\ ctrl' = FALSE /\ extended' = FALSE /\ unread' = <<>>
    /\ conAt' = "poll" /\ UNCHANGED <<ring, budget, key>> /\ UNCHANGED lineVars /\ Calm
-----------------------------------------------------------------------------
(* The shell handles it.  Every arm takes the lock of the screen; the one    *)
(* for Ctrl+C calls prompt, which takes it again.  An arm writes backspaces, *)
(* which do nothing in the first column, also of a row that continues        *)
(* another one, and then characters.                                         *)
Back(n) == IF n <= column THEN n ELSE column
Erased(n) == IF Back(n) > Len(shown) THEN <<"prompt erased">> ELSE SubSeq(shown, 1, Len(shown) - Back(n))
Echo(n, new) ==
    /\ shown' = Erased(n) \o new /\ column' = Advanced(column - Back(n), Len(new)) /\ lost' = (lost \/ n > column)
    /\ fits' = (fits /\ Len(line') <= room) /\ UNCHANGED <<room, mixed>>
Handles(k) == conAt = "got" /\ key = k /\ UNCHANGED ringVars /\ UNCHANGED key
Stays == conAt' = "poll" /\ Calm
CtrlC ==
    /\ Handles("ctrlc") /\ stuck = "none" /\ stuck' = "shell" /\ line' = <<>>
    /\ shown' = <<>> /\ column' = 0 /\ fits' = FALSE /\ lost' = FALSE
    /\ UNCHANGED <<conAt, gui, scans, history, historyIdx, room, mixed>>
Typed == /\ \E c \in {"a", "space", "c", "8", "2"} : Handles(c)
         /\ IF Len(line) < LineSize THEN line' = Append(line, key) /\ Echo(0, <<key>>) ELSE UNCHANGED <<line, screenVars>>
         /\ UNCHANGED <<history, historyIdx>> /\ Stays
Backspace ==
    /\ Handles("back") /\ UNCHANGED <<history, historyIdx>> /\ Stays
    /\ IF line # <<>> THEN line' = Front(line) /\ Echo(1, <<>>) ELSE UNCHANGED <<line, screenVars>>
Escape ==
    /\ Handles("esc") /\ line' = <<>> /\ Echo(Len(line), <<>>) /\ UNCHANGED <<history, historyIdx>> /\ Stays
Blank(l) == \A i \in DOMAIN l : l[i] = "space"
Kept20(h) == IF Len(h) > HistorySize THEN Tail(h) ELSE h
IsLast == history # <<>> /\ Last(history) = line
Enter ==
    /\ Handles("enter") /\ history' = (IF Blank(line) \/ IsLast THEN history ELSE Kept20(Append(history, line)))
    /\ historyIdx' = Len(history') /\ conAt' = (IF Blank(line) THEN "prompt" ELSE "run")
    /\ UNCHANGED <<line, screenVars>> /\ Calm
(* load_history: erases the line that is there, then takes the other one. *)
Loaded(i) == IF i < Len(history) THEN history[i + 1] ELSE <<>>
Load(i) == historyIdx' = i /\ line' = Loaded(i) /\ Echo(Len(line), Loaded(i)) /\ UNCHANGED history
HistoryUp ==
    Handles("up") /\ (IF historyIdx > 0 THEN Load(historyIdx - 1) ELSE UNCHANGED lineVars) /\ Stays
HistoryDown ==
    Handles("down") /\ (IF historyIdx < Len(history) THEN Load(historyIdx + 1) ELSE UNCHANGED lineVars) /\ Stays
(* auto_complete: the only name that begins with the last word replaces it,  *)
(* as far as the line reaches; several are listed and the line drawn anew.   *)
WordStart == LET gaps == {i \in DOMAIN line : line[i] = "space"} IN IF gaps = {} THEN 0 ELSE CHOOSE i \in gaps : \A j \in gaps : j <= i
Word == SubSeq(line, WordStart + 1, Len(line))
Matches == {n \in FileNames : IsPrefix(Word, n)}
Completed(n) == SubSeq(line, 1, WordStart) \o SubSeq(n, 1, IF Len(n) <= LineSize - WordStart THEN Len(n) ELSE LineSize - WordStart)
AutoComplete ==
    /\ Handles("tab") /\ UNCHANGED <<history, historyIdx>> /\ Stays
    /\ \/ \E n \in FileNames : /\ Matches = {n} /\ line' = Completed(n)
                               /\ Echo(Len(Word), SubSeq(Completed(n), WordStart + 1, Len(Completed(n))))
       \/ Matches = {} /\ UNCHANGED <<line, screenVars>>
       \/ Matches # {} /\ (~\E n \in FileNames : Matches = {n}) /\ UNCHANGED line /\ Prompted(line)
-----------------------------------------------------------------------------
(* Commands.  Most write under the lock of the screen and return; the others *)
(* give it back and take it again at their end.                              *)
Runs(at) == conAt = "run" /\ conAt' = at /\ UNCHANGED <<key, stuck, scans>> /\ UNCHANGED lineVars /\ UNCHANGED ringVars /\ stuck = "none"
Report == Runs("prompt") /\ UNCHANGED gui
Gui == Runs("prompt") /\ gui' = TRUE
StartPing == Runs("ping") /\ UNCHANGED gui
(* ping waits for the scancode of ESC, which the keyboard thread may take. *)
Ping ==
    /\ conAt = "ping" /\ stuck = "none" /\ scans # <<>> /\ scans' = Tail(scans)
    /\ conAt' = (IF scans[1] = "esc" THEN "prompt" ELSE "ping") /\ UNCHANGED <<key, gui, stuck>> /\ UNCHANGED ringVars /\ UNCHANGED lineVars
NoCard == conAt = "ping" /\ conAt' = "prompt" /\ UNCHANGED key /\ UNCHANGED ringVars /\ UNCHANGED lineVars /\ Calm

(* The shell took the lock inside without_interrupts, so interrupts are on   *)
(* again while a command holds it: preempted there, it is waited for by a    *)
(* process that writes and has turned them off.                              *)
UserWaits == conAt = "run" /\ stuck = "none" /\ stuck' = "writer" /\ UNCHANGED <<conAt, key, gui, scans>> /\ UNCHANGED ringVars /\ UNCHANGED lineVars
(* At any other time it writes behind the line that is being edited, once    *)
(* for each prompt (a bound).                                                *)
UserWrite ==
    /\ conAt # "run" /\ ~mixed /\ mixed' = TRUE /\ shown' = Append(shown, "output") /\ column' \in OutputEnds
    /\ UNCHANGED <<conAt, key, line, history, historyIdx, room, fits, lost>> /\ UNCHANGED ringVars /\ Calm

ConsoleNext ==
    \/ \E code \in Codes : AddScancode(code)
    \/ KeyboardThread \/ Prompt \/ SerialByte \/ LockRing \/ Pop \/ PopNone \/ ClearRing \/ CtrlC \/ Typed \/ Backspace \/ Escape \/ Enter
    \/ HistoryUp \/ HistoryDown \/ AutoComplete \/ Report \/ Gui \/ StartPing \/ Ping \/ NoCard \/ UserWaits \/ UserWrite
ConsoleSpec == ConsoleInit /\ [][ConsoleNext]_consoleVars
-----------------------------------------------------------------------------
(* The ring holds the keys pressed and not yet read, in order, whatever was  *)
(* dropped when it was full (keyboard.rs: push and pop over read and write). *)
RingIsQueue ==
    /\ Len(unread) = (writeAt - readAt + RingSize) % RingSize
    /\ \A i \in DOMAIN unread : unread[i] = ring[(readAt + i - 1) % RingSize]

(* What is behind the prompt on the screen is the line that Enter will run,  *)
(* after any editing, recall and completion, as long as no other process has *)
(* written there, and no backspace was lost in the first column of a row;    *)
(* none is while the line fits into the row of its prompt (shell.rs: the     *)
(* echo of every arm of read_line; vga_buffer.rs: write_byte).               *)
ScreenShowsLine ==
    conAt \in {"poll", "pop", "got"} /\ ~mixed => (lost \/ shown = line) /\ (fits => ~lost)

(* The history holds what was run, the newest last, no blank line, nothing   *)
(* twice in a row and no more than its size, and the place in it exists      *)
(* (shell.rs: Enter, Up and Down).                                           *)
HistoryUsable ==
    /\ historyIdx \in 0 .. Len(history) /\ Len(history) <= HistorySize
    /\ \A i \in DOMAIN history : ~Blank(history[i]) /\ (i > 1 => history[i] # history[i - 1])

(* The keyboard interrupt, "STRICTLY LOCK-FREE", never waits for a lock of   *)
(* the thread it has interrupted (task/keyboard.rs: add_scancode).           *)
InterruptReturns == stuck # "irq"

(* Keys reach the shell once and in order although the interrupt fills the   *)
(* ring while it is read, the screen shows the line that is edited as long   *)
(* as it fits into its row and nobody else writes, and the history never     *)
(* holds an entry the arrows cannot reach (task/keyboard.rs, shell.rs).      *)
ConsoleSound == RingIsQueue /\ ScreenShowsLine /\ HistoryUsable
=============================================================================
