------------------------------- MODULE Editor -------------------------------
(***************************************************************************)
(* The text editor of kernel/src/editor_app.rs: the document with its      *)
(* undo and redo stacks, the selection, find and replace, the store of     *)
(* files it shares with other editors, and the dialog that asks before     *)
(* unsaved text is closed.                                                 *)
(*                                                                         *)
(* A text is the sequence of the lengths of its lines; where a search ends *)
(* is left open.  Rows and columns count from 0, as in the code.  Saving,  *)
(* closing and every key act under the lock of the editor's table.         *)
(* Horizontal scrolling, word wrap and drawing are left out.               *)
(***************************************************************************)
EXTENDS Naturals, Sequences, SequencesExt, FiniteSetsExt

CONSTANTS
    MaxUndo,        \* MAX_UNDO_STEPS
    VisibleRows,    \* VISIBLE_ROWS
    BelowRows,      \* rows below them that still take clicks
    MaxLines,       \* bounds on the text that is typed
    MaxLength,
    MaxField        \* bound on the length of the search and replace fields

VARIABLES
    doc,        \* text, file_path, cursor, first row shown, is_dirty, undo and redo, selection
    clip,       \* the clipboard: the characters, "c", and the line ends, "nl"
    field,      \* active_input_field: "text", "find" or "replace"
    dialogs,    \* which of show_find_dialog, show_replace_dialog are on
    query,      \* the lengths of search_query and replace_query
    fileStore,  \* GLOBAL_FILE_STORE, shared by all editors
    began,      \* history: the text a document without a path began with
    ask,        \* show_unsaved_dialog
    open,       \* whether the window is there
    ways,       \* history: what happened since the text was last saved that the flag misses
    left        \* history: the user chose to discard

edVars == <<doc, clip, field, dialogs, query, fileStore, began, ask, open, ways, left>>
ui == <<clip, field, dialogs, query, fileStore, began, ask, open, ways, left>>

Nowhere == <<>>     \* no selection_anchor, or no selection_focus
Untitled == "untitled.txt"   \* where save_file puts every document without a path
Paths == {"notes.txt", Untitled}
NoPath == "none"
NoFile == <<>>

(* EditorSnapshot, and whether a save or a new document came after it. *)
Snapshot(d) == [text |-> d.text, row |-> d.row, col |-> d.col, dirty |-> d.dirty, old |-> FALSE]
Line(d) == d.text[d.row + 1]
AtMost(a, b) == IF a <= b THEN a ELSE b
Before(p, q) == p[1] < q[1] \/ (p[1] = q[1] /\ p[2] <= q[2])

----------------------------------------------------------------------------
(* The operations on the document.                                          *)

PushUndo(d) ==
    [d EXCEPT !.undo = Append(IF Len(@) >= MaxUndo THEN Tail(@) ELSE @, Snapshot(d)), !.redo = <<>>]

Unselect(d) == [d EXCEPT !.anchor = Nowhere, !.focus = Nowhere]

EnsureCursorVisible(d) ==
    [d EXCEPT !.top = IF d.row < @ THEN d.row ELSE IF d.row >= @ + VisibleRows THEN d.row - (VisibleRows - 1) ELSE @]

Restored(d, s) ==
    EnsureCursorVisible([d EXCEPT !.text = s.text, !.row = s.row, !.col = s.col, !.dirty = s.dirty])

UndoOf(d) ==
    IF d.undo = <<>> THEN d
    ELSE Restored([d EXCEPT !.undo = Front(@), !.redo = Append(@, Snapshot(d))], Last(d.undo))

RedoOf(d) ==
    IF d.redo = <<>> THEN d
    ELSE Restored([d EXCEPT !.redo = Front(@), !.undo = Append(@, Snapshot(d))], Last(d.redo))

(* Mutant: an edit leaves the flag to the caller. *)
EditedClean(d) == EnsureCursorVisible(Unselect(d))

(* What insert_char, insert_newline and the deletions do after their edit. *)
Edited(d) == EnsureCursorVisible(Unselect([d EXCEPT !.dirty = TRUE]))

InsertChar(d) ==
    Edited([PushUndo(d) EXCEPT !.text[d.row + 1] = @ + 1, !.col = AtMost(@, Line(d)) + 1])

InsertNewline(d) ==
    Edited([PushUndo(d) EXCEPT
        !.text = InsertAt([@ EXCEPT ![d.row + 1] = AtMost(d.col, @)], d.row + 2, IF d.col < Line(d) THEN Line(d) - d.col ELSE 0),
        !.row = @ + 1, !.col = 0])

(* The line below joins the one the cursor is on. *)
Joined(text, r) == RemoveAt([text EXCEPT ![r] = @ + text[r + 1]], r + 1)

(* With the cursor behind the end of its line nothing is deleted, but the   *)
(* text as it is goes on the undo stack.                                    *)
DeleteBackward(d) ==
    IF d.col > Line(d) THEN EnsureCursorVisible(Unselect(PushUndo(d)))
    ELSE IF d.col > 0 THEN Edited([PushUndo(d) EXCEPT !.text[d.row + 1] = @ - 1, !.col = @ - 1])
    ELSE IF d.row > 0
         THEN Edited([PushUndo(d) EXCEPT !.text = Joined(@, d.row), !.row = @ - 1, !.col = d.text[d.row]])
         ELSE EnsureCursorVisible(Unselect(d))

DeleteForward(d) ==
    IF d.col < Line(d) THEN Edited([PushUndo(d) EXCEPT !.text[d.row + 1] = @ - 1])
    ELSE IF d.row + 1 < Len(d.text) THEN Edited([PushUndo(d) EXCEPT !.text = Joined(@, d.row + 1)])
         ELSE EnsureCursorVisible(Unselect(d))

Go(d, r, c) == [d EXCEPT !.row = r, !.col = c]

Steps(d, key) ==
    CASE key = "left" /\ d.col > 0 -> Go(d, d.row, d.col - 1)
      [] key = "left" /\ d.col = 0 /\ d.row > 0 -> Go(d, d.row - 1, d.text[d.row])
      [] key = "right" /\ d.col < Line(d) -> Go(d, d.row, d.col + 1)
      [] key = "right" /\ d.col >= Line(d) /\ d.row + 1 < Len(d.text) -> Go(d, d.row + 1, 0)
      [] key = "up" /\ d.row > 0 -> Go(d, d.row - 1, AtMost(d.col, d.text[d.row]))
      [] key = "down" /\ d.row + 1 < Len(d.text) -> Go(d, d.row + 1, AtMost(d.col, d.text[d.row + 2]))
      [] key = "home" -> Go(d, d.row, 0)
      [] key = "end" -> Go(d, d.row, Line(d))
      [] OTHER -> d

(* A move with Shift starts or extends the selection, another one ends it. *)
MoveCursor(d, key, select) ==
    LET moved == Steps(d, key) IN
    EnsureCursorVisible([moved EXCEPT
        !.anchor = IF ~select THEN Nowhere ELSE IF @ = Nowhere THEN <<d.row, d.col>> ELSE @,
        !.focus = IF select THEN <<moved.row, moved.col>> ELSE Nowhere])

EndOf(d) == <<Len(d.text) - 1, Last(d.text)>>
DocumentStart(d) == EnsureCursorVisible(Unselect(Go(d, 0, 0)))
DocumentEnd(d) == EnsureCursorVisible(Unselect(Go(d, EndOf(d)[1], EndOf(d)[2])))
SelectAll(d) ==
    EnsureCursorVisible([Go(d, EndOf(d)[1], EndOf(d)[2]) EXCEPT !.anchor = <<0, 0>>, !.focus = EndOf(d)])

(* A selection that undo, redo or a click left behind may lie outside the   *)
(* text: it is cut off at the end of each line and of the text.             *)
Selected(d) == d.anchor # Nowhere /\ d.focus # Nowhere
SelStart(d) == IF Before(d.anchor, d.focus) THEN d.anchor ELSE d.focus
SelEnd(d) == IF Before(d.anchor, d.focus) THEN d.focus ELSE d.anchor
InLine(d, p) == AtMost(p[2], d.text[p[1] + 1])

Chars(n) == [i \in 1 .. n |-> "c"]
CopiedLine(d, s, e, r) ==
    LET from == IF r = s[1] THEN InLine(d, s) ELSE 0
        upto == IF r = e[1] THEN InLine(d, e) ELSE d.text[r + 1]
    IN Chars(IF from <= upto THEN upto - from ELSE 0) \o (IF r < e[1] THEN <<"nl">> ELSE <<>>)

Copied(d) ==
    IF Selected(d)
    THEN LET s == SelStart(d)
             e == SelEnd(d)
             n == AtMost(e[1], Len(d.text) - 1) - s[1] + 1
         IN FlattenSeq([i \in 1 .. (IF s[1] < Len(d.text) THEN n ELSE 0) |-> CopiedLine(d, s, e, s[1] + i - 1)])
    ELSE Chars(Line(d))

(* The lines of the selection become one; behind the last line nothing does. *)
CutText(d, s, e) ==
    IF e[1] >= Len(d.text) THEN d
    ELSE [d EXCEPT
        !.text = SubSeq(@, 1, s[1]) \o <<InLine(d, s) + d.text[e[1] + 1] - InLine(d, e)>> \o SubSeq(@, e[1] + 2, Len(@)),
        !.row = s[1],
        !.col = IF s[1] = e[1] THEN InLine(d, s) ELSE s[2]]

CutLine(d) ==
    IF Len(d.text) > 1
    THEN [d EXCEPT !.text = RemoveAt(@, d.row + 1), !.row = AtMost(@, Len(d.text) - 2), !.col = 0]
    ELSE [d EXCEPT !.text = <<0>>, !.col = 0]

(* Without a selection the anchor, which a click may have set, stays. *)
CutOf(d) ==
    IF Selected(d) THEN Edited(CutText(PushUndo(d), SelStart(d), SelEnd(d)))
    ELSE EnsureCursorVisible([CutLine(PushUndo(d)) EXCEPT !.dirty = TRUE])

Pasted(d, chars) ==
    FoldLeft(LAMBDA e, c : IF c = "nl" THEN InsertNewline(e) ELSE InsertChar(e), PushUndo(d), chars)

(* Where find_next and find_previous may find a match of n characters. *)
Matches(d, n) ==
    {<<r, c>> \in (0 .. Len(d.text) - 1) \X (0 .. Max(Range(d.text))) : c + n <= d.text[r + 1]}
FoundAt(d, m, n) ==
    EnsureCursorVisible([Go(d, m[1], m[2] + n) EXCEPT !.anchor = m, !.focus = <<m[1], m[2] + n>>])
Finds(d, n) == {d} \cup {FoundAt(d, m, n) : m \in IF n > 0 THEN Matches(d, n) ELSE {}}

(* replace_current replaces whatever is selected on one line: a match, or   *)
(* the selection that was there before.                                     *)
Replaceable(d) == Selected(d) /\ d.anchor[1] = d.focus[1] /\ d.anchor[1] < Len(d.text)
FitsLine(d) == InLine(d, d.anchor) = d.anchor[2] /\ InLine(d, d.focus) = d.focus[2]
Replaced(d, n) ==
    LET s == SelStart(d)
    IN Edited([Go(PushUndo(d), s[1], s[2] + n) EXCEPT !.text[s[1] + 1] = @ - (SelEnd(d)[2] - s[2]) + n])
ReplaceCurrent(d, q) ==
    IF q.find = 0 THEN {d}
    ELSE IF Replaceable(d) THEN Finds(IF FitsLine(d) THEN Replaced(d, q.replace) ELSE PushUndo(d), q.find)
    ELSE Finds(d, q.find)

(* replace_all: up to k matches in each line, the cursor stays where it is. *)
ReplacedAll(d, q, k) ==
    IF \A r \in DOMAIN k : k[r] = 0 THEN PushUndo(d)
    ELSE Edited([PushUndo(d) EXCEPT !.text = [r \in DOMAIN d.text |-> d.text[r] - k[r] * q.find + k[r] * q.replace]])
Counts(d, q) == {k \in [DOMAIN d.text -> 0 .. MaxLength] : \A r \in DOMAIN d.text : k[r] * q.find <= d.text[r]}

Aged(snapshots) == [i \in DOMAIN snapshots |-> [snapshots[i] EXCEPT !.old = TRUE]]
Clean(d) == [d EXCEPT !.dirty = FALSE, !.undo = Aged(@), !.redo = Aged(@)]

NewDocument(d) ==
    Clean(Unselect([PushUndo(d) EXCEPT !.path = NoPath, !.text = <<0>>, !.row = 0, !.col = 0, !.top = 0]))

----------------------------------------------------------------------------
Opened(text, path) ==
    [text |-> text, path |-> path, row |-> 0, col |-> 0, top |-> 0, dirty |-> FALSE,
     undo |-> <<>>, redo |-> <<>>, anchor |-> Nowhere, focus |-> Nowhere]

(* EditorAppState::new and open_file: a file that is not in the store yet   *)
(* gets a text there; without one the editor begins with a welcome.         *)
EdInit ==
    /\ \/ \E text \in {<<1>>, <<1, 0>>} :
            /\ fileStore = [p \in Paths |-> IF p = "notes.txt" THEN text ELSE NoFile]
            /\ doc = Opened(text, "notes.txt") /\ began = <<0>>
       \/ /\ fileStore = [p \in Paths |-> NoFile]
          /\ doc = Opened(<<1>>, NoPath) /\ began = <<1>>
    /\ clip = <<>> /\ field = "text" /\ dialogs = {} /\ query = [find |-> 0, replace |-> 0]
    /\ ask = FALSE /\ open = TRUE /\ ways = {} /\ left = FALSE

InCanvas == open /\ ~ask /\ field = "text"
Fits(d) == Len(d.text) <= MaxLines /\ \A r \in DOMAIN d.text : d.text[r] <= MaxLength

Type ==
    /\ InCanvas
    /\ doc' \in {InsertChar(doc), InsertNewline(doc), DeleteBackward(doc), DeleteForward(doc)}
    /\ Fits(doc') /\ UNCHANGED ui

MoveKey ==
    /\ InCanvas
    /\ \/ \E key \in {"left", "right", "up", "down", "home", "end"}, select \in BOOLEAN : doc' = MoveCursor(doc, key, select)
       \/ doc' \in {DocumentStart(doc), DocumentEnd(doc), SelectAll(doc)}
    /\ UNCHANGED ui

(* A click into the text, or below the last row that is drawn. *)
ClickText ==
    /\ open /\ ~ask /\ field' = "text"
    /\ \E r \in doc.top .. AtMost(doc.top + VisibleRows + BelowRows, Len(doc.text)) - 1, c \in 0 .. MaxLength :
         doc' = [Go(doc, r, AtMost(c, doc.text[r + 1])) EXCEPT
                    !.anchor = <<r, AtMost(c, doc.text[r + 1])>>, !.focus = Nowhere]
    /\ UNCHANGED <<clip, dialogs, query, fileStore, began, ask, open, ways, left>>

(* An undone or redone step brings its flag along, also one from before a   *)
(* save.                                                                    *)
Travel ==
    /\ InCanvas
    /\ \/ doc' = UndoOf(doc) /\ ways' = ways \cup (IF doc.undo # <<>> /\ Last(doc.undo).old THEN {"undo"} ELSE {})
       \/ doc' = RedoOf(doc) /\ ways' = ways \cup (IF doc.redo # <<>> /\ Last(doc.redo).old THEN {"undo"} ELSE {})
    /\ UNCHANGED <<clip, field, dialogs, query, fileStore, began, ask, open, left>>

Copy == InCanvas /\ clip' = Copied(doc) /\ UNCHANGED <<doc, field, dialogs, query, fileStore, began, ask, open, ways, left>>
Cut == InCanvas /\ clip' = Copied(doc) /\ doc' = CutOf(doc) /\ UNCHANGED <<field, dialogs, query, fileStore, began, ask, open, ways, left>>
Paste == InCanvas /\ doc' = Pasted(doc, clip) /\ Fits(doc') /\ UNCHANGED ui

(* Typing into the search fields, and the buttons and keys that search. *)
ShowFind ==
    /\ open /\ ~ask
    /\ \/ field = "text" /\ dialogs' \in {{"find"}, {"find", "replace"}} /\ field' = "find"
       \/ "find" \notin dialogs /\ dialogs' = dialogs \cup {"find"} /\ field' = "find"
       \/ dialogs' = {} /\ field' = "text"
       \/ "find" \in dialogs /\ field' = "find" /\ UNCHANGED dialogs
       \/ field # "text" /\ "replace" \in dialogs /\ field' \in {"find", "replace"} /\ UNCHANGED dialogs
    /\ UNCHANGED <<doc, clip, query, fileStore, began, ask, open, ways, left>>

TypeInField ==
    /\ open /\ ~ask /\ field # "text"
    /\ \E n \in {query[field] + 1, query[field] - 1} \cap 0 .. MaxField : query' = [query EXCEPT ![field] = n]
    /\ UNCHANGED <<doc, clip, field, dialogs, fileStore, began, ask, open, ways, left>>

Find ==
    /\ open /\ ~ask /\ dialogs # {}
    /\ doc' \in Finds(doc, query.find) /\ UNCHANGED ui

Replace ==
    /\ open /\ ~ask /\ "replace" \in dialogs
    /\ \/ field = "replace" /\ doc' \in ReplaceCurrent(doc, query)
       \/ query.find > 0 /\ \E k \in Counts(doc, query) : doc' = ReplacedAll(doc, query, k)
    /\ Fits(doc') /\ UNCHANGED ui

(* save_file *)
PathOf(d) == IF d.path = NoPath THEN Untitled ELSE d.path
SaveFile ==
    /\ fileStore' = [fileStore EXCEPT ![PathOf(doc)] = doc.text]
    /\ doc' = Clean([doc EXCEPT !.path = PathOf(doc)])
    /\ ways' = {} /\ left' = FALSE

Save ==
    /\ open /\ ~ask
    /\ SaveFile
    /\ UNCHANGED <<clip, field, dialogs, query, began, ask, open>>

(* Nobody is asked: unsaved text is left on the undo stack, which goes with *)
(* the window.                                                              *)
New ==
    /\ open /\ ~ask
    /\ doc' = NewDocument(doc) /\ began' = <<0>> /\ ways' = {}
    /\ UNCHANGED <<clip, field, dialogs, query, fileStore, ask, open, left>>

(* Another editor saves a file, this one's too: every document without a    *)
(* path is saved to the same one.                                           *)
OtherSaves ==
    /\ open
    /\ \E p \in Paths :
        /\ fileStore' = [fileStore EXCEPT ![p] = <<2>>]
        /\ ways' = ways \cup (IF p = doc.path THEN {"other"} ELSE {})
    /\ UNCHANGED <<doc, clip, field, dialogs, query, began, ask, open, left>>

(* request_close_window: unsaved text is asked about. *)
RequestClose ==
    /\ open /\ ask' = doc.dirty /\ open' = doc.dirty
    /\ UNCHANGED <<doc, clip, field, dialogs, query, fileStore, began, ways, left>>

(* Save and close. *)
AnswerSave ==
    /\ open /\ ask /\ ask' = FALSE /\ open' = FALSE
    /\ SaveFile
    /\ UNCHANGED <<clip, field, dialogs, query, began>>

(* Discard, or cancel. *)
AnswerElse ==
    /\ open /\ ask /\ ask' = FALSE
    /\ open' \in BOOLEAN /\ left' = (left \/ ~open')
    /\ UNCHANGED <<doc, clip, field, dialogs, query, fileStore, began, ways>>

EdNext ==
    \/ Type \/ MoveKey \/ ClickText \/ Travel \/ Copy \/ Cut \/ Paste
    \/ ShowFind \/ TypeInField \/ Find \/ Replace
    \/ Save \/ New \/ OtherSaves \/ RequestClose \/ AnswerSave \/ AnswerElse

----------------------------------------------------------------------------
(* The cursor is on a line of the text, and the snapshots kept never exceed  *)
(* MAX_UNDO_STEPS in all, although redo pushes without looking at the limit. *)
EdTypeOK ==
    /\ Len(doc.text) > 0 /\ doc.row \in 0 .. Len(doc.text) - 1 /\ doc.col \in Nat
    /\ Len(doc.undo) + Len(doc.redo) <= MaxUndo
    /\ field # "text" => field \in dialogs
    /\ clip \in Seq({"c", "nl"})

(* ensure_cursor_visible: an edit, a search, an undone step or a key that    *)
(* moves the cursor or changes the text leaves the cursor among the          *)
(* VISIBLE_ROWS rows scrolling counts with, also when a click had put it     *)
(* below them.  (Not all of them are drawn: the search toolbar takes the     *)
(* place of the last one, a lower window that of more.)                      *)
InRows(d) == d.row \in d.top .. d.top + VisibleRows - 1
CursorInRows == [][<<doc'.row, doc'.text>> = <<doc.row, doc.text>> \/ ClickText \/ InRows(doc')]_edVars

(* What a step changes of the text can be had back with undo or redo, and    *)
(* with it the flag that says it is not saved, also after New, except after  *)
(* pasting more than the stack holds.                                        *)
Snapshots == Range(doc.undo) \cup Range(doc.redo)
EditIsUndoable ==
    [][doc'.text # doc.text =>
        \/ \E s \in (Snapshots)' : s.text = doc.text /\ s.dirty = doc.dirty
        \/ Len(clip) >= MaxUndo]_edVars

(* is_dirty off, which lets the window close without a question, means that  *)
(* the store has the text, and is wrong only in two ways: a step from before *)
(* the last save was undone or redone, or another editor saved over it.      *)
OnDisk == IF doc.path = NoPath THEN began ELSE fileStore[doc.path]
HonestDirty == ~doc.dirty => doc.text = OnDisk \/ ways # {}

(* A window that closed left the text it showed in the store, or the user    *)
(* said to discard it, or the flag was wrong in one of the two ways.         *)
CloseLosesNothing == ~open => doc.text = OnDisk \/ left \/ ways # {}

(* The flag is wrong about the text shown, and the window closes on unsaved  *)
(* text unasked, only in the two ways named (editor_app.rs).                 *)
EditorSound == EdTypeOK /\ HonestDirty /\ CloseLosesNothing
=============================================================================
