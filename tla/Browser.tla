------------------------------ MODULE Browser -------------------------------
(* The browser of kernel/src/browser_app.rs: its history, the address bar    *)
(* and the parser of pages.  Addresses are a small set with lengths; the     *)
(* text in the bar is its length.  A page is a sequence of tokens, and one   *)
(* step of the parser is one round of its loop.  Scrolling and drawing, with *)
(* the boxes of the links it leaves, are left out.                           *)
EXTENDS Naturals, Sequences, SequencesExt, FiniteSets, FiniteSetsExt

CONSTANTS
    Urls, HomeUrl,  \* addresses, and the first one loaded
    UrlLength,      \* the length of each
    MaxVisits,      \* bound on the history
    MaxBar,         \* bound on the text typed into the bar
    MaxTokens,      \* bound on the length of a page
    MaxHeld         \* MAX_HTML_TOKEN_LEN, in tokens: the most an element keeps

ASSUME BrowserAssumption == HomeUrl \in Urls /\ MaxTokens \in Nat /\ MaxHeld \in Nat

VARIABLES
    br,         \* history, history_idx, active_url; length of url_input, cursor_pos, url_bar_focused
    page,       \* the page being parsed
    cursor,     \* how many of its tokens have been read
    blocks      \* the blocks found so far, each with the tokens it holds

brVars == <<br, page, cursor, blocks>>
parserVars == <<page, cursor, blocks>>

----------------------------------------------------------------------------
LoadUrl(s, u) ==
    LET new == s.hist = <<>> \/ s.hist[s.at + 1] # u
        kept == IF s.hist = <<>> THEN <<>> ELSE SubSeq(s.hist, 1, s.at + 1)
    IN [hist |-> IF new THEN Append(kept, u) ELSE s.hist, at |-> IF new THEN Len(kept) ELSE s.at,
        url |-> u, bar |-> UrlLength[u], cur |-> UrlLength[u], focus |-> s.focus]

Turned(s, i) == [hist |-> s.hist, at |-> i, url |-> s.url, bar |-> s.bar, cur |-> s.cur, focus |-> s.focus]
(* Mutant: Back loads before it moves. *)
NavigateBackLate(s) == IF s.at > 0 THEN Turned(LoadUrl(s, s.hist[s.at]), s.at) ELSE s
NavigateBack(s) == IF s.at > 0 THEN LoadUrl(Turned(s, s.at - 1), s.hist[s.at]) ELSE s
NavigateForward(s) == IF s.at + 1 < Len(s.hist) THEN LoadUrl(Turned(s, s.at + 1), s.hist[s.at + 2]) ELSE s
Reload(s) == LoadUrl(s, s.url)

(* navigate_to_input: whatever the bar says leads to some address. *)
NavigateToInput(s) == IF s.bar = 0 THEN {s} ELSE {LoadUrl(s, u) : u \in Urls}

BrInit ==
    /\ br = LoadUrl([hist |-> <<>>, at |-> 0, url |-> HomeUrl, bar |-> 0, cur |-> 0, focus |-> FALSE], HomeUrl)

(* The address bar: the length of its text, its cursor, whether it has the   *)
(* focus.                                                                    *)
Bar(s, length, c, focused) == [hist |-> s.hist, at |-> s.at, url |-> s.url, bar |-> length, cur |-> c, focus |-> focused]
Unfocused(s) == Bar(s, s.bar, s.cur, FALSE)

Shows(s) == br' = s /\ Len(s.hist) <= MaxVisits /\ s.bar <= MaxBar /\ UNCHANGED parserVars

ToolbarClick ==
    \/ Shows(NavigateBack(br)) \/ Shows(NavigateForward(br)) \/ Shows(Reload(br)) \/ Shows(LoadUrl(br, HomeUrl))
    \/ Shows(Bar(br, 0, 0, TRUE))
    \/ \E c \in 0 .. br.bar : Shows(Bar(br, br.bar, c, TRUE))
    \/ \E s \in NavigateToInput(br) : Shows(Unfocused(s))

(* A click into the page, on a link or beside it. *)
PageClick ==
    \/ Shows(Unfocused(br))
    \/ \E u \in Urls : Shows(Unfocused(LoadUrl(br, u)))

(* Escape brings the address back and leaves the cursor where it was. *)
BarEscape == br.focus /\ Shows(Bar(br, UrlLength[br.url], br.cur, FALSE))

(* Typing and Backspace panic with the cursor behind the text: String's     *)
(* insert and remove demand a place in it.  They are not taken there.       *)
InText == br.cur <= br.bar

BarKey ==
    /\ br.focus
    /\ \/ \E s \in NavigateToInput(br) : Shows(Unfocused(s))
       \/ InText /\ Shows(Bar(br, br.bar + 1, br.cur + 1, TRUE))
       \/ InText /\ br.cur > 0 /\ Shows(Bar(br, br.bar - 1, br.cur - 1, TRUE))
       \/ br.cur < br.bar /\ Shows(Bar(br, br.bar - 1, br.cur, TRUE))
       \/ \E c \in {IF br.cur > 0 THEN br.cur - 1 ELSE 0, IF br.cur < br.bar THEN br.cur + 1 ELSE br.bar, 0, br.bar} :
            Shows(Bar(br, br.bar, c, TRUE))

(* Keys on the page; Enter takes the cursor as it is. *)
PageKey ==
    /\ ~br.focus
    /\ \/ Shows(Reload(br))
       \/ Shows(Bar(br, br.bar, br.bar, TRUE))
       \/ Shows(Bar(br, br.bar, br.cur, TRUE))
       \/ Shows(Bar(br, 1, 1, TRUE))

BrNext == ToolbarClick \/ PageClick \/ BarEscape \/ BarKey \/ PageKey

----------------------------------------------------------------------------
(* HtmlDocument::parse.  "text" is text without '<', "junk" a structural,    *)
(* closing or unknown tag, "rule" an <hr>, "lt" a '<' that no '>' of its own *)
(* follows, and each element has an opening and a closing tag.               *)
Nested == {"block", "title"}
Opening(e) == <<e, "open">>
Closing(e) == <<e, "close">>
Tokens == {<<"text">>, <<"junk">>, <<"rule">>, <<"lt">>} \cup {Opening(e) : e \in Nested} \cup {Closing(e) : e \in Nested}

IsTag(k) == page[k] \notin {<<"text">>, <<"lt">>}
Rest == cursor + 1 .. Len(page)

HtmlInit == page \in UNION {[1 .. n -> Tokens] : n \in 0 .. MaxTokens} /\ cursor = 0 /\ blocks = <<>>

Block(kind, held) == [kind |-> kind, held |-> held]
Emit(kind, from, upto, next) ==
    blocks' = Append(blocks, Block(kind, from .. upto)) /\ cursor' = next /\ UNCHANGED <<br, page>>
Lesser(a, b) == IF a <= b THEN a ELSE b
PassTo(next) == cursor' = next /\ UNCHANGED <<br, page, blocks>>

(* Loose text before the next '<', or at the end of the page; the text is   *)
(* taken together with the tag after it in the code, which changes nothing. *)
LooseText ==
    /\ cursor < Len(page) /\ page[cursor + 1] = <<"text">>
    /\ LET tags == {k \in Rest : page[k] # <<"text">>}
           end == IF tags = {} THEN Len(page) ELSE Min(tags) - 1
       IN Emit("text", cursor + 1, end, end)

(* A '<' reaches to the next '>', which may be that of another tag; without *)
(* one the rest of the page is dropped.                                     *)
StrayLess ==
    /\ cursor < Len(page) /\ page[cursor + 1] = <<"lt">>
    /\ LET ends == {k \in Rest : IsTag(k)} IN PassTo(IF ends = {} THEN Len(page) ELSE Min(ends))

(* An element runs to its closing tag, and what exceeds the limit is cut     *)
(* off; without a closing tag its tag alone is skipped.                      *)
Element ==
    /\ cursor < Len(page) /\ page[cursor + 1] = Opening("block")
    /\ LET ends == {k \in Rest : page[k] = Closing("block")} IN
       IF ends = {} THEN PassTo(cursor + 1)
       ELSE Emit("block", cursor + 2, Lesser(Min(ends) - 1, cursor + 1 + MaxHeld), Min(ends))

Title ==
    /\ cursor < Len(page) /\ page[cursor + 1] = Opening("title")
    /\ LET ends == {k \in Rest : page[k] = Closing("title")} IN PassTo(IF ends = {} THEN cursor + 1 ELSE Min(ends))

OtherTag ==
    /\ cursor < Len(page)
    /\ \/ page[cursor + 1] = <<"rule">> /\ Emit("rule", cursor + 1, cursor, cursor + 1)
       \/ page[cursor + 1] \in {<<"junk">>} \cup {Closing(e) : e \in Nested} /\ PassTo(cursor + 1)

HtmlNext == LooseText \/ StrayLess \/ Element \/ Title \/ OtherTag

BrowserSpec == BrInit /\ HtmlInit /\ [][BrNext \/ HtmlNext]_brVars

----------------------------------------------------------------------------
(* The page shown is the one history_idx points at.                          *)
VisitAgrees == br.at < Len(br.hist) /\ br.hist[br.at + 1] = br.url

(* Two entries next to each other are never the same page, although Back,    *)
(* Forward and Reload go through load_url, which adds to the history: a      *)
(* click on Back always leads to another page.                               *)
BackLeadsElsewhere == \A i \in 1 .. Len(br.hist) - 1 : br.hist[i] # br.hist[i + 1]

(* cursor_pos leaves the text of the address bar, where the next key would   *)
(* panic, only by Escape after typing more than the address is long.         *)
CursorLeavesByEscape == [][br'.cur > br'.bar => br.cur > br.bar \/ BarEscape]_brVars

(* Every piece of text between the tags comes out in at most one block, and  *)
(* all that was read so far in exactly one: but for the title, for what a    *)
(* stray '<' takes with it and for what lies too far behind the opening tag  *)
(* of its element.                                                           *)
InTitle(i) == \E a \in 1 .. i, b \in i .. Len(page) : page[a] = Opening("title") /\ page[b] = Closing("title")
Swallowed(i) == \E a \in 1 .. i : page[a] = <<"lt">>
CutOff(i) ==
    \E a \in 1 .. i, b \in i .. Len(page) :
        page[a] = Opening("block") /\ page[b] = Closing("block") /\ i > a + MaxHeld
TextComesOutOnce ==
    \A i \in 1 .. Len(page) : page[i] = <<"text">> =>
        LET n == Cardinality({k \in DOMAIN blocks : i \in blocks[k].held})
        IN n <= 1 /\ (i <= cursor => n = 1 \/ InTitle(i) \/ Swallowed(i) \/ CutOff(i))

(* The parser comes to the end of every page. *)
ParseEnds == []<>(cursor = Len(page))

(* The history points at the page shown and never twice in a row at the      *)
(* same, through Back, Forward and Reload; and the text of a page comes out  *)
(* once, tags open or not, but for the three kinds of text named above       *)
(* (browser_app.rs: load_url, HtmlDocument::parse).                          *)
BrowserSound == VisitAgrees /\ BackLeadsElsewhere /\ TextComesOutOnce
=============================================================================
