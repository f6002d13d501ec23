-------------------------------- MODULE LogPane --------------------------------
(***************************************************************************)
(* The monitor's log pane (tui/app.rs: scroll, jump_match, reveal,         *)
(* clamp_pin and the actions that call them; tui/ui.rs: log_window).  The  *)
(* pane follows the newest line or is pinned to one, may show only the     *)
(* lines a query matches, and keeps the last MaxScrollback lines.          *)
(*                                                                         *)
(* A line is its number in its job's output; a query is the set of numbers *)
(* it matches.  The marker for lines the server dropped has number 0, like *)
(* the first line.                                                         *)
(*                                                                         *)
(* Bound: the pane keeps its height, LogRows, from its first drawing on.   *)
(***************************************************************************)
EXTENDS Integers, Sequences, SequencesExt, Ordering

CONSTANTS MaxLines, Queries, MaxScrollback, LogRows, Page, Wheel

ASSUME PaneAssumption ==
  /\ MaxLines \in Nat /\ MaxScrollback \in Nat \ {0} /\ LogRows \in Nat \ {0}
  /\ Page \in Nat /\ Wheel \in Nat
  /\ Queries \subseteq SUBSET (0..MaxLines)

VARIABLES
  lines,    \* what the pane holds: a sequence of [of, index, gap]
  tidy,     \* history: since the pane was reset its lines came in order
  pinned,   \* the newest line to show, or Nowhere to follow the tail
  cursor,   \* the match the user last jumped to, or Nowhere
  query,    \* [empty, hits]
  typing,   \* keys go to the query
  filter    \* show matching lines only

paneVars == <<lines, tidy, pinned, cursor, query, typing, filter>>
outputVars == <<lines, tidy>>
searchVars == <<query, typing, filter>>

Nowhere == -1
NoQuery == [empty |-> TRUE, hits |-> {}]
QuerySet == {NoQuery} \cup [empty : {FALSE}, hits : Queries]

PaneTypeOK ==
  /\ Len(lines) <= MaxScrollback
  /\ \A k \in DOMAIN lines : lines[k].index \in 0..MaxLines /\ (lines[k].gap => lines[k].index = 0)
  /\ tidy \in BOOLEAN
  /\ pinned \in Nowhere..MaxLines /\ cursor \in Nowhere..MaxLines
  /\ query \in QuerySet /\ typing \in BOOLEAN /\ filter \in BOOLEAN

PaneInit ==
  /\ lines = <<>> /\ tidy = TRUE /\ pinned = Nowhere /\ cursor = Nowhere
  /\ query = NoQuery /\ typing = FALSE /\ filter = FALSE

(* reset_log. *)
ResetLog ==
  /\ lines' = <<>> /\ tidy' = TRUE /\ pinned' = Nowhere /\ cursor' = Nowhere
  /\ UNCHANGED searchVars

----------------------------------------------------------------------------
(* What is on the screen. *)

Indices(ls) == [k \in DOMAIN ls |-> ls[k].index]

(* The lines that match, in the order they are held in. *)
Matching(ls, q) == Picked(ls, {k \in DOMAIN ls : ls[k].index \in q.hits})

(* visible_indices: the filter narrows the view when there is a query. *)
Visible(ls, q, f) == Indices(IF f /\ ~q.empty THEN Matching(ls, q) ELSE ls)
Shown == Visible(lines, query, filter)

Least(a, b) == IF a <= b THEN a ELSE b
Greatest(a, b) == IF a >= b THEN a ELSE b

(* The first row at or after a line; past the end if there is none. *)
RowOf(shown, line) ==
  LET at == {k \in DOMAIN shown : shown[k] >= line}
  IN  IF at = {} THEN Len(shown) + 1 ELSE CHOOSE k \in at : \A n \in at : k <= n

(* log_window: the last row that is drawn is the pinned one. *)
WindowEnd(shown, pin) ==
  IF pin = Nowhere THEN Len(shown) ELSE Least(RowOf(shown, pin), Len(shown))

(* render_log_pane. *)
Window(shown, pin) ==
  LET end == WindowEnd(shown, pin)
  IN  SubSeq(shown, Greatest(end - LogRows, 0) + 1, end)

(* Mutant: off by one. *)
FloorBelow(shown) == Least(LogRows + 1, Len(shown))
(* The earliest row to pin to: a screen away from the front. *)
Floor(shown) == Least(LogRows, Len(shown))

(* A pin on the newest row is none. *)
PinTo(shown, row) == IF shown[row] >= Last(shown) THEN Nowhere ELSE shown[row]

(* Mutant: the pane may be pinned to any row. *)
ClampedToHeld(shown, pin) ==
  IF pin = Nowhere \/ shown = <<>> \/ pin >= Last(shown) THEN Nowhere ELSE Greatest(pin, shown[1])
(* clamp_pin. *)
Clamped(shown, pin) ==
  IF pin = Nowhere \/ shown = <<>> \/ pin >= Last(shown) THEN Nowhere
  ELSE Greatest(pin, shown[Floor(shown)])

----------------------------------------------------------------------------
(* AppendLogLine. *)

Held(ls) == IF Len(ls) > MaxScrollback THEN SubSeq(ls, Len(ls) - MaxScrollback + 1, Len(ls)) ELSE ls

InOrder(ls) == \A k, n \in DOMAIN ls : k < n => ls[k].index < ls[n].index

AppendLogLine(line) ==
  /\ lines' = Held(Append(lines, line))
  /\ tidy' = (tidy /\ InOrder(Append(lines, line)))
  /\ pinned' = Clamped(Visible(lines', query, filter), pinned)
  /\ UNCHANGED <<cursor, searchVars>>

----------------------------------------------------------------------------
(* The user. *)

(* pin: on the newest line that is held, shown or not. *)
Pin == IF pinned # Nowhere \/ lines = <<>> THEN pinned ELSE Last(lines).index

Scroll(delta) ==
  /\ cursor' = Nowhere
  /\ pinned' =
       IF Shown = <<>> THEN pinned
       ELSE LET at == Least(RowOf(Shown, Pin), Len(Shown))
            IN  PinTo(Shown, Least(Greatest(at + delta, Floor(Shown)), Len(Shown)))
  /\ UNCHANGED <<outputVars, searchVars>>

(* ScrollBottom, and ToggleFollow when the pane is paused. *)
Follow ==
  /\ pinned' = Nowhere
  /\ UNCHANGED <<outputVars, cursor, searchVars>>
ToggleFollow ==
  /\ pinned' = IF pinned = Nowhere THEN Pin ELSE Nowhere
  /\ UNCHANGED <<outputVars, cursor, searchVars>>

(* reveal: some context below the match, and no blank rows above it. *)
Revealed(line) ==
  LET row == RowOf(Shown, line)
      at == IF row > Len(Shown) THEN 1 ELSE row
  IN  IF Shown = <<>> THEN pinned
      ELSE PinTo(Shown, Greatest(Least(at + LogRows \div 3, Len(Shown)), Floor(Shown)))

(* jump_match: the next match from where the user is, around the end. *)
JumpMatch(forward) ==
  LET hits == Indices(Matching(lines, query))
      from == IF cursor # Nowhere THEN cursor ELSE IF pinned # Nowhere THEN pinned ELSE Last(lines).index
      beyond == {k \in DOMAIN hits : IF forward THEN hits[k] > from ELSE hits[k] < from}
      among == IF beyond = {} THEN DOMAIN hits ELSE beyond
      at == CHOOSE k \in among : \A n \in among : IF forward THEN k <= n ELSE n <= k
  IN  /\ hits # <<>>
      /\ cursor' = hits[at] /\ pinned' = Revealed(hits[at])
      /\ UNCHANGED <<outputVars, searchVars>>

SearchStart ==
  /\ typing' = TRUE
  /\ UNCHANGED <<outputVars, pinned, cursor, query, filter>>

(* A letter makes the query another one, and pins the pane. *)
SearchInput ==
  /\ \E q \in QuerySet \ {NoQuery} : query' = q
  /\ cursor' = Nowhere /\ pinned' = Pin
  /\ UNCHANGED <<outputVars, typing, filter>>

SearchBackspace ==
  /\ \E q \in QuerySet : query' = q
  /\ cursor' = Nowhere
  /\ UNCHANGED <<outputVars, pinned, typing, filter>>

SearchAccept ==
  /\ typing' = FALSE
  /\ UNCHANGED <<outputVars, pinned, cursor, query, filter>>

SearchCancel ==
  /\ typing' = FALSE /\ query' = NoQuery /\ filter' = FALSE
  /\ cursor' = Nowhere
  /\ UNCHANGED <<outputVars, pinned>>

ToggleFilterMatches ==
  /\ filter' = ~filter
  /\ pinned' = Clamped(Visible(lines, query, filter'), pinned)
  /\ UNCHANGED <<outputVars, cursor, query, typing>>
=============================================================================
