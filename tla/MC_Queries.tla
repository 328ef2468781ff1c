----------------------------- MODULE MC_Queries -----------------------------
(* Two workers and two connections, so that a connection passes from one      *)
(* request to the next while another is being handled; two items, so that an  *)
(* order can be cut in the middle.  Two statements fail, enough for a START    *)
(* TRANSACTION and one more, and one malformed item takes a connection away.   *)
(* Two stores may be there from the start, one with a name that does not fit   *)
(* and a category that is not there; new ones have each of these, or neither.  *)
(* An order names rows that are all there, or no store and no first menu.      *)
EXTENDS Queries
CONSTANTS w1, w2, c1, c2
MCWorkers == {w1, w2}
MCConns   == {c1, c2}

Row_(name, category) == [wide |-> name = "long", known |-> category = "known", open |-> 1]
Normal  == Row_("short", "known")
Long    == Row_("long", "known")
Odd     == Row_("short", "unknown")
LongOdd == Row_("long", "unknown")

MCOldTables == {[store |-> s, menu |-> <<>>] : s \in {<<>>, <<Normal, LongOdd>>}}
MCNewRows   == {Normal, Long, Odd}
MCQueryOps  == Lists \cup {"register", "menu", "toggle"}
MCSizes     == {MaxItems}
MCUnmatched == {{}, {0, 1}}
=============================================================================
