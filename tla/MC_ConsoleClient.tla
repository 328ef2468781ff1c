-------------------------- MODULE MC_ConsoleClient --------------------------
(* One fd number that two clients use one after the other.  A header takes two *)
(* units, so that it can arrive in two pieces, and the payload limit is three:  *)
(* two short frames fit the receive buffer together, two maximal ones do not,   *)
(* and a raw client may announce one unit more than the limit, a negative       *)
(* number or nothing.                                                           *)
EXTENDS ConsoleClient
CONSTANTS f1
MCFds     == {f1}
MCLengths == {-1, 0, 1, 3, 4}
MCOps     == {"login", "register", "ask"}

Is(kind, lengths, frames) == [kind |-> kind, lengths |-> lengths, frames |-> frames]
MCCasts   == {<<Is("raw", {-1, 0, 1, 4}, 2), Is("raw", {1}, 1)>>,
              <<Is("raw", {3}, 2), Is("raw", {1}, 1)>>,
              <<Is("customer", {1}, 2), Is("owner", {1}, 1)>>,
              <<Is("admin", {3}, 2), Is("customer", {1}, 1)>>}
=============================================================================
