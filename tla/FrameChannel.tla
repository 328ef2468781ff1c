----------------------------- MODULE FrameChannel -----------------------------
(* What framing promises to a client: its frames reach the handlers whole, in *)
(* the order in which they were sent, each once, up to the first one with an   *)
(* illegal length; and the server ends the connection only for a cause.  A     *)
(* frame without a payload is legal, and there is nothing to hand over.        *)
EXTENDS Naturals, Sequences

CONSTANTS Conns   \* connections

Kinds == {"full", "empty", "illegal"}

VARIABLES sent,       \* the kinds of the frames each client has sent
          delivered,  \* the numbers of those that were handed to a worker
          excused,    \* connections the server has a cause to end
          ended       \* connections it has ended

vars == <<sent, delivered, excused, ended>>

Init ==
    /\ sent = [c \in Conns |-> <<>>]
    /\ delivered = [c \in Conns |-> <<>>]
    /\ excused = {} /\ ended = {}

Send(c, kind) ==
    /\ sent' = [sent EXCEPT ![c] = Append(@, kind)]
    /\ excused' = IF kind = "illegal" THEN excused \cup {c} ELSE excused
    /\ UNCHANGED <<delivered, ended>>

Seen(c) == {delivered[c][i] : i \in 1 .. Len(delivered[c])}

\* Frame k is the next one: the frames before it with a payload have been
\* handed over, it has not, and no length up to here was illegal.
Deliver(c, k) ==
    /\ sent[c][k] = "full" /\ k \notin Seen(c)
    /\ \A j \in 1 .. k - 1 : sent[c][j] = "empty" \/ j \in Seen(c)
    /\ delivered' = [delivered EXCEPT ![c] = Append(@, k)]
    /\ UNCHANGED <<sent, excused, ended>>

Excuse(c) ==
    /\ excused' = excused \cup {c}
    /\ UNCHANGED <<sent, delivered, ended>>

End(c) ==
    /\ c \in excused
    /\ ended' = ended \cup {c}
    /\ UNCHANGED <<sent, delivered, excused>>

Next == \E c \in Conns :
           \/ \E kind \in Kinds : Send(c, kind)
           \/ \E k \in 1 .. Len(sent[c]) : Deliver(c, k)
           \/ Excuse(c) \/ End(c)

Spec == Init /\ [][Next]_vars
=============================================================================
