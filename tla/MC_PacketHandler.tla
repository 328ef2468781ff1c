-------------------------- MODULE MC_PacketHandler --------------------------
(* Two fd numbers would only repeat each other: one number, two connections  *)
(* on it one after the other, and three calls of two senders let a sender of *)
(* the first connection meet one or two senders of the second.               *)
EXTENDS PacketHandler, TLC
CONSTANTS s1, s2, f1
MCSenders  == {s1, s2}
MCFds      == {f1}
MCSymmetry == Permutations(MCSenders)
=============================================================================
