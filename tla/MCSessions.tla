----------------------------- MODULE MCSessions -----------------------------
(* Small instances of CirculationSessions for TLC. *)
EXTENDS CirculationSessions, TLC

CONSTANTS u1, u2, b1, b2, c1, c2, p1, p2, p3

OneCopy == c1 :> b1

TitleEach == c1 :> b1 @@ c2 :> b2

OneEach == [u \in Readers |-> 1]
TwoEach == [u \in Readers |-> 2]

\* Requests are interchangeable, and so are the readers.
RequestSymmetry == Permutations(Requests) \cup Permutations(Readers)

=============================================================================
