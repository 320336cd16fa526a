--------------------------- MODULE MCCirculation ---------------------------
(* Small instances of Circulation for TLC. *)
EXTENDS Circulation, TLC

CONSTANTS u1, u2, u3, b1, b2, c1, c2

\* Both copies are of one title.
OneTitle == c1 :> b1 @@ c2 :> b1

\* One copy of each of two titles.
TitleEach == c1 :> b1 @@ c2 :> b2

OneEach == [u \in Readers |-> 1]
TwoEach == [u \in Readers |-> 2]

\* The readers are interchangeable: every one may reserve, with equal limits.
ReaderSymmetry == Permutations(Readers)

\* So are the copies of one title.
ReaderCopySymmetry == Permutations(Readers) \cup Permutations(Copies)

=============================================================================
