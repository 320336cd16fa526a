---------------------------- MODULE CopyCustody ----------------------------
(***************************************************************************)
(* What circulation promises of each copy: it is off the shelves, on the   *)
(* shelf, kept for one reader or with one reader.  A copy leaves the hands *)
(* of a reader only by being given back, a kept copy goes to the reader it *)
(* is kept for, and only a reader who has had a copy can have her return   *)
(* of it undone.                                                           *)
(***************************************************************************)
CONSTANTS Readers, Copies, None

VARIABLES
    place,  \* where each copy is, and for whom
    past    \* the readers who have borrowed each copy

vars == <<place, past>>

Off == [at |-> "off", reader |-> None]
Shelf == [at |-> "shelf", reader |-> None]
Kept(u) == [at |-> "kept", reader |-> u]
Lent(u) == [at |-> "lent", reader |-> u]

Init ==
    /\ place \in [Copies -> {Off, Shelf}]
    /\ past = [c \in Copies |-> {}]

GiveOut(c, u) ==
    /\ place[c] \in {Shelf, Kept(u)}
    /\ place' = [place EXCEPT ![c] = Lent(u)]
    /\ past' = [past EXCEPT ![c] = @ \cup {u}]

\* A copy that comes back, or whose reader gives it up, or that an earlier
\* reader reclaims, is kept for someone or shelved.
PassOn(c, u) ==
    /\ place[c] # Off
    /\ place' = [place EXCEPT ![c] = Kept(u)]
    /\ UNCHANGED past

PutOnShelf(c) ==
    /\ place' = [place EXCEPT ![c] = Shelf]
    /\ UNCHANGED past

Reinstate(c, u) ==
    /\ place[c] \in {Shelf} \cup {Kept(v) : v \in Readers}
    /\ u \in past[c]
    /\ place' = [place EXCEPT ![c] = Lent(u)]
    /\ UNCHANGED past

TakeOff(c) ==
    /\ place[c] = Shelf
    /\ place' = [place EXCEPT ![c] = Off]
    /\ UNCHANGED past

Next ==
    \E c \in Copies :
        \/ PutOnShelf(c)
        \/ TakeOff(c)
        \/ \E u \in Readers : GiveOut(c, u) \/ PassOn(c, u) \/ Reinstate(c, u)

Spec == Init /\ [][Next]_vars

=============================================================================
