----------------------------- MODULE DeskProofs -----------------------------
(***************************************************************************)
(* What holds at the desk, where staff lend, take back, reserve and cancel *)
(* but undo and restore nothing: the queue is served in order, no copy     *)
(* stands idle, and nobody exceeds her policy.                             *)
(***************************************************************************)
EXTENDS CirculationProofs, FiniteSetTheorems

\* Reservations are numbered in the order in which they are entered.
KeysInOrder ==
    \A r, s \in ReservationIds :
        reservations[r].status # "none" /\ reservations[s].status = "none" => r < s

\* The row keeps its title and its reader and goes forward in its life; an
\* empty one stays empty.
Forward(old, new) ==
    /\ new.book = old.book
    /\ new.reader = old.reader
    /\ new.status = "none" <=> old.status = "none"
    /\ new.status = "none" => new.copy = old.copy
    /\ new.status = "active" => old.status = "active"
    /\ new.status = "ready" => old.status \in OpenStatus

\* A step that enters no reservation: a copy set aside is for the oldest
\* waiting reader, a copy put on the shelf leaves nobody waiting.
Settled ==
    /\ activeReaders' \subseteq activeReaders
    /\ \A r \in ReservationIds :
        /\ Forward(reservations[r], reservations'[r])
        /\ reservations'[r].status = "ready" =>
              \/ reservations[r].status = "ready"
              \/ \A s \in ActiveWaiting(reservations[r].book)' : r < s
    /\ \A c \in Copies :
          copyState'[c] = "available" =>
              copyState[c] = "available" \/ ActiveWaiting(BookOf[c])' = {}

\* create_reservation enters one row, for a title of which no copy is free.
Joined(u, b) ==
    \E r \in ReservationIds :
        /\ r = Oldest(UnusedReservations)
        /\ reservations[r].status = "none"
        /\ reservations' = [reservations EXCEPT ![r] =
               [book |-> b, reader |-> u, copy |-> None, status |-> "active"]]
        /\ MayReserve(u, b)
        /\ UNCHANGED <<copyState, loans, activeReaders>>

-----------------------------------------------------------------------------
(* The queue *)

\* Promotion serves the oldest waiting reader who is active, or nobody is.
LEMMA PromotionServesOldest ==
    ASSUME NEW res \in [ReservationIds -> Reservation],
           NEW c \in Copies \cup {None}, NEW readers
    PROVE  LET next == Promoted(res, c, readers)
               E == Eligible(res, BookOf[c], readers)
           IN  /\ \A r \in ReservationIds :
                     /\ Forward(res[r], next[r])
                     /\ next[r].status = "ready" =>
                           \/ res[r].status = "ready"
                           \/ /\ res[r].book = BookOf[c]
                              /\ \A s \in E : r <= s
               /\ PromotedState(res, c, readers) = "available" => E = {}
<1> DEFINE E == Eligible(res, BookOf[c], readers)
           next == Promoted(res, c, readers)
           Fine(r) == /\ Forward(res[r], next[r])
                      /\ next[r].status = "ready" =>
                            \/ res[r].status = "ready"
                            \/ res[r].book = BookOf[c] /\ \A s \in E : r <= s
<1>1. E \subseteq Nat
  BY CirculationAssumption DEF Eligible, Queue
<1>2. PromotedState(res, c, readers) = "available" => E = {}
  BY DEF PromotedState
<1>3. ASSUME NEW r \in ReservationIds PROVE Fine(r)
  <2> DEFINE served == IF E = {} THEN {} ELSE {Oldest(E)}
  <2>1. next[r] = IF r \in served
                  THEN Mark(res[r], c, "ready")
                  ELSE IF r \in PassedOver(res, BookOf[c], readers)
                  THEN [res[r] EXCEPT !.status = "expired"]
                  ELSE res[r]
    BY DEF Promoted
  <2>2. CASE r \in served
    <3>1. r \in E /\ \A s \in E : r <= s
      BY <2>2, <1>1, OldestInSet
    <3>2. res[r].status = "active" /\ res[r].book = BookOf[c]
      BY <3>1 DEF Eligible, Queue
    <3>3. /\ next[r].status = "ready" /\ next[r].book = res[r].book
          /\ next[r].reader = res[r].reader
      BY <2>1, <2>2 DEF Mark
    <3> QED
      BY <3>1, <3>2, <3>3 DEF Forward, OpenStatus
  <2>3. CASE r \notin served /\ r \in PassedOver(res, BookOf[c], readers)
    <3>1. res[r].status = "active"
      BY <2>3 DEF PassedOver, Queue
    <3>2. next[r] = [res[r] EXCEPT !.status = "expired"]
      BY <2>1, <2>3
    <3>3. /\ next[r].status = "expired" /\ next[r].book = res[r].book
          /\ next[r].reader = res[r].reader
      BY <3>2, StatusType DEF ReservationStatus
    <3> QED
      BY <3>1, <3>3 DEF Forward
  <2>4. CASE r \notin served /\ r \notin PassedOver(res, BookOf[c], readers)
    <3>1. next[r] = res[r]
      BY <2>1, <2>4
    <3> QED
      BY <3>1 DEF Forward, OpenStatus
  <2> QED
    BY <2>2, <2>3, <2>4
<1> QED
  BY <1>2, <1>3

\* A copy that is returned or given up goes to the oldest waiting reader, or
\* to the shelf when none of them is active.
LEMMA PromotionSettles ==
    ASSUME TypeOK, NEW res \in [ReservationIds -> Reservation],
           \A r \in ReservationIds :
               /\ Forward(reservations[r], res[r])
               /\ res[r].status = "ready" => reservations[r].status = "ready",
           NEW c \in Copies \cup {None}, NEW seen, seen.readers = activeReaders,
           PromoteCopy(res, c, seen), UNCHANGED activeReaders
    PROVE  Settled
<1> DEFINE E == Eligible(res, BookOf[c], activeReaders)
           W(b) == {s \in ReservationIds : /\ reservations'[s].status = "active"
                                           /\ reservations'[s].book = b
                                           /\ reservations'[s].reader \in activeReaders}
<1>1. reservations' = Promoted(res, c, activeReaders)
  BY DEF PromoteCopy
<1>2. \A r \in ReservationIds :
        /\ Forward(res[r], reservations'[r])
        /\ reservations'[r].status = "ready" =>
              \/ res[r].status = "ready"
              \/ res[r].book = BookOf[c] /\ \A s \in E : r <= s
  BY <1>1, PromotionServesOldest
<1>3. PromotedState(res, c, activeReaders) = "available" => E = {}
  BY PromotionServesOldest
<1>4. \A b : ActiveWaiting(b)' = W(b)
  BY DEF ActiveWaiting
<1>5. W(BookOf[c]) \subseteq E
  BY <1>2 DEF Forward, Eligible, Queue
<1> HIDE DEF E
<1>6. ASSUME NEW r \in ReservationIds
      PROVE  /\ Forward(reservations[r], reservations'[r])
             /\ reservations'[r].status = "ready" =>
                   \/ reservations[r].status = "ready"
                   \/ \A s \in ActiveWaiting(reservations[r].book)' : r < s
  <2>1. Forward(reservations[r], reservations'[r])
    BY <1>2 DEF Forward, OpenStatus
  <2>2. ASSUME reservations'[r].status = "ready", reservations[r].status # "ready",
               NEW s \in ActiveWaiting(reservations[r].book)'
        PROVE  r < s
    <3>1. res[r].book = BookOf[c] /\ \A t \in E : r <= t
      BY <1>2, <2>2
    <3>2. reservations'[r].book = BookOf[c]
      BY <1>2, <3>1 DEF Forward
    <3>3. s \in W(BookOf[c])
      BY <2>2, <3>2 DEF ActiveWaiting
    <3>4. r <= s /\ s \in ReservationIds /\ s # r
      BY <1>5, <2>2, <3>1, <3>3
    <3>5. r \in Nat /\ s \in Nat
      BY <3>4, CirculationAssumption
    <3> QED
      BY <3>4, <3>5
  <2> QED
    BY <2>1, <2>2
<1>7. ASSUME NEW d \in Copies, copyState'[d] = "available", copyState[d] # "available"
      PROVE  ActiveWaiting(BookOf[d])' = {}
  <2>1. /\ d = c
        /\ PromotedState(res, c, activeReaders) = "available"
    BY <1>7 DEF PromoteCopy, WriteState, TypeOK
  <2> QED
    BY <1>3, <1>4, <1>5, <2>1
<1> QED
  BY <1>6, <1>7 DEF Settled

\* Every request at the desk but a new reservation settles what it touches.
LEMMA DeskSettles ==
    ASSUME TypeOK, [DeskNext]_vars
    PROVE  \/ Settled
           \/ \E u \in Readers, b \in Books : Joined(u, b)
<1> USE CirculationAssumption
<1>rows. /\ \A r \in ReservationIds : reservations[r] \in Reservation
         /\ \A l \in LoanIds : loans[l].copy \in Copies \cup {None}
         /\ \A r \in ReservationIds : reservations[r].copy \in Copies \cup {None}
  BY DEF TypeOK, Loan, Reservation
<1>still. \A r \in ReservationIds : Forward(reservations[r], reservations[r])
  BY DEF Forward, OpenStatus
<1>calm. ASSUME UNCHANGED reservations, activeReaders' \subseteq activeReaders,
                \A c \in Copies :
                    copyState'[c] = "available" => copyState[c] = "available"
         PROVE  Settled
  BY <1>calm, <1>still DEF Settled
<1>closed. ASSUME NEW r \in ReservationIds, NEW status \in ReservationStatus \ OpenStatus,
                  reservations[r].status # "none"
           PROVE  LET res == [reservations EXCEPT ![r].status = status]
                  IN  /\ res \in [ReservationIds -> Reservation]
                      /\ \A s \in ReservationIds :
                           /\ Forward(reservations[s], res[s])
                           /\ res[s].status = "ready" => reservations[s].status = "ready"
  <2> DEFINE res == [reservations EXCEPT ![r].status = status]
  <2>1. /\ res[r].status = status
        /\ res[r].book = reservations[r].book
        /\ res[r].reader = reservations[r].reader
        /\ \A s \in ReservationIds \ {r} : res[s] = reservations[s]
        /\ res \in [ReservationIds -> Reservation]
    BY <1>rows, StatusType DEF TypeOK
  <2> HIDE DEF res
  <2>2. \A s \in ReservationIds :
           /\ Forward(reservations[s], res[s])
           /\ res[s].status = "ready" => reservations[s].status = "ready"
    BY <1>closed, <1>still, <2>1 DEF Forward, OpenStatus, ReservationStatus
  <2> QED
    BY <2>1, <2>2 DEF res
<1>1. ASSUME NEW c \in Copies, NEW u \in Readers, Lend(c, u) PROVE Settled
  <2>1. /\ copyState' = [copyState EXCEPT ![c] = "borrowed"]
        /\ UNCHANGED reservations /\ UNCHANGED activeReaders
    BY <1>1 DEF Lend, LendWith, AddLoan, people
  <2> QED
    BY <2>1, <1>calm DEF TypeOK
<1>2. ASSUME NEW r \in ReservationIds, Pickup(r) PROVE Settled
  <2>1. /\ copyState' = [copyState EXCEPT ![reservations[r].copy] = "borrowed"]
        /\ UNCHANGED activeReaders
        /\ reservations' = [reservations EXCEPT ![r].status = "fulfilled"]
        /\ reservations[r].status = "ready"
    BY <1>2 DEF Pickup, PickupWith, AddLoan, people, CanPickUp
  <2>2. \A c \in Copies : copyState'[c] = "available" => copyState[c] = "available"
    BY <2>1 DEF TypeOK
  <2>3. \A s \in ReservationIds :
          /\ Forward(reservations[s], reservations'[s])
          /\ reservations'[s].status = "ready" => reservations[s].status = "ready"
    BY <2>1, <1>closed DEF ReservationStatus, OpenStatus
  <2> QED
    BY <2>1, <2>2, <2>3 DEF Settled
<1>3. ASSUME NEW l \in LoanIds, ReturnLoan(l) PROVE Settled
  <2>1. /\ PromoteCopy(reservations, loans[l].copy, SeenLoan(l))
        /\ UNCHANGED activeReaders
    BY <1>3 DEF ReturnLoan, ReturnWith, people
  <2>2. SeenLoan(l).readers = activeReaders
    BY DEF SeenLoan
  <2>3. reservations \in [ReservationIds -> Reservation]
    BY DEF TypeOK
  <2> QED
    BY <2>1, <2>2, <2>3, <1>rows, <1>still, PromotionSettles
<1>4. ASSUME NEW u \in Readers, NEW b \in Books, CreateReservation(u, b)
      PROVE  Joined(u, b)
  <2>1. PICK r \in ReservationIds : /\ r = Oldest(UnusedReservations)
                                    /\ r \in UnusedReservations
    BY <1>4, OldestInSet DEF CreateReservation, ReserveWith, UnusedReservations
  <2> QED
    BY <1>4, <2>1 DEF CreateReservation, ReserveWith, UnusedReservations, Joined, people
<1>5. ASSUME NEW r \in ReservationIds, CancelReservation(r) PROVE Settled
  <2> DEFINE cancelled == [reservations EXCEPT ![r].status = "cancelled"]
             seen == SeenReservation(r)
  <2>1. /\ reservations[r].status \in OpenStatus
        /\ UNCHANGED activeReaders
        /\ \/ PromoteCopy(cancelled, reservations[r].copy, seen)
           \/ reservations' = cancelled /\ UNCHANGED copyState
    BY <1>5 DEF CancelReservation, CancelWith, SeenReservation, people
  <2>2. /\ cancelled \in [ReservationIds -> Reservation]
        /\ \A s \in ReservationIds :
              /\ Forward(reservations[s], cancelled[s])
              /\ cancelled[s].status = "ready" => reservations[s].status = "ready"
    BY <2>1, <1>closed DEF ReservationStatus, OpenStatus
  <2>3. seen.readers = activeReaders
    BY DEF SeenReservation
  <2> HIDE DEF cancelled, seen
  <2>4. CASE PromoteCopy(cancelled, reservations[r].copy, seen)
    BY <2>1, <2>2, <2>3, <2>4, <1>rows, PromotionSettles
  <2>5. CASE reservations' = cancelled /\ UNCHANGED copyState
    BY <2>1, <2>2, <2>5 DEF Settled
  <2> QED
    BY <2>1, <2>4, <2>5
<1>6. ASSUME NEW c \in Copies, DeleteCopy(c) PROVE Settled
  BY <1>6, <1>calm DEF DeleteCopy, people, TypeOK
<1>7. ASSUME NEW u \in Readers, DeactivateReader(u) PROVE Settled
  BY <1>7, <1>calm DEF DeactivateReader
<1>8. ASSUME NEW b \in Books, DeactivateBook(b) PROVE Settled
  BY <1>8, <1>calm DEF DeactivateBook
<1>9. CASE UNCHANGED vars
  BY <1>9, <1>calm DEF vars
<1> QED
  BY <1>1, <1>2, <1>3, <1>4, <1>5, <1>6, <1>7, <1>8, <1>9 DEF DeskNext

-----------------------------------------------------------------------------
(* The invariant of the queue *)

QueueInv ==
    /\ TypeOK
    /\ KeysInOrder
    /\ NoIdleCopyWhileWaiting
    /\ FirstComeFirstServed

\* A settled step brings nobody into a queue.
LEMMA NobodyJoins ==
    ASSUME Settled, NEW b
    PROVE  ActiveWaiting(b)' \subseteq ActiveWaiting(b)
  BY DEF Settled, Forward, ActiveWaiting

\* It keeps the queue's invariant.
LEMMA SettledKeepsQueue ==
    ASSUME QueueInv, Settled
    PROVE  KeysInOrder' /\ NoIdleCopyWhileWaiting' /\ FirstComeFirstServed'
<1>1. KeysInOrder'
  BY DEF QueueInv, KeysInOrder, Settled, Forward
<1>2. ASSUME NEW b \in Books, NEW c \in Copies, BookOf[c] = b,
             copyState'[c] = "available"
      PROVE  ActiveWaiting(b)' = {}
  BY <1>2, NobodyJoins DEF QueueInv, NoIdleCopyWhileWaiting, Settled
<1>3. ASSUME NEW r \in ReservationIds, NEW s \in ReservationIds,
             reservations'[r].status = "ready",
             s \in ActiveWaiting(reservations[r].book)'
      PROVE  r < s
  <2>1. reservations'[r].book = reservations[r].book
    BY DEF Settled, Forward
  <2>2. CASE reservations[r].status = "ready"
    <3>1. s \in ActiveWaiting(reservations[r].book)
      BY <1>3, <2>1 DEF ActiveWaiting, Settled, Forward
    <3> QED
      BY <2>2, <3>1 DEF QueueInv, FirstComeFirstServed
  <2>3. CASE reservations[r].status # "ready"
    BY <1>3, <2>3 DEF Settled
  <2> QED
    BY <2>2, <2>3
<1>4. NoIdleCopyWhileWaiting'
  BY <1>2 DEF NoIdleCopyWhileWaiting
<1>5. FirstComeFirstServed'
  BY <1>3 DEF FirstComeFirstServed
<1> QED
  BY <1>1, <1>4, <1>5

\* So does a new reservation: it is the last in the order, and no copy of its
\* title is free.
LEMMA JoiningKeepsQueue ==
    ASSUME QueueInv, NEW u \in Readers, NEW b \in Books, Joined(u, b)
    PROVE  KeysInOrder' /\ NoIdleCopyWhileWaiting' /\ FirstComeFirstServed'
<1>1. PICK r \in ReservationIds :
        /\ r = Oldest(UnusedReservations)
        /\ reservations[r].status = "none"
        /\ reservations' = [reservations EXCEPT ![r] =
               [book |-> b, reader |-> u, copy |-> None, status |-> "active"]]
        /\ MayReserve(u, b)
        /\ UNCHANGED <<copyState, loans, activeReaders>>
  BY DEF Joined
<1>2. /\ reservations'[r].status = "active" /\ reservations'[r].book = b
      /\ \A s \in ReservationIds \ {r} : reservations'[s] = reservations[s]
  BY <1>1 DEF QueueInv, TypeOK
<1>3. r \in Nat /\ UnusedReservations \subseteq Nat /\ r \in UnusedReservations
  BY <1>1, CirculationAssumption DEF UnusedReservations
<1>4. \A s \in UnusedReservations : r <= s
  BY <1>1, <1>3, OldestInSet
<1>5. KeysInOrder'
  <2> SUFFICES ASSUME NEW q \in ReservationIds, NEW s \in ReservationIds,
                      reservations'[q].status # "none",
                      reservations'[s].status = "none"
               PROVE  q < s
    BY DEF KeysInOrder
  <2>1. s # r /\ reservations[s].status = "none" /\ s \in UnusedReservations
    BY <1>2 DEF UnusedReservations
  <2>2. CASE q = r
    BY <1>3, <1>4, <2>1, <2>2
  <2>3. CASE q # r
    BY <1>2, <2>1, <2>3 DEF QueueInv, KeysInOrder
  <2> QED
    BY <2>2, <2>3
<1>6. \A d : ActiveWaiting(d)' \subseteq ActiveWaiting(d) \cup (IF d = b THEN {r} ELSE {})
  BY <1>1, <1>2 DEF ActiveWaiting
<1>7. NoIdleCopyWhileWaiting'
  <2> SUFFICES ASSUME NEW c \in Copies, copyState'[c] = "available",
                      BookOf[c] \in Books
               PROVE  ActiveWaiting(BookOf[c])' = {}
    BY DEF NoIdleCopyWhileWaiting
  <2>1. copyState[c] = "available" /\ BookOf[c] # b
    BY <1>1 DEF MayReserve
  <2>2. ActiveWaiting(BookOf[c]) = {}
    BY <2>1 DEF QueueInv, NoIdleCopyWhileWaiting
  <2> QED
    BY <1>6, <2>1, <2>2
<1>8. FirstComeFirstServed'
  <2> SUFFICES ASSUME NEW q \in ReservationIds, NEW s \in ReservationIds,
                      reservations'[q].status = "ready",
                      s \in ActiveWaiting(reservations[q].book)'
               PROVE  q < s
    BY DEF FirstComeFirstServed
  <2>1. q # r /\ reservations[q].status = "ready"
    BY <1>2
  <2>2. CASE s = r
    <3>1. reservations[q].status # "none" /\ reservations[r].status = "none"
      BY <1>1, <2>1
    <3> QED
      BY <2>2, <3>1 DEF QueueInv, KeysInOrder
  <2>3. CASE s # r
    <3>1. s \in ActiveWaiting(reservations[q].book)
      BY <1>1, <1>2, <2>1, <2>3 DEF ActiveWaiting
    <3> QED
      BY <2>1, <3>1 DEF QueueInv, FirstComeFirstServed
  <2> QED
    BY <2>2, <2>3
<1> QED
  BY <1>5, <1>7, <1>8

\* The desk is part of what the routes accept.
LEMMA DeskIsNext == [DeskNext]_vars => [Next]_vars
  BY DEF Next

\* Every request at the desk keeps the queue's invariant.
LEMMA QueueStep == QueueInv /\ [DeskNext]_vars => QueueInv'
<1> SUFFICES ASSUME QueueInv, [DeskNext]_vars PROVE QueueInv'
  OBVIOUS
<1>1. TypeOK /\ TypeOK'
  BY DeskIsNext, TypeStep DEF QueueInv
<1>2. KeysInOrder' /\ NoIdleCopyWhileWaiting' /\ FirstComeFirstServed'
  BY <1>1, DeskSettles, SettledKeepsQueue, JoiningKeepsQueue
<1> QED
  BY <1>1, <1>2 DEF QueueInv

\* Nobody waits at first.
LEMMA QueueInit == Init => QueueInv
<1> SUFFICES ASSUME Init PROVE QueueInv
  OBVIOUS
<1>1. \A r \in ReservationIds : reservations[r].status = "none"
  BY DEF Init, NoReservation
<1> QED
  BY <1>1, TypeInit DEF QueueInv, KeysInOrder, NoIdleCopyWhileWaiting,
     FirstComeFirstServed, ActiveWaiting

\* At the desk the queue's invariant always holds.
THEOREM QueueInvariant == DeskSpec => []QueueInv
  BY QueueInit, QueueStep, PTL DEF DeskSpec

\* At the desk no copy stands on the shelf while an active reader waits for
\* its title: create_reservation and the promotion loop see to it together.
THEOREM NoIdleCopy == DeskSpec => []NoIdleCopyWhileWaiting
<1>1. QueueInv => NoIdleCopyWhileWaiting
  BY DEF QueueInv
<1> QED
  BY <1>1, QueueInvariant, PTL

\* At the desk a copy is set aside for the reader who asked first.
THEOREM FirstServed == DeskSpec => []FirstComeFirstServed
<1>1. QueueInv => FirstComeFirstServed
  BY DEF QueueInv
<1> QED
  BY <1>1, QueueInvariant, PTL

-----------------------------------------------------------------------------
(* The policy's limits *)

\* The sets the limits count are finite, whatever the tables could hold.
Limited(S, most) == IsFiniteSet(S) /\ Cardinality(S) <= most

LimitsInv ==
    /\ TypeOK
    /\ \A u \in Readers : /\ Limited(LoansOf(u), MaxActiveLoans[u])
                          /\ Limited(ReservationsOf(u), MaxActiveReservations[u])

\* What is taken away breaks no limit.
LEMMA Fewer ==
    ASSUME NEW S, NEW T, T \subseteq S, NEW most \in Nat, Limited(S, most)
    PROVE  Limited(T, most)
<1>1. IsFiniteSet(T) /\ Cardinality(T) <= Cardinality(S)
  BY FS_Subset DEF Limited
<1>2. Cardinality(T) \in Nat /\ Cardinality(S) \in Nat
  BY <1>1, FS_CardinalityType DEF Limited
<1> QED
  BY <1>1, <1>2 DEF Limited

\* One more breaks none that was not reached.
LEMMA OneMore ==
    ASSUME NEW S, NEW x, NEW T, T \subseteq S \cup {x}, NEW most \in Nat,
           Limited(S, most), Cardinality(S) < most
    PROVE  Limited(T, most)
<1>1. /\ IsFiniteSet(S \cup {x})
      /\ Cardinality(S \cup {x}) = Cardinality(S)
           \/ Cardinality(S \cup {x}) = Cardinality(S) + 1
  BY FS_AddElement DEF Limited
<1>2. Cardinality(S) \in Nat
  BY FS_CardinalityType DEF Limited
<1>3. Limited(S \cup {x}, most)
  BY <1>1, <1>2 DEF Limited
<1> QED
  BY <1>3, Fewer

\* A step at the desk opens at most one loan, for a reader under her limit.
LEMMA DeskOpensOneLoan ==
    ASSUME TypeOK, [DeskNext]_vars, NEW u \in Readers
    PROVE  \/ LoansOf(u)' \subseteq LoansOf(u)
           \/ /\ UnderLoanLimit(u)
              /\ \E l \in LoanIds : LoansOf(u)' \subseteq LoansOf(u) \cup {l}
<1> DEFINE Goal == \/ LoansOf(u)' \subseteq LoansOf(u)
                   \/ /\ UnderLoanLimit(u)
                      /\ \E l \in LoanIds : LoansOf(u)' \subseteq LoansOf(u) \cup {l}
<1>entered. ASSUME NEW c, NEW v, AddLoan(c, v), UnderLoanLimit(v) PROVE Goal
  <2>1. PICK l \in LoanIds :
          loans' = [loans EXCEPT ![l] = [copy |-> c, reader |-> v, status |-> "active"]]
    BY <1>entered, OldestInSet, CirculationAssumption DEF AddLoan, UnusedLoans
  <2>2. CASE u = v
    BY <1>entered, <2>1, <2>2 DEF LoansOf, TypeOK
  <2>3. CASE u # v
    BY <2>1, <2>3 DEF LoansOf, TypeOK
  <2> QED
    BY <2>2, <2>3
<1>1. ASSUME NEW c \in Copies, NEW v \in Readers, Lend(c, v) PROVE Goal
  BY <1>1, <1>entered DEF Lend, LendWith
<1>2. ASSUME NEW r \in ReservationIds, Pickup(r) PROVE Goal
  BY <1>2, <1>entered DEF Pickup, PickupWith
<1>3. ASSUME NEW l \in LoanIds, ReturnLoan(l) PROVE Goal
  <2>1. loans' = [loans EXCEPT ![l].status = "returned"]
    BY <1>3 DEF ReturnLoan, ReturnWith
  <2>2. /\ loans'[l].status = "returned"
        /\ \A m \in LoanIds \ {l} : loans'[m] = loans[m]
    BY <2>1 DEF TypeOK, Loan
  <2> QED
    BY <2>2 DEF LoansOf
<1>4. ASSUME UNCHANGED loans PROVE Goal
  BY <1>4 DEF LoansOf
<1> QED
  BY <1>1, <1>2, <1>3, <1>4
  DEF DeskNext, CreateReservation, ReserveWith, CancelReservation, CancelWith,
      DeleteCopy, DeactivateReader, DeactivateBook, vars

\* A step at the desk opens at most one reservation, for a reader under her
\* limit.
LEMMA DeskOpensOneReservation ==
    ASSUME TypeOK, [DeskNext]_vars, NEW u \in Readers
    PROVE  \/ ReservationsOf(u)' \subseteq ReservationsOf(u)
           \/ /\ Cardinality(ReservationsOf(u)) < MaxActiveReservations[u]
              /\ \E r \in ReservationIds :
                    ReservationsOf(u)' \subseteq ReservationsOf(u) \cup {r}
<1>1. CASE Settled
  <2>1. \A r \in ReservationIds :
          /\ reservations'[r].reader = reservations[r].reader
          /\ reservations'[r].status \in OpenStatus => reservations[r].status \in OpenStatus
    BY <1>1 DEF Settled, Forward, OpenStatus
  <2> QED
    BY <2>1 DEF ReservationsOf
<1>2. ASSUME NEW v \in Readers, NEW b \in Books, Joined(v, b)
      PROVE  \/ ReservationsOf(u)' \subseteq ReservationsOf(u)
             \/ /\ Cardinality(ReservationsOf(u)) < MaxActiveReservations[u]
                /\ \E r \in ReservationIds :
                      ReservationsOf(u)' \subseteq ReservationsOf(u) \cup {r}
  <2>1. PICK r \in ReservationIds :
          reservations' = [reservations EXCEPT ![r] =
               [book |-> b, reader |-> v, copy |-> None, status |-> "active"]]
    BY <1>2 DEF Joined
  <2>2. MayReserve(v, b)
    BY <1>2 DEF Joined
  <2>3. CASE u = v
    BY <2>1, <2>2, <2>3 DEF ReservationsOf, TypeOK, MayReserve
  <2>4. CASE u # v
    BY <2>1, <2>4 DEF ReservationsOf, TypeOK
  <2> QED
    BY <2>3, <2>4
<1> QED
  BY <1>1, <1>2, DeskSettles

\* Every request at the desk keeps readers within their policies.
LEMMA LimitsStep == LimitsInv /\ [DeskNext]_vars => LimitsInv'
<1> SUFFICES ASSUME LimitsInv, [DeskNext]_vars PROVE LimitsInv'
  OBVIOUS
<1>1. TypeOK /\ TypeOK'
  BY DeskIsNext, TypeStep DEF LimitsInv
<1>2. ASSUME NEW u \in Readers
      PROVE  /\ Limited(LoansOf(u)', MaxActiveLoans[u])
             /\ Limited(ReservationsOf(u)', MaxActiveReservations[u])
  <2>1. MaxActiveLoans[u] \in Nat /\ MaxActiveReservations[u] \in Nat
    BY CirculationAssumption
  <2>2. /\ Limited(LoansOf(u), MaxActiveLoans[u])
        /\ Limited(ReservationsOf(u), MaxActiveReservations[u])
    BY DEF LimitsInv
  <2>3. Limited(LoansOf(u)', MaxActiveLoans[u])
    BY <1>1, <2>1, <2>2, DeskOpensOneLoan, Fewer, OneMore DEF UnderLoanLimit
  <2>4. Limited(ReservationsOf(u)', MaxActiveReservations[u])
    BY <1>1, <2>1, <2>2, DeskOpensOneReservation, Fewer, OneMore
  <2> QED
    BY <2>3, <2>4
<1> QED
  BY <1>1, <1>2 DEF LimitsInv, Limited

\* Nobody has borrowed or reserved anything at first.
LEMMA LimitsInit == Init => LimitsInv
<1> SUFFICES ASSUME Init PROVE LimitsInv
  OBVIOUS
<1>1. \A u \in Readers : LoansOf(u) = {} /\ ReservationsOf(u) = {}
  BY DEF Init, NoLoan, NoReservation, LoansOf, ReservationsOf, OpenStatus
<1>2. \A most \in Nat : Limited({}, most)
  BY FS_EmptySet DEF Limited
<1> QED
  BY <1>1, <1>2, TypeInit, CirculationAssumption DEF LimitsInv

\* At the desk the limits always hold.
THEOREM LimitsInvariant == DeskSpec => []LimitsInv
  BY LimitsInit, LimitsStep, PTL DEF DeskSpec

\* At the desk nobody borrows more than her policy allows.
THEOREM LoansLimited == DeskSpec => []LoanLimit
<1>1. LimitsInv => LoanLimit
  BY DEF LimitsInv, LoanLimit, Limited
<1> QED
  BY <1>1, LimitsInvariant, PTL

\* At the desk nobody waits in more queues than her policy allows.
THEOREM ReservationsLimited == DeskSpec => []ReservationLimit
<1>1. LimitsInv => ReservationLimit
  BY DEF LimitsInv, ReservationLimit, Limited
<1> QED
  BY <1>1, LimitsInvariant, PTL

=============================================================================
