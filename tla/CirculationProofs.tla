------------------------- MODULE CirculationProofs -------------------------
(***************************************************************************)
(* What holds of Circulation for every school: any number of readers,      *)
(* titles, copies, loans and reservations.                                 *)
(***************************************************************************)
EXTENDS Circulation, WellFoundedInduction, TLAPS

-----------------------------------------------------------------------------
(* The oldest key of a set *)

Less == {ss \in Nat \X Nat : ss[1] < ss[2]}

\* The order of the keys is well-founded.
LEMMA LessWellFounded == IsWellFoundedOn(Less, Nat)
  BY NatLessThanWellFounded, Zenon DEF OpToRel, Less

\* Oldest, the choice behind ORDER BY created_at, id and behind the next serial
\* key, finds a key whenever there is one.
LEMMA OldestInSet ==
    ASSUME NEW S, S \subseteq Nat, S # {}
    PROVE  /\ Oldest(S) \in S
           /\ \A s \in S : Oldest(S) <= s
<1>1. PICK x \in S : \A y \in S : <<y, x>> \notin Less
  BY LessWellFounded, WFMin
<1>2. \A y \in S : x <= y
  <2> SUFFICES ASSUME NEW y \in S PROVE x <= y
    OBVIOUS
  <2>1. x \in Nat /\ y \in Nat
    OBVIOUS
  <2>2. ~(y < x)
    BY <1>1, <2>1 DEF Less
  <2> QED
    BY <2>1, <2>2
<1> QED
  BY <1>2 DEF Oldest

-----------------------------------------------------------------------------
(* The queue *)

\* Marking a row gives a row.
LEMMA MarkType ==
    ASSUME NEW row \in Reservation, NEW copy \in Copies \cup {None},
           NEW status \in ReservationStatus
    PROVE  /\ Mark(row, copy, status) \in Reservation
           /\ Mark(row, copy, status).status = status
           /\ Mark(row, copy, status).copy = copy
           /\ Mark(row, copy, status).book = row.book
           /\ Mark(row, copy, status).reader = row.reader
  BY DEF Mark, Reservation

\* Writing one column of a row gives a row, and leaves the others.
LEMMA StatusType ==
    ASSUME NEW row \in Reservation, NEW status \in ReservationStatus
    PROVE  /\ [row EXCEPT !.status = status] \in Reservation
           /\ [row EXCEPT !.status = status].status = status
           /\ [row EXCEPT !.status = status].copy = row.copy
           /\ [row EXCEPT !.status = status].book = row.book
           /\ [row EXCEPT !.status = status].reader = row.reader
  BY DEF Reservation

\* A reservation that promotion leaves as it was, or expires.
LeftOrExpired(res, next, r) ==
    \/ next[r] = res[r]
    \/ /\ res[r].status = "active"
       /\ next[r] = [res[r] EXCEPT !.status = "expired"]

\* The one waiting reservation of the title that gets the copy.
Served(res, next, c, s) ==
    /\ res[s].status = "active"
    /\ res[s].book = BookOf[c]
    /\ next[s] = Mark(res[s], c, "ready")
    /\ \A r \in ReservationIds \ {s} : LeftOrExpired(res, next, r)

\* What promotion does to the table: it sets the copy aside for at most one
\* waiting reader of the title, expires others, and reports which happened.
LEMMA PromotedRows ==
    ASSUME NEW res \in [ReservationIds -> Reservation],
           NEW c \in Copies \cup {None}, NEW readers
    PROVE  /\ Promoted(res, c, readers) \in [ReservationIds -> Reservation]
           /\ \/ /\ PromotedState(res, c, readers) = "available"
                 /\ \A r \in ReservationIds :
                        LeftOrExpired(res, Promoted(res, c, readers), r)
              \/ /\ PromotedState(res, c, readers) = "reserved"
                 /\ \E s \in ReservationIds :
                        Served(res, Promoted(res, c, readers), c, s)
<1> DEFINE E == Eligible(res, BookOf[c], readers)
           next == Promoted(res, c, readers)
<1>1. E \subseteq ReservationIds
  BY DEF Eligible, Queue
<1>0. \A r \in ReservationIds :
        /\ res[r] \in Reservation
        /\ [res[r] EXCEPT !.status = "expired"] \in Reservation
        /\ Mark(res[r], c, "ready") \in Reservation
  BY DEF Reservation, ReservationStatus, Mark
<1>2. \A r \in ReservationIds :
        r \in PassedOver(res, BookOf[c], readers) => res[r].status = "active"
  BY DEF PassedOver, Queue
<1>3. CASE E = {}
  <2>1. next = [r \in ReservationIds |->
                  IF r \in PassedOver(res, BookOf[c], readers)
                  THEN [res[r] EXCEPT !.status = "expired"] ELSE res[r]]
    BY <1>3 DEF Promoted
  <2>2. next \in [ReservationIds -> Reservation]
    BY <2>1, <1>0
  <2>3. PromotedState(res, c, readers) = "available"
    BY <1>3 DEF PromotedState
  <2>4. \A r \in ReservationIds : LeftOrExpired(res, next, r)
    BY <2>1, <1>2 DEF LeftOrExpired
  <2> QED
    BY <2>2, <2>3, <2>4
<1>4. CASE E # {}
  <2> DEFINE s == Oldest(E)
  <2>1. s \in E
    BY <1>1, <1>4, OldestInSet, CirculationAssumption
  <2>2. s \in ReservationIds /\ res[s].status = "active" /\ res[s].book = BookOf[c]
    BY <2>1 DEF Eligible, Queue
  <2>3. next = [r \in ReservationIds |->
                  IF r = s THEN Mark(res[r], c, "ready")
                  ELSE IF r \in PassedOver(res, BookOf[c], readers)
                  THEN [res[r] EXCEPT !.status = "expired"] ELSE res[r]]
    BY <1>4 DEF Promoted
  <2> HIDE DEF s
  <2>4. next \in [ReservationIds -> Reservation]
    BY <2>3, <1>0
  <2>5. PromotedState(res, c, readers) = "reserved"
    BY <1>4 DEF PromotedState
  <2>6. next[s] = Mark(res[s], c, "ready")
    BY <2>2, <2>3
  <2>7. \A r \in ReservationIds \ {s} : LeftOrExpired(res, next, r)
    BY <2>3, <1>2 DEF LeftOrExpired
  <2>8. Served(res, next, c, s)
    BY <2>2, <2>6, <2>7 DEF Served
  <2> QED
    BY <2>2, <2>4, <2>5, <2>8
<1> QED
  BY <1>3, <1>4

-----------------------------------------------------------------------------
(* Types *)

\* A write of book_copies.state leaves states in the table.
LEMMA WriteStateType ==
    ASSUME TypeOK, NEW c, NEW seen, NEW new \in BooksStates,
           WriteState(c, seen, new)
    PROVE  copyState' \in [Copies -> BooksStates \cup {"absent"}]
  BY DEF WriteState, TypeOK

\* So does a promotion, in both tables it writes.
LEMMA PromoteCopyType ==
    ASSUME TypeOK, NEW res \in [ReservationIds -> Reservation],
           NEW c \in Copies \cup {None}, NEW seen, PromoteCopy(res, c, seen)
    PROVE  /\ copyState' \in [Copies -> BooksStates \cup {"absent"}]
           /\ reservations' \in [ReservationIds -> Reservation]
<1>1. PromotedState(res, c, seen.readers) \in BooksStates
  BY DEF PromotedState, BooksStates
<1>2. reservations' \in [ReservationIds -> Reservation]
  BY PromotedRows DEF PromoteCopy
<1> QED
  BY <1>1, <1>2, WriteStateType DEF PromoteCopy

\* A loan that create_loan enters, by lending or by pickup, is a row.
LEMMA AddLoanType ==
    ASSUME TypeOK, NEW c \in Copies \cup {None}, NEW u \in Readers \cup {None},
           AddLoan(c, u)
    PROVE  /\ copyState' \in [Copies -> BooksStates \cup {"absent"}]
           /\ loans' \in [LoanIds -> Loan]
           /\ activeReaders' \subseteq Readers /\ openBooks' \subseteq Books
<1>1. [copy |-> c, reader |-> u, status |-> "active"] \in Loan
  BY DEF Loan
<1> QED
  BY <1>1 DEF AddLoan, TypeOK, BooksStates, people

\* Every request keeps the types of the tables.
LEMMA TypeStep == TypeOK /\ [Next]_vars => TypeOK'
<1> SUFFICES ASSUME TypeOK, [Next]_vars PROVE TypeOK'
  OBVIOUS
<1> USE CirculationAssumption
<1>rows. /\ \A r \in ReservationIds : reservations[r] \in Reservation
         /\ \A l \in LoanIds : loans[l] \in Loan
  BY DEF TypeOK
<1>marks. \A r \in ReservationIds, copy \in Copies \cup {None},
             status \in ReservationStatus :
             /\ Mark(reservations[r], copy, status) \in Reservation
             /\ [reservations[r] EXCEPT !.status = status] \in Reservation
  BY <1>rows, MarkType, StatusType
<1>status. \A r \in ReservationIds, status \in ReservationStatus :
              [reservations EXCEPT ![r].status = status]
                \in [ReservationIds -> Reservation]
  BY <1>marks DEF TypeOK
<1>loan. \A l \in LoanIds, status \in {"active", "returned"} :
            [loans EXCEPT ![l].status = status] \in [LoanIds -> Loan]
  BY <1>rows DEF TypeOK, Loan
<1>copies. /\ \A l \in LoanIds : /\ loans[l].copy \in Copies \cup {None}
                                 /\ loans[l].reader \in Readers \cup {None}
           /\ \A r \in ReservationIds :
                 /\ reservations[r].copy \in Copies \cup {None}
                 /\ reservations[r].reader \in Readers \cup {None}
  BY <1>rows DEF Loan, Reservation
<1>1. ASSUME NEW c \in Copies, NEW u \in Readers, Lend(c, u) PROVE TypeOK'
  BY <1>1, AddLoanType DEF Lend, LendWith, TypeOK
<1>2. ASSUME NEW r \in ReservationIds, Pickup(r) PROVE TypeOK'
  <2>1. AddLoan(reservations[r].copy, reservations[r].reader)
    BY <1>2 DEF Pickup, PickupWith
  <2>2. reservations' \in [ReservationIds -> Reservation]
    BY <1>2, <1>status DEF Pickup, PickupWith, ReservationStatus
  <2> QED
    BY <2>1, <2>2, <1>copies, AddLoanType DEF TypeOK
<1>3. ASSUME NEW l \in LoanIds, ReturnLoan(l) PROVE TypeOK'
  <2>1. PromoteCopy(reservations, loans[l].copy, SeenLoan(l))
    BY <1>3 DEF ReturnLoan, ReturnWith
  <2>2. /\ copyState' \in [Copies -> BooksStates \cup {"absent"}]
        /\ reservations' \in [ReservationIds -> Reservation]
    BY <2>1, <1>copies, PromoteCopyType DEF TypeOK
  <2> QED
    BY <1>3, <2>2, <1>loan DEF ReturnLoan, ReturnWith, TypeOK, people
<1>4. ASSUME NEW l \in LoanIds, UndoReturn(l) PROVE TypeOK'
  <2>1. reservations' \in [ReservationIds -> Reservation]
    BY <1>4, <1>rows, <1>marks DEF UndoReturn, UndoReturnWith, ReservationStatus
  <2>2. copyState' \in [Copies -> BooksStates \cup {"absent"}]
    BY <1>4, WriteStateType DEF UndoReturn, UndoReturnWith, BooksStates
  <2> QED
    BY <1>4, <2>1, <2>2, <1>loan DEF UndoReturn, UndoReturnWith, TypeOK, people
<1>5. ASSUME NEW u \in Readers, NEW b \in Books, CreateReservation(u, b)
      PROVE  TypeOK'
  <2>1. [book |-> b, reader |-> u, copy |-> None, status |-> "active"] \in Reservation
    BY DEF Reservation, ReservationStatus
  <2> QED
    BY <1>5, <2>1 DEF CreateReservation, ReserveWith, TypeOK, people
<1>6. ASSUME NEW r \in ReservationIds, CancelReservation(r) PROVE TypeOK'
  <2> DEFINE seen == SeenReservation(r)
             cancelled == [reservations EXCEPT ![r].status = "cancelled"]
  <2>1. cancelled \in [ReservationIds -> Reservation]
    BY <1>status DEF ReservationStatus
  <2>2. seen.row.copy \in Copies \cup {None}
    BY <1>copies DEF SeenReservation
  <2>3. \/ PromoteCopy(cancelled, seen.row.copy, seen)
        \/ reservations' = cancelled /\ UNCHANGED copyState
    BY <1>6 DEF CancelReservation, CancelWith
  <2> HIDE DEF seen, cancelled
  <2>4. /\ copyState' \in [Copies -> BooksStates \cup {"absent"}]
        /\ reservations' \in [ReservationIds -> Reservation]
    BY <2>1, <2>2, <2>3, PromoteCopyType DEF TypeOK
  <2> QED
    BY <1>6, <2>4 DEF CancelReservation, CancelWith, TypeOK, people
<1>7. ASSUME NEW r \in ReservationIds, RestoreReservation(r) PROVE TypeOK'
  <2> DEFINE seen == SeenReservation(r)
  <2>1. CASE RestoreReady(r, seen)
    <3>1. reservations' \in [ReservationIds -> Reservation]
      BY <2>1, <1>rows, <1>marks DEF RestoreReady, ReservationStatus
    <3>2. copyState' \in [Copies -> BooksStates \cup {"absent"}]
      BY <2>1, WriteStateType DEF RestoreReady, BooksStates
    <3> QED
      BY <1>7, <3>1, <3>2 DEF RestoreReservation, RestoreWith, TypeOK, people
  <2>2. CASE RestoreWaiting(r, seen)
    <3>1. reservations' \in [ReservationIds -> Reservation]
      BY <2>2, <1>rows, <1>marks, <1>copies
      DEF RestoreWaiting, ReservationStatus, TypeOK
    <3> QED
      BY <1>7, <2>2, <3>1
      DEF RestoreReservation, RestoreWith, RestoreWaiting, TypeOK, people
  <2> QED
    BY <1>7, <2>1, <2>2 DEF RestoreReservation, RestoreWith
<1>8. ASSUME NEW c \in Copies, NEW new \in BooksStates, PatchCopy(c, new)
      PROVE  TypeOK'
  BY <1>8, WriteStateType DEF PatchCopy, PatchWith, TypeOK, people
<1>9. ASSUME NEW c \in Copies, NEW new \in BooksStates, CreateCopy(c, new)
      PROVE  TypeOK'
  BY <1>9 DEF CreateCopy, TypeOK, people
<1>10. ASSUME NEW c \in Copies, DeleteCopy(c) PROVE TypeOK'
  BY <1>10 DEF DeleteCopy, TypeOK, people
<1>11. ASSUME NEW u \in Readers, DeactivateReader(u) PROVE TypeOK'
  BY <1>11 DEF DeactivateReader, TypeOK
<1>12. ASSUME NEW b \in Books, DeactivateBook(b) PROVE TypeOK'
  BY <1>12 DEF DeactivateBook, TypeOK
<1>13. CASE UNCHANGED vars
  BY <1>13 DEF vars, TypeOK
<1> QED
  BY <1>1, <1>2, <1>3, <1>4, <1>5, <1>6, <1>7, <1>8, <1>9, <1>10, <1>11, <1>12,
     <1>13 DEF Next, DeskNext

\* The tables start with rows of their types.
LEMMA TypeInit == Init => TypeOK
<1>1. NoLoan \in Loan /\ NoReservation \in Reservation
  BY DEF NoLoan, NoReservation, Loan, Reservation
<1> QED
  BY <1>1 DEF Init, TypeOK, BooksStates

\* Whatever the routes accept, every table holds rows of its type.
THEOREM TypeCorrect == Spec => []TypeOK
  BY TypeInit, TypeStep, PTL DEF Spec

-----------------------------------------------------------------------------
(* Custody: the invariant, copy by copy *)

CustodyOf(c) ==
    /\ copyState[c] = "borrowed" <=> LoansOn(c) # {}
    /\ copyState[c] = "reserved" <=> ReadyOn(c) # {}
    /\ \A l, m \in LoansOn(c) : l = m
    /\ \A r, s \in ReadyOn(c) : r = s

Shape(res) ==
    \A r \in ReservationIds :
        /\ res[r].status = "active" => res[r].copy = None
        /\ res[r].status = "ready" => res[r].copy # None
        /\ res[r].copy # None => BookOf[res[r].copy] = res[r].book

LoansNamed ==
    \A l \in LoanIds :
        loans[l].status # "none" => loans[l].copy # None /\ loans[l].reader # None

\* The request touched no copy but c.
Elsewhere(c) ==
    \A d \in Copies \ {c} : /\ copyState'[d] = copyState[d]
                            /\ LoansOn(d)' = LoansOn(d)
                            /\ ReadyOn(d)' = ReadyOn(d)

\* The inductive invariant in the parts the proofs below use.
LEMMA CustodyInvParts ==
    CustodyInv <=> /\ TypeOK
                   /\ \A c \in Copies : CustodyOf(c)
                   /\ Shape(reservations)
                   /\ LoansNamed
  BY DEF CustodyInv, Custody, CustodyOf, ReservationShape, Shape, LoansNamed

\* A request that touches one copy has only that copy to account for.
LEMMA OneCopy ==
    ASSUME NEW c \in Copies, \A d \in Copies : CustodyOf(d),
           Elsewhere(c), CustodyOf(c)'
    PROVE  \A d \in Copies : CustodyOf(d)'
<1> SUFFICES ASSUME NEW d \in Copies \ {c} PROVE CustodyOf(d)'
  OBVIOUS
<1> QED
  BY DEF Elsewhere, CustodyOf

\* A request that leaves loans and reservations alone, and moves a copy that
\* nobody borrows or waits for to a state of that kind.
LEMMA LooseCopy ==
    ASSUME NEW c \in Copies, TypeOK, \A d \in Copies : CustodyOf(d),
           NEW new, new \notin {"borrowed", "reserved"},
           copyState[c] \notin {"borrowed", "reserved"},
           copyState' = [copyState EXCEPT ![c] = new],
           UNCHANGED <<loans, reservations>>
    PROVE  \A d \in Copies : CustodyOf(d)'
<1>1. \A d \in Copies : LoansOn(d)' = LoansOn(d) /\ ReadyOn(d)' = ReadyOn(d)
  BY DEF LoansOn, ReadyOn, ReadyIn
<1>2. copyState'[c] = new /\ \A d \in Copies \ {c} : copyState'[d] = copyState[d]
  BY DEF TypeOK
<1>3. CustodyOf(c)'
  BY <1>1, <1>2 DEF CustodyOf
<1> QED
  BY <1>1, <1>2, <1>3, OneCopy DEF Elsewhere

\* A loan is entered under a new key and is the only change to the loans.
LEMMA LoanEntered ==
    ASSUME TypeOK, LoansNamed, NEW c \in Copies, NEW u \in Readers, AddLoan(c, u)
    PROVE  /\ \E l \in LoanIds : LoansOn(c)' = LoansOn(c) \cup {l}
           /\ \A d \in Copies \ {c} : LoansOn(d)' = LoansOn(d)
           /\ LoansNamed'
<1> DEFINE l == Oldest(UnusedLoans)
<1>1. l \in UnusedLoans
  BY OldestInSet, CirculationAssumption DEF AddLoan, UnusedLoans
<1>2. l \in LoanIds /\ loans[l].status = "none"
  BY <1>1 DEF UnusedLoans
<1>3. loans' = [loans EXCEPT ![l] = [copy |-> c, reader |-> u, status |-> "active"]]
  BY DEF AddLoan
<1> HIDE DEF l
<1>4. /\ loans'[l] = [copy |-> c, reader |-> u, status |-> "active"]
      /\ \A m \in LoanIds \ {l} : loans'[m] = loans[m]
  BY <1>2, <1>3 DEF TypeOK
<1>5. LoansOn(c)' = LoansOn(c) \cup {l}
  BY <1>2, <1>4 DEF LoansOn
<1>6. \A d \in Copies \ {c} : LoansOn(d)' = LoansOn(d)
  BY <1>2, <1>4 DEF LoansOn
<1>7. LoansNamed'
  BY <1>4, CirculationAssumption DEF LoansNamed
<1> QED
  BY <1>2, <1>5, <1>6, <1>7

\* A loan that was entered is of some copy.
LEMMA LoanOfCopy ==
    ASSUME TypeOK, LoansNamed, NEW l \in LoanIds, loans[l].status # "none"
    PROVE  \E c \in Copies : c = loans[l].copy
  BY DEF TypeOK, Loan, LoansNamed

\* Closing a loan takes it off its copy, reopening it puts it back.
LEMMA LoanStatusWritten ==
    ASSUME TypeOK, LoansNamed, NEW l \in LoanIds, loans[l].status # "none",
           NEW c \in Copies, c = loans[l].copy,
           NEW status \in {"active", "returned"},
           loans' = [loans EXCEPT ![l].status = status]
    PROVE  /\ LoansOn(c)' = IF status = "active" THEN LoansOn(c) \cup {l}
                                                 ELSE LoansOn(c) \ {l}
           /\ \A d \in Copies \ {c} : LoansOn(d)' = LoansOn(d)
           /\ LoansNamed'
<1>1. /\ loans'[l].status = status
      /\ loans'[l].copy = c
      /\ loans'[l].reader = loans[l].reader
      /\ \A m \in LoanIds \ {l} : loans'[m] = loans[m]
  BY DEF TypeOK, Loan
<1>2. LoansOn(c)' = IF status = "active" THEN LoansOn(c) \cup {l} ELSE LoansOn(c) \ {l}
  BY <1>1 DEF LoansOn
<1>3. \A d \in Copies \ {c} : LoansOn(d)' = LoansOn(d)
  BY <1>1 DEF LoansOn
<1>4. LoansNamed'
  BY <1>1 DEF LoansNamed
<1> QED
  BY <1>2, <1>3, <1>4

\* Promotion gives a copy that no READY reservation holds to one reader, or to
\* the shelf, and nobody else's copy changes hands.
LEMMA PromotionKeepsCustody ==
    ASSUME NEW res \in [ReservationIds -> Reservation], NEW c \in Copies,
           NEW readers, Shape(res), ReadyIn(res, c) = {}
    PROVE  LET next == Promoted(res, c, readers)
           IN  /\ Shape(next)
               /\ \A d \in Copies \ {c} : ReadyIn(next, d) = ReadyIn(res, d)
               /\ \/ /\ PromotedState(res, c, readers) = "available"
                     /\ ReadyIn(next, c) = {}
                  \/ /\ PromotedState(res, c, readers) = "reserved"
                     /\ \E s \in ReservationIds : ReadyIn(next, c) = {s}
<1> DEFINE next == Promoted(res, c, readers)
<1> USE CirculationAssumption
<1>1. \A r \in ReservationIds : res[r] \in Reservation
  OBVIOUS
<1>2. \A r \in ReservationIds : LeftOrExpired(res, next, r) =>
        /\ next[r].status = "ready" <=> res[r].status = "ready"
        /\ next[r].copy = res[r].copy
        /\ next[r].book = res[r].book
        /\ next[r].status = "active" => res[r].status = "active"
  <2> SUFFICES ASSUME NEW r \in ReservationIds, LeftOrExpired(res, next, r)
               PROVE  /\ next[r].status = "ready" <=> res[r].status = "ready"
                      /\ next[r].copy = res[r].copy
                      /\ next[r].book = res[r].book
                      /\ next[r].status = "active" => res[r].status = "active"
    OBVIOUS
  <2> HIDE DEF next
  <2>1. CASE next[r] = res[r]
    BY <2>1
  <2>2. CASE /\ res[r].status = "active"
             /\ next[r] = [res[r] EXCEPT !.status = "expired"]
    <3>1. /\ next[r].status = "expired"
          /\ next[r].copy = res[r].copy
          /\ next[r].book = res[r].book
      BY <2>2, <1>1, StatusType DEF ReservationStatus
    <3> QED
      BY <2>2, <3>1
  <2> QED
    BY <2>1, <2>2 DEF LeftOrExpired
<1>3. ASSUME \A r \in ReservationIds : LeftOrExpired(res, next, r)
      PROVE  Shape(next) /\ \A d \in Copies : ReadyIn(next, d) = ReadyIn(res, d)
  <2> HIDE DEF next
  <2>1. Shape(next)
    BY <1>2, <1>3 DEF Shape
  <2>2. \A d \in Copies : ReadyIn(next, d) = ReadyIn(res, d)
    BY <1>2, <1>3 DEF ReadyIn
  <2> QED
    BY <2>1, <2>2
<1>4. ASSUME NEW s \in ReservationIds, Served(res, next, c, s)
      PROVE  /\ Shape(next)
             /\ \A d \in Copies \ {c} : ReadyIn(next, d) = ReadyIn(res, d)
             /\ ReadyIn(next, c) = {s}
  <2>1. /\ next[s].status = "ready"
        /\ next[s].copy = c
        /\ next[s].book = BookOf[c]
        /\ res[s].status = "active"
        /\ c # None
    BY <1>4 DEF Mark, Served
  <2>2. \A r \in ReservationIds \ {s} : LeftOrExpired(res, next, r)
    BY <1>4 DEF Served
  <2> HIDE DEF next
  <2>3. Shape(next)
    BY <1>2, <2>1, <2>2 DEF Shape
  <2>4. \A d \in Copies \ {c} : ReadyIn(next, d) = ReadyIn(res, d)
    <3> SUFFICES ASSUME NEW d \in Copies \ {c}
                 PROVE  ReadyIn(next, d) = ReadyIn(res, d)
      OBVIOUS
    <3>1. ASSUME NEW r \in ReservationIds
          PROVE  (next[r].status = "ready" /\ next[r].copy = d)
                   <=> (res[r].status = "ready" /\ res[r].copy = d)
      <4>1. CASE r = s
        BY <2>1, <4>1
      <4>2. CASE r # s
        <5>1. LeftOrExpired(res, next, r)
          BY <2>2, <4>2
        <5> QED
          BY <1>2, <5>1
      <4> QED
        BY <4>1, <4>2
    <3> QED
      BY <3>1 DEF ReadyIn
  <2>5. \A r \in ReservationIds \ {s} : ~(res[r].status = "ready" /\ res[r].copy = c)
    BY DEF ReadyIn
  <2>6. \A r \in ReservationIds \ {s} : ~(next[r].status = "ready" /\ next[r].copy = c)
    BY <1>2, <2>2, <2>5
  <2>7. ReadyIn(next, c) = {s}
    BY <2>1, <2>6 DEF ReadyIn
  <2> QED
    BY <2>3, <2>4, <2>7
<1>5. \/ /\ PromotedState(res, c, readers) = "available"
         /\ \A r \in ReservationIds : LeftOrExpired(res, next, r)
      \/ /\ PromotedState(res, c, readers) = "reserved"
         /\ \E s \in ReservationIds : Served(res, next, c, s)
  BY PromotedRows
<1> HIDE DEF next
<1> QED
  BY <1>3, <1>4, <1>5 DEF next

\* Handing a copy that nobody borrows or holds to its queue.
LEMMA CopyPassedOn ==
    ASSUME TypeOK, NEW c \in Copies, \A d \in Copies : CustodyOf(d),
           NEW res \in [ReservationIds -> Reservation], Shape(res),
           ReadyIn(res, c) = {},
           \A d \in Copies \ {c} : ReadyIn(res, d) = ReadyOn(d),
           LoansOn(c)' = {},
           \A d \in Copies \ {c} : LoansOn(d)' = LoansOn(d),
           NEW seen, seen.state = copyState[c],
           PromoteCopy(res, c, seen)
    PROVE  Shape(reservations)' /\ \A d \in Copies : CustodyOf(d)'
<1> DEFINE new == PromotedState(res, c, seen.readers)
<1>1. /\ Shape(reservations)'
      /\ \A d \in Copies \ {c} : ReadyOn(d)' = ReadyOn(d)
      /\ \/ new = "available" /\ ReadyOn(c)' = {}
         \/ new = "reserved" /\ \E s \in ReservationIds : ReadyOn(c)' = {s}
  BY PromotionKeepsCustody DEF PromoteCopy, ReadyOn, ReadyIn, Shape
<1>2. /\ copyState'[c] = new
      /\ \A d \in Copies \ {c} : copyState'[d] = copyState[d]
  BY DEF PromoteCopy, WriteState, TypeOK
<1> HIDE DEF new
<1>3. CustodyOf(c)'
  BY <1>1, <1>2 DEF CustodyOf
<1> QED
  BY <1>1, <1>2, <1>3, OneCopy DEF Elsewhere

-----------------------------------------------------------------------------
(* Custody: one proof for each request *)

\* The careful requests are requests.
LEMMA CarefulIsNext == [CarefulNext]_vars => [Next]_vars
  BY DEF CarefulNext, Next, CarefulUndo, CarefulPatch, CarefulCreate

\* Lending a copy from the shelf.
LEMMA LendKeepsCustody ==
    ASSUME CustodyInv, NEW c \in Copies, NEW u \in Readers, Lend(c, u)
    PROVE  /\ \A d \in Copies : CustodyOf(d)'
           /\ Shape(reservations)' /\ LoansNamed'
<1> USE CustodyInvParts
<1>1. AddLoan(c, u) /\ copyState[c] = "available" /\ reservations' = reservations
  BY DEF Lend, LendWith
<1>2. LoansOn(c) = {} /\ ReadyOn(c) = {}
  BY <1>1 DEF CustodyOf
<1>3. /\ \E l \in LoanIds : LoansOn(c)' = LoansOn(c) \cup {l}
      /\ \A d \in Copies \ {c} : LoansOn(d)' = LoansOn(d)
      /\ LoansNamed'
  BY <1>1, LoanEntered
<1>4. \A d \in Copies : ReadyOn(d)' = ReadyOn(d)
  BY <1>1 DEF ReadyOn
<1>5. copyState' = [copyState EXCEPT ![c] = "borrowed"]
  BY <1>1 DEF AddLoan
<1>6. CustodyOf(c)'
  BY <1>2, <1>3, <1>4, <1>5 DEF CustodyOf, TypeOK
<1>7. Elsewhere(c)
  BY <1>3, <1>4, <1>5 DEF Elsewhere, TypeOK
<1> QED
  BY <1>1, <1>3, <1>6, <1>7, OneCopy DEF Shape

\* Handing a kept copy to the reader of its READY reservation.
LEMMA PickupKeepsCustody ==
    ASSUME CustodyInv, NEW r \in ReservationIds, Pickup(r)
    PROVE  /\ \A d \in Copies : CustodyOf(d)'
           /\ Shape(reservations)' /\ LoansNamed'
<1> USE CustodyInvParts
<1>1. PICK c \in Copies, u \in Readers :
        c = reservations[r].copy /\ u = reservations[r].reader
  BY DEF Pickup, PickupWith, CanPickUp, SeenReaders, TypeOK, Reservation
<1>2. /\ AddLoan(c, u) /\ CanPickUp(r)
      /\ reservations' = [reservations EXCEPT ![r].status = "fulfilled"]
  BY <1>1 DEF Pickup, PickupWith
<1>3. r \in ReadyOn(c) /\ copyState[c] = "reserved"
  BY <1>1, <1>2 DEF CanPickUp, ReadyOn, ReadyIn
<1>4. LoansOn(c) = {} /\ ReadyOn(c) = {r}
  BY <1>3 DEF CustodyOf
<1>5. /\ \E l \in LoanIds : LoansOn(c)' = LoansOn(c) \cup {l}
      /\ \A d \in Copies \ {c} : LoansOn(d)' = LoansOn(d)
      /\ LoansNamed'
  BY <1>2, LoanEntered
<1>6. copyState' = [copyState EXCEPT ![c] = "borrowed"]
  BY <1>2 DEF AddLoan
<1>7. /\ reservations'[r].status = "fulfilled"
      /\ reservations'[r].copy = reservations[r].copy
      /\ reservations'[r].book = reservations[r].book
      /\ \A s \in ReservationIds \ {r} : reservations'[s] = reservations[s]
  BY <1>2 DEF TypeOK, Reservation
<1>8. Shape(reservations)'
  BY <1>7 DEF Shape
<1>9. \A d \in Copies : ReadyOn(d)' = ReadyOn(d) \ {r}
  BY <1>7 DEF ReadyOn, ReadyIn
<1>10. \A d \in Copies \ {c} : r \notin ReadyOn(d)
  BY <1>1 DEF ReadyOn, ReadyIn
<1>11. CustodyOf(c)'
  BY <1>4, <1>5, <1>6, <1>9 DEF CustodyOf, TypeOK
<1>12. Elsewhere(c)
  BY <1>5, <1>6, <1>9, <1>10 DEF Elsewhere, TypeOK
<1> QED
  BY <1>5, <1>8, <1>11, <1>12, OneCopy

\* Returning a copy and passing it on.
LEMMA ReturnKeepsCustody ==
    ASSUME CustodyInv, NEW l \in LoanIds, ReturnLoan(l)
    PROVE  /\ \A d \in Copies : CustodyOf(d)'
           /\ Shape(reservations)' /\ LoansNamed'
<1> USE CustodyInvParts
<1>1. /\ loans[l].status = "active"
      /\ loans' = [loans EXCEPT ![l].status = "returned"]
      /\ PromoteCopy(reservations, loans[l].copy, SeenLoan(l))
  BY DEF ReturnLoan, ReturnWith, SeenLoan
<1>2. PICK c \in Copies : c = loans[l].copy
  BY <1>1, LoanOfCopy
<1>3. /\ LoansOn(c)' = LoansOn(c) \ {l}
      /\ \A d \in Copies \ {c} : LoansOn(d)' = LoansOn(d)
      /\ LoansNamed'
  BY <1>1, <1>2, LoanStatusWritten
<1>4. l \in LoansOn(c)
  BY <1>1, <1>2 DEF LoansOn
<1>5. LoansOn(c) = {l} /\ ReadyOn(c) = {}
  BY <1>4 DEF CustodyOf
<1>6. SeenLoan(l).state = copyState[c]
  BY <1>2, CirculationAssumption DEF SeenLoan
<1>7. /\ reservations \in [ReservationIds -> Reservation]
      /\ \A d \in Copies : ReadyIn(reservations, d) = ReadyOn(d)
  BY DEF TypeOK, ReadyOn
<1>8. LoansOn(c)' = {}
  BY <1>3, <1>5
<1>9. PromoteCopy(reservations, c, SeenLoan(l))
  BY <1>1, <1>2
<1>10. Shape(reservations)' /\ \A d \in Copies : CustodyOf(d)'
  BY <1>3, <1>5, <1>6, <1>7, <1>8, <1>9, CopyPassedOn
<1> QED
  BY <1>3, <1>10

\* Reopening a loan while its copy is in the building: the copy leaves the shelf
\* or the reader it was kept for, who waits again.
LEMMA UndoKeepsCustody ==
    ASSUME CustodyInv, NEW l \in LoanIds, CarefulUndo(l)
    PROVE  /\ \A d \in Copies : CustodyOf(d)'
           /\ Shape(reservations)' /\ LoansNamed'
<1> USE CustodyInvParts
<1>1. /\ loans[l].status = "returned"
      /\ loans' = [loans EXCEPT ![l].status = "active"]
      /\ copyState[loans[l].copy] \in {"available", "reserved"}
      /\ WriteState(loans[l].copy, SeenLoan(l), "borrowed")
      /\ reservations' =
           [r \in ReservationIds |->
               IF r \in ReadyOn(loans[l].copy)
               THEN Mark(reservations[r], None, "active")
               ELSE reservations[r]]
  BY DEF CarefulUndo, UndoReturn, UndoReturnWith
<1>2. PICK c \in Copies : c = loans[l].copy
  BY <1>1, LoanOfCopy
<1>3. /\ LoansOn(c)' = LoansOn(c) \cup {l}
      /\ \A d \in Copies \ {c} : LoansOn(d)' = LoansOn(d)
      /\ LoansNamed'
  BY <1>1, <1>2, LoanStatusWritten
<1>4. SeenLoan(l).state = copyState[c]
  BY <1>2, CirculationAssumption DEF SeenLoan
<1>5. copyState' = [copyState EXCEPT ![c] = "borrowed"]
  BY <1>1, <1>2, <1>4 DEF WriteState
<1>6. LoansOn(c) = {}
  BY <1>1, <1>2 DEF CustodyOf
<1>7. \A r \in ReservationIds :
        IF r \in ReadyOn(c)
        THEN /\ reservations'[r].status = "active"
             /\ reservations'[r].copy = None
        ELSE reservations'[r] = reservations[r]
  BY <1>1, <1>2 DEF Mark
<1>8. Shape(reservations)'
  BY <1>7 DEF Shape
<1>9. \A d \in Copies : ReadyOn(d)' = ReadyOn(d) \ ReadyOn(c)
  BY <1>7 DEF ReadyOn, ReadyIn
<1>10. \A d \in Copies \ {c} : ReadyOn(d) \cap ReadyOn(c) = {}
  BY DEF ReadyOn, ReadyIn
<1>11. CustodyOf(c)'
  BY <1>3, <1>5, <1>6, <1>9 DEF CustodyOf, TypeOK
<1>12. Elsewhere(c)
  BY <1>3, <1>5, <1>9, <1>10 DEF Elsewhere, TypeOK
<1> QED
  BY <1>3, <1>8, <1>11, <1>12, OneCopy

\* A request that writes only a reservation which is and stays without a claim
\* on a copy.
LEMMA RowWithoutCopy ==
    ASSUME CustodyInv, NEW r \in ReservationIds,
           reservations[r].status # "ready",
           reservations'[r].status # "ready",
           Shape(reservations)',
           \A s \in ReservationIds \ {r} : reservations'[s] = reservations[s],
           UNCHANGED <<copyState, loans>>
    PROVE  /\ \A d \in Copies : CustodyOf(d)'
           /\ LoansNamed'
<1> USE CustodyInvParts
<1>1. \A d \in Copies : LoansOn(d)' = LoansOn(d) /\ ReadyOn(d)' = ReadyOn(d)
  BY DEF LoansOn, ReadyOn, ReadyIn
<1>2. \A d \in Copies : CustodyOf(d)'
  BY <1>1 DEF CustodyOf
<1> QED
  BY <1>2 DEF LoansNamed

\* Joining a queue.
LEMMA ReserveKeepsCustody ==
    ASSUME CustodyInv, NEW u \in Readers, NEW b \in Books, CreateReservation(u, b)
    PROVE  /\ \A d \in Copies : CustodyOf(d)'
           /\ Shape(reservations)' /\ LoansNamed'
<1> USE CustodyInvParts
<1>1. PICK r \in ReservationIds : r = Oldest(UnusedReservations) /\ r \in UnusedReservations
  BY OldestInSet, CirculationAssumption
  DEF CreateReservation, ReserveWith, UnusedReservations
<1>2. reservations' = [reservations EXCEPT ![r] =
               [book |-> b, reader |-> u, copy |-> None, status |-> "active"]]
  BY <1>1 DEF CreateReservation, ReserveWith
<1>3. /\ reservations'[r].status = "active"
      /\ reservations'[r].copy = None
      /\ \A s \in ReservationIds \ {r} : reservations'[s] = reservations[s]
  BY <1>2 DEF TypeOK
<1>4. Shape(reservations)'
  BY <1>3 DEF Shape
<1>5. reservations[r].status # "ready"
  BY <1>1 DEF UnusedReservations
<1>6. UNCHANGED <<copyState, loans>>
  BY DEF CreateReservation, ReserveWith
<1> QED
  BY <1>3, <1>4, <1>5, <1>6, RowWithoutCopy

\* Leaving a queue, or giving up a kept copy, which goes to the next reader.
LEMMA CancelKeepsCustody ==
    ASSUME CustodyInv, NEW r \in ReservationIds, CancelReservation(r)
    PROVE  /\ \A d \in Copies : CustodyOf(d)'
           /\ Shape(reservations)' /\ LoansNamed'
<1> USE CustodyInvParts
<1> DEFINE cancelled == [reservations EXCEPT ![r].status = "cancelled"]
<1>1. /\ reservations[r].status \in OpenStatus
      /\ UNCHANGED loans
      /\ \/ /\ HasCopy(SeenReservation(r))
            /\ PromoteCopy(cancelled, reservations[r].copy, SeenReservation(r))
         \/ /\ ~HasCopy(SeenReservation(r))
            /\ reservations' = cancelled
            /\ UNCHANGED copyState
  BY DEF CancelReservation, CancelWith, SeenReservation
<1>2. /\ cancelled \in [ReservationIds -> Reservation]
      /\ cancelled[r].status = "cancelled"
      /\ cancelled[r].copy = reservations[r].copy
      /\ cancelled[r].book = reservations[r].book
      /\ \A s \in ReservationIds \ {r} : cancelled[s] = reservations[s]
  BY StatusType DEF TypeOK, ReservationStatus
<1> HIDE DEF cancelled
<1>3. Shape(cancelled)
  BY <1>2 DEF Shape
<1>4. CASE reservations[r].status = "active"
  <2>1. ~HasCopy(SeenReservation(r))
    BY <1>4 DEF HasCopy, SeenReservation, Shape
  <2>2. reservations' = cancelled /\ UNCHANGED <<copyState, loans>>
    BY <1>1, <2>1
  <2>3. Shape(reservations)'
    BY <1>3, <2>2 DEF Shape
  <2> QED
    BY <1>2, <1>4, <2>2, <2>3, RowWithoutCopy
<1>5. CASE reservations[r].status = "ready"
  <2>1. PICK c \in Copies : c = reservations[r].copy
    BY <1>5 DEF Shape, TypeOK, Reservation
  <2>2. r \in ReadyOn(c)
    BY <1>5, <2>1 DEF ReadyOn, ReadyIn
  <2>3. ReadyOn(c) = {r} /\ copyState[c] = "reserved" /\ LoansOn(c) = {}
    BY <2>2 DEF CustodyOf
  <2>4. HasCopy(SeenReservation(r))
    BY <2>1, <2>3, CirculationAssumption DEF HasCopy, SeenReservation
  <2>5. SeenReservation(r).state = copyState[c]
    BY <2>1, CirculationAssumption DEF SeenReservation
  <2>6. PromoteCopy(cancelled, c, SeenReservation(r))
    BY <1>1, <2>1, <2>4
  <2>7. \A d \in Copies : ReadyIn(cancelled, d) = ReadyOn(d) \ {r}
    BY <1>2 DEF ReadyOn, ReadyIn
  <2>8. \A d \in Copies \ {c} : r \notin ReadyOn(d)
    BY <2>1 DEF ReadyOn, ReadyIn
  <2>9. /\ ReadyIn(cancelled, c) = {}
        /\ \A d \in Copies \ {c} : ReadyIn(cancelled, d) = ReadyOn(d)
    BY <2>3, <2>7, <2>8
  <2>10. \A d \in Copies : LoansOn(d)' = LoansOn(d)
    BY <1>1 DEF LoansOn
  <2>11. LoansOn(c)' = {}
    BY <2>3, <2>10
  <2>12. Shape(reservations)' /\ \A d \in Copies : CustodyOf(d)'
    BY <1>2, <1>3, <2>5, <2>6, <2>9, <2>10, <2>11, CopyPassedOn
  <2>13. LoansNamed'
    BY <1>1 DEF LoansNamed
  <2> QED
    BY <2>12, <2>13
<1> QED
  BY <1>1, <1>4, <1>5 DEF OpenStatus

\* Restoring a cancelled reservation: it takes its copy back from whoever holds
\* it, or waits again.
LEMMA RestoreKeepsCustody ==
    ASSUME CustodyInv, NEW r \in ReservationIds, RestoreReservation(r)
    PROVE  /\ \A d \in Copies : CustodyOf(d)'
           /\ Shape(reservations)' /\ LoansNamed'
<1> USE CustodyInvParts
<1>1. /\ reservations[r].status = "cancelled"
      /\ UNCHANGED loans
      /\ \/ RestoreReady(r, SeenReservation(r))
         \/ RestoreWaiting(r, SeenReservation(r))
  BY DEF RestoreReservation, RestoreWith, SeenReservation
<1>2. LoansNamed' /\ \A d \in Copies : LoansOn(d)' = LoansOn(d)
  BY <1>1 DEF LoansNamed, LoansOn
<1>3. CASE RestoreReady(r, SeenReservation(r))
  <2>1. PICK c \in Copies : c = reservations[r].copy
    BY <1>3 DEF RestoreReady, HasCopy, SeenReservation, TypeOK, Reservation
  <2>2. SeenReservation(r).row.copy = c /\ SeenReservation(r).state = copyState[c]
    BY <2>1, CirculationAssumption DEF SeenReservation
  <2>3. /\ copyState[c] \in {"available", "reserved"}
        /\ WriteState(c, SeenReservation(r), "reserved")
        /\ reservations' =
             [s \in ReservationIds |->
                IF s = r THEN [reservations[s] EXCEPT !.status = "ready"]
                ELSE IF s \in ReadyOn(c) \ {r}
                THEN Mark(reservations[s], None, "active")
                ELSE reservations[s]]
    BY <1>3, <2>2 DEF RestoreReady
  <2>4. copyState' = [copyState EXCEPT ![c] = "reserved"]
    BY <2>2, <2>3 DEF WriteState, TypeOK
  <2>5. LoansOn(c) = {}
    BY <2>3 DEF CustodyOf
  <2>6. /\ reservations'[r].status = "ready"
        /\ reservations'[r].copy = c
        /\ reservations'[r].book = reservations[r].book
    BY <2>1, <2>3 DEF TypeOK, Reservation
  <2>7. \A s \in ReservationIds \ {r} :
          IF s \in ReadyOn(c)
          THEN /\ reservations'[s].status = "active"
               /\ reservations'[s].copy = None
          ELSE reservations'[s] = reservations[s]
    BY <2>3 DEF Mark
  <2>8. Shape(reservations)'
    BY <2>1, <2>6, <2>7, CirculationAssumption DEF Shape
  <2>9. ReadyOn(c)' = {r}
    BY <2>6, <2>7 DEF ReadyOn, ReadyIn
  <2>10. \A d \in Copies \ {c} : ReadyOn(d)' = ReadyOn(d)
    BY <1>1, <2>6, <2>7, CirculationAssumption DEF ReadyOn, ReadyIn
  <2>11. CustodyOf(c)'
    BY <1>2, <2>4, <2>5, <2>9 DEF CustodyOf, TypeOK
  <2>12. Elsewhere(c)
    BY <1>2, <2>4, <2>10 DEF Elsewhere, TypeOK
  <2> QED
    BY <1>2, <2>8, <2>11, <2>12, OneCopy
<1>4. CASE RestoreWaiting(r, SeenReservation(r))
  <2>1. reservations' = [reservations EXCEPT ![r] = Mark(@, None, "active")]
    BY <1>4 DEF RestoreWaiting, SeenReservation
  <2>2. /\ reservations'[r].status = "active"
        /\ reservations'[r].copy = None
        /\ \A s \in ReservationIds \ {r} : reservations'[s] = reservations[s]
    BY <2>1 DEF Mark, TypeOK
  <2>3. Shape(reservations)'
    BY <2>2 DEF Shape
  <2>4. UNCHANGED <<copyState, loans>>
    BY <1>1, <1>4 DEF RestoreWaiting
  <2> QED
    BY <1>1, <2>2, <2>3, <2>4, RowWithoutCopy
<1> QED
  BY <1>1, <1>3, <1>4

\* Every careful request keeps the invariant.
LEMMA CustodyStep == CustodyInv /\ [CarefulNext]_vars => CustodyInv'
<1> SUFFICES ASSUME CustodyInv, [CarefulNext]_vars PROVE CustodyInv'
  OBVIOUS
<1> USE CustodyInvParts
<1> DEFINE Kept == /\ \A d \in Copies : CustodyOf(d)'
                   /\ Shape(reservations)' /\ LoansNamed'
<1>1. TypeOK'
  BY CarefulIsNext, TypeStep
<1>2. ASSUME NEW c \in Copies, NEW new, copyState[c] \notin {"borrowed", "reserved"},
             new \notin {"borrowed", "reserved"},
             copyState' = [copyState EXCEPT ![c] = new],
             UNCHANGED <<loans, reservations>>
      PROVE  Kept
  BY <1>2, LooseCopy DEF Shape, LoansNamed
<1>3. ASSUME UNCHANGED <<copyState, loans, reservations>> PROVE Kept
  BY <1>3 DEF CustodyOf, LoansOn, ReadyOn, Shape, LoansNamed
<1>4. ASSUME NEW c \in Copies, NEW new \in BooksStates, CarefulPatch(c, new)
      PROVE  Kept
  <2>1. CASE UNCHANGED copyState
    BY <1>3, <1>4, <2>1 DEF CarefulPatch, PatchCopy, PatchWith
  <2>2. CASE copyState' = [copyState EXCEPT ![c] = new]
    BY <1>2, <1>4, <2>2 DEF CarefulPatch, PatchCopy, PatchWith, OffShelf
  <2> QED
    BY <1>4, <2>1, <2>2 DEF CarefulPatch, PatchCopy, PatchWith, WriteState
<1>5. ASSUME NEW c \in Copies, NEW new \in BooksStates, CarefulCreate(c, new)
      PROVE  Kept
  BY <1>2, <1>5 DEF CarefulCreate, CreateCopy, OffShelf
<1>6. ASSUME NEW c \in Copies, DeleteCopy(c) PROVE Kept
  <2>1. LoansOn(c) = {} /\ ReadyOn(c) = {}
    BY <1>6 DEF DeleteCopy, LoansOn, ReadyOn, ReadyIn
  <2>2. copyState[c] \notin {"borrowed", "reserved"}
    BY <2>1 DEF CustodyOf
  <2> QED
    BY <1>2, <1>6, <2>2 DEF DeleteCopy
<1>7. ASSUME NEW u \in Readers, DeactivateReader(u) PROVE Kept
  BY <1>3, <1>7 DEF DeactivateReader
<1>8. ASSUME NEW b \in Books, DeactivateBook(b) PROVE Kept
  BY <1>3, <1>8 DEF DeactivateBook
<1>9. ASSUME UNCHANGED vars PROVE Kept
  BY <1>3, <1>9 DEF vars
<1>10. Kept
  <2> HIDE DEF Kept
  <2>1. ASSUME NEW c \in Copies, NEW u \in Readers, Lend(c, u) PROVE Kept
    BY <2>1, LendKeepsCustody DEF Kept
  <2>2. ASSUME NEW r \in ReservationIds, Pickup(r) PROVE Kept
    BY <2>2, PickupKeepsCustody DEF Kept
  <2>3. ASSUME NEW l \in LoanIds, ReturnLoan(l) PROVE Kept
    BY <2>3, ReturnKeepsCustody DEF Kept
  <2>4. ASSUME NEW l \in LoanIds, CarefulUndo(l) PROVE Kept
    BY <2>4, UndoKeepsCustody DEF Kept
  <2>5. ASSUME NEW u \in Readers, NEW b \in Books, CreateReservation(u, b)
        PROVE  Kept
    BY <2>5, ReserveKeepsCustody DEF Kept
  <2>6. ASSUME NEW r \in ReservationIds, CancelReservation(r) PROVE Kept
    BY <2>6, CancelKeepsCustody DEF Kept
  <2>7. ASSUME NEW r \in ReservationIds, RestoreReservation(r) PROVE Kept
    BY <2>7, RestoreKeepsCustody DEF Kept
  <2> QED
    BY <1>4, <1>5, <1>6, <1>7, <1>8, <1>9, <2>1, <2>2, <2>3, <2>4, <2>5, <2>6, <2>7
    DEF CarefulNext, DeskNext
<1> QED
  BY <1>1, <1>10
  DEF CustodyInv, Custody, CustodyOf, ReservationShape, Shape, LoansNamed

\* At the start no copy is out, and nothing has been lent or reserved.
LEMMA CustodyInit == Init => CustodyInv
<1> SUFFICES ASSUME Init PROVE CustodyInv
  OBVIOUS
<1>1. TypeOK
  BY TypeInit
<1>2. /\ \A l \in LoanIds : loans[l].status = "none"
      /\ \A r \in ReservationIds : /\ reservations[r].status = "none"
                                   /\ reservations[r].copy = None
      /\ \A c \in Copies : copyState[c] \in {"available", "absent"}
  BY DEF Init, NoLoan, NoReservation
<1>3. \A c \in Copies : LoansOn(c) = {} /\ ReadyOn(c) = {}
  BY <1>2 DEF LoansOn, ReadyOn, ReadyIn
<1>4. \A c \in Copies : CustodyOf(c)
  BY <1>2, <1>3 DEF CustodyOf
<1>5. Shape(reservations) /\ LoansNamed
  BY <1>2 DEF Shape, LoansNamed
<1> QED
  BY <1>1, <1>4, <1>5, CustodyInvParts

\* However carefully run libraries lend, return, undo, reserve, cancel, restore
\* and shelve, a copy is borrowed exactly while one loan of it is open and
\* reserved exactly while one reservation is READY on it, with what makes this
\* inductive.
THEOREM CustodyInvariant == CarefulSpec => []CustodyInv
  BY CustodyInit, CustodyStep, PTL DEF CarefulSpec

\* The part of it that readers and librarians see.
THEOREM CustodyHolds == CarefulSpec => []Custody
<1>1. CustodyInv => Custody
  BY DEF CustodyInv
<1> QED
  BY <1>1, CustodyInvariant, PTL

-----------------------------------------------------------------------------
(* History *)

\* Promotion rewrites waiting reservations only.
LEMMA PromotionIsOfWaiting ==
    ASSUME NEW res \in [ReservationIds -> Reservation],
           NEW c \in Copies \cup {None}, NEW readers,
           NEW r \in ReservationIds, res[r].status # "active"
    PROVE  Promoted(res, c, readers)[r] = res[r]
<1>1. \/ \A s \in ReservationIds : LeftOrExpired(res, Promoted(res, c, readers), s)
      \/ \E s \in ReservationIds : Served(res, Promoted(res, c, readers), c, s)
  BY PromotedRows
<1> QED
  BY <1>1 DEF LeftOrExpired, Served

\* No request writes a reservation that was fulfilled or has expired.
LEMMA HistoryStep ==
    ASSUME TypeOK, [Next]_vars, NEW r \in ReservationIds,
           reservations[r].status \in {"fulfilled", "expired"}
    PROVE  reservations'[r] = reservations[r]
<1> DEFINE Kept == reservations'[r] = reservations[r]
<1>rows. \A s \in ReservationIds : reservations[s] \in Reservation
  BY DEF TypeOK
<1>1. ASSUME NEW s \in ReservationIds, Pickup(s) PROVE Kept
  <2>1. reservations[s].status = "ready"
    BY <1>1 DEF Pickup, PickupWith, CanPickUp
  <2>2. reservations' = [reservations EXCEPT ![s].status = "fulfilled"]
    BY <1>1 DEF Pickup, PickupWith
  <2> QED
    BY <2>1, <2>2 DEF TypeOK
<1>2. ASSUME NEW l \in LoanIds, ReturnLoan(l) PROVE Kept
  <2>1. loans[l].copy \in Copies \cup {None}
    BY DEF TypeOK, Loan
  <2>2. reservations' = Promoted(reservations, loans[l].copy, SeenLoan(l).readers)
    BY <1>2 DEF ReturnLoan, ReturnWith, PromoteCopy
  <2> QED
    BY <2>1, <2>2, PromotionIsOfWaiting DEF TypeOK
<1>3. ASSUME NEW l \in LoanIds, UndoReturn(l) PROVE Kept
  <2>1. r \notin ReadyOn(loans[l].copy)
    BY DEF ReadyOn, ReadyIn
  <2> QED
    BY <1>3, <2>1 DEF UndoReturn, UndoReturnWith
<1>4. ASSUME NEW u \in Readers, NEW b \in Books, CreateReservation(u, b) PROVE Kept
  <2>1. PICK s \in UnusedReservations :
          reservations' = [reservations EXCEPT ![s] =
               [book |-> b, reader |-> u, copy |-> None, status |-> "active"]]
    BY <1>4, OldestInSet, CirculationAssumption
    DEF CreateReservation, ReserveWith, UnusedReservations
  <2>2. s # r
    BY DEF UnusedReservations
  <2> QED
    BY <2>1, <2>2 DEF TypeOK
<1>5. ASSUME NEW s \in ReservationIds, CancelReservation(s) PROVE Kept
  <2> DEFINE cancelled == [reservations EXCEPT ![s].status = "cancelled"]
             seen == SeenReservation(s)
  <2>1. s # r
    BY <1>5 DEF CancelReservation, CancelWith, SeenReservation, OpenStatus
  <2>2. /\ cancelled \in [ReservationIds -> Reservation]
        /\ cancelled[r] = reservations[r]
    BY <2>1, <1>rows, StatusType DEF TypeOK, ReservationStatus
  <2>3. seen.row.copy \in Copies \cup {None}
    BY <1>rows DEF SeenReservation, Reservation
  <2>4. \/ reservations' = Promoted(cancelled, seen.row.copy, seen.readers)
        \/ reservations' = cancelled
    BY <1>5 DEF CancelReservation, CancelWith, PromoteCopy
  <2> HIDE DEF cancelled, seen
  <2>5. cancelled[r].status # "active"
    BY <2>2
  <2>6. Promoted(cancelled, seen.row.copy, seen.readers)[r] = cancelled[r]
    BY <2>2, <2>3, <2>5, PromotionIsOfWaiting
  <2> QED
    BY <2>2, <2>4, <2>6
<1>6. ASSUME NEW s \in ReservationIds, RestoreReservation(s) PROVE Kept
  <2>1. s # r
    BY <1>6 DEF RestoreReservation, RestoreWith, SeenReservation
  <2>2. \A c : r \notin ReadyOn(c)
    BY DEF ReadyOn, ReadyIn
  <2>3. CASE RestoreReady(s, SeenReservation(s))
    BY <2>1, <2>2, <2>3 DEF RestoreReady
  <2>4. CASE RestoreWaiting(s, SeenReservation(s))
    BY <2>1, <2>4 DEF RestoreWaiting, TypeOK
  <2> QED
    BY <1>6, <2>3, <2>4 DEF RestoreReservation, RestoreWith
<1>7. ASSUME UNCHANGED reservations PROVE Kept
  BY <1>7
<1> QED
  <2> HIDE DEF Kept
  <2>1. ASSUME NEW c \in Copies, NEW u \in Readers, Lend(c, u) PROVE Kept
    BY <2>1, <1>7 DEF Lend, LendWith
  <2>2. ASSUME NEW c \in Copies, NEW new \in BooksStates,
               PatchCopy(c, new) \/ CreateCopy(c, new)
        PROVE  Kept
    BY <2>2, <1>7 DEF PatchCopy, PatchWith, CreateCopy
  <2>3. ASSUME NEW c \in Copies, DeleteCopy(c) PROVE Kept
    BY <2>3, <1>7 DEF DeleteCopy
  <2>4. ASSUME NEW u \in Readers, DeactivateReader(u) PROVE Kept
    BY <2>4, <1>7 DEF DeactivateReader
  <2>5. ASSUME NEW b \in Books, DeactivateBook(b) PROVE Kept
    BY <2>5, <1>7 DEF DeactivateBook
  <2>6. ASSUME UNCHANGED vars PROVE Kept
    BY <2>6, <1>7 DEF vars
  <2>7. Kept
    BY <1>1, <1>2, <1>3, <1>4, <1>5, <1>6, <2>1, <2>2, <2>3, <2>4, <2>5, <2>6
    DEF Next, DeskNext
  <2> QED
    BY <2>7 DEF Kept

\* Whatever the routes accept, a reservation that was fulfilled or has expired is
\* never written again.
THEOREM HistoryStays == Spec => HistoryIsFinal
<1>1. TypeOK /\ [Next]_vars =>
        [\A r \in ReservationIds :
           reservations[r].status \in {"fulfilled", "expired"}
           => reservations'[r] = reservations[r]]_vars
  BY HistoryStep
<1> QED
  BY <1>1, TypeCorrect, PTL DEF Spec, HistoryIsFinal

-----------------------------------------------------------------------------
(***************************************************************************)
(* What the tables keep whatever the routes accept, undone returns,        *)
(* restored reservations and copies moved by hand included: a fulfilled    *)
(* reservation is answered by a loan, and only a READY one holds a copy.   *)
(***************************************************************************)

TableInv ==
    /\ TypeOK
    /\ LoansNamed
    /\ Shape(reservations)
    /\ FulfilledByLoan

-----------------------------------------------------------------------------
(* Loans *)

\* A loan once entered keeps its copy and its reader for ever.
LEMMA LoansKept ==
    ASSUME TypeOK, [Next]_vars, NEW l \in LoanIds, loans[l].status # "none"
    PROVE  /\ loans'[l].copy = loans[l].copy
           /\ loans'[l].reader = loans[l].reader
           /\ loans'[l].status # "none"
<1> DEFINE Kept == /\ loans'[l].copy = loans[l].copy
                   /\ loans'[l].reader = loans[l].reader
                   /\ loans'[l].status # "none"
<1>1. ASSUME NEW c, NEW u, AddLoan(c, u) PROVE Kept
  <2>1. Oldest(UnusedLoans) \in UnusedLoans
    BY <1>1, OldestInSet, CirculationAssumption DEF AddLoan, UnusedLoans
  <2>2. l # Oldest(UnusedLoans)
    BY <2>1 DEF UnusedLoans
  <2>3. loans'[l] = loans[l]
    BY <1>1, <2>2 DEF AddLoan, TypeOK
  <2> QED
    BY <2>3
<1>2. ASSUME NEW m \in LoanIds, NEW status \in {"active", "returned"},
             loans' = [loans EXCEPT ![m].status = status]
      PROVE  Kept
  BY <1>2 DEF TypeOK, Loan
<1>3. ASSUME UNCHANGED loans PROVE Kept
  BY <1>3
<1>4. ASSUME NEW c \in Copies, NEW u \in Readers, Lend(c, u) PROVE Kept
  BY <1>1, <1>4 DEF Lend, LendWith
<1>5. ASSUME NEW r \in ReservationIds, Pickup(r) PROVE Kept
  BY <1>1, <1>5 DEF Pickup, PickupWith
<1>6. ASSUME NEW m \in LoanIds, ReturnLoan(m) \/ UndoReturn(m) PROVE Kept
  BY <1>2, <1>6 DEF ReturnLoan, ReturnWith, UndoReturn, UndoReturnWith
<1> QED
  BY <1>3, <1>4, <1>5, <1>6
  DEF Next, DeskNext, CreateReservation, ReserveWith, CancelReservation, CancelWith,
      RestoreReservation, RestoreWith, PatchCopy, PatchWith, CreateCopy, DeleteCopy,
      DeactivateReader, DeactivateBook, vars

\* Every loan that is entered names its copy and its reader.
LEMMA LoansNamedStep ==
    ASSUME TypeOK, LoansNamed, [Next]_vars
    PROVE  LoansNamed'
<1>1. ASSUME NEW c \in Copies, NEW u \in Readers, AddLoan(c, u) PROVE LoansNamed'
  BY <1>1, LoanEntered
<1>2. ASSUME NEW c \in Copies, NEW u \in Readers, Lend(c, u) PROVE LoansNamed'
  BY <1>1, <1>2 DEF Lend, LendWith
<1>3. ASSUME NEW r \in ReservationIds, Pickup(r) PROVE LoansNamed'
  <2>1. /\ reservations[r].copy \in Copies /\ reservations[r].reader \in Readers
        /\ AddLoan(reservations[r].copy, reservations[r].reader)
    BY <1>3 DEF Pickup, PickupWith, CanPickUp, SeenReaders, TypeOK, Reservation
  <2> QED
    BY <1>1, <2>1
<1>4. ASSUME NEW m \in LoanIds, ReturnLoan(m) \/ UndoReturn(m) PROVE LoansNamed'
  <2>1. /\ loans[m].status # "none"
        /\ \E status \in {"active", "returned"} :
              loans' = [loans EXCEPT ![m].status = status]
    BY <1>4 DEF ReturnLoan, ReturnWith, UndoReturn, UndoReturnWith, SeenLoan
  <2> QED
    BY <2>1, LoanOfCopy, LoanStatusWritten
<1>5. ASSUME UNCHANGED loans PROVE LoansNamed'
  BY <1>5 DEF LoansNamed
<1> QED
  BY <1>2, <1>3, <1>4, <1>5
  DEF Next, DeskNext, CreateReservation, ReserveWith, CancelReservation, CancelWith,
      RestoreReservation, RestoreWith, PatchCopy, PatchWith, CreateCopy, DeleteCopy,
      DeactivateReader, DeactivateBook, vars

-----------------------------------------------------------------------------
(* Reservations *)

\* One row, and what a step makes of it: left as it is, or with its copy and
\* status in order.
RowFine(new) ==
    /\ new.status = "active" => new.copy = None
    /\ new.status = "ready" => new.copy # None
    /\ new.copy # None => BookOf[new.copy] = new.book

NotFulfilled(old, new) == new.status = "fulfilled" => old.status = "fulfilled"

\* Promotion fulfils nothing and leaves every row in order.
LEMMA PromotionRows ==
    ASSUME NEW res \in [ReservationIds -> Reservation], NEW c \in Copies,
           NEW readers, Shape(res), NEW r \in ReservationIds
    PROVE  /\ RowFine(Promoted(res, c, readers)[r])
           /\ NotFulfilled(res[r], Promoted(res, c, readers)[r])
<1> DEFINE new == Promoted(res, c, readers)[r]
<1>0. c # None /\ res[r] \in Reservation
  BY CirculationAssumption
<1>1. \/ LeftOrExpired(res, Promoted(res, c, readers), r)
      \/ /\ res[r].book = BookOf[c]
         /\ new = Mark(res[r], c, "ready")
  BY PromotedRows DEF Served
<1>2. CASE new = res[r]
  BY <1>2 DEF Shape, RowFine, NotFulfilled
<1>3. CASE res[r].status = "active" /\ new = [res[r] EXCEPT !.status = "expired"]
  <2>1. new.status = "expired" /\ new.copy = res[r].copy /\ new.book = res[r].book
    BY <1>0, <1>3, StatusType DEF ReservationStatus
  <2> QED
    BY <2>1 DEF Shape, RowFine, NotFulfilled
<1>4. CASE res[r].book = BookOf[c] /\ new = Mark(res[r], c, "ready")
  BY <1>0, <1>4 DEF Mark, RowFine, NotFulfilled
<1> QED
  BY <1>1, <1>2, <1>3, <1>4 DEF LeftOrExpired

\* Every request leaves every row in order, and only a pickup fulfils one.
LEMMA RowStep ==
    ASSUME TypeOK, LoansNamed, Shape(reservations), [Next]_vars,
           NEW r \in ReservationIds
    PROVE  /\ RowFine(reservations'[r])
           /\ NotFulfilled(reservations[r], reservations'[r]) \/ Pickup(r)
<1> DEFINE Goal == /\ RowFine(reservations'[r])
                   /\ NotFulfilled(reservations[r], reservations'[r]) \/ Pickup(r)
<1>rows. \A s \in ReservationIds : /\ reservations[s] \in Reservation
                                   /\ RowFine(reservations[s])
  BY DEF TypeOK, Shape, RowFine
<1>same. ASSUME reservations'[r] = reservations[r] PROVE Goal
  BY <1>rows, <1>same DEF NotFulfilled
<1>closed. ASSUME NEW s \in ReservationIds,
                  NEW status \in ReservationStatus \ OpenStatus,
                  NEW res, res = [reservations EXCEPT ![s].status = status]
           PROVE  /\ res \in [ReservationIds -> Reservation]
                  /\ Shape(res)
                  /\ res[r] = reservations[r] \/ (r = s /\ res[r].status = status)
  <2>1. /\ res \in [ReservationIds -> Reservation]
        /\ res[s].status = status
        /\ res[s].copy = reservations[s].copy
        /\ res[s].book = reservations[s].book
        /\ \A t \in ReservationIds \ {s} : res[t] = reservations[t]
    BY <1>closed, <1>rows, StatusType DEF TypeOK
  <2> QED
    BY <2>1 DEF Shape, OpenStatus
<1>1. ASSUME NEW c \in Copies, NEW u \in Readers, Lend(c, u) PROVE Goal
  BY <1>1, <1>same DEF Lend, LendWith
<1>2. ASSUME NEW s \in ReservationIds, Pickup(s) PROVE Goal
  <2>1. reservations' = [reservations EXCEPT ![s].status = "fulfilled"]
    BY <1>2 DEF Pickup, PickupWith
  <2>2. /\ Shape(reservations')
        /\ reservations'[r] = reservations[r] \/ r = s
    BY <2>1, <1>closed DEF ReservationStatus, OpenStatus
  <2> QED
    BY <1>2, <1>same, <2>2 DEF Shape, RowFine
<1>3. ASSUME NEW l \in LoanIds, ReturnLoan(l) PROVE Goal
  <2>1. PICK c \in Copies : c = loans[l].copy
    BY <1>3, LoanOfCopy DEF ReturnLoan, ReturnWith, SeenLoan
  <2>2. PICK readers : reservations' = Promoted(reservations, c, readers)
    BY <1>3, <2>1 DEF ReturnLoan, ReturnWith, PromoteCopy
  <2> QED
    BY <2>2, PromotionRows DEF TypeOK
<1>4. ASSUME NEW l \in LoanIds, UndoReturn(l) PROVE Goal
  <2>1. \/ reservations'[r] = reservations[r]
        \/ reservations'[r] = Mark(reservations[r], None, "active")
    BY <1>4 DEF UndoReturn, UndoReturnWith
  <2> QED
    BY <1>same, <2>1 DEF Mark, RowFine, NotFulfilled
<1>5. ASSUME NEW u \in Readers, NEW b \in Books, CreateReservation(u, b) PROVE Goal
  <2>1. \/ reservations'[r] = reservations[r]
        \/ reservations'[r] = [book |-> b, reader |-> u, copy |-> None,
                               status |-> "active"]
    BY <1>5 DEF CreateReservation, ReserveWith, TypeOK
  <2> QED
    BY <1>same, <2>1 DEF RowFine, NotFulfilled
<1>6. ASSUME NEW s \in ReservationIds, CancelReservation(s) PROVE Goal
  <2> DEFINE cancelled == [reservations EXCEPT ![s].status = "cancelled"]
  <2>0. /\ cancelled \in [ReservationIds -> Reservation]
        /\ Shape(cancelled)
        /\ cancelled[r] = reservations[r] \/ cancelled[r].status = "cancelled"
    <3>1. "cancelled" \in ReservationStatus \ OpenStatus
      BY DEF ReservationStatus, OpenStatus
    <3> QED
      BY <1>closed, <3>1
  <2>1. /\ cancelled \in [ReservationIds -> Reservation]
        /\ Shape(cancelled)
        /\ NotFulfilled(reservations[r], cancelled[r])
    BY <2>0 DEF NotFulfilled
  <2>2. \/ reservations' = cancelled
        \/ /\ reservations[s].copy # None
           /\ PromoteCopy(cancelled, reservations[s].copy, SeenReservation(s))
    BY <1>6 DEF CancelReservation, CancelWith, SeenReservation, HasCopy
  <2> HIDE DEF cancelled
  <2>3. CASE reservations' = cancelled
    BY <2>1, <2>3 DEF Shape, RowFine
  <2>4. CASE /\ reservations[s].copy # None
             /\ PromoteCopy(cancelled, reservations[s].copy, SeenReservation(s))
    <3>1. PICK c \in Copies : c = reservations[s].copy
      BY <1>rows, <2>4 DEF Reservation
    <3>2. PICK readers : reservations' = Promoted(cancelled, c, readers)
      BY <2>4, <3>1 DEF PromoteCopy
    <3>3. RowFine(reservations'[r]) /\ NotFulfilled(cancelled[r], reservations'[r])
      BY <2>1, <3>2, PromotionRows
    <3> QED
      BY <2>1, <3>3 DEF NotFulfilled
  <2> QED
    BY <2>2, <2>3, <2>4
<1>7. ASSUME NEW s \in ReservationIds, RestoreReservation(s) PROVE Goal
  <2>1. CASE RestoreReady(s, SeenReservation(s))
    <3>1. \/ reservations'[r] = reservations[r]
          \/ reservations'[r] = Mark(reservations[r], None, "active")
          \/ /\ r = s /\ reservations[r].copy # None
             /\ reservations'[r] = [reservations[r] EXCEPT !.status = "ready"]
      BY <2>1 DEF RestoreReady, HasCopy, SeenReservation
    <3>2. CASE /\ r = s /\ reservations[r].copy # None
               /\ reservations'[r] = [reservations[r] EXCEPT !.status = "ready"]
      <4>1. /\ reservations'[r].status = "ready"
            /\ reservations'[r].copy = reservations[r].copy
            /\ reservations'[r].book = reservations[r].book
        BY <1>rows, <3>2, StatusType DEF ReservationStatus
      <4> QED
        BY <1>rows, <3>2, <4>1 DEF RowFine, NotFulfilled
    <3>3. CASE reservations'[r] = Mark(reservations[r], None, "active")
      BY <3>3 DEF Mark, RowFine, NotFulfilled
    <3> QED
      BY <1>same, <3>1, <3>2, <3>3
  <2>2. CASE RestoreWaiting(s, SeenReservation(s))
    <3>1. \/ reservations'[r] = reservations[r]
          \/ reservations'[r] = Mark(reservations[r], None, "active")
      BY <2>2 DEF RestoreWaiting, SeenReservation, TypeOK
    <3> QED
      BY <1>same, <3>1 DEF Mark, RowFine, NotFulfilled
  <2> QED
    BY <1>7, <2>1, <2>2 DEF RestoreReservation, RestoreWith
<1>8. ASSUME UNCHANGED reservations PROVE Goal
  BY <1>8, <1>same
<1> QED
  BY <1>1, <1>2, <1>3, <1>4, <1>5, <1>6, <1>7, <1>8
  DEF Next, DeskNext, PatchCopy, PatchWith, CreateCopy, DeleteCopy,
      DeactivateReader, DeactivateBook, vars

-----------------------------------------------------------------------------
(* The tables *)

\* A pickup enters the loan that answers its reservation.
LEMMA PickupIsLoan ==
    ASSUME TypeOK, NEW r \in ReservationIds, Pickup(r)
    PROVE  \E l \in LoanIds : /\ loans'[l].copy = reservations'[r].copy
                              /\ loans'[l].reader = reservations'[r].reader
                              /\ loans'[l].status # "none"
<1>1. PICK l \in LoanIds :
        loans' = [loans EXCEPT ![l] = [copy |-> reservations[r].copy,
                                       reader |-> reservations[r].reader,
                                       status |-> "active"]]
  BY OldestInSet, CirculationAssumption DEF Pickup, PickupWith, AddLoan, UnusedLoans
<1>2. reservations' = [reservations EXCEPT ![r].status = "fulfilled"]
  BY DEF Pickup, PickupWith
<1>3. /\ reservations'[r].copy = reservations[r].copy
      /\ reservations'[r].reader = reservations[r].reader
  BY <1>2, StatusType DEF TypeOK, ReservationStatus
<1> QED
  BY <1>1, <1>3 DEF TypeOK

\* Whatever the routes accept keeps the tables in order.
LEMMA TableStep == TableInv /\ [Next]_vars => TableInv'
<1> SUFFICES ASSUME TableInv, [Next]_vars PROVE TableInv'
  OBVIOUS
<1> USE DEF TableInv
<1>1. TypeOK'
  BY TypeStep
<1>2. LoansNamed'
  BY LoansNamedStep
<1>3. Shape(reservations)'
  BY RowStep DEF Shape, RowFine
<1>4. FulfilledByLoan'
  <2> SUFFICES ASSUME NEW r \in ReservationIds, reservations'[r].status = "fulfilled"
               PROVE  \E l \in LoanIds : /\ loans'[l].copy = reservations'[r].copy
                                         /\ loans'[l].reader = reservations'[r].reader
                                         /\ loans'[l].status # "none"
    BY DEF FulfilledByLoan
  <2>1. CASE reservations[r].status = "fulfilled"
    <3>1. reservations'[r] = reservations[r]
      BY <2>1, HistoryStep
    <3>2. PICK l \in LoanIds : /\ loans[l].copy = reservations[r].copy
                               /\ loans[l].reader = reservations[r].reader
                               /\ loans[l].status # "none"
      BY <2>1 DEF FulfilledByLoan
    <3> QED
      BY <3>1, <3>2, LoansKept
  <2>2. CASE reservations[r].status # "fulfilled"
    BY <2>2, RowStep, PickupIsLoan DEF NotFulfilled
  <2> QED
    BY <2>1, <2>2
<1> QED
  BY <1>1, <1>2, <1>3, <1>4

\* The empty tables are in order.
LEMMA TableInit == Init => TableInv
<1> SUFFICES ASSUME Init PROVE TableInv
  OBVIOUS
<1>1. /\ \A l \in LoanIds : loans[l].status = "none"
      /\ \A r \in ReservationIds : /\ reservations[r].status = "none"
                                   /\ reservations[r].copy = None
  BY DEF Init, NoLoan, NoReservation
<1> QED
  BY <1>1, TypeInit DEF TableInv, LoansNamed, Shape, FulfilledByLoan

\* Whatever the routes accept, the tables stay in order.
THEOREM TablesInOrder == Spec => []TableInv
  BY TableInit, TableStep, PTL DEF Spec

\* Whatever the routes accept, a fulfilled reservation is answered by a loan
\* of its copy to its reader.
THEOREM FulfilmentIsLoan == Spec => []FulfilledByLoan
<1>1. TableInv => FulfilledByLoan
  BY DEF TableInv
<1> QED
  BY <1>1, TablesInOrder, PTL

\* Whatever the routes accept, only a READY reservation of the right title
\* holds a copy among the open ones.
THEOREM OnlyReadyHolds == Spec => []ReservationShape
<1>1. TableInv => ReservationShape
  BY DEF TableInv, Shape, ReservationShape
<1> QED
  BY <1>1, TablesInOrder, PTL

-----------------------------------------------------------------------------
(***************************************************************************)
(* Careful circulation implements CopyCustody: what the three tables say   *)
(* of a copy moves only as the custody of a copy may.                      *)
(***************************************************************************)

\* Rows that were never entered name no copy; the entered ones name readers.
Named ==
    /\ \A l \in LoanIds : loans[l].status = "none" => loans[l].copy = None
    /\ \A r \in ReservationIds :
          reservations[r].status # "none" => reservations[r].reader # None

RefinementInv == CustodyInv /\ Named

\* What the tables say of where a copy is.
PlaceShown(c) ==
    /\ copyState[c] = "available" => PlaceOf(c) = [at |-> "shelf", reader |-> None]
    /\ \A r \in ReadyOn(c) :
          PlaceOf(c) = [at |-> "kept", reader |-> reservations[r].reader]
    /\ \A l \in LoansOn(c) : PlaceOf(c) = [at |-> "lent", reader |-> loans[l].reader]
    /\ copyState[c] \notin {"available", "reserved", "borrowed"} =>
          PlaceOf(c) = [at |-> "off", reader |-> None]

\* The step concerns at most the copies of S.
Concerns(S) ==
    /\ \A d \in Copies \ S : copyState'[d] = copyState[d]
    /\ \A l \in LoanIds :
          loans[l].status = "active" /\ loans[l].copy \notin S => loans'[l] = loans[l]
    /\ \A r \in ReservationIds :
          reservations[r].status = "ready" /\ reservations[r].copy \notin S
          => reservations'[r] = reservations[r]

\* No row of loans changes its copy or its reader.
SamePast ==
    \A l \in LoanIds :
        loans'[l].copy = loans[l].copy /\ loans'[l].reader = loans[l].reader

-----------------------------------------------------------------------------
(* The mapping *)

\* Custody makes the place of a copy a matter of one row.
LEMMA PlaceNow == \A c \in Copies : CustodyOf(c) => PlaceShown(c)
<1> SUFFICES ASSUME NEW c \in Copies, CustodyOf(c) PROVE PlaceShown(c)
  OBVIOUS
<1>1. copyState[c] = "available" => PlaceOf(c) = [at |-> "shelf", reader |-> None]
  BY DEF PlaceOf
<1>2. ASSUME NEW r \in ReadyOn(c)
      PROVE  PlaceOf(c) = [at |-> "kept", reader |-> reservations[r].reader]
  <2>1. (CHOOSE i \in ReadyOn(c) : TRUE) = r
    BY <1>2 DEF CustodyOf
  <2>2. copyState[c] = "reserved"
    BY <1>2 DEF CustodyOf
  <2> QED
    BY <2>1, <2>2 DEF PlaceOf, ReaderOf
<1>3. ASSUME NEW l \in LoansOn(c)
      PROVE  PlaceOf(c) = [at |-> "lent", reader |-> loans[l].reader]
  <2>1. (CHOOSE i \in LoansOn(c) : TRUE) = l
    BY <1>3 DEF CustodyOf
  <2>2. copyState[c] = "borrowed"
    BY <1>3 DEF CustodyOf
  <2> QED
    BY <2>1, <2>2 DEF PlaceOf, ReaderOf
<1>4. copyState[c] \notin {"available", "reserved", "borrowed"} =>
        PlaceOf(c) = [at |-> "off", reader |-> None]
  BY DEF PlaceOf
<1> QED
  BY <1>1, <1>2, <1>3, <1>4 DEF PlaceShown

\* Before and after a step.
LEMMA PlaceThen == \A c \in Copies : CustodyOf(c)' => PlaceShown(c)'
<1>1. (\A c \in Copies : CustodyOf(c) => PlaceShown(c))'
  BY PlaceNow, PTL
<1> QED
  BY <1>1

\* The copies a step does not concern stay where they are.
LEMMA OthersStay ==
    ASSUME CustodyInv, CustodyInv', NEW S, Concerns(S), NEW d \in Copies \ S
    PROVE  PlaceOf(d)' = PlaceOf(d)
<1>1. /\ CustodyOf(d) /\ CustodyOf(d)'
      /\ PlaceShown(d) /\ PlaceShown(d)'
      /\ copyState'[d] = copyState[d]
  BY PlaceNow, PlaceThen DEF CustodyInv, Custody, CustodyOf, Concerns
<1>2. CASE copyState[d] = "reserved"
  <2>1. PICK r \in ReadyOn(d) : TRUE
    BY <1>1, <1>2 DEF CustodyOf
  <2>2. reservations'[r] = reservations[r]
    BY <2>1 DEF Concerns, ReadyOn, ReadyIn
  <2>3. r \in ReadyOn(d)'
    BY <2>1, <2>2 DEF ReadyOn, ReadyIn
  <2> QED
    BY <1>1, <2>1, <2>2, <2>3 DEF PlaceShown
<1>3. CASE copyState[d] = "borrowed"
  <2>1. PICK l \in LoansOn(d) : TRUE
    BY <1>1, <1>3 DEF CustodyOf
  <2>2. loans'[l] = loans[l]
    BY <2>1 DEF Concerns, LoansOn
  <2>3. l \in LoansOn(d)'
    BY <2>1, <2>2 DEF LoansOn
  <2> QED
    BY <1>1, <2>1, <2>2, <2>3 DEF PlaceShown
<1> QED
  BY <1>1, <1>2, <1>3 DEF PlaceShown

\* The readers who have had a copy stay those.
LEMMA PastStays ==
    ASSUME SamePast
    PROVE  [c \in Copies |-> PastReaders(c)]' = [c \in Copies |-> PastReaders(c)]
  BY DEF SamePast, PastReaders

\* A step that concerns one copy moves its place only.
LEMMA OnePlace ==
    ASSUME CustodyInv, CustodyInv', NEW c \in Copies, Concerns({c}),
           NEW place, PlaceOf(c)' = place
    PROVE  [d \in Copies |-> PlaceOf(d)]' =
               [[d \in Copies |-> PlaceOf(d)] EXCEPT ![c] = place]
<1>1. \A d \in Copies \ {c} : PlaceOf(d)' = PlaceOf(d)
  BY OthersStay
<1> QED
  BY <1>1

-----------------------------------------------------------------------------
(* What a step of the tables is to the custody of one copy *)

Promise == [Abstract!Next]_(Abstract!vars)

\* Nothing happens to any copy.
LEMMA NothingMoves ==
    ASSUME CustodyInv, CustodyInv', Concerns({}), SamePast
    PROVE  Promise
<1>1. [c \in Copies |-> PlaceOf(c)]' = [c \in Copies |-> PlaceOf(c)]
  BY OthersStay
<1> QED
  BY <1>1, PastStays DEF Promise, Abstract!vars

\* A copy comes back, or goes between the shelf and the store.
LEMMA Shelved ==
    ASSUME CustodyInv, CustodyInv', NEW c \in Copies, Concerns({c}), SamePast,
           \/ copyState'[c] = "available"
           \/ /\ copyState[c] \notin {"borrowed", "reserved"}
              /\ copyState'[c] \notin {"borrowed", "reserved"}
    PROVE  Promise
<1>1. PlaceShown(c) /\ PlaceShown(c)'
  BY PlaceNow, PlaceThen DEF CustodyInv, Custody, CustodyOf
<1>2. CASE copyState'[c] = "available"
  <2>1. PlaceOf(c)' = Abstract!Shelf
    BY <1>1, <1>2 DEF PlaceShown, Abstract!Shelf
  <2>2. Abstract!PutOnShelf(c)
    BY <2>1, OnePlace, PastStays DEF Abstract!PutOnShelf
  <2> QED
    BY <2>2 DEF Promise, Abstract!Next
<1>3. CASE copyState[c] = "available" /\ copyState'[c] # "available"
  <2>1. PlaceOf(c) = Abstract!Shelf /\ PlaceOf(c)' = Abstract!Off
    BY <1>1, <1>3 DEF PlaceShown, Abstract!Shelf, Abstract!Off
  <2>2. Abstract!TakeOff(c)
    BY <2>1, OnePlace, PastStays DEF Abstract!TakeOff
  <2> QED
    BY <2>2 DEF Promise, Abstract!Next
<1>4. CASE copyState[c] # "available" /\ copyState'[c] # "available"
  <2>1. PlaceOf(c)' = PlaceOf(c)
    BY <1>1, <1>4 DEF PlaceShown
  <2>2. [d \in Copies |-> PlaceOf(d)]' = [d \in Copies |-> PlaceOf(d)]
    BY <2>1, OthersStay
  <2> QED
    BY <2>2, PastStays DEF Promise, Abstract!vars
<1> QED
  BY <1>2, <1>3, <1>4

\* A copy that is in the library or with a reader is kept for another.
LEMMA SetAside ==
    ASSUME CustodyInv, CustodyInv', Named', NEW c \in Copies, Concerns({c}), SamePast,
           copyState[c] \in {"available", "borrowed", "reserved"},
           copyState'[c] = "reserved"
    PROVE  Promise
<1>1. /\ PlaceShown(c) /\ PlaceShown(c)'
      /\ CustodyOf(c) /\ CustodyOf(c)'
  BY PlaceNow, PlaceThen DEF CustodyInv, Custody, CustodyOf
<1>2. PICK r \in ReservationIds : r \in ReadyOn(c)'
  BY <1>1 DEF CustodyOf, ReadyOn, ReadyIn
<1>3. PICK u \in Readers : u = reservations'[r].reader
  BY <1>2 DEF Named, ReadyOn, ReadyIn, CustodyInv, TypeOK, Reservation
<1>4. PlaceOf(c)' = Abstract!Kept(u)
  BY <1>1, <1>2, <1>3 DEF PlaceShown, Abstract!Kept
<1>5. PlaceOf(c) # Abstract!Off
  BY <1>1 DEF PlaceShown, CustodyOf, Abstract!Off
<1>6. Abstract!PassOn(c, u)
  BY <1>4, <1>5, OnePlace, PastStays DEF Abstract!PassOn
<1> QED
  BY <1>6 DEF Promise, Abstract!Next

\* A loan is entered: the copy goes to the reader from the shelf or from being
\* kept for her.
LEMMA GivenOut ==
    ASSUME RefinementInv, RefinementInv', NEW c \in Copies, NEW u \in Readers,
           Concerns({c}), AddLoan(c, u),
           \/ copyState[c] = "available"
           \/ \E r \in ReadyOn(c) : reservations[r].reader = u
    PROVE  Promise
<1>1. /\ PlaceShown(c) /\ PlaceShown(c)'
      /\ CustodyInv /\ CustodyInv' /\ TypeOK
  BY PlaceNow, PlaceThen DEF RefinementInv, CustodyInv, Custody, CustodyOf
<1>2. PICK l \in LoanIds :
        /\ loans[l].status = "none"
        /\ loans' = [loans EXCEPT ![l] = [copy |-> c, reader |-> u, status |-> "active"]]
  BY OldestInSet, CirculationAssumption DEF AddLoan, UnusedLoans
<1>3. /\ loans'[l] = [copy |-> c, reader |-> u, status |-> "active"]
      /\ loans[l].copy = None
      /\ \A m \in LoanIds \ {l} : loans'[m] = loans[m]
  BY <1>1, <1>2 DEF TypeOK, RefinementInv, Named
<1>4. PlaceOf(c)' = Abstract!Lent(u)
  BY <1>1, <1>3 DEF PlaceShown, LoansOn, Abstract!Lent
<1>5. PlaceOf(c) \in {Abstract!Shelf, Abstract!Kept(u)}
  BY <1>1 DEF PlaceShown, Abstract!Shelf, Abstract!Kept
<1>6. /\ PastReaders(c)' = PastReaders(c) \cup {u}
      /\ \A d \in Copies \ {c} : PastReaders(d)' = PastReaders(d)
  <2>1. \A d \in Copies, v \in Readers :
          v \in PastReaders(d)' <=> v \in PastReaders(d) \/ (d = c /\ v = u)
    <3> SUFFICES ASSUME NEW d \in Copies, NEW v \in Readers
                 PROVE  v \in PastReaders(d)' <=> v \in PastReaders(d) \/ (d = c /\ v = u)
      OBVIOUS
    <3>1. loans[l].copy # d
      BY <1>3, CirculationAssumption
    <3> QED
      BY <1>3, <3>1 DEF PastReaders
  <2> QED
    BY <2>1 DEF PastReaders
<1>7. Abstract!GiveOut(c, u)
  BY <1>1, <1>4, <1>5, <1>6, OnePlace DEF Abstract!GiveOut
<1> QED
  BY <1>7 DEF Promise, Abstract!Next

\* A return is undone: the copy goes back to a reader who has had it.
LEMMA GivenBack ==
    ASSUME RefinementInv, RefinementInv', NEW l \in LoanIds, NEW c \in Copies,
           c = loans[l].copy, loans[l].status # "none",
           loans' = [loans EXCEPT ![l].status = "active"],
           Concerns({c}), copyState[c] \in {"available", "reserved"}
    PROVE  Promise
<1>1. /\ PlaceShown(c) /\ PlaceShown(c)' /\ CustodyOf(c)
      /\ CustodyInv /\ CustodyInv' /\ TypeOK
  BY PlaceNow, PlaceThen DEF RefinementInv, CustodyInv, Custody, CustodyOf
<1>2. PICK u \in Readers : u = loans[l].reader
  BY CustodyInvParts, <1>1 DEF LoansNamed, TypeOK, Loan
<1>3. /\ SamePast
      /\ loans'[l].status = "active" /\ loans'[l].copy = c /\ loans'[l].reader = u
  BY <1>1, <1>2 DEF SamePast, TypeOK, Loan
<1>4. PlaceOf(c)' = Abstract!Lent(u)
  BY <1>1, <1>3 DEF PlaceShown, LoansOn, Abstract!Lent
<1>5. PlaceOf(c) \in {Abstract!Shelf} \cup {Abstract!Kept(v) : v \in Readers}
  <2>1. CASE copyState[c] = "reserved"
    <3>1. PICK r \in ReservationIds : r \in ReadyOn(c)
      BY <1>1, <2>1 DEF CustodyOf, ReadyOn, ReadyIn
    <3>2. PICK v \in Readers : v = reservations[r].reader
      BY <1>1, <3>1 DEF RefinementInv, Named, ReadyOn, ReadyIn, TypeOK, Reservation
    <3> QED
      BY <1>1, <3>1, <3>2 DEF PlaceShown, Abstract!Kept
  <2>2. CASE copyState[c] = "available"
    BY <1>1, <2>2 DEF PlaceShown, Abstract!Shelf
  <2> QED
    BY <2>1, <2>2
<1>6. u \in PastReaders(c)
  BY <1>2 DEF PastReaders
<1>7. Abstract!Reinstate(c, u)
  BY <1>1, <1>3, <1>4, <1>5, <1>6, OnePlace, PastStays DEF Abstract!Reinstate
<1> QED
  BY <1>7 DEF Promise, Abstract!Next

-----------------------------------------------------------------------------
(* Rows keep naming what they name *)

ReadersNamed(res) ==
    \A r \in ReservationIds : res[r].status # "none" => res[r].reader # None

\* Promotion changes nobody's reservation into another's.
LEMMA PromotionNames ==
    ASSUME NEW res \in [ReservationIds -> Reservation], ReadersNamed(res),
           NEW c \in Copies \cup {None}, NEW readers
    PROVE  ReadersNamed(Promoted(res, c, readers))
<1> DEFINE next == Promoted(res, c, readers)
<1>1. ASSUME NEW r \in ReservationIds, LeftOrExpired(res, next, r)
      PROVE  next[r].status # "none" => next[r].reader # None
  <2>1. next[r] = res[r] \/ (res[r].status = "active" /\ next[r].reader = res[r].reader)
    <3>1. [res[r] EXCEPT !.status = "expired"].reader = res[r].reader
      BY StatusType DEF ReservationStatus
    <3> QED
      BY <1>1, <3>1 DEF LeftOrExpired
  <2> QED
    BY <2>1 DEF ReadersNamed
<1>2. ASSUME NEW s \in ReservationIds, Served(res, next, c, s)
      PROVE  next[s].reader # None
  BY <1>2 DEF Served, Mark, ReadersNamed
<1>3. \/ \A r \in ReservationIds : LeftOrExpired(res, next, r)
      \/ \E s \in ReservationIds : Served(res, next, c, s)
  BY PromotedRows
<1> HIDE DEF next
<1>4. ReadersNamed(next)
  BY <1>1, <1>2, <1>3 DEF Served, ReadersNamed
<1> QED
  BY <1>4 DEF next

\* So does every request.
LEMMA NamedStep ==
    ASSUME CustodyInv, Named, [CarefulNext]_vars
    PROVE  Named'
<1> DEFINE LoansEmpty == \A l \in LoanIds : loans'[l].status = "none" => loans'[l].copy = None
           Marked(next) == \A r \in ReservationIds :
                              /\ next[r].reader = reservations[r].reader
                              /\ reservations[r].status = "none" => next[r].status = "none"
<1>1. /\ TypeOK /\ ReadersNamed(reservations)
      /\ reservations \in [ReservationIds -> Reservation]
  BY DEF CustodyInv, Named, ReadersNamed, TypeOK
<1>2. ASSUME NEW next, Marked(next) PROVE ReadersNamed(next)
  BY <1>1, <1>2 DEF ReadersNamed
<1>3. ASSUME UNCHANGED loans PROVE LoansEmpty
  BY <1>3 DEF Named
<1>4. ASSUME NEW c, NEW u, AddLoan(c, u) PROVE LoansEmpty
  <2>1. Oldest(UnusedLoans) \in LoanIds
    BY <1>4, OldestInSet, CirculationAssumption DEF AddLoan, UnusedLoans
  <2> QED
    BY <1>1, <1>4, <2>1 DEF AddLoan, TypeOK, Named
<1>5. ASSUME NEW l \in LoanIds, NEW status \in {"active", "returned"},
             loans' = [loans EXCEPT ![l].status = status]
      PROVE  LoansEmpty
  BY <1>1, <1>5 DEF TypeOK, Loan, Named
<1>6. ASSUME NEW r \in ReservationIds, reservations[r].status # "none",
             NEW status \in ReservationStatus
      PROVE  Marked([reservations EXCEPT ![r].status = status])
  BY <1>1, <1>6, StatusType
<1>7. ASSUME NEW res \in [ReservationIds -> Reservation], Marked(res),
             NEW c \in Copies \cup {None}, NEW seen, PromoteCopy(res, c, seen)
      PROVE  ReadersNamed(reservations)'
  BY <1>2, <1>7, PromotionNames DEF PromoteCopy, ReadersNamed
<1> DEFINE Good == LoansEmpty /\ ReadersNamed(reservations)'
<1>same. ASSUME UNCHANGED reservations PROVE ReadersNamed(reservations)'
  BY <1>1, <1>same DEF ReadersNamed
<1>11. ASSUME NEW c \in Copies, NEW u \in Readers, Lend(c, u) PROVE Good
  BY <1>4, <1>11, <1>same DEF Lend, LendWith
<1>12. ASSUME NEW r \in ReservationIds, Pickup(r) PROVE Good
  <2>1. ReadersNamed(reservations)'
    BY <1>2, <1>6, <1>12 DEF Pickup, PickupWith, CanPickUp, ReservationStatus, ReadersNamed
  <2> QED
    BY <1>4, <1>12, <2>1 DEF Pickup, PickupWith
<1>13. ASSUME NEW l \in LoanIds, ReturnLoan(l) PROVE Good
  <2>1. loans[l].copy \in Copies \cup {None} /\ Marked(reservations)
    BY <1>1 DEF TypeOK, Loan
  <2>2. ReadersNamed(reservations)'
    BY <1>1, <1>7, <1>13, <2>1 DEF ReturnLoan, ReturnWith
  <2> QED
    BY <1>5, <1>13, <2>2 DEF ReturnLoan, ReturnWith
<1>14. ASSUME NEW l \in LoanIds, UndoReturn(l) PROVE Good
  <2>1. reservations' =
           [r \in ReservationIds |->
               IF r \in ReadyOn(loans[l].copy)
               THEN Mark(reservations[r], None, "active")
               ELSE reservations[r]]
    BY <1>14 DEF UndoReturn, UndoReturnWith
  <2>2. Marked(reservations')
    BY <2>1 DEF Mark, ReadyOn, ReadyIn
  <2>3. ReadersNamed(reservations)'
    BY <1>1, <2>2 DEF ReadersNamed
  <2> QED
    BY <1>5, <1>14, <2>3 DEF UndoReturn, UndoReturnWith
<1>15. ASSUME NEW u \in Readers, NEW b \in Books, CreateReservation(u, b) PROVE Good
  <2>1. Oldest(UnusedReservations) \in ReservationIds
    BY <1>15, OldestInSet, CirculationAssumption
    DEF CreateReservation, ReserveWith, UnusedReservations
  <2>2. ReadersNamed(reservations)'
    BY <1>1, <1>15, <2>1, CirculationAssumption
    DEF CreateReservation, ReserveWith, ReadersNamed, TypeOK
  <2> QED
    BY <1>3, <1>15, <2>2 DEF CreateReservation, ReserveWith
<1>16. ASSUME NEW r \in ReservationIds, CancelReservation(r) PROVE Good
  <2> DEFINE cancelled == [reservations EXCEPT ![r].status = "cancelled"]
  <2>1. /\ reservations[r].status \in OpenStatus /\ UNCHANGED loans
        /\ \/ PromoteCopy(cancelled, reservations[r].copy, SeenReservation(r))
           \/ reservations' = cancelled
    BY <1>16 DEF CancelReservation, CancelWith, SeenReservation
  <2>2. /\ cancelled \in [ReservationIds -> Reservation]
        /\ reservations[r].copy \in Copies \cup {None}
    BY <1>1, StatusType DEF ReservationStatus, Reservation
  <2>5. Marked(cancelled)
    BY <1>6, <2>1 DEF OpenStatus, ReservationStatus
  <2> HIDE DEF cancelled
  <2>3. CASE reservations' = cancelled
    BY <1>2, <1>3, <2>1, <2>3, <2>5 DEF ReadersNamed
  <2>4. CASE PromoteCopy(cancelled, reservations[r].copy, SeenReservation(r))
    BY <1>3, <1>7, <2>1, <2>2, <2>4, <2>5
  <2> QED
    BY <2>1, <2>3, <2>4
<1>17. ASSUME NEW r \in ReservationIds, RestoreReservation(r) PROVE Good
  <2>1. reservations[r].status = "cancelled" /\ UNCHANGED loans
    BY <1>17 DEF RestoreReservation, RestoreWith, SeenReservation
  <2>2. CASE RestoreReady(r, SeenReservation(r))
    <3>1. \A s \in ReservationIds :
            \/ s = r /\ reservations'[s].reader = reservations[r].reader
            \/ /\ reservations[s].status = "ready"
               /\ reservations'[s].reader = reservations[s].reader
            \/ reservations'[s] = reservations[s]
      <4>1. [reservations[r] EXCEPT !.status = "ready"].reader = reservations[r].reader
        BY <1>1, StatusType DEF ReservationStatus
      <4> QED
        BY <2>2, <4>1 DEF RestoreReady, ReadyOn, ReadyIn, Mark
    <3>3. ASSUME NEW s \in ReservationIds, reservations'[s].status # "none"
          PROVE  reservations'[s].reader # None
      <4>1. reservations'[s].reader = reservations[s].reader
        BY <3>1
      <4>2. reservations[s].status # "none"
        BY <2>1, <3>1, <3>3
      <4> QED
        BY <1>1, <4>1, <4>2 DEF ReadersNamed
    <3>4. ReadersNamed(reservations)'
      BY <3>3 DEF ReadersNamed
    <3> QED
      BY <1>3, <2>1, <3>4
  <2>3. CASE RestoreWaiting(r, SeenReservation(r))
    <3>1. PICK copy : reservations' = [reservations EXCEPT ![r] = Mark(@, copy, "active")]
      BY <2>3 DEF RestoreWaiting
    <3>2. ReadersNamed(reservations)'
      BY <1>1, <2>1, <3>1 DEF ReadersNamed, Mark
    <3> QED
      BY <1>3, <2>1, <3>2
  <2> QED
    BY <1>17, <2>2, <2>3 DEF RestoreReservation, RestoreWith
<1>18. ASSUME UNCHANGED <<loans, reservations>> PROVE Good
  BY <1>3, <1>18, <1>same
<1> HIDE DEF Good
<1>19. Good
  BY <1>11, <1>12, <1>13, <1>14, <1>15, <1>16, <1>17, <1>18
  DEF CarefulNext, DeskNext, CarefulUndo, CarefulPatch, PatchCopy, PatchWith,
      CarefulCreate, CreateCopy, DeleteCopy, DeactivateReader, DeactivateBook, vars
<1> QED
  BY <1>19 DEF Good, Named, ReadersNamed

-----------------------------------------------------------------------------
(* What each request is to the custody of copies *)

\* Entering a loan concerns its copy only.
LEMMA LoanConcerns ==
    ASSUME TypeOK, NEW c \in Copies, NEW u, AddLoan(c, u),
           \A r \in ReservationIds :
              reservations[r].status = "ready" /\ reservations[r].copy # c
              => reservations'[r] = reservations[r]
    PROVE  Concerns({c})
<1>1. PICK l \in LoanIds :
        /\ loans[l].status = "none"
        /\ loans' = [loans EXCEPT ![l] = [copy |-> c, reader |-> u, status |-> "active"]]
  BY OldestInSet, CirculationAssumption DEF AddLoan, UnusedLoans
<1>2. \A m \in LoanIds : loans[m].status = "active" => loans'[m] = loans[m]
  BY <1>1 DEF TypeOK
<1>3. \A d \in Copies \ {c} : copyState'[d] = copyState[d]
  BY DEF AddLoan, TypeOK
<1> QED
  BY <1>2, <1>3 DEF Concerns

\* Lending gives a copy out from the shelf.
LEMMA LendPromise ==
    ASSUME RefinementInv, RefinementInv',
           NEW c \in Copies, NEW u \in Readers, Lend(c, u)
    PROVE  Promise
<1>1. AddLoan(c, u) /\ copyState[c] = "available" /\ UNCHANGED reservations
  BY DEF Lend, LendWith
<1>2. Concerns({c})
  BY <1>1, LoanConcerns DEF RefinementInv, CustodyInv
<1> QED
  BY <1>1, <1>2, GivenOut

\* A pickup gives it out to the reader it was kept for.
LEMMA PickupPromise ==
    ASSUME RefinementInv, RefinementInv', NEW r \in ReservationIds, Pickup(r)
    PROVE  Promise
<1>1. TypeOK
  BY DEF RefinementInv, CustodyInv
<1>2. PICK c \in Copies, u \in Readers :
        c = reservations[r].copy /\ u = reservations[r].reader
  BY <1>1 DEF Pickup, PickupWith, CanPickUp, SeenReaders, TypeOK, Reservation
<1>3. /\ AddLoan(c, u) /\ CanPickUp(r)
      /\ reservations' = [reservations EXCEPT ![r].status = "fulfilled"]
  BY <1>2 DEF Pickup, PickupWith
<1>4. r \in ReadyOn(c)
  BY <1>2, <1>3 DEF CanPickUp, ReadyOn, ReadyIn
<1>5. \A s \in ReservationIds \ {r} : reservations'[s] = reservations[s]
  BY <1>1, <1>3 DEF TypeOK
<1>6. Concerns({c})
  BY <1>1, <1>2, <1>3, <1>5, LoanConcerns
<1> QED
  BY <1>2, <1>3, <1>4, <1>6, GivenOut

\* A copy that its reader brings back or gives up goes to the queue: it is
\* shelved or set aside.
LEMMA PassedOnPromise ==
    ASSUME RefinementInv, RefinementInv', NEW c \in Copies,
           copyState[c] \in {"borrowed", "reserved"}, SamePast,
           \A l \in LoanIds :
              loans[l].status = "active" /\ loans[l].copy # c => loans'[l] = loans[l],
           NEW res \in [ReservationIds -> Reservation],
           \A r \in ReservationIds :
              reservations[r].status = "ready" /\ reservations[r].copy # c
              => res[r] = reservations[r],
           NEW seen, seen.state = copyState[c], PromoteCopy(res, c, seen)
    PROVE  Promise
<1> DEFINE next == Promoted(res, c, seen.readers)
           state == PromotedState(res, c, seen.readers)
<1>1. CustodyInv /\ CustodyInv' /\ Named' /\ TypeOK
  BY DEF RefinementInv, CustodyInv
<1>2. \A r \in ReservationIds : res[r].status # "active" => next[r] = res[r]
  BY PromotionIsOfWaiting
<1>3. state \in {"available", "reserved"}
  BY DEF PromotedState
<1>4. reservations' = next /\ WriteState(c, seen, state)
  BY DEF PromoteCopy
<1> HIDE DEF next, state
<1>5. copyState'[c] = state /\ \A d \in Copies \ {c} : copyState'[d] = copyState[d]
  BY <1>1, <1>4 DEF WriteState, TypeOK
<1>6. ASSUME NEW r \in ReservationIds,
             reservations[r].status = "ready", reservations[r].copy # c
      PROVE  reservations'[r] = reservations[r]
  BY <1>2, <1>4, <1>6
<1>7. Concerns({c})
  BY <1>5, <1>6 DEF Concerns
<1>8. CASE state = "available"
  BY <1>1, <1>5, <1>7, <1>8, Shelved
<1>9. CASE state = "reserved"
  BY <1>1, <1>5, <1>7, <1>9, SetAside
<1> QED
  BY <1>3, <1>8, <1>9

\* A return passes a copy on.
LEMMA ReturnPromise ==
    ASSUME RefinementInv, RefinementInv', NEW l \in LoanIds, ReturnLoan(l)
    PROVE  Promise
<1>1. /\ CustodyInv /\ TypeOK /\ LoansNamed
      /\ \A c \in Copies : CustodyOf(c)
  BY CustodyInvParts DEF RefinementInv
<1>2. /\ loans[l].status = "active"
      /\ loans' = [loans EXCEPT ![l].status = "returned"]
      /\ PromoteCopy(reservations, loans[l].copy, SeenLoan(l))
  BY DEF ReturnLoan, ReturnWith, SeenLoan
<1>3. PICK c \in Copies : c = loans[l].copy
  BY <1>1, <1>2, LoanOfCopy
<1>4. copyState[c] = "borrowed"
  BY <1>1, <1>2, <1>3 DEF CustodyOf, LoansOn
<1>5. SeenLoan(l).state = copyState[c]
  BY <1>3, CirculationAssumption DEF SeenLoan
<1>6. SamePast /\ \A m \in LoanIds \ {l} : loans'[m] = loans[m]
  BY <1>1, <1>2 DEF SamePast, TypeOK, Loan
<1>7. reservations \in [ReservationIds -> Reservation]
  BY <1>1 DEF TypeOK
<1>8. \A m \in LoanIds :
        loans[m].status = "active" /\ loans[m].copy # c => loans'[m] = loans[m]
  BY <1>3, <1>6
<1>9. PromoteCopy(reservations, c, SeenLoan(l))
  BY <1>2, <1>3
<1> QED
  BY <1>4, <1>5, <1>6, <1>7, <1>8, <1>9, PassedOnPromise

\* A copy is reclaimed by a reader who has had it.
LEMMA UndoPromise ==
    ASSUME RefinementInv, RefinementInv', NEW l \in LoanIds, CarefulUndo(l)
    PROVE  Promise
<1>1. CustodyInv /\ TypeOK /\ LoansNamed
  BY CustodyInvParts DEF RefinementInv
<1>2. /\ loans[l].status = "returned"
      /\ copyState[loans[l].copy] \in {"available", "reserved"}
      /\ loans' = [loans EXCEPT ![l].status = "active"]
      /\ reservations' =
           [r \in ReservationIds |->
               IF r \in ReadyOn(loans[l].copy)
               THEN Mark(reservations[r], None, "active")
               ELSE reservations[r]]
      /\ WriteState(loans[l].copy, SeenLoan(l), "borrowed")
  BY DEF CarefulUndo, UndoReturn, UndoReturnWith
<1>3. PICK c \in Copies : c = loans[l].copy
  BY <1>1, <1>2, LoanOfCopy
<1>4. \A d \in Copies \ {c} : copyState'[d] = copyState[d]
  BY <1>1, <1>2, <1>3 DEF WriteState, TypeOK
<1>5. \A m \in LoanIds \ {l} : loans'[m] = loans[m]
  BY <1>1, <1>2 DEF TypeOK
<1>6. Concerns({c})
  BY <1>2, <1>3, <1>4, <1>5 DEF Concerns, ReadyOn, ReadyIn
<1> QED
  BY <1>2, <1>3, <1>6, GivenBack

\* Joining a queue moves no copy.
LEMMA ReservePromise ==
    ASSUME RefinementInv, RefinementInv', NEW u \in Readers, NEW b \in Books,
           CreateReservation(u, b)
    PROVE  Promise
<1>1. PICK r \in ReservationIds :
        /\ reservations[r].status = "none"
        /\ reservations' = [reservations EXCEPT ![r] =
               [book |-> b, reader |-> u, copy |-> None, status |-> "active"]]
  BY OldestInSet, CirculationAssumption
  DEF CreateReservation, ReserveWith, UnusedReservations
<1>2. UNCHANGED <<copyState, loans>>
  BY DEF CreateReservation, ReserveWith
<1>3. \A s \in ReservationIds \ {r} : reservations'[s] = reservations[s]
  BY <1>1 DEF RefinementInv, CustodyInv, TypeOK
<1>4. Concerns({}) /\ SamePast
  BY <1>1, <1>2, <1>3 DEF Concerns, SamePast
<1> QED
  BY <1>4, NothingMoves DEF RefinementInv

\* Leaving a queue moves none either; giving up a kept copy passes it on.
LEMMA CancelPromise ==
    ASSUME RefinementInv, RefinementInv', NEW r \in ReservationIds,
           CancelReservation(r)
    PROVE  Promise
<1> DEFINE cancelled == [reservations EXCEPT ![r].status = "cancelled"]
           seen == SeenReservation(r)
<1>1. /\ CustodyInv /\ CustodyInv' /\ TypeOK /\ Shape(reservations)
      /\ \A c \in Copies : CustodyOf(c)
  BY CustodyInvParts DEF RefinementInv
<1>2. /\ reservations[r].status \in OpenStatus
      /\ UNCHANGED loans
      /\ \/ /\ HasCopy(seen)
            /\ PromoteCopy(cancelled, reservations[r].copy, seen)
         \/ /\ ~HasCopy(seen)
            /\ reservations' = cancelled
            /\ UNCHANGED copyState
  BY DEF CancelReservation, CancelWith, SeenReservation
<1>3. /\ cancelled \in [ReservationIds -> Reservation]
      /\ \A s \in ReservationIds \ {r} : cancelled[s] = reservations[s]
  BY <1>1, StatusType DEF TypeOK, ReservationStatus
<1>4. SamePast
  BY <1>2 DEF SamePast
<1> HIDE DEF cancelled
<1>5. CASE reservations[r].status = "active"
  <2>1. ~HasCopy(seen)
    BY <1>1, <1>5 DEF HasCopy, SeenReservation, Shape
  <2>2. Concerns({})
    BY <1>2, <1>3, <1>5, <2>1 DEF Concerns
  <2> QED
    BY <1>1, <1>4, <2>2, NothingMoves
<1>6. CASE reservations[r].status = "ready"
  <2>1. PICK c \in Copies : c = reservations[r].copy
    BY <1>1, <1>6 DEF Shape, TypeOK, Reservation
  <2>2. copyState[c] = "reserved"
    BY <1>1, <1>6, <2>1 DEF CustodyOf, ReadyOn, ReadyIn
  <2>3. HasCopy(seen) /\ seen.state = copyState[c]
    BY <2>1, <2>2, CirculationAssumption DEF HasCopy, SeenReservation
  <2>4. PromoteCopy(cancelled, c, seen)
    BY <1>2, <2>1, <2>3
  <2>5. \A s \in ReservationIds :
          reservations[s].status = "ready" /\ reservations[s].copy # c
          => cancelled[s] = reservations[s]
    BY <1>3, <2>1
  <2>6. \A l \in LoanIds :
          loans[l].status = "active" /\ loans[l].copy # c => loans'[l] = loans[l]
    BY <1>2
  <2> HIDE DEF seen
  <2> QED
    BY <1>3, <1>4, <2>2, <2>3, <2>4, <2>5, <2>6, PassedOnPromise
<1> QED
  BY <1>2, <1>5, <1>6 DEF OpenStatus

\* Restoring a reservation takes its copy back from the shelf or from whoever it
\* is kept for, or moves nothing.
LEMMA RestorePromise ==
    ASSUME RefinementInv, RefinementInv', NEW r \in ReservationIds,
           RestoreReservation(r)
    PROVE  Promise
<1> DEFINE seen == SeenReservation(r)
<1>1. CustodyInv /\ CustodyInv' /\ Named' /\ TypeOK
  BY DEF RefinementInv, CustodyInv
<1>2. /\ reservations[r].status = "cancelled"
      /\ UNCHANGED loans
      /\ RestoreReady(r, seen) \/ RestoreWaiting(r, seen)
  BY DEF RestoreReservation, RestoreWith, SeenReservation
<1>3. SamePast
  BY <1>2 DEF SamePast
<1>4. CASE RestoreReady(r, seen)
  <2>1. PICK c \in Copies : c = reservations[r].copy
    BY <1>1, <1>4 DEF RestoreReady, HasCopy, SeenReservation, TypeOK, Reservation
  <2>2. seen.row.copy = c /\ seen.state = copyState[c]
    BY <2>1, CirculationAssumption DEF SeenReservation
  <2> HIDE DEF seen
  <2>3. /\ copyState[c] \in {"available", "reserved"}
        /\ WriteState(c, seen, "reserved")
        /\ \A s \in ReservationIds :
              s # r /\ s \notin ReadyOn(c) => reservations'[s] = reservations[s]
    BY <1>4, <2>2 DEF RestoreReady
  <2>4. /\ copyState'[c] = "reserved"
        /\ \A d \in Copies \ {c} : copyState'[d] = copyState[d]
    BY <1>1, <2>2, <2>3 DEF WriteState, TypeOK
  <2>5. Concerns({c})
    BY <1>2, <2>3, <2>4 DEF Concerns, ReadyOn, ReadyIn
  <2> QED
    BY <1>1, <1>3, <2>3, <2>4, <2>5, SetAside
<1>5. CASE RestoreWaiting(r, seen)
  <2>1. /\ \A s \in ReservationIds \ {r} : reservations'[s] = reservations[s]
        /\ UNCHANGED copyState
    BY <1>1, <1>5 DEF RestoreWaiting, TypeOK
  <2>2. Concerns({})
    BY <1>2, <2>1 DEF Concerns
  <2> QED
    BY <1>1, <1>3, <2>2, NothingMoves
<1> QED
  BY <1>2, <1>4, <1>5

\* Moving by hand a copy that nobody borrows or waits for.
LEMMA LoosePromise ==
    ASSUME RefinementInv, RefinementInv', NEW c \in Copies,
           NEW new, new \notin {"borrowed", "reserved"},
           copyState[c] \notin {"borrowed", "reserved"},
           copyState' = [copyState EXCEPT ![c] = new],
           UNCHANGED <<loans, reservations>>
    PROVE  Promise
<1>1. CustodyInv /\ CustodyInv' /\ TypeOK
  BY DEF RefinementInv, CustodyInv
<1>2. copyState'[c] = new /\ \A d \in Copies \ {c} : copyState'[d] = copyState[d]
  BY <1>1 DEF TypeOK
<1>3. Concerns({c}) /\ SamePast
  BY <1>2 DEF Concerns, SamePast
<1> QED
  BY <1>1, <1>2, <1>3, Shelved

\* No request breaks the promise of custody.
LEMMA RefinementStep ==
    ASSUME RefinementInv, RefinementInv', [CarefulNext]_vars
    PROVE  Promise
<1>1. /\ CustodyInv /\ CustodyInv'
      /\ \A c \in Copies : CustodyOf(c)
  BY CustodyInvParts DEF RefinementInv
<1>2. ASSUME UNCHANGED <<copyState, loans, reservations>> PROVE Promise
  <2>1. Concerns({}) /\ SamePast
    BY <1>2 DEF Concerns, SamePast
  <2> QED
    BY <1>1, <2>1, NothingMoves
<1>3. ASSUME NEW c \in Copies, NEW new \in BooksStates, CarefulPatch(c, new)
      PROVE  Promise
  <2>1. CASE UNCHANGED copyState
    BY <1>2, <1>3, <2>1 DEF CarefulPatch, PatchCopy, PatchWith
  <2>2. CASE copyState' = [copyState EXCEPT ![c] = new]
    BY <1>3, <2>2, LoosePromise DEF CarefulPatch, PatchCopy, PatchWith, OffShelf
  <2> QED
    BY <1>3, <2>1, <2>2 DEF CarefulPatch, PatchCopy, PatchWith, WriteState
<1>4. ASSUME NEW c \in Copies, NEW new \in BooksStates, CarefulCreate(c, new)
      PROVE  Promise
  BY <1>4, LoosePromise DEF CarefulCreate, CreateCopy, OffShelf
<1>5. ASSUME NEW c \in Copies, DeleteCopy(c) PROVE Promise
  <2>1. LoansOn(c) = {} /\ ReadyOn(c) = {}
    BY <1>5 DEF DeleteCopy, LoansOn, ReadyOn, ReadyIn
  <2>2. copyState[c] \notin {"borrowed", "reserved"}
    BY <1>1, <2>1 DEF CustodyOf
  <2> QED
    BY <1>5, <2>2, LoosePromise DEF DeleteCopy
<1>6. ASSUME NEW u \in Readers, DeactivateReader(u) PROVE Promise
  BY <1>2, <1>6 DEF DeactivateReader
<1>7. ASSUME NEW b \in Books, DeactivateBook(b) PROVE Promise
  BY <1>2, <1>7 DEF DeactivateBook
<1>8. ASSUME UNCHANGED vars PROVE Promise
  BY <1>2, <1>8 DEF vars
<1> QED
  BY <1>3, <1>4, <1>5, <1>6, <1>7, <1>8, LendPromise, PickupPromise, ReturnPromise,
     UndoPromise, ReservePromise, CancelPromise, RestorePromise
  DEF CarefulNext, DeskNext

\* At the start every copy is on the shelf or not yet the library's, and nobody
\* has had it.
LEMMA RefinementInit == Init => RefinementInv /\ Abstract!Init
<1> SUFFICES ASSUME Init PROVE RefinementInv /\ Abstract!Init
  OBVIOUS
<1>1. /\ \A l \in LoanIds : loans[l].status = "none" /\ loans[l].copy = None
      /\ \A r \in ReservationIds : reservations[r].status = "none"
      /\ \A c \in Copies : copyState[c] \in {"available", "absent"}
  BY DEF Init, NoLoan, NoReservation
<1>2. CustodyInv /\ Named
  BY <1>1, CustodyInit DEF Named
<1>3. \A c \in Copies : PlaceOf(c) \in {Abstract!Off, Abstract!Shelf}
  BY <1>1, <1>2, PlaceNow
  DEF PlaceShown, Abstract!Off, Abstract!Shelf, CustodyInv, Custody, CustodyOf
<1>4. \A c \in Copies : PastReaders(c) = {}
  BY <1>1, CirculationAssumption DEF PastReaders
<1> QED
  BY <1>2, <1>3, <1>4 DEF RefinementInv, Abstract!Init

\* In every school where copies are moved with care, no copy goes from one reader
\* to another without coming back, a kept copy is given out only to the reader it
\* is kept for, and a return is undone only in favour of a reader who has had
\* that copy.
THEOREM CustodyImplemented == CarefulSpec => ImplementsCustody
<1>1. Init => RefinementInv /\ Abstract!Init
  BY RefinementInit
<1>2. RefinementInv /\ [CarefulNext]_vars => RefinementInv'
  BY CustodyStep, NamedStep DEF RefinementInv
<1>3. RefinementInv /\ RefinementInv' /\ [CarefulNext]_vars
        => [Abstract!Next]_(Abstract!vars)
  BY RefinementStep DEF Promise
<1> QED
  BY <1>1, <1>2, <1>3, PTL DEF CarefulSpec, ImplementsCustody, Abstract!Spec

=============================================================================
