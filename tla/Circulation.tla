---------------------------- MODULE Circulation ----------------------------
(***************************************************************************)
(* Loans, reservations and the copies they move, for one school: the       *)
(* handlers of routers/loans.py, routers/reservations.py and               *)
(* routers/copies.py, the queue of utils/reservation_queue.py and the      *)
(* limits of circulation.py.                                               *)
(*                                                                         *)
(* An action of this module is a whole request that meets no other: it     *)
(* reads, decides and commits in one step, and a request that is refused   *)
(* or rolled back changes nothing and is no step.  What a handler decides  *)
(* on is the session's view of its rows, `seen`; here that view is always  *)
(* current.  CirculationSessions reuses the same handlers with views that  *)
(* were read before a lock was granted.                                    *)
(***************************************************************************)
EXTENDS Integers, FiniteSets

CONSTANTS
    Readers,                \* users with a personal reader role
    Books, Copies,          \* catalogue entries and the rows of book_copies
    BookOf,                 \* the book of each copy
    LoanIds,                \* primary keys the loans table can hand out
    ReservationIds,         \* the same for reservations
    MaxActiveLoans,         \* the reader's policy.max_active_loans
    MaxActiveReservations,  \* the reader's policy.max_active_reservations
    CanReserve,             \* the readers whose policy.can_reserve is true
    None

ASSUME CirculationAssumption ==
    /\ BookOf \in [Copies -> Books]
    /\ LoanIds \subseteq Nat
    /\ ReservationIds \subseteq Nat
    /\ MaxActiveLoans \in [Readers -> Nat]
    /\ MaxActiveReservations \in [Readers -> Nat]
    /\ None \notin Readers \cup Books \cup Copies

VARIABLES
    copyState,      \* book_copies.state; "absent" is a row that does not exist
    loans,          \* the loans table, status "none" before the insert
    reservations,   \* the reservations table, likewise
    activeReaders,  \* users.is_active
    openBooks       \* books.is_active

vars == <<copyState, loans, reservations, activeReaders, openBooks>>
people == <<activeReaders, openBooks>>

-----------------------------------------------------------------------------
(* Rows *)

OffShelf == {"lost", "archived"}
BooksStates == {"available", "borrowed", "reserved"} \cup OffShelf

Loan ==
    [copy : Copies \cup {None},
     reader : Readers \cup {None},
     status : {"none", "active", "returned"}]

ReservationStatus == {"active", "ready", "fulfilled", "cancelled", "expired"}

Reservation ==
    [book : Books \cup {None},
     reader : Readers \cup {None},
     copy : Copies \cup {None},
     status : {"none"} \cup ReservationStatus]

NoLoan == [copy |-> None, reader |-> None, status |-> "none"]
NoReservation ==
    [book |-> None, reader |-> None, copy |-> None, status |-> "none"]

OpenStatus == {"active", "ready"}

\* The reservation with another copy and status.
Mark(row, copy, status) ==
    [book |-> row.book, reader |-> row.reader, copy |-> copy, status |-> status]

LoansOn(c) == {l \in LoanIds : loans[l].status = "active" /\ loans[l].copy = c}
LoansOf(u) ==
    {l \in LoanIds : loans[l].status = "active" /\ loans[l].reader = u}
ReservationsOf(u) ==
    {r \in ReservationIds : /\ reservations[r].status \in OpenStatus
                            /\ reservations[r].reader = u}
ReadyIn(res, c) ==
    {r \in ReservationIds : res[r].status = "ready" /\ res[r].copy = c}
ReadyOn(c) == ReadyIn(reservations, c)
UnusedLoans == {l \in LoanIds : loans[l].status = "none"}
UnusedReservations ==
    {r \in ReservationIds : reservations[r].status = "none"}

\* Serial keys are handed out in order, and the queue is read in that order:
\* ORDER BY created_at, id.
Oldest(S) == CHOOSE r \in S : \A s \in S : r <= s

\* The partial unique indexes, checked on the table a flush would leave.
UniqueOpen(res) ==
    \A r, s \in ReservationIds :
        /\ res[r].status \in OpenStatus
        /\ res[s].status \in OpenStatus
        /\ res[r].reader = res[s].reader
        /\ res[r].book = res[s].book
        => r = s

UniqueReady(res) ==
    \A r, s \in ReservationIds :
        /\ res[r].status = "ready"
        /\ res[s].status = "ready"
        /\ res[r].copy # None
        /\ res[r].copy = res[s].copy
        => r = s

-----------------------------------------------------------------------------
(* A session's view.  The session keeps the rows it has read: a later      *)
(* SELECT ... FOR UPDATE locks a row but does not refresh it.  The unit of *)
(* work writes a column only when the new value is not the loaded one.     *)

SeenLoan(l) ==
    [row |-> loans[l],
     state |-> IF loans[l].copy = None THEN None ELSE copyState[loans[l].copy],
     readers |-> activeReaders]

SeenReservation(r) ==
    [row |-> reservations[r],
     state |-> IF reservations[r].copy = None
               THEN None ELSE copyState[reservations[r].copy],
     readers |-> activeReaders]

SeenReaders == [row |-> None, state |-> None, readers |-> activeReaders]

SeenCopy(c) ==
    [row |-> None, state |-> copyState[c], readers |-> activeReaders]

WriteState(c, seen, new) ==
    IF new = seen.state
    THEN UNCHANGED copyState
    ELSE copyState' = [copyState EXCEPT ![c] = new]

-----------------------------------------------------------------------------
(* promote_copy_to_next_reservation: the waiting readers who are no longer *)
(* active are expired up to the first one who is, and the copy is hers.    *)

Queue(res, b) ==
    {r \in ReservationIds : res[r].status = "active" /\ res[r].book = b}

\* Mutant: the loop stops at the first waiting reader, active or not.
EligibleAtHead(res, b, readers) ==
    {r \in Queue(res, b) : /\ res[r].reader \in readers
                           /\ \A s \in Queue(res, b) : r <= s}

\* Mutant: ORDER BY created_at DESC.
EligibleNewest(res, b, readers) ==
    {r \in Queue(res, b) : /\ res[r].reader \in readers
                           /\ \A s \in Queue(res, b) :
                                  res[s].reader \in readers => r >= s}

Eligible(res, b, readers) == {r \in Queue(res, b) : res[r].reader \in readers}

PassedOver(res, b, readers) ==
    {r \in Queue(res, b) : /\ res[r].reader \notin readers
                           /\ \A s \in Eligible(res, b, readers) : r < s}

Promoted(res, c, readers) ==
    LET b == BookOf[c]
        served == IF Eligible(res, b, readers) = {}
                  THEN {} ELSE {Oldest(Eligible(res, b, readers))}
    IN  [r \in ReservationIds |->
            IF r \in served
            THEN Mark(res[r], c, "ready")
            ELSE IF r \in PassedOver(res, b, readers)
            THEN [res[r] EXCEPT !.status = "expired"]
            ELSE res[r]]

\* Mutant: the reservation's status for the copy's state.
PromotedStateReady(res, c, readers) ==
    IF Eligible(res, BookOf[c], readers) = {} THEN "available" ELSE "ready"

PromotedState(res, c, readers) ==
    IF Eligible(res, BookOf[c], readers) = {} THEN "available" ELSE "reserved"

\* The copy goes to the queue `res` leaves; a second READY reservation on the
\* copy violates uq_reservations_ready_copy and the request is rolled back.
PromoteCopy(res, c, seen) ==
    /\ UniqueReady(Promoted(res, c, seen.readers))
    /\ reservations' = Promoted(res, c, seen.readers)
    /\ WriteState(c, seen, PromotedState(res, c, seen.readers))

-----------------------------------------------------------------------------
(* Handlers, as functions of the session's view *)

\* Mutant: > where the code has >=.
AtLoanLimit(u) == Cardinality(LoansOf(u)) <= MaxActiveLoans[u]

UnderLoanLimit(u) == Cardinality(LoansOf(u)) < MaxActiveLoans[u]

AddLoan(c, u) ==
    /\ UnusedLoans # {}
    /\ loans' = [loans EXCEPT ![Oldest(UnusedLoans)] =
                    [copy |-> c, reader |-> u, status |-> "active"]]
    /\ copyState' = [copyState EXCEPT ![c] = "borrowed"]
    /\ UNCHANGED people

LendWith(c, u, seen) ==
    /\ copyState[c] = "available"
    /\ u \in seen.readers
    /\ UnderLoanLimit(u)
    /\ AddLoan(c, u)
    /\ UNCHANGED reservations

\* Mutant: the status of the reservation is not checked.
CanPickUpWhatever(r) ==
    /\ reservations[r].copy # None
    /\ reservations[r].book = BookOf[reservations[r].copy]
    /\ copyState[reservations[r].copy] = "reserved"

CanPickUp(r) ==
    /\ reservations[r].status = "ready"
    /\ reservations[r].copy # None
    /\ reservations[r].book = BookOf[reservations[r].copy]
    /\ copyState[reservations[r].copy] = "reserved"

\* Mutant: the borrower is the one the request names.
PickupForAnyone(r, seen) ==
    \E u \in seen.readers :
        /\ CanPickUp(r)
        /\ UnderLoanLimit(u)
        /\ AddLoan(reservations[r].copy, u)
        /\ reservations' = [reservations EXCEPT ![r].status = "fulfilled"]

PickupWith(r, seen) ==
    /\ CanPickUp(r)
    /\ reservations[r].reader \in seen.readers
    /\ UnderLoanLimit(reservations[r].reader)
    /\ AddLoan(reservations[r].copy, reservations[r].reader)
    /\ reservations' = [reservations EXCEPT ![r].status = "fulfilled"]

ReturnWith(l, seen) ==
    /\ seen.row.status = "active"
    /\ loans' = [loans EXCEPT ![l].status = "returned"]
    /\ PromoteCopy(reservations, loans[l].copy, seen)
    /\ UNCHANGED people

\* Mutant: the reader the copy was kept for stays READY.
UndoReturnKeepingHolder(l, seen) ==
    /\ seen.row.status = "returned"
    /\ loans' = [loans EXCEPT ![l].status = "active"]
    /\ WriteState(loans[l].copy, seen, "borrowed")
    /\ UNCHANGED <<reservations, people>>

\* Mutant: the displaced reservation keeps its copy_id.
UndoReturnKeepingCopy(l, seen) ==
    /\ seen.row.status = "returned"
    /\ loans' = [loans EXCEPT ![l].status = "active"]
    /\ reservations' =
           [r \in ReservationIds |->
               IF r \in ReadyOn(loans[l].copy)
               THEN [reservations[r] EXCEPT !.status = "active"]
               ELSE reservations[r]]
    /\ WriteState(loans[l].copy, seen, "borrowed")
    /\ UNCHANGED people

UndoReturnWith(l, seen) ==
    /\ seen.row.status = "returned"
    /\ loans' = [loans EXCEPT ![l].status = "active"]
    /\ reservations' =
           [r \in ReservationIds |->
               IF r \in ReadyOn(loans[l].copy)
               THEN Mark(reservations[r], None, "active")
               ELSE reservations[r]]
    /\ WriteState(loans[l].copy, seen, "borrowed")
    /\ UNCHANGED people

\* Mutant: a reservation ready for pickup is not counted.
MayReserveBesidesReady(u, b) ==
    /\ b \in openBooks
    /\ \A r \in ReservationsOf(u) : reservations[r].book # b
    /\ Cardinality({r \in ReservationsOf(u) : reservations[r].status = "active"})
           < MaxActiveReservations[u]
    /\ \A c \in Copies : BookOf[c] = b => copyState[c] # "available"

MayReserve(u, b) ==
    /\ b \in openBooks
    /\ \A r \in ReservationsOf(u) : reservations[r].book # b
    /\ Cardinality(ReservationsOf(u)) < MaxActiveReservations[u]
    /\ \A c \in Copies : BookOf[c] = b => copyState[c] # "available"

ReserveWith(u, b, seen) ==
    /\ u \in seen.readers \cap CanReserve
    /\ MayReserve(u, b)
    /\ UnusedReservations # {}
    /\ reservations' =
           [reservations EXCEPT ![Oldest(UnusedReservations)] =
               [book |-> b, reader |-> u, copy |-> None, status |-> "active"]]
    /\ UNCHANGED <<copyState, loans, people>>

\* Only a reservation that the session saw with a copy passes the copy on.
HasCopy(seen) ==
    /\ seen.row.copy # None
    /\ copyState[seen.row.copy] # "absent"

CancelWith(r, seen) ==
    LET cancelled == [reservations EXCEPT ![r].status = "cancelled"]
    IN  /\ seen.row.status \in OpenStatus
        /\ \/ /\ HasCopy(seen)
              /\ PromoteCopy(cancelled, seen.row.copy, seen)
           \/ /\ ~HasCopy(seen)
              /\ reservations' = cancelled
              /\ UNCHANGED copyState
        /\ UNCHANGED <<loans, people>>

RestoreReady(r, seen) ==
    LET c == seen.row.copy
        holders == ReadyOn(c) \ {r}
        restored ==
            [s \in ReservationIds |->
                IF s = r THEN [reservations[s] EXCEPT !.status = "ready"]
                ELSE IF s \in holders
                THEN Mark(reservations[s], None, "active")
                ELSE reservations[s]]
    IN  /\ HasCopy(seen)
        /\ seen.state \in {"available", "reserved"}
        \* The flush updates rows in primary-key order, and the index is
        \* checked at each: a holder behind r is still READY when r is written.
        /\ \A h \in holders : h < r
        /\ UniqueOpen(restored) /\ UniqueReady(restored)
        /\ reservations' = restored
        /\ WriteState(c, seen, "reserved")

RestoreWaiting(r, seen) ==
    LET copyOnDisk == IF seen.row.copy = None THEN reservations[r].copy ELSE None
        restored == [reservations EXCEPT ![r] = Mark(@, copyOnDisk, "active")]
    IN  /\ ~(HasCopy(seen) /\ seen.state \in {"available", "reserved"})
        /\ UniqueOpen(restored)
        /\ reservations' = restored
        /\ UNCHANGED copyState

\* Mutant: any reservation that is no longer open can be restored.
RestoreEnded(r, seen) ==
    /\ seen.row.status \in {"cancelled", "expired"}
    /\ RestoreReady(r, seen) \/ RestoreWaiting(r, seen)
    /\ UNCHANGED <<loans, people>>

RestoreWith(r, seen) ==
    /\ seen.row.status = "cancelled"
    /\ RestoreReady(r, seen) \/ RestoreWaiting(r, seen)
    /\ UNCHANGED <<loans, people>>

PatchWith(c, new, seen) ==
    /\ copyState[c] # "absent"
    /\ WriteState(c, seen, new)
    /\ UNCHANGED <<loans, reservations, people>>

-----------------------------------------------------------------------------
(* Requests that run alone *)

Init ==
    /\ copyState \in [Copies -> {"available", "absent"}]
    /\ loans = [l \in LoanIds |-> NoLoan]
    /\ reservations = [r \in ReservationIds |-> NoReservation]
    /\ activeReaders = Readers
    /\ openBooks = Books

Lend(c, u) == LendWith(c, u, SeenReaders)
Pickup(r) == PickupWith(r, SeenReaders)
ReturnLoan(l) == ReturnWith(l, SeenLoan(l))
UndoReturn(l) == UndoReturnWith(l, SeenLoan(l))
CreateReservation(u, b) == ReserveWith(u, b, SeenReaders)
CancelReservation(r) == CancelWith(r, SeenReservation(r))
RestoreReservation(r) == RestoreWith(r, SeenReservation(r))
PatchCopy(c, new) == PatchWith(c, new, SeenCopy(c))

CreateCopy(c, new) ==
    /\ copyState[c] = "absent"
    /\ copyState' = [copyState EXCEPT ![c] = new]
    /\ UNCHANGED <<loans, reservations, people>>

\* The foreign keys keep a copy that any loan or reservation names.
DeleteCopy(c) ==
    /\ copyState[c] # "absent"
    /\ \A l \in LoanIds : loans[l].copy # c
    /\ \A r \in ReservationIds : reservations[r].copy # c
    /\ copyState' = [copyState EXCEPT ![c] = "absent"]
    /\ UNCHANGED <<loans, reservations, people>>

\* A reader closes her own account; nothing opens it again.
DeactivateReader(u) ==
    /\ u \in activeReaders
    /\ activeReaders' = activeReaders \ {u}
    /\ UNCHANGED <<copyState, loans, reservations, openBooks>>

DeactivateBook(b) ==
    /\ b \in openBooks
    /\ openBooks' = openBooks \ {b}
    /\ UNCHANGED <<copyState, loans, reservations, activeReaders>>

-----------------------------------------------------------------------------
(* Three ways to run the library.  At the desk: lend, return, reserve and  *)
(* cancel.  With care: also undo, restore and edit copies, but undo only   *)
(* while the copy is in the building, and move by hand only the copies     *)
(* nobody borrows or waits for.  In full: whatever the routes accept.      *)

DeskNext ==
    \/ \E c \in Copies, u \in Readers : Lend(c, u)
    \/ \E r \in ReservationIds : Pickup(r)
    \/ \E l \in LoanIds : ReturnLoan(l)
    \/ \E u \in Readers, b \in Books : CreateReservation(u, b)
    \/ \E r \in ReservationIds : CancelReservation(r)
    \/ \E c \in Copies : DeleteCopy(c)
    \/ \E u \in Readers : DeactivateReader(u)
    \/ \E b \in Books : DeactivateBook(b)

CarefulUndo(l) ==
    /\ loans[l].status = "returned"
    /\ copyState[loans[l].copy] \in {"available", "reserved"}
    /\ UndoReturn(l)

CarefulPatch(c, new) ==
    /\ copyState[c] \in {"available"} \cup OffShelf
    /\ new \in {"available"} \cup OffShelf
    /\ PatchCopy(c, new)

CarefulCreate(c, new) ==
    /\ new \in {"available"} \cup OffShelf
    /\ CreateCopy(c, new)

CarefulNext ==
    \/ DeskNext
    \/ \E l \in LoanIds : CarefulUndo(l)
    \/ \E r \in ReservationIds : RestoreReservation(r)
    \/ \E c \in Copies, new \in BooksStates : CarefulPatch(c, new)
    \/ \E c \in Copies, new \in BooksStates : CarefulCreate(c, new)

Next ==
    \/ DeskNext
    \/ \E l \in LoanIds : UndoReturn(l)
    \/ \E r \in ReservationIds : RestoreReservation(r)
    \/ \E c \in Copies, new \in BooksStates : PatchCopy(c, new)
    \/ \E c \in Copies, new \in BooksStates : CreateCopy(c, new)

DeskSpec == Init /\ [][DeskNext]_vars
CarefulSpec == Init /\ [][CarefulNext]_vars
Spec == Init /\ [][Next]_vars

-----------------------------------------------------------------------------
(* Properties *)

\* Every table holds rows of its type.
TypeOK ==
    /\ copyState \in [Copies -> BooksStates \cup {"absent"}]
    /\ loans \in [LoanIds -> Loan]
    /\ reservations \in [ReservationIds -> Reservation]
    /\ activeReaders \subseteq Readers
    /\ openBooks \subseteq Books

\* No reader has more open loans than her policy allows (circulation.py's
\* limit, checked by create_loan with the reader's row locked).
LoanLimit == \A u \in Readers : Cardinality(LoansOf(u)) <= MaxActiveLoans[u]

\* No reader waits in more queues than her policy allows (create_reservation's
\* limit; restore_reservation checks none).
ReservationLimit ==
    \A u \in Readers :
        Cardinality(ReservationsOf(u)) <= MaxActiveReservations[u]

ActiveWaiting(b) ==
    {r \in ReservationIds : /\ reservations[r].status = "active"
                            /\ reservations[r].book = b
                            /\ reservations[r].reader \in activeReaders}

\* While an active reader waits for a title no copy of it stands on the shelf:
\* create_reservation refuses when one does, and a copy that comes back goes to
\* the queue, past the readers who closed their accounts.
NoIdleCopyWhileWaiting ==
    \A b \in Books, c \in Copies :
        BookOf[c] = b /\ copyState[c] = "available"
        => ActiveWaiting(b) = {}

\* A copy set aside was never given over the head of an active reader who
\* still waits for the same title and asked before.
FirstComeFirstServed ==
    \A r, s \in ReservationIds :
        /\ reservations[r].status = "ready"
        /\ s \in ActiveWaiting(reservations[r].book)
        => r < s

\* A copy is borrowed exactly while one loan of it is open, and reserved
\* exactly while one reservation is READY on it: three tables that six
\* handlers write separately tell the same story.
Custody ==
    \A c \in Copies :
        /\ copyState[c] = "borrowed" <=> LoansOn(c) # {}
        /\ copyState[c] = "reserved" <=> ReadyOn(c) # {}
        /\ \A l, m \in LoansOn(c) : l = m
        /\ \A r, s \in ReadyOn(c) : r = s

\* Only a READY reservation of the right title holds a copy among the open
\* ones, whoever was displaced, undone or restored before.
ReservationShape ==
    \A r \in ReservationIds :
        /\ reservations[r].status = "active" => reservations[r].copy = None
        /\ reservations[r].status = "ready" =>
               /\ reservations[r].copy # None
               /\ BookOf[reservations[r].copy] = reservations[r].book

\* Custody with what makes it inductive: a loan that was entered names a copy
\* and a reader, and a reservation's copy, even one kept from before it was
\* cancelled, is of the reservation's title.
CustodyInv ==
    /\ TypeOK
    /\ Custody
    /\ ReservationShape
    /\ \A l \in LoanIds :
           loans[l].status # "none" => loans[l].copy # None /\ loans[l].reader # None
    /\ \A r \in ReservationIds :
           reservations[r].copy # None =>
               BookOf[reservations[r].copy] = reservations[r].book

\* A reservation is fulfilled by a loan: the same reader has or had that copy.
FulfilledByLoan ==
    \A r \in ReservationIds :
        reservations[r].status = "fulfilled" =>
            \E l \in LoanIds : /\ loans[l].copy = reservations[r].copy
                               /\ loans[l].reader = reservations[r].reader
                               /\ loans[l].status # "none"

\* A reservation that was fulfilled or has expired is history: no request
\* brings it back, although cancel, restore, return and undo all rewrite
\* statuses and copies of reservations other than their target.
HistoryIsFinal ==
    [][\A r \in ReservationIds :
           reservations[r].status \in {"fulfilled", "expired"}
           => reservations'[r] = reservations[r]]_vars

\* Each copy's place as the tables tell it, and the readers who have had it.
ReaderOf(rows, ids) == rows[CHOOSE i \in ids : TRUE].reader

PlaceOf(c) ==
    CASE copyState[c] = "available" -> [at |-> "shelf", reader |-> None]
      [] copyState[c] = "reserved" ->
             [at |-> "kept", reader |-> ReaderOf(reservations, ReadyOn(c))]
      [] copyState[c] = "borrowed" ->
             [at |-> "lent", reader |-> ReaderOf(loans, LoansOn(c))]
      [] OTHER -> [at |-> "off", reader |-> None]

PastReaders(c) ==
    {u \in Readers : \E l \in LoanIds : loans[l].copy = c /\ loans[l].reader = u}

Abstract ==
    INSTANCE CopyCustody WITH
        place <- [c \in Copies |-> PlaceOf(c)],
        past <- [c \in Copies |-> PastReaders(c)]

\* The desk's handlers, undo and restore implement copy custody: no copy goes
\* from one reader to another without coming back, and a kept copy is given
\* out only to the reader it is kept for.
ImplementsCustody == Abstract!Spec

=============================================================================
