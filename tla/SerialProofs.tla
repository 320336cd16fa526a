---------------------------- MODULE SerialProofs ----------------------------
(***************************************************************************)
(* Requests that lend, hand out and reserve, any number at a time, among   *)
(* returns and cancellations: what they write together is what the desk    *)
(* would write serving them one after the other, so everything that holds  *)
(* at the desk holds of the concurrent requests.  And what holds whatever  *)
(* else overlaps: a loan takes a free copy, and no reader passes her limit *)
(* unless returns are undone.                                              *)
(***************************************************************************)
EXTENDS CirculationSessions, DeskProofs

-----------------------------------------------------------------------------
(***************************************************************************)
(* Concurrent requests, any number of them.  Requests that lend, hand out  *)
(* and reserve at the same time, among returns and cancellations, do       *)
(* together what they would do one after the other: the sessions implement *)
(* the desk, and what holds there holds here.                              *)
(***************************************************************************)

\* A request has all the fields of one.
IsRequest(q) ==
    q = [op |-> q.op, pc |-> q.pc, book |-> q.book, copy |-> q.copy,
         reader |-> q.reader, arg |-> q.arg, seen |-> q.seen]

SessionShape ==
    /\ req = [p \in Requests |-> req[p]]
    /\ \A p \in Requests : IsRequest(req[p])
    /\ bookLock \in [Books -> Requests \cup {None}]
    /\ readerLock \in [Readers -> Requests \cup {None}]

Granted(p) == req[p].op \in LoanOps /\ req[p].pc \in {"queued", "granted"}

-----------------------------------------------------------------------------
(* What a step does to a request and to the locks *)

\* The other requests go on, with the locks they hold.
OthersGoOn(p) ==
    \A q \in Requests \ {p} :
        /\ req'[q] = req[q]
        /\ \A b \in Books : bookLock'[b] = q <=> bookLock[b] = q
        /\ \A u \in Readers : readerLock'[u] = q <=> readerLock[u] = q

\* p has begun; it holds no lock yet.
Began(p) ==
    /\ req[p].pc = "idle" /\ req'[p].pc = "begun"
    /\ req'[p].op \in Overlapping
    /\ UNCHANGED <<vars, bookLock, readerLock>>

\* p has moved on to `pc` and is otherwise as it was.
Moved(p, pc) ==
    /\ req'[p].pc = pc
    /\ req'[p].op = req[p].op /\ req'[p].book = req[p].book
    /\ req'[p].copy = req[p].copy /\ req'[p].reader = req[p].reader
    /\ req'[p].arg = req[p].arg /\ req'[p].seen = req[p].seen

\* p has ended and holds nothing.
Ended(p) ==
    /\ req'[p] = Idle
    /\ \A b \in Books : bookLock'[b] # p
    /\ \A u \in Readers : readerLock'[u] # p

\* Ending a request takes its locks and no other's.
LEMMA FinishEnds ==
    ASSUME SessionShape, NEW p \in Requests, Finish(p)
    PROVE  SessionShape' /\ Ended(p) /\ OthersGoOn(p)
<1>1. /\ req'[p] = Idle
      /\ \A q \in Requests \ {p} : req'[q] = req[q]
      /\ req' = [q \in Requests |-> req'[q]]
  BY DEF Finish, SessionShape
<1>2. IsRequest(Idle) /\ Idle.pc = "idle"
  BY DEF Idle, IsRequest
<1>3. /\ bookLock' \in [Books -> Requests \cup {None}]
      /\ readerLock' \in [Readers -> Requests \cup {None}]
  BY DEF Finish, SessionShape
<1>4. SessionShape'
  BY <1>1, <1>2, <1>3 DEF SessionShape
<1>5. Ended(p) /\ OthersGoOn(p)
  BY <1>1, <1>2, SessionAssumption DEF Ended, OthersGoOn, Finish
<1> QED
  BY <1>4, <1>5

\* Moving a request on keeps its fields.
LEMMA MoveOn ==
    ASSUME SessionShape, NEW p \in Requests, NEW pc,
           req' = [req EXCEPT ![p].pc = pc]
    PROVE  /\ Moved(p, pc)
           /\ req' = [q \in Requests |-> req'[q]]
           /\ \A q \in Requests : IsRequest(req'[q])
           /\ \A q \in Requests \ {p} : req'[q] = req[q]
<1>1. IsRequest(req[p]) /\ req'[p] = [req[p] EXCEPT !.pc = pc]
  BY DEF SessionShape
<1>2. req'[p] = [op |-> req[p].op, pc |-> pc, book |-> req[p].book, copy |-> req[p].copy,
                 reader |-> req[p].reader, arg |-> req[p].arg, seen |-> req[p].seen]
  BY <1>1 DEF IsRequest
<1>3. Moved(p, pc) /\ IsRequest(req'[p])
  BY <1>2 DEF Moved, IsRequest
<1> QED
  BY <1>3 DEF SessionShape

\* What each step of a request does, as the proofs below need it.
Waited(p) ==
    \/ /\ req[p].op \in LoanOps /\ req[p].pc = "begun" /\ Moved(p, "queued")
       /\ CopyIsFree(p) /\ bookLock[req[p].book] = None
       /\ bookLock' = [bookLock EXCEPT ![req[p].book] = p]
       /\ UNCHANGED <<vars, readerLock>>
    \/ /\ req[p].op \in LoanOps /\ req[p].pc = "queued" /\ Moved(p, "granted")
       /\ UnderLoanLimit(req[p].reader) /\ readerLock[req[p].reader] = None
       /\ readerLock' = [readerLock EXCEPT ![req[p].reader] = p]
       /\ UNCHANGED <<vars, bookLock>>
    \/ /\ req[p].op = "reserve" /\ req[p].pc = "begun" /\ Moved(p, "queued")
       /\ readerLock[req[p].reader] = None
       /\ readerLock' = [readerLock EXCEPT ![req[p].reader] = p]
       /\ UNCHANGED <<vars, bookLock>>

Wrote(p) ==
    \/ UNCHANGED vars
    \/ req[p].pc = "granted" /\ InsertLoan(p)
    \/ InBookQueue(p) /\ bookLock[req[p].book] = None /\ Body(p)
    \/ /\ req[p].op = "patch" /\ PatchWith(req[p].copy, req[p].arg, req[p].seen)
       /\ \A q \in Requests : ~HoldsCopy(q, req[p].copy)

\* A request takes a lock, or writes and ends, or is dropped.
Advances(p) ==
    /\ SessionShape' /\ OthersGoOn(p)
    /\ Waited(p) \/ (Wrote(p) /\ Ended(p))

\* Its first read takes no lock.
LEMMA BeginAdvances ==
    ASSUME SessionShape, NEW p \in Requests, NEW op, NEW book, NEW copy, NEW reader,
           NEW arg, NEW seen, Begin(p, Begun(op, book, copy, reader, arg, seen))
    PROVE  SessionShape' /\ OthersGoOn(p) /\ Began(p)
<1> DEFINE r == Begun(op, book, copy, reader, arg, seen)
<1>1. IsRequest(r) /\ r.pc = "begun"
  BY DEF IsRequest, Begun
<1> HIDE DEF r
<1>2. /\ req'[p] = r
      /\ \A q \in Requests \ {p} : req'[q] = req[q]
      /\ req' = [q \in Requests |-> req'[q]]
      /\ UNCHANGED <<vars, bookLock, readerLock>>
      /\ req[p].pc = "idle" /\ r.op \in Overlapping
  BY DEF Begin, SessionShape, r
<1>3. Began(p)
  BY <1>1, <1>2 DEF Began
<1>4. SessionShape' /\ OthersGoOn(p)
  BY <1>1, <1>2 DEF SessionShape, OthersGoOn
<1> QED
  BY <1>3, <1>4

\* Every handler begins so.
LEMMA ArriveAdvances ==
    ASSUME SessionShape, NEW p \in Requests, Arrive(p)
    PROVE  SessionShape' /\ OthersGoOn(p) /\ Began(p)
  BY BeginAdvances DEF Arrive, BeginLend, BeginPickup, BeginReserve, BeginOnLoan,
     BeginOnReservation, BeginPatch

\* And every later step is one of the kinds.
LEMMA StepKinds ==
    ASSUME SessionShape, NEW p \in Requests, Step(p) \/ Abort(p)
    PROVE  Advances(p)
<1>end. ASSUME Finish(p), Wrote(p) PROVE Advances(p)
  BY <1>end, FinishEnds DEF Advances
<1>2. ASSUME LockBook(p) PROVE Advances(p)
  <2>1. CASE Finish(p)
    BY <1>2, <2>1, <1>end DEF LockBook, Wrote
  <2>2. CASE /\ CopyIsFree(p)
             /\ bookLock' = [bookLock EXCEPT ![req[p].book] = p]
             /\ req' = [req EXCEPT ![p].pc = "queued"]
             /\ UNCHANGED readerLock
    <3>1. Moved(p, "queued")
      BY <2>2, MoveOn
    <3>2. SessionShape' /\ OthersGoOn(p)
      BY <1>2, <2>2, MoveOn, SessionAssumption DEF LockBook, SessionShape, OthersGoOn
    <3> QED
      BY <1>2, <2>2, <3>1, <3>2 DEF LockBook, Waited, Advances
  <2> QED
    BY <1>2, <2>1, <2>2 DEF LockBook
<1>3. ASSUME LockBorrower(p) PROVE Advances(p)
  <2>1. CASE Finish(p)
    BY <1>3, <2>1, <1>end DEF LockBorrower, Wrote
  <2>2. CASE /\ UnderLoanLimit(req[p].reader)
             /\ readerLock' = [readerLock EXCEPT ![req[p].reader] = p]
             /\ req' = [req EXCEPT ![p].pc = "granted"]
             /\ UNCHANGED bookLock
    <3>1. Moved(p, "granted")
      BY <2>2, MoveOn
    <3>2. SessionShape' /\ OthersGoOn(p)
      BY <1>3, <2>2, MoveOn, SessionAssumption DEF LockBorrower, SessionShape, OthersGoOn
    <3> QED
      BY <1>3, <2>2, <3>1, <3>2 DEF LockBorrower, Waited, Advances
  <2> QED
    BY <1>3, <2>1, <2>2 DEF LockBorrower
<1>4. ASSUME LockReserver(p) PROVE Advances(p)
  <2>1. CASE Finish(p)
    BY <1>4, <2>1, <1>end DEF LockReserver, Wrote
  <2>2. CASE /\ readerLock' = [readerLock EXCEPT ![req[p].reader] = p]
             /\ req' = [req EXCEPT ![p].pc = "queued"]
             /\ UNCHANGED bookLock
    <3>1. Moved(p, "queued")
      BY <2>2, MoveOn
    <3>2. SessionShape' /\ OthersGoOn(p)
      BY <1>4, <2>2, MoveOn, SessionAssumption DEF LockReserver, SessionShape, OthersGoOn
    <3> QED
      BY <1>4, <2>2, <3>1, <3>2 DEF LockReserver, Waited, Advances
  <2> QED
    BY <1>4, <2>1, <2>2 DEF LockReserver
<1>5. ASSUME CommitLoan(p) PROVE Advances(p)
  BY <1>5, <1>end DEF CommitLoan, Wrote
<1>6. ASSUME Serve(p) PROVE Advances(p)
  BY <1>6, <1>end DEF Serve, Wrote
<1>7. ASSUME WritePatch(p) PROVE Advances(p)
  BY <1>7, <1>end DEF WritePatch, Wrote
<1>8. ASSUME DeadlockVictim(p) \/ Abort(p) PROVE Advances(p)
  BY <1>8, <1>end DEF DeadlockVictim, Abort, Wrote
<1> QED
  BY <1>2, <1>3, <1>4, <1>5, <1>6, <1>7, <1>8 DEF Step

\* Nobody is being served at first.
LEMMA ShapeInit == SessionInit => SessionShape
  BY DEF SessionInit, SessionShape, IsRequest, Idle

-----------------------------------------------------------------------------
\* The requests that may overlap, and accounts stay open.
LendingAtOnce ==
    /\ Overlapping \subseteq {"lend", "pickup", "reserve"}
    /\ "deactivate" \notin Alone

\* A row that was never entered is empty.
EmptyRows ==
    \A r \in ReservationIds :
        reservations[r].status = "none" => reservations[r].copy = None

\* What a request remembers is still so.
Remembers(p) ==
    /\ req[p].op \in {None, "lend", "pickup", "reserve"}
    /\ req[p].op # None => req[p].seen.readers = activeReaders
    /\ req[p].op = "reserve" => req[p].reader \in Readers /\ req[p].book \in Books
    /\ req[p].op \in LoanOps =>
           req[p].copy \in Copies /\ req[p].book = BookOf[req[p].copy]
    /\ req[p].op = "pickup" =>
           /\ req[p].arg \in ReservationIds
           /\ reservations[req[p].arg].status # "none"
           /\ reservations[req[p].arg].reader = req[p].reader

\* What create_loan found out behind its locks is still so.
Relies(p) ==
    /\ Granted(p) => bookLock[req[p].book] = p /\ CopyIsFree(p)
    /\ req[p].pc = "granted" =>
           /\ req[p].op \in LoanOps
           /\ readerLock[req[p].reader] = p
           /\ UnderLoanLimit(req[p].reader)

SerialInv ==
    /\ SessionShape
    /\ CustodyInv
    /\ LimitsInv
    /\ EmptyRows
    /\ \A p \in Requests : Remembers(p) /\ Relies(p)

-----------------------------------------------------------------------------
(* The desk *)

\* The desk is part of what careful staff do.
LEMMA DeskIsCareful == [DeskNext]_vars => [CarefulNext]_vars
  BY DEF CarefulNext

\* Entered rows stay entered, with their readers; the others stay empty.
LEMMA RowsStay ==
    ASSUME TypeOK, EmptyRows, [DeskNext]_vars
    PROVE  /\ EmptyRows'
           /\ \A r \in ReservationIds :
                 reservations[r].status # "none" =>
                     /\ reservations'[r].status # "none"
                     /\ reservations'[r].reader = reservations[r].reader
<1>1. CASE Settled
  BY <1>1 DEF Settled, Forward, EmptyRows
<1>2. ASSUME NEW u \in Readers, NEW b \in Books, Joined(u, b)
      PROVE  \A r \in ReservationIds :
                 \/ reservations'[r] = reservations[r]
                 \/ reservations[r].status = "none" /\ reservations'[r].status = "active"
  BY <1>2 DEF Joined, TypeOK
<1> QED
  BY <1>1, <1>2, DeskSettles DEF EmptyRows

\* What the requests here write, each as the desk would.
Desk ==
    \/ \E c \in Copies, u \in Readers : Lend(c, u)
    \/ \E r \in ReservationIds : Pickup(r)
    \/ \E l \in LoanIds : ReturnLoan(l)
    \/ \E u \in Readers, b \in Books : CreateReservation(u, b)
    \/ \E r \in ReservationIds : CancelReservation(r)
    \/ UNCHANGED vars

\* They keep what is known of the tables, and nobody's account changes.
LEMMA TablesStep ==
    ASSUME CustodyInv, LimitsInv, EmptyRows, Desk
    PROVE  /\ [DeskNext]_vars
           /\ CustodyInv' /\ LimitsInv' /\ EmptyRows'
           /\ activeReaders' = activeReaders
<1>1. [DeskNext]_vars
  BY DEF Desk, DeskNext
<1>2. CustodyInv' /\ LimitsInv'
  BY <1>1, DeskIsCareful, CustodyStep, LimitsStep
<1>3. activeReaders' = activeReaders
  BY DEF Desk, Lend, LendWith, AddLoan, Pickup, PickupWith, ReturnLoan, ReturnWith,
     CreateReservation, ReserveWith, CancelReservation, CancelWith, people, vars
<1>4. EmptyRows'
  BY <1>1, RowsStay DEF CustodyInv
<1> QED
  BY <1>1, <1>2, <1>3, <1>4

-----------------------------------------------------------------------------
(* What a request relies on is left alone by the others *)

\* The tables still show q what it found out.
Untouched(q) ==
    /\ copyState'[req[q].copy] = copyState[req[q].copy]
    /\ req[q].op = "pickup" => reservations'[req[q].arg] = reservations[req[q].arg]
    /\ req[q].pc = "granted" =>
           \A u \in Readers : u = req[q].reader => LoansOf(u)' \subseteq LoansOf(u)

\* p commits its loan: it holds another book's lock and another reader's.
LEMMA LoanLeavesOthers ==
    ASSUME SerialInv, NEW p \in Requests, NEW q \in Requests \ {p}, Granted(q),
           req[p].pc = "granted", InsertLoan(p)
    PROVE  Untouched(q)
<1> DEFINE c == req[p].copy
           u == req[p].reader
<1>1. /\ Granted(p) /\ req[p].copy \in Copies /\ req[q].copy \in Copies
      /\ BookOf[c] # BookOf[req[q].copy]
  BY DEF SerialInv, Relies, Remembers, Granted
<1>2. PICK l \in LoanIds :
        loans' = [loans EXCEPT ![l] = [copy |-> c, reader |-> u, status |-> "active"]]
  BY OldestInSet, CirculationAssumption DEF InsertLoan, AddLoan, UnusedLoans
<1>3. copyState'[req[q].copy] = copyState[req[q].copy]
  BY <1>1 DEF InsertLoan, AddLoan, SerialInv, CustodyInv, TypeOK
<1>4. ASSUME req[q].op = "pickup"
      PROVE  reservations'[req[q].arg] = reservations[req[q].arg]
  <2>1. reservations[req[q].arg].copy = req[q].copy
    BY <1>4 DEF SerialInv, Relies, CopyIsFree
  <2>2. req[p].op = "pickup" => reservations[req[p].arg].copy = c
    BY <1>1 DEF SerialInv, Relies, CopyIsFree
  <2>3. req[p].op = "pickup" => req[p].arg # req[q].arg
    BY <1>1, <2>1, <2>2
  <2>4. CASE req[p].op = "pickup"
    <3>1. reservations' = [reservations EXCEPT ![req[p].arg].status = "fulfilled"]
      BY <2>4 DEF InsertLoan
    <3>2. req[q].arg \in ReservationIds
      BY <1>4 DEF SerialInv, Remembers
    <3> QED
      BY <2>3, <2>4, <3>1, <3>2 DEF SerialInv, CustodyInv, TypeOK
  <2>5. CASE req[p].op # "pickup"
    BY <2>5 DEF InsertLoan
  <2> QED
    BY <2>4, <2>5
<1>5. ASSUME req[q].pc = "granted", NEW v \in Readers, v = req[q].reader
      PROVE  LoansOf(v)' \subseteq LoansOf(v)
  <2>1. u # v
    BY <1>5, SessionAssumption DEF SerialInv, Relies
  <2>2. /\ loans'[l].reader = u
        /\ \A m \in LoanIds \ {l} : loans'[m] = loans[m]
    BY <1>2 DEF SerialInv, CustodyInv, TypeOK
  <2> QED
    BY <2>1, <2>2 DEF LoansOf
<1> QED
  BY <1>3, <1>4, <1>5 DEF Untouched

\* A reservation is entered in an empty row and moves no copy.
LEMMA ReservationLeavesOthers ==
    ASSUME SerialInv, NEW q \in Requests, Granted(q),
           NEW u \in Readers, NEW b \in Books, CreateReservation(u, b)
    PROVE  Untouched(q)
<1>1. PICK r \in ReservationIds :
        /\ reservations[r].status = "none"
        /\ \A s \in ReservationIds \ {r} : reservations'[s] = reservations[s]
  BY OldestInSet, CirculationAssumption
  DEF CreateReservation, ReserveWith, UnusedReservations, SerialInv, CustodyInv, TypeOK
<1>2. UNCHANGED <<copyState, loans>>
  BY DEF CreateReservation, ReserveWith
<1>3. req[q].op = "pickup" =>
        req[q].arg \in ReservationIds /\ reservations[req[q].arg].status = "ready"
  BY DEF SerialInv, Remembers, Relies, CopyIsFree, CanPickUp
<1> QED
  BY <1>1, <1>2, <1>3 DEF Untouched, LoansOf

\* Promotion leaves alone what is not waiting.
LEMMA PromotionLeavesOthers ==
    ASSUME SerialInv, NEW q \in Requests, Granted(q),
           NEW res \in [ReservationIds -> Reservation],
           req[q].op = "pickup" => res[req[q].arg] = reservations[req[q].arg],
           NEW c \in Copies, BookOf[c] # req[q].book,
           NEW seen, PromoteCopy(res, c, seen)
    PROVE  /\ copyState'[req[q].copy] = copyState[req[q].copy]
           /\ req[q].op = "pickup" =>
                 reservations'[req[q].arg] = reservations[req[q].arg]
<1>1. req[q].copy \in Copies /\ req[q].copy # c
  BY DEF SerialInv, Remembers, Granted
<1>2. copyState'[req[q].copy] = copyState[req[q].copy]
  BY <1>1 DEF PromoteCopy, WriteState, SerialInv, CustodyInv, TypeOK
<1>3. ASSUME req[q].op = "pickup"
      PROVE  reservations'[req[q].arg] = reservations[req[q].arg]
  <2>1. PICK r \in ReservationIds : r = req[q].arg
    BY <1>3 DEF SerialInv, Remembers
  <2>2. res[r].status = "ready"
    BY <1>3, <2>1 DEF SerialInv, Relies, CopyIsFree, CanPickUp
  <2>3. reservations'[r] = res[r]
    BY <2>2, PromotionIsOfWaiting DEF PromoteCopy
  <2> QED
    BY <1>3, <2>1, <2>3
<1> QED
  BY <1>2, <1>3

\* A copy is returned while nobody holds its book's lock.
LEMMA ReturnLeavesOthers ==
    ASSUME SerialInv, NEW q \in Requests, Granted(q), NEW l \in LoanIds,
           loans[l].status = "active", Undisturbed(BookOf[loans[l].copy]), ReturnLoan(l)
    PROVE  Untouched(q)
<1>1. PICK c \in Copies : c = loans[l].copy
  BY LoanOfCopy, CustodyInvParts DEF SerialInv
<1>2. BookOf[c] # req[q].book
  BY <1>1, SessionAssumption DEF SerialInv, Relies, Undisturbed
<1>3. /\ PromoteCopy(reservations, c, SeenLoan(l))
      /\ loans' = [loans EXCEPT ![l].status = "returned"]
  BY <1>1 DEF ReturnLoan, ReturnWith
<1>4. reservations \in [ReservationIds -> Reservation]
  BY DEF SerialInv, CustodyInv, TypeOK
<1>5. /\ copyState'[req[q].copy] = copyState[req[q].copy]
      /\ req[q].op = "pickup" => reservations'[req[q].arg] = reservations[req[q].arg]
  BY <1>2, <1>3, <1>4, PromotionLeavesOthers
<1>6. \A u \in Readers : LoansOf(u)' \subseteq LoansOf(u)
  <2>1. /\ loans'[l].status = "returned"
        /\ \A m \in LoanIds \ {l} : loans'[m] = loans[m]
    BY <1>3 DEF SerialInv, CustodyInv, TypeOK, Loan
  <2> QED
    BY <2>1 DEF LoansOf
<1> QED
  BY <1>5, <1>6 DEF Untouched

\* A reservation is cancelled while nobody holds its book's lock.
LEMMA CancelLeavesOthers ==
    ASSUME SerialInv, NEW q \in Requests, Granted(q), NEW r \in ReservationIds,
           reservations[r].status \in OpenStatus, Undisturbed(reservations[r].book),
           CancelReservation(r)
    PROVE  Untouched(q)
<1> DEFINE cancelled == [reservations EXCEPT ![r].status = "cancelled"]
<1>1. /\ UNCHANGED loans
      /\ \/ /\ reservations[r].copy # None
            /\ PromoteCopy(cancelled, reservations[r].copy, SeenReservation(r))
         \/ reservations' = cancelled /\ UNCHANGED copyState
  BY DEF CancelReservation, CancelWith, SeenReservation, HasCopy
<1>2. reservations[r].book # req[q].book
  BY SessionAssumption DEF SerialInv, Relies, Undisturbed
<1>3. /\ cancelled \in [ReservationIds -> Reservation]
      /\ \A s \in ReservationIds \ {r} : cancelled[s] = reservations[s]
  BY StatusType DEF SerialInv, CustodyInv, TypeOK, ReservationStatus
<1>4. req[q].op = "pickup" => req[q].arg \in ReservationIds \ {r}
  <2>1. req[q].op = "pickup" =>
          /\ req[q].arg \in ReservationIds
          /\ reservations[req[q].arg].book = BookOf[req[q].copy]
          /\ req[q].book = BookOf[req[q].copy]
    BY DEF SerialInv, Relies, Remembers, CopyIsFree, CanPickUp, Granted
  <2> QED
    BY <1>2, <2>1
<1>5. \A u \in Readers : LoansOf(u)' = LoansOf(u)
  BY <1>1 DEF LoansOf
<1> HIDE DEF cancelled
<1>6. CASE reservations' = cancelled /\ UNCHANGED copyState
  BY <1>3, <1>4, <1>5, <1>6 DEF Untouched
<1>7. CASE /\ reservations[r].copy # None
           /\ PromoteCopy(cancelled, reservations[r].copy, SeenReservation(r))
  <2>1. PICK c \in Copies : c = reservations[r].copy
    BY <1>7 DEF SerialInv, CustodyInv, TypeOK, Reservation
  <2>2. BookOf[c] # req[q].book
    BY <1>2, <2>1, <1>7 DEF SerialInv, CustodyInv
  <2>3. /\ copyState'[req[q].copy] = copyState[req[q].copy]
        /\ req[q].op = "pickup" => reservations'[req[q].arg] = reservations[req[q].arg]
    BY <1>3, <1>4, <1>7, <2>1, <2>2, PromotionLeavesOthers
  <2> QED
    BY <1>5, <2>3 DEF Untouched
<1> QED
  BY <1>1, <1>6, <1>7

-----------------------------------------------------------------------------
(* Each step *)

\* A request that goes on while others write keeps what it knows.
LEMMA KnowledgeKept ==
    ASSUME SerialInv, Desk, NEW q \in Requests, req'[q] = req[q],
           \A b \in Books : bookLock'[b] = q <=> bookLock[b] = q,
           \A u \in Readers : readerLock'[u] = q <=> readerLock[u] = q,
           Granted(q) => Untouched(q)
    PROVE  Remembers(q)' /\ Relies(q)'
<1>1. /\ [DeskNext]_vars /\ activeReaders' = activeReaders /\ LimitsInv'
  BY TablesStep DEF SerialInv
<1>2. \A r \in ReservationIds :
        reservations[r].status # "none" =>
            /\ reservations'[r].status # "none"
            /\ reservations'[r].reader = reservations[r].reader
  BY <1>1, RowsStay DEF SerialInv, CustodyInv
<1>3. Remembers(q)'
  BY <1>1, <1>2 DEF Remembers, SerialInv
<1>4. ASSUME Granted(q) PROVE bookLock'[req[q].book] = q /\ CopyIsFree(q)'
  <2>1. /\ bookLock[req[q].book] = q /\ CopyIsFree(q) /\ req[q].copy \in Copies
        /\ req[q].book = BookOf[req[q].copy]
    BY <1>4 DEF SerialInv, Relies, Remembers, Granted
  <2>2. req[q].book \in Books
    BY <2>1, CirculationAssumption
  <2>3. CASE req[q].op = "pickup"
    <3>1. reservations'[req[q].arg] = reservations[req[q].arg]
      BY <1>4, <2>3 DEF Untouched
    <3>2. /\ reservations[req[q].arg].copy = req[q].copy
          /\ copyState'[req[q].copy] = copyState[req[q].copy]
      BY <1>4, <2>1, <2>3 DEF Untouched, CopyIsFree
    <3> QED
      BY <1>1, <2>1, <2>2, <2>3, <3>1, <3>2 DEF CopyIsFree, CanPickUp
  <2>4. CASE req[q].op # "pickup"
    BY <1>4, <2>1, <2>2, <2>4 DEF CopyIsFree, Untouched
  <2> QED
    BY <2>3, <2>4
<1>5. ASSUME req[q].pc = "granted"
      PROVE  /\ req[q].op \in LoanOps
             /\ readerLock'[req[q].reader] = q
             /\ UnderLoanLimit(req[q].reader)'
  <2>1. req[q].op \in LoanOps /\ Granted(q) /\ readerLock[req[q].reader] = q
    BY <1>5 DEF SerialInv, Relies, Granted
  <2>2. PICK u \in Readers : u = req[q].reader
    <3>1. req[q].op \in LoanOps /\ req[q].op # None /\ CopyIsFree(q)
      BY <2>1, SessionAssumption DEF SerialInv, Relies, LoanOps, Operations
    <3>2. req[q].reader \in activeReaders
      BY <3>1 DEF CopyIsFree, SerialInv, Remembers
    <3> QED
      BY <3>2 DEF SerialInv, CustodyInv, TypeOK
  <2>3. LoansOf(u)' \subseteq LoansOf(u) /\ UnderLoanLimit(u)
    BY <1>5, <2>1, <2>2 DEF Untouched, SerialInv, Relies
  <2>4. /\ IsFiniteSet(LoansOf(u))
        /\ Cardinality(LoansOf(u)') <= Cardinality(LoansOf(u))
        /\ IsFiniteSet(LoansOf(u)')
    BY <2>3, FS_Subset DEF SerialInv, LimitsInv, Limited
  <2>5. Cardinality(LoansOf(u)) \in Nat /\ Cardinality(LoansOf(u)') \in Nat
    BY <2>4, FS_CardinalityType
  <2>6. MaxActiveLoans[u] \in Nat
    BY CirculationAssumption
  <2>7. UnderLoanLimit(u)'
    BY <2>3, <2>4, <2>5, <2>6 DEF UnderLoanLimit
  <2> QED
    BY <2>1, <2>2, <2>7
<1>6. Relies(q)'
  BY <1>4, <1>5 DEF Relies, Granted
<1> QED
  BY <1>3, <1>6

\* A request that writes does what the desk would, past the other requests.
LEMMA WrittenAsAtDesk ==
    ASSUME SerialInv, LendingAtOnce, NEW p \in Requests, Wrote(p)
    PROVE  Desk /\ \A q \in Requests \ {p} : Granted(q) => Untouched(q)
<1>1. CASE UNCHANGED vars
  BY <1>1 DEF Desk, Untouched, vars, LoansOf
<1>2. CASE req[p].pc = "granted" /\ InsertLoan(p)
  <2>1. /\ req[p].op \in LoanOps /\ UnderLoanLimit(req[p].reader) /\ CopyIsFree(p)
        /\ req[p].copy \in Copies /\ req[p].seen.readers = activeReaders
    BY <1>2, SessionAssumption
    DEF SerialInv, Relies, Remembers, Granted, LoanOps, Operations
  <2>2. ASSUME req[p].op = "lend" PROVE Desk
    <3>1. req[p].reader \in Readers /\ req[p].reader \in activeReaders
      BY <2>1 DEF CopyIsFree, SerialInv, CustodyInv, TypeOK
    <3>2. PICK c \in Copies, u \in Readers : c = req[p].copy /\ u = req[p].reader
      BY <2>1, <3>1
    <3>3. copyState[c] = "available"
      BY <2>1, <2>2, <3>2 DEF CopyIsFree
    <3>4. Lend(c, u)
      BY <1>2, <2>1, <2>2, <3>1, <3>2, <3>3 DEF InsertLoan, Lend, LendWith, SeenReaders
    <3> QED
      BY <3>2, <3>4 DEF Desk
  <2>3. ASSUME req[p].op = "pickup" PROVE Desk
    <3>1. /\ req[p].arg \in ReservationIds
          /\ reservations[req[p].arg].reader = req[p].reader
          /\ reservations[req[p].arg].copy = req[p].copy
          /\ CanPickUp(req[p].arg)
          /\ req[p].reader \in activeReaders
      BY <2>1, <2>3 DEF CopyIsFree, SerialInv, Remembers
    <3>2. PICK r \in ReservationIds : r = req[p].arg
      BY <3>1
    <3>3. Pickup(r)
      BY <1>2, <2>1, <2>3, <3>1, <3>2 DEF InsertLoan, Pickup, PickupWith, SeenReaders
    <3> QED
      BY <3>2, <3>3 DEF Desk
  <2>4. Desk
    BY <2>1, <2>2, <2>3 DEF LoanOps
  <2>5. ASSUME NEW q \in Requests \ {p}, Granted(q)
        PROVE  Untouched(q)
    BY <1>2, <2>5, LoanLeavesOthers
  <2> QED
    BY <2>4, <2>5
<1>3. CASE InBookQueue(p) /\ Body(p)
  <2>1. /\ req[p].op = "reserve" /\ req[p].seen.readers = activeReaders
        /\ req[p].reader \in Readers /\ req[p].book \in Books
    BY <1>3, SessionAssumption DEF InBookQueue, SerialInv, Remembers, Operations
  <2>2. PICK u \in Readers, b \in Books : u = req[p].reader /\ b = req[p].book
    BY <2>1
  <2>3. CreateReservation(u, b)
    BY <1>3, <2>1, <2>2 DEF Body, CreateReservation, ReserveWith, SeenReaders
  <2>4. Desk
    BY <2>3 DEF Desk
  <2>5. ASSUME NEW q \in Requests \ {p}, Granted(q)
        PROVE  Untouched(q)
    BY <2>3, <2>5, ReservationLeavesOthers
  <2> QED
    BY <2>4, <2>5
<1>4. req[p].op # "patch"
  BY SessionAssumption DEF SerialInv, Remembers, Operations
<1> QED
  BY <1>1, <1>2, <1>3, <1>4 DEF Wrote

\* So does an operation that runs alone.
LEMMA AloneAsAtDesk ==
    ASSUME SerialInv, LendingAtOnce, LoneRequest
    PROVE  Desk /\ \A q \in Requests : Granted(q) => Untouched(q)
<1>1. ASSUME NEW l \in LoanIds, loans[l].status = "active",
             Undisturbed(BookOf[loans[l].copy]), ReturnLoan(l)
      PROVE  Desk /\ \A q \in Requests : Granted(q) => Untouched(q)
  BY <1>1, ReturnLeavesOthers DEF Desk
<1>2. ASSUME NEW r \in ReservationIds, reservations[r].status \in OpenStatus,
             Undisturbed(reservations[r].book), CancelReservation(r)
      PROVE  Desk /\ \A q \in Requests : Granted(q) => Untouched(q)
  BY <1>2, CancelLeavesOthers DEF Desk
<1> QED
  BY <1>1, <1>2 DEF LoneRequest, LendingAtOnce

\* The first read of a request tells it how things are.
LEMMA FirstRead ==
    ASSUME SerialInv, LendingAtOnce, NEW p \in Requests, Arrive(p)
    PROVE  Remembers(p)' /\ Relies(p)'
<1>1. ASSUME NEW op, NEW book, NEW copy, NEW reader, NEW arg, NEW seen,
             Begin(p, Begun(op, book, copy, reader, arg, seen))
      PROVE  /\ op \in {"lend", "pickup", "reserve"}
             /\ req'[p] = Begun(op, book, copy, reader, arg, seen)
             /\ UNCHANGED vars
  BY <1>1 DEF Begin, SerialInv, SessionShape, LendingAtOnce, Begun
<1>2. Relies(p)'
  <2>1. Began(p)
    BY ArriveAdvances DEF SerialInv
  <2> QED
    BY <2>1 DEF Began, Relies, Granted
<1>3. ASSUME NEW c \in Copies, NEW u \in Readers, BeginLend(p, c, u)
      PROVE  Remembers(p)'
  <2>1. /\ req'[p] = Begun("lend", BookOf[c], c, u, None, SeenReaders)
        /\ UNCHANGED vars
    BY <1>1, <1>3 DEF BeginLend
  <2> QED
    BY <2>1 DEF Begun, SeenReaders, Remembers, LoanOps, vars
<1>4. ASSUME NEW r \in ReservationIds, BeginPickup(p, r) PROVE Remembers(p)'
  <2>1. PICK c \in Copies : c = reservations[r].copy
    BY <1>4 DEF BeginPickup, SerialInv, CustodyInv, TypeOK, Reservation
  <2>2. /\ req'[p] = Begun("pickup", BookOf[c], c, reservations[r].reader, r, SeenReaders)
        /\ UNCHANGED vars
    BY <1>1, <1>4, <2>1 DEF BeginPickup
  <2>3. reservations[r].status # "none"
    BY <1>4 DEF BeginPickup, SerialInv, EmptyRows
  <2> QED
    BY <2>2, <2>3 DEF Begun, SeenReaders, Remembers, LoanOps, vars
<1>5. ASSUME NEW u \in Readers, NEW b \in Books, BeginReserve(p, u, b)
      PROVE  Remembers(p)'
  <2>1. /\ req'[p] = Begun("reserve", b, None, u, None, SeenReaders)
        /\ UNCHANGED vars
    BY <1>1, <1>5 DEF BeginReserve
  <2> QED
    BY <2>1 DEF Begun, SeenReaders, Remembers, LoanOps, vars
<1>6. ASSUME NEW l \in LoanIds, NEW op \in {"return", "undo"}, BeginOnLoan(p, op, l)
      PROVE  FALSE
  BY <1>1, <1>6 DEF BeginOnLoan
<1>7. ASSUME NEW r \in ReservationIds, NEW op \in {"cancel", "restore"},
             BeginOnReservation(p, op, r)
      PROVE  FALSE
  BY <1>1, <1>7 DEF BeginOnReservation
<1>8. ASSUME NEW c \in Copies, NEW new \in PatchedTo, BeginPatch(p, c, new)
      PROVE  FALSE
  BY <1>1, <1>8 DEF BeginPatch
<1> QED
  BY <1>2, <1>3, <1>4, <1>5, <1>6, <1>7, <1>8 DEF Arrive

\* A lock that is granted, and the check behind it, tell it that they still are.
LEMMA LockTaken ==
    ASSUME SerialInv, NEW p \in Requests, SessionShape', Waited(p)
    PROVE  Remembers(p)' /\ Relies(p)'
<1>1. UNCHANGED vars /\ (Moved(p, "queued") \/ Moved(p, "granted"))
  BY DEF Waited
<1>2. Remembers(p)'
  BY <1>1 DEF SerialInv, Remembers, Moved, vars
<1>3. CASE /\ req[p].op \in LoanOps /\ Moved(p, "queued")
           /\ CopyIsFree(p)
           /\ bookLock' = [bookLock EXCEPT ![req[p].book] = p]
  <2>1. req[p].book \in Books
    BY <1>3, CirculationAssumption DEF SerialInv, Remembers
  <2>2. bookLock'[req'[p].book] = p
    BY <1>3, <2>1 DEF Moved, SerialInv, SessionShape
  <2>3. CopyIsFree(p)'
    BY <1>1, <1>3 DEF CopyIsFree, CanPickUp, Moved, vars
  <2> QED
    BY <1>2, <1>3, <2>2, <2>3 DEF Relies, Granted, Moved
<1>4. CASE /\ req[p].op \in LoanOps /\ req[p].pc = "queued" /\ Moved(p, "granted")
           /\ UnderLoanLimit(req[p].reader)
           /\ readerLock' = [readerLock EXCEPT ![req[p].reader] = p]
           /\ UNCHANGED bookLock
  <2>1. /\ bookLock[req[p].book] = p /\ CopyIsFree(p)
        /\ req[p].seen.readers = activeReaders
    BY <1>4, SessionAssumption
    DEF SerialInv, Relies, Remembers, Granted, LoanOps, Operations
  <2>2. req[p].reader \in Readers
    BY <2>1 DEF CopyIsFree, SerialInv, CustodyInv, TypeOK
  <2>3. readerLock'[req'[p].reader] = p
    BY <1>4, <2>2 DEF Moved, SerialInv, SessionShape
  <2>4. CopyIsFree(p)' /\ UnderLoanLimit(req[p].reader)
    BY <1>1, <1>4, <2>1 DEF CopyIsFree, CanPickUp, Moved, vars
  <2>5. PICK u \in Readers : u = req[p].reader
    BY <2>2
  <2>6. UnderLoanLimit(u)' /\ req'[p].reader = u
    BY <1>1, <1>4, <2>5 DEF UnderLoanLimit, LoansOf, vars, Moved
  <2> QED
    BY <1>2, <1>4, <2>1, <2>3, <2>4, <2>5, <2>6
    DEF Relies, Granted, Moved, UnderLoanLimit, LoansOf
<1>5. CASE req[p].op = "reserve" /\ Moved(p, "queued")
  BY <1>2, <1>5, SessionAssumption DEF Relies, Granted, Moved, LoanOps
<1> QED
  BY <1>2, <1>3, <1>4, <1>5 DEF Waited

\* A request that ended knows nothing.
LEMMA NothingKnown ==
    ASSUME NEW p \in Requests, Ended(p)
    PROVE  Remembers(p)' /\ Relies(p)'
<1>1. /\ req'[p].op = None /\ req'[p].pc = "idle"
      /\ None \notin {"lend", "pickup", "reserve"}
  BY SessionAssumption DEF Ended, Idle, Operations
<1> QED
  BY <1>1 DEF Remembers, Relies, Granted, LoanOps

\* Every step of the sessions is a step of the desk, or none.
LEMMA SerialStep ==
    LendingAtOnce /\ SerialInv /\ [SessionNext]_allVars => SerialInv' /\ [DeskNext]_vars
<1> SUFFICES ASSUME LendingAtOnce, SerialInv, [SessionNext]_allVars
             PROVE  SerialInv' /\ [DeskNext]_vars
  OBVIOUS
<1>desk. ASSUME Desk, SessionShape', \A q \in Requests : Remembers(q)' /\ Relies(q)'
         PROVE  SerialInv' /\ [DeskNext]_vars
  BY <1>desk, TablesStep DEF SerialInv
<1>calm. ASSUME UNCHANGED vars
         PROVE  Desk /\ \A q \in Requests : Granted(q) => Untouched(q)
  BY <1>calm DEF Desk, Untouched, vars, LoansOf
<1>1. ASSUME NEW p \in Requests, Arrive(p) \/ Step(p) \/ Abort(p)
      PROVE  SerialInv' /\ [DeskNext]_vars
  <2>1. /\ SessionShape' /\ OthersGoOn(p)
        /\ \/ Arrive(p) /\ Began(p)
           \/ Waited(p)
           \/ Wrote(p) /\ Ended(p)
    BY <1>1, ArriveAdvances, StepKinds DEF Advances, SerialInv
  <2>2. Remembers(p)' /\ Relies(p)'
    BY <2>1, FirstRead, LockTaken, NothingKnown
  <2>3. Desk /\ \A q \in Requests \ {p} : Granted(q) => Untouched(q)
    BY <1>calm, <2>1, WrittenAsAtDesk DEF Began, Waited
  <2>4. \A q \in Requests \ {p} : Remembers(q)' /\ Relies(q)'
    BY <2>1, <2>3, KnowledgeKept DEF OthersGoOn
  <2> QED
    BY <1>desk, <2>1, <2>2, <2>3, <2>4
<1>2. ASSUME UNCHANGED sessionVars,
             Desk /\ \A q \in Requests : Granted(q) => Untouched(q)
      PROVE  SerialInv' /\ [DeskNext]_vars
  <2>1. SessionShape'
    BY <1>2 DEF sessionVars, SerialInv, SessionShape
  <2>2. \A q \in Requests : Remembers(q)' /\ Relies(q)'
    BY <1>2, KnowledgeKept DEF sessionVars
  <2> QED
    BY <1>2, <1>desk, <2>1, <2>2
<1>3. CASE LoneRequest
  BY <1>2, <1>3, AloneAsAtDesk DEF LoneRequest
<1>4. CASE UNCHANGED allVars
  BY <1>2, <1>4, <1>calm DEF allVars
<1> QED
  BY <1>1, <1>3, <1>4 DEF SessionNext

\* At first nothing is lent, reserved or asked for.
LEMMA SerialInit == SessionInit => SerialInv
<1> SUFFICES ASSUME SessionInit PROVE SerialInv
  OBVIOUS
<1>1. SessionShape /\ CustodyInv /\ LimitsInv
  BY ShapeInit, CustodyInit, LimitsInit DEF SessionInit
<1>2. EmptyRows
  BY DEF SessionInit, Init, NoReservation, EmptyRows
<1>3. ASSUME NEW p \in Requests PROVE Remembers(p) /\ Relies(p)
  <2>1. /\ req[p].op = None /\ req[p].pc = "idle"
        /\ None \notin {"lend", "pickup", "reserve"}
    BY SessionAssumption DEF SessionInit, Idle, Operations
  <2> QED
    BY <2>1 DEF Remembers, Relies, Granted, LoanOps
<1> QED
  BY <1>1, <1>2, <1>3 DEF SerialInv

-----------------------------------------------------------------------------
(* The sessions implement the desk *)

\* Concurrent requests that lend, hand out and reserve, among returns and
\* cancellations, implement the desk that serves one request at a time: the
\* locks of lock_book_queue and lock_borrower, taken in either order, are enough.
THEOREM SessionsImplementDesk ==
    ASSUME LendingAtOnce PROVE SessionSpec => DeskSpec
<1>1. SessionInit => Init
  BY DEF SessionInit
<1>2. SerialInv /\ [SessionNext]_allVars => SerialInv' /\ [DeskNext]_vars
  BY SerialStep
<1> QED
  BY <1>1, <1>2, SerialInit, PTL DEF SessionSpec, DeskSpec

\* Each change of the tables is one a handler would have made alone.
THEOREM RequestsSerialized ==
    ASSUME LendingAtOnce PROVE SessionSpec => Serialized
<1>1. [DeskNext]_vars => [Next]_vars
  BY DeskIsNext
<1> QED
  BY <1>1, SessionsImplementDesk, PTL DEF DeskSpec, Serialized

\* And no copy is in the hands of two readers.
THEOREM OneLoanAtATime ==
    ASSUME LendingAtOnce PROVE SessionSpec => []OneLoanPerCopy
<1>1. SerialInv => OneLoanPerCopy
  BY DEF SerialInv, CustodyInv, Custody, OneLoanPerCopy
<1>2. SerialInv /\ [SessionNext]_allVars => SerialInv'
  BY SerialStep
<1> QED
  BY <1>1, <1>2, SerialInit, PTL DEF SessionSpec

-----------------------------------------------------------------------------
(* What a loan is entered for, whatever overlaps: requests that decide on  *)
(* old rows, copies moved by hand and accounts that close included.        *)

\* A loan that was entered names a copy, and a reservation's copy is of its title.
Titled ==
    /\ TypeOK
    /\ \A l \in LoanIds : loans[l].status # "none" => loans[l].copy # None
    /\ \A r \in ReservationIds :
           reservations[r].copy # None =>
               BookOf[reservations[r].copy] = reservations[r].book

\* The rows in `res` of the reservations that were entered are of the same titles.
Kept(res) ==
    /\ res \in [ReservationIds -> Reservation]
    /\ \A r \in ReservationIds :
           /\ res[r].copy # None => BookOf[res[r].copy] = res[r].book
           /\ reservations[r].status # "none" =>
                  res[r].status # "none" /\ res[r].book = reservations[r].book

\* Rows stay in order, and loans that were entered stay with their copies.
Grows ==
    /\ Titled'
    /\ Kept(reservations')
    /\ \A l \in LoanIds : loans[l].status # "none" =>
           loans'[l].status # "none" /\ loans'[l].copy = loans[l].copy

\* What a handler behind the lock of title b writes: no loan, and no copy of another.
Writes(b) ==
    /\ Grows
    /\ \A c \in Copies : BookOf[c] # b => copyState'[c] = copyState[c]
    /\ \A l \in LoanIds : loans[l].status = "none" => loans'[l].status # "active"

\* Nothing but states of copies and statuses of loans is written.
LEMMA LoansStay ==
    ASSUME Titled, NEW l \in LoanIds, loans[l].status # "none",
           NEW status \in {"active", "returned"},
           loans' = [loans EXCEPT ![l].status = status]
    PROVE  /\ loans' \in [LoanIds -> Loan]
           /\ \A m \in LoanIds :
                /\ loans'[m].copy = loans[m].copy
                /\ loans[m].status # "none" <=> loans'[m].status # "none"
<1>1. /\ loans \in [LoanIds -> Loan]
      /\ loans'[l] = [loans[l] EXCEPT !.status = status]
      /\ \A m \in LoanIds \ {l} : loans'[m] = loans[m]
  BY DEF Titled, TypeOK
<1>2. /\ loans'[l] \in Loan /\ loans'[l].copy = loans[l].copy
      /\ loans'[l].status = status
  BY <1>1 DEF Loan
<1> QED
  BY <1>1, <1>2

\* A write of a copy's state is to that copy.
LEMMA StateWritten ==
    ASSUME TypeOK, NEW c \in Copies, NEW seen, NEW new \in BooksStates,
           WriteState(c, seen, new)
    PROVE  /\ copyState' \in [Copies -> BooksStates \cup {"absent"}]
           /\ \A d \in Copies : d # c => copyState'[d] = copyState[d]
  BY DEF WriteState, TypeOK

\* Reservations that are left alone are kept.
LEMMA LeftKept == Titled => Kept(reservations)
  BY DEF Titled, TypeOK, Kept

\* So are those of a table in which one row is written and is of its title.
LEMMA OneWritten ==
    ASSUME Titled, NEW r \in ReservationIds, NEW row \in Reservation,
           row.status # "none" /\ row.book = reservations[r].book,
           row.copy # None => BookOf[row.copy] = row.book,
           NEW res, res = [reservations EXCEPT ![r] = row]
    PROVE  Kept(res)
  BY DEF Titled, TypeOK, Kept

\* Promotion keeps the titles.
LEMMA PromotedKept ==
    ASSUME NEW res, Kept(res), NEW c \in Copies, NEW readers
    PROVE  Kept(Promoted(res, c, readers))
<1> DEFINE next == Promoted(res, c, readers)
<1>1. c # None /\ res \in [ReservationIds -> Reservation]
  BY CirculationAssumption DEF Kept
<1>2. next \in [ReservationIds -> Reservation]
  BY <1>1, PromotedRows
<1>3. ASSUME NEW r \in ReservationIds
      PROVE  \/ LeftOrExpired(res, next, r)
             \/ res[r].book = BookOf[c] /\ next[r] = Mark(res[r], c, "ready")
  BY <1>1, PromotedRows DEF Served
<1> HIDE DEF next
<1>4. ASSUME NEW r \in ReservationIds
      PROVE  /\ next[r].book = res[r].book
             /\ next[r].status # "none" \/ next[r].status = res[r].status
             /\ next[r].copy # None => BookOf[next[r].copy] = next[r].book
  <2>1. res[r] \in Reservation /\ (res[r].copy # None => BookOf[res[r].copy] = res[r].book)
    BY DEF Kept
  <2>2. CASE next[r] = res[r]
    BY <2>1, <2>2
  <2>3. CASE next[r] = [res[r] EXCEPT !.status = "expired"]
    BY <2>1, <2>3, StatusType DEF ReservationStatus
  <2>4. CASE res[r].book = BookOf[c] /\ next[r] = Mark(res[r], c, "ready")
    BY <2>1, <2>4 DEF Mark
  <2> QED
    BY <1>3, <2>2, <2>3, <2>4 DEF LeftOrExpired
<1>5. Kept(next)
  BY <1>2, <1>4 DEF Kept
<1> QED
  BY <1>5 DEF next

\* A copy that is passed on.
LEMMA PromotionWrites ==
    ASSUME TypeOK, NEW res, Kept(res), NEW c \in Copies, NEW seen,
           PromoteCopy(res, c, seen)
    PROVE  /\ copyState' \in [Copies -> BooksStates \cup {"absent"}]
           /\ \A d \in Copies : d # c => copyState'[d] = copyState[d]
           /\ Kept(reservations')
<1>1. PromotedState(res, c, seen.readers) \in BooksStates
  BY DEF PromotedState, BooksStates
<1> QED
  BY <1>1, StateWritten, PromotedKept DEF PromoteCopy

\* A return and its undo write at the title of the loan.
LEMMA ReturnWrites ==
    ASSUME Titled, NEW l \in LoanIds, loans[l].status # "none", NEW seen,
           ReturnWith(l, seen) \/ UndoReturnWith(l, seen)
    PROVE  Writes(BookOf[loans[l].copy])
<1>1. PICK c \in Copies : c = loans[l].copy
  BY DEF Titled, TypeOK, Loan
<1>2. UNCHANGED people /\ TypeOK
  BY DEF ReturnWith, UndoReturnWith, Titled
<1>3. /\ loans' \in [LoanIds -> Loan]
      /\ \A m \in LoanIds :
           /\ loans'[m].copy = loans[m].copy
           /\ loans[m].status # "none" <=> loans'[m].status # "none"
  BY LoansStay DEF ReturnWith, UndoReturnWith
<1>4. /\ copyState' \in [Copies -> BooksStates \cup {"absent"}]
      /\ \A d \in Copies : d # c => copyState'[d] = copyState[d]
      /\ Kept(reservations')
  <2>1. CASE ReturnWith(l, seen)
    BY <1>1, <1>2, <2>1, LeftKept, PromotionWrites DEF ReturnWith
  <2>2. CASE UndoReturnWith(l, seen)
    <3>1. /\ reservations' \in [ReservationIds -> Reservation]
          /\ \A r \in ReservationIds :
               \/ reservations'[r] = reservations[r]
               \/ reservations'[r] = Mark(reservations[r], None, "active")
      <4>1. \A r \in ReservationIds :
              Mark(reservations[r], None, "active") \in Reservation
        BY <1>2, MarkType DEF TypeOK, ReservationStatus
      <4> QED
        BY <1>2, <2>2, <4>1 DEF UndoReturnWith, TypeOK
    <3>2. Kept(reservations')
      BY <3>1, LeftKept DEF Mark, Kept
    <3>3. WriteState(c, seen, "borrowed") /\ "borrowed" \in BooksStates
      BY <1>1, <2>2 DEF UndoReturnWith, BooksStates
    <3> QED
      BY <1>2, <3>2, <3>3, StateWritten
  <2> QED
    BY <2>1, <2>2
<1>5. Titled'
  BY <1>2, <1>3, <1>4 DEF Titled, TypeOK, people, Kept
<1> QED
  BY <1>1, <1>3, <1>4, <1>5 DEF Writes, Grows

\* Writes that touch no loan and keep the reservations.
LEMMA WritesAt ==
    ASSUME Titled, NEW b, Kept(reservations'), UNCHANGED <<loans, people>>,
           copyState' \in [Copies -> BooksStates \cup {"absent"}],
           \A c \in Copies : BookOf[c] # b => copyState'[c] = copyState[c]
    PROVE  Writes(b)
<1>1. Titled'
  BY DEF Titled, TypeOK, people, Kept
<1> QED
  BY <1>1 DEF Writes, Grows

\* A cancellation writes at the title of the reservation, though it passes on the copy
\* that it saw in the row.
LEMMA CancelWrites ==
    ASSUME Titled, NEW r \in ReservationIds, NEW seen, NEW b,
           reservations[r].status # "none",
           seen.row.copy \in Copies \cup {None},
           seen.row.copy # None => BookOf[seen.row.copy] = b,
           CancelWith(r, seen)
    PROVE  Writes(b)
<1>1. TypeOK /\ UNCHANGED <<loans, people>> /\ reservations[r] \in Reservation
  BY DEF CancelWith, Titled, TypeOK
<1>2. PICK cancelled : cancelled = [reservations EXCEPT ![r].status = "cancelled"]
  OBVIOUS
<1>3. Kept(cancelled)
  <2>1. PICK row \in Reservation :
          /\ row = [reservations[r] EXCEPT !.status = "cancelled"]
          /\ row.status = "cancelled" /\ row.copy = reservations[r].copy
          /\ row.book = reservations[r].book
    BY <1>1, StatusType DEF ReservationStatus
  <2>2. cancelled = [reservations EXCEPT ![r] = row]
    BY <1>2, <2>1
  <2>3. row.copy # None => BookOf[row.copy] = row.book
    BY <2>1 DEF Titled
  <2> QED
    BY <2>1, <2>2, <2>3, OneWritten
<1>4. CASE HasCopy(seen) /\ PromoteCopy(cancelled, seen.row.copy, seen)
  <2>1. PICK c \in Copies : c = seen.row.copy /\ BookOf[c] = b
    BY <1>4 DEF HasCopy
  <2>2. /\ copyState' \in [Copies -> BooksStates \cup {"absent"}]
        /\ \A d \in Copies : d # c => copyState'[d] = copyState[d]
        /\ Kept(reservations')
    BY <1>1, <1>3, <1>4, <2>1, PromotionWrites
  <2> QED
    BY <1>1, <2>1, <2>2, WritesAt
<1>5. CASE reservations' = cancelled /\ UNCHANGED copyState
  BY <1>1, <1>3, <1>5, WritesAt DEF TypeOK
<1> QED
  BY <1>2, <1>4, <1>5 DEF CancelWith

\* So does a restoration.
LEMMA RestoreWrites ==
    ASSUME Titled, NEW r \in ReservationIds, NEW seen, NEW b,
           reservations[r].status # "none",
           seen.row.copy \in Copies \cup {None},
           seen.row.copy # None => BookOf[seen.row.copy] = b,
           RestoreWith(r, seen)
    PROVE  Writes(b)
<1>1. TypeOK /\ UNCHANGED <<loans, people>>
  BY DEF RestoreWith, Titled
<1>2. \A s \in ReservationIds :
        /\ reservations[s] \in Reservation
        /\ Mark(reservations[s], None, "active") \in Reservation
        /\ Mark(reservations[s], reservations[s].copy, "active") \in Reservation
        /\ [reservations[s] EXCEPT !.status = "ready"] \in Reservation
        /\ [reservations[s] EXCEPT !.status = "ready"].status = "ready"
        /\ [reservations[s] EXCEPT !.status = "ready"].copy = reservations[s].copy
        /\ [reservations[s] EXCEPT !.status = "ready"].book = reservations[s].book
  <2> TAKE s \in ReservationIds
  <2>1. reservations[s] \in Reservation /\ reservations[s].copy \in Copies \cup {None}
    BY <1>1 DEF TypeOK, Reservation
  <2> QED
    BY <2>1, MarkType, StatusType DEF ReservationStatus
<1>3. CASE RestoreReady(r, seen)
  <2>1. PICK c \in Copies : c = seen.row.copy /\ BookOf[c] = b
    BY <1>3 DEF RestoreReady, HasCopy
  <2>2. WriteState(c, seen, "reserved") /\ "reserved" \in BooksStates
    BY <1>3, <2>1 DEF RestoreReady, BooksStates
  <2>3. /\ reservations' \in [ReservationIds -> Reservation]
        /\ \A s \in ReservationIds :
             \/ reservations'[s] = reservations[s]
             \/ reservations'[s] = Mark(reservations[s], None, "active")
             \/ reservations'[s] = [reservations[s] EXCEPT !.status = "ready"]
    BY <1>2, <1>3 DEF RestoreReady
  <2>4. ASSUME NEW s \in ReservationIds
        PROVE  /\ reservations'[s].book = reservations[s].book
               /\ reservations'[s].copy \in {reservations[s].copy, None}
               /\ reservations[s].status # "none" => reservations'[s].status # "none"
    <3>1. CASE reservations'[s] = Mark(reservations[s], None, "active")
      BY <3>1 DEF Mark
    <3>2. CASE reservations'[s] = [reservations[s] EXCEPT !.status = "ready"]
      BY <1>2, <3>2
    <3> QED
      BY <2>3, <3>1, <3>2
  <2>5. Kept(reservations')
    BY <2>3, <2>4, LeftKept DEF Kept
  <2> QED
    BY <1>1, <2>1, <2>2, <2>5, StateWritten, WritesAt
<1>4. CASE RestoreWaiting(r, seen)
  <2>1. /\ reservations' = [reservations EXCEPT ![r] =
              Mark(@, IF seen.row.copy = None THEN reservations[r].copy ELSE None, "active")]
        /\ UNCHANGED copyState
    BY <1>4 DEF RestoreWaiting
  <2>2. PICK row \in Reservation :
          /\ reservations' = [reservations EXCEPT ![r] = row]
          /\ row.status = "active" /\ row.book = reservations[r].book
          /\ row.copy \in {reservations[r].copy, None}
    <3>1. PICK copy \in {reservations[r].copy, None} :
            reservations' = [reservations EXCEPT ![r] = Mark(reservations[r], copy, "active")]
      BY <2>1
    <3>2. PICK row \in Reservation : row = Mark(reservations[r], copy, "active")
      BY <1>2
    <3>3. row.status = "active" /\ row.book = reservations[r].book /\ row.copy = copy
      BY <3>2 DEF Mark
    <3> QED
      BY <3>1, <3>2, <3>3
  <2>3. row.copy # None => BookOf[row.copy] = row.book
    BY <2>2 DEF Titled
  <2>4. Kept(reservations')
    BY <2>2, <2>3, OneWritten
  <2> QED
    BY <1>1, <2>1, <2>4, WritesAt DEF TypeOK
<1> QED
  BY <1>3, <1>4 DEF RestoreWith

\* A reservation enters an empty row.
LEMMA ReserveWrites ==
    ASSUME Titled, NEW u \in Readers, NEW b \in Books, NEW seen, ReserveWith(u, b, seen)
    PROVE  Writes(b)
<1>1. UNCHANGED <<copyState, loans, people>> /\ TypeOK
  BY DEF ReserveWith, Titled
<1>2. PICK r \in ReservationIds :
        /\ reservations[r].status = "none"
        /\ reservations' = [reservations EXCEPT ![r] =
               [book |-> b, reader |-> u, copy |-> None, status |-> "active"]]
  BY OldestInSet, CirculationAssumption DEF ReserveWith, UnusedReservations
<1>3. [book |-> b, reader |-> u, copy |-> None, status |-> "active"] \in Reservation
  BY DEF Reservation, ReservationStatus
<1>4. Kept(reservations')
  BY <1>1, <1>2, <1>3, LeftKept DEF Kept
<1> QED
  BY <1>1, <1>4, WritesAt DEF TypeOK

\* A loan enters an empty row and moves its copy only; a pickup answers a reservation.
LEMMA LoanWrites ==
    ASSUME Titled, NEW p \in Requests, NEW c \in Copies, c = req[p].copy,
           req[p].reader \in Readers \cup {None},
           req[p].op = "pickup" => req[p].arg \in ReservationIds,
           InsertLoan(p)
    PROVE  /\ Grows /\ \A d \in Copies : d # c => copyState'[d] = copyState[d]
           /\ \A l \in LoanIds :
                loans[l].status = "none" /\ loans'[l].status = "active" => loans'[l].copy = c
<1>1. TypeOK /\ UNCHANGED people
  BY DEF InsertLoan, AddLoan, Titled
<1>2. PICK u \in Readers \cup {None}, n \in LoanIds :
        /\ loans[n].status = "none"
        /\ loans' = [loans EXCEPT ![n] = [copy |-> c, reader |-> u, status |-> "active"]]
        /\ copyState' = [copyState EXCEPT ![c] = "borrowed"]
  BY OldestInSet, CirculationAssumption DEF InsertLoan, AddLoan, UnusedLoans
<1>3. /\ copyState' \in [Copies -> BooksStates \cup {"absent"}]
      /\ \A d \in Copies : d # c => copyState'[d] = copyState[d]
  BY <1>1, <1>2 DEF TypeOK, BooksStates
<1>4. /\ loans' \in [LoanIds -> Loan]
      /\ loans'[n] = [copy |-> c, reader |-> u, status |-> "active"]
      /\ \A l \in LoanIds \ {n} : loans'[l] = loans[l]
  <2>1. [copy |-> c, reader |-> u, status |-> "active"] \in Loan
    BY DEF Loan
  <2> QED
    BY <1>1, <1>2, <2>1 DEF TypeOK
<1>5. Kept(reservations')
  <2>1. CASE req[p].op = "pickup"
    <3>1. PICK r \in ReservationIds :
            reservations' = [reservations EXCEPT ![r].status = "fulfilled"]
      BY <2>1 DEF InsertLoan
    <3>2. PICK row \in Reservation :
            /\ row = [reservations[r] EXCEPT !.status = "fulfilled"]
            /\ row.status = "fulfilled" /\ row.copy = reservations[r].copy
            /\ row.book = reservations[r].book
      BY <1>1, StatusType DEF ReservationStatus, TypeOK
    <3>3. reservations' = [reservations EXCEPT ![r] = row]
      BY <3>1, <3>2
    <3>4. row.copy # None => BookOf[row.copy] = row.book
      BY <3>2 DEF Titled
    <3> QED
      BY <3>2, <3>3, <3>4, OneWritten
  <2>2. CASE req[p].op # "pickup"
    BY <2>2, LeftKept DEF InsertLoan
  <2> QED
    BY <2>1, <2>2
<1>6. c # None
  BY CirculationAssumption
<1>7. Titled'
  BY <1>1, <1>3, <1>4, <1>5, <1>6 DEF Titled, TypeOK, people, Kept
<1> QED
  BY <1>2, <1>3, <1>4, <1>5, <1>7 DEF Grows

\* What a request goes for: the title it names is that of its copy, of its loan or of
\* its reservation, and of the copy it has seen there.
Aims(p) ==
    /\ req[p].op \in LoanOps =>
           /\ req[p].copy \in Copies /\ req[p].book = BookOf[req[p].copy]
           /\ req[p].reader \in Readers \cup {None}
    /\ req[p].op = "pickup" => req[p].arg \in ReservationIds
    /\ req[p].op \in {"return", "undo"} =>
           /\ req[p].arg \in LoanIds /\ loans[req[p].arg].status # "none"
           /\ req[p].book = BookOf[loans[req[p].arg].copy]
    /\ req[p].op \in {"cancel", "restore"} =>
           /\ req[p].arg \in ReservationIds /\ reservations[req[p].arg].status # "none"
           /\ req[p].seen.row.copy \in Copies \cup {None}
           /\ req[p].seen.row.copy # None => BookOf[req[p].seen.row.copy] = req[p].book
    /\ req[p].op = "reserve" => req[p].reader \in Readers /\ req[p].book \in Books
    /\ req[p].op = "patch" => req[p].copy \in Copies /\ req[p].arg \in BooksStates

\* Behind the lock of its title a loan has a copy that is free.
TakesFree(p) ==
    /\ Granted(p) => /\ bookLock[req[p].book] = p
                     /\ copyState[req[p].copy] \in {"available", "reserved"}
    /\ req[p].pc = "granted" => req[p].op \in LoanOps

TakingInv ==
    /\ SessionShape
    /\ Titled
    /\ \A p \in Requests : Aims(p) /\ TakesFree(p)

\* What a write does to the others: the copies they have locked stay as they are; and
\* a loan it enters takes a free copy.
Spares(S) ==
    /\ Grows
    /\ \A q \in S : Granted(q) => copyState'[req[q].copy] = copyState[req[q].copy]
    /\ \A l \in LoanIds :
           loans[l].status = "none" /\ loans'[l].status = "active"
           => copyState[loans'[l].copy] \in {"available", "reserved"}

\* Nothing is written.
LEMMA NothingWritten ==
    ASSUME Titled, UNCHANGED <<copyState, loans, reservations>>,
           TypeOK', NEW S \in SUBSET Requests
    PROVE  Spares(S)
  BY LeftKept DEF Titled, Spares, Grows, Kept

\* A request that goes on while others write goes for the same.
LEMMA AimsKept ==
    ASSUME TakingInv, NEW q \in Requests, req'[q] = req[q], Spares({q}),
           \A b \in Books : bookLock'[b] = q <=> bookLock[b] = q
    PROVE  Aims(q)' /\ TakesFree(q)'
<1>1. Aims(q) /\ TakesFree(q) /\ Grows
  BY DEF TakingInv, Spares
<1>2. Aims(q)'
  BY <1>1 DEF Aims, Grows, Kept
<1>3. TakesFree(q)'
  <2>1. Granted(q) => req[q].book \in Books
    BY <1>1, CirculationAssumption DEF Granted, Aims
  <2> QED
    BY <1>1, <2>1 DEF TakesFree, Granted, Spares
<1> QED
  BY <1>2, <1>3

\* A handler that finds the lock of its title free is past everybody else's copy.
LEMMA TitleSpares ==
    ASSUME TakingInv, NEW b, Writes(b), b \in Books => bookLock[b] = None
    PROVE  Spares(Requests)
<1>1. ASSUME NEW q \in Requests, Granted(q)
      PROVE  copyState'[req[q].copy] = copyState[req[q].copy]
  <2>1. /\ req[q].copy \in Copies /\ BookOf[req[q].copy] \in Books
        /\ bookLock[BookOf[req[q].copy]] = q
    BY <1>1, CirculationAssumption DEF TakingInv, Aims, TakesFree, Granted
  <2> QED
    BY <2>1, SessionAssumption DEF Writes
<1> QED
  BY <1>1 DEF Writes, Spares

\* The first read of a request tells it what it goes for.
LEMMA FirstAim ==
    ASSUME TakingInv, NEW p \in Requests, Arrive(p)
    PROVE  Aims(p)' /\ TakesFree(p)'
<1>1. ASSUME NEW op, NEW book, NEW copy, NEW reader, NEW arg, NEW seen,
             Begin(p, Begun(op, book, copy, reader, arg, seen))
      PROVE  /\ req'[p] = Begun(op, book, copy, reader, arg, seen)
             /\ UNCHANGED vars
  BY <1>1 DEF Begin, TakingInv, SessionShape
<1>2. TakesFree(p)'
  <2>1. Began(p)
    BY ArriveAdvances DEF TakingInv
  <2> QED
    BY <2>1 DEF Began, TakesFree, Granted
<1>3. TypeOK /\ Titled
  BY DEF TakingInv, Titled
<1>4. ASSUME NEW c \in Copies, NEW u \in Readers, BeginLend(p, c, u) PROVE Aims(p)'
  <2>1. req'[p] = Begun("lend", BookOf[c], c, u, None, SeenReaders)
    BY <1>1, <1>4 DEF BeginLend
  <2> QED
    BY <2>1 DEF Begun, Aims
<1>5. ASSUME NEW r \in ReservationIds, BeginPickup(p, r) PROVE Aims(p)'
  <2>1. PICK c \in Copies, u \in Readers \cup {None} :
          c = reservations[r].copy /\ u = reservations[r].reader
    BY <1>3, <1>5 DEF BeginPickup, TypeOK, Reservation
  <2>2. req'[p] = Begun("pickup", BookOf[c], c, u, r, SeenReaders)
    BY <1>1, <1>5, <2>1 DEF BeginPickup
  <2> QED
    BY <2>2 DEF Begun, Aims
<1>6. ASSUME NEW u \in Readers, NEW b \in Books, BeginReserve(p, u, b) PROVE Aims(p)'
  <2>1. req'[p] = Begun("reserve", b, None, u, None, SeenReaders)
    BY <1>1, <1>6 DEF BeginReserve
  <2> QED
    BY <2>1 DEF Begun, Aims, LoanOps
<1>7. ASSUME NEW l \in LoanIds, NEW op \in {"return", "undo"}, BeginOnLoan(p, op, l)
      PROVE  Aims(p)'
  <2>1. /\ req'[p] = Begun(op, BookOf[loans[l].copy], None, None, l, SeenLoan(l))
        /\ loans[l].status # "none" /\ loans' = loans
    BY <1>1, <1>7 DEF BeginOnLoan, vars
  <2> QED
    BY <2>1 DEF Begun, Aims, LoanOps
<1>8. ASSUME NEW r \in ReservationIds, NEW op \in {"cancel", "restore"},
             BeginOnReservation(p, op, r)
      PROVE  Aims(p)'
  <2>1. PICK seen, book :
          /\ req'[p] = Begun(op, book, None, None, r, seen)
          /\ seen.row = reservations[r] /\ book = reservations[r].book
          /\ reservations[r].status # "none" /\ reservations' = reservations
    BY <1>1, <1>8 DEF BeginOnReservation, SeenReservation, vars
  <2>2. /\ reservations[r].copy \in Copies \cup {None}
        /\ reservations[r].copy # None => BookOf[reservations[r].copy] = book
    BY <1>3, <2>1 DEF Titled, TypeOK, Reservation
  <2> QED
    BY <2>1, <2>2 DEF Begun, Aims, LoanOps
<1>9. ASSUME NEW c \in Copies, NEW new \in PatchedTo, BeginPatch(p, c, new)
      PROVE  Aims(p)'
  <2>1. req'[p] = Begun("patch", None, c, None, new, SeenCopy(c)) /\ new \in BooksStates
    BY <1>1, <1>9, SessionAssumption DEF BeginPatch
  <2> QED
    BY <2>1 DEF Begun, Aims, LoanOps
<1> QED
  BY <1>2, <1>4, <1>5, <1>6, <1>7, <1>8, <1>9 DEF Arrive

\* A lock that is granted leaves a loan with a free copy.
LEMMA LockAim ==
    ASSUME TakingInv, NEW p \in Requests, SessionShape', Waited(p)
    PROVE  Aims(p)' /\ TakesFree(p)'
<1>1. /\ UNCHANGED vars /\ (Moved(p, "queued") \/ Moved(p, "granted"))
      /\ Aims(p) /\ TakesFree(p)
  BY DEF Waited, TakingInv
<1>2. Aims(p)'
  BY <1>1 DEF Aims, Moved, vars
<1>3. CASE /\ req[p].op \in LoanOps /\ Moved(p, "queued") /\ CopyIsFree(p)
           /\ bookLock' = [bookLock EXCEPT ![req[p].book] = p]
  <2>1. req[p].book \in Books
    BY <1>1, <1>3, CirculationAssumption DEF Aims
  <2>2. bookLock'[req'[p].book] = p
    BY <1>3, <2>1 DEF Moved, TakingInv, SessionShape
  <2>3. copyState[req[p].copy] \in {"available", "reserved"}
    BY <1>3 DEF CopyIsFree, CanPickUp
  <2> QED
    BY <1>1, <1>2, <1>3, <2>2, <2>3 DEF TakesFree, Granted, Moved, vars
<1>4. CASE /\ req[p].op \in LoanOps /\ req[p].pc = "queued" /\ Moved(p, "granted")
           /\ UNCHANGED bookLock
  BY <1>1, <1>2, <1>4 DEF TakesFree, Granted, Moved, vars
<1>5. CASE req[p].op = "reserve" /\ Moved(p, "queued")
  BY <1>2, <1>5 DEF TakesFree, Granted, Moved, LoanOps
<1> QED
  BY <1>2, <1>3, <1>4, <1>5 DEF Waited

\* A request that ended goes for nothing.
LEMMA EndedAim ==
    ASSUME NEW p \in Requests, Ended(p)
    PROVE  Aims(p)' /\ TakesFree(p)'
<1>1. /\ req'[p].op = None /\ req'[p].pc = "idle"
      /\ None \notin {"lend", "pickup", "return", "undo", "cancel", "restore",
                      "reserve", "patch"}
  BY SessionAssumption DEF Ended, Idle, Operations
<1> QED
  BY <1>1 DEF Aims, TakesFree, Granted, LoanOps

\* A request that writes spares the copies of the others.
LEMMA WriteSpares ==
    ASSUME TakingInv, NEW p \in Requests, Wrote(p)
    PROVE  Spares(Requests \ {p})
<1>1. Titled /\ TypeOK /\ Aims(p) /\ TakesFree(p)
  BY DEF TakingInv, Titled
<1>2. CASE UNCHANGED vars
  BY <1>1, <1>2, NothingWritten DEF vars, TypeOK
<1>3. CASE req[p].pc = "granted" /\ InsertLoan(p)
  <2>1. Granted(p) /\ req[p].op \in LoanOps
    BY <1>1, <1>3 DEF TakesFree, Granted
  <2>2. PICK c \in Copies :
          /\ c = req[p].copy /\ BookOf[c] \in Books /\ bookLock[BookOf[c]] = p
          /\ copyState[c] \in {"available", "reserved"}
    BY <1>1, <2>1, CirculationAssumption DEF Aims, TakesFree
  <2>3. /\ Grows /\ \A d \in Copies : d # c => copyState'[d] = copyState[d]
        /\ \A l \in LoanIds :
             loans[l].status = "none" /\ loans'[l].status = "active" => loans'[l].copy = c
    BY <1>1, <1>3, <2>1, <2>2, LoanWrites DEF Aims
  <2>4. ASSUME NEW q \in Requests \ {p}, Granted(q)
        PROVE  copyState'[req[q].copy] = copyState[req[q].copy]
    <3>1. req[q].copy \in Copies /\ bookLock[BookOf[req[q].copy]] = q
      BY <2>4 DEF TakingInv, Aims, TakesFree, Granted
    <3> QED
      BY <2>2, <2>3, <3>1
  <2> QED
    BY <2>2, <2>3, <2>4 DEF Spares
<1>4. CASE InBookQueue(p) /\ bookLock[req[p].book] = None /\ Body(p)
  <2>1. PICK op, book, reader, arg, seen :
          /\ op = req[p].op /\ book = req[p].book /\ reader = req[p].reader
          /\ arg = req[p].arg /\ seen = req[p].seen
    OBVIOUS
  <2>2. Writes(book)
    <3>1. CASE op = "reserve"
      BY <1>1, <1>4, <2>1, <3>1, ReserveWrites DEF Body, Aims
    <3>2. CASE op \in {"return", "undo"}
      BY <1>1, <1>4, <2>1, <3>2, ReturnWrites DEF Body, Aims
    <3>3. CASE op \in {"cancel", "restore"}
      BY <1>1, <1>4, <2>1, <3>3, CancelWrites, RestoreWrites DEF Body, Aims
    <3> QED
      BY <1>4, <2>1, <3>1, <3>2, <3>3 DEF Body
  <2> QED
    BY <1>4, <2>1, <2>2, TitleSpares DEF Spares
<1>5. CASE /\ req[p].op = "patch" /\ PatchWith(req[p].copy, req[p].arg, req[p].seen)
           /\ \A q \in Requests : ~HoldsCopy(q, req[p].copy)
  <2>1. PICK c \in Copies, new \in BooksStates :
          /\ c = req[p].copy /\ WriteState(c, req[p].seen, new)
          /\ UNCHANGED <<loans, reservations, people>>
    BY <1>1, <1>5 DEF Aims, PatchWith
  <2>2. /\ copyState' \in [Copies -> BooksStates \cup {"absent"}]
        /\ \A d \in Copies : d # c => copyState'[d] = copyState[d]
    BY <1>1, <2>1, StateWritten
  <2>3. ASSUME NEW q \in Requests, Granted(q)
        PROVE  copyState'[req[q].copy] = copyState[req[q].copy]
    BY <1>5, <2>1, <2>2, <2>3 DEF Granted, HoldsCopy, TakingInv, Aims
  <2>4. Grows
    BY <1>1, <2>1, <2>2, LeftKept DEF Grows, Titled, TypeOK, people, Kept
  <2> QED
    BY <2>1, <2>3, <2>4 DEF Spares
<1> QED
  BY <1>2, <1>3, <1>4, <1>5 DEF Wrote

\* So does an operation that runs alone.
LEMMA LoneSpares ==
    ASSUME TakingInv, LoneRequest
    PROVE  Spares(Requests)
<1>1. Titled /\ TypeOK
  BY DEF TakingInv, Titled
<1>2. ASSUME NEW l \in LoanIds, loans[l].status = "active",
             Undisturbed(BookOf[loans[l].copy]), ReturnLoan(l)
      PROVE  Spares(Requests)
  <2>1. Writes(BookOf[loans[l].copy])
    BY <1>1, <1>2, ReturnWrites DEF ReturnLoan
  <2> QED
    BY <1>2, <2>1, TitleSpares DEF Undisturbed
<1>3. ASSUME NEW r \in ReservationIds, reservations[r].status \in OpenStatus,
             Undisturbed(reservations[r].book), CancelReservation(r)
      PROVE  Spares(Requests)
  <2>1. PICK seen : seen.row = reservations[r] /\ CancelWith(r, seen)
    BY <1>3 DEF CancelReservation, SeenReservation
  <2>2. /\ reservations[r].status # "none"
        /\ reservations[r].copy \in Copies \cup {None}
        /\ reservations[r].copy # None => BookOf[reservations[r].copy] = reservations[r].book
    BY <1>1, <1>3 DEF OpenStatus, Titled, TypeOK, Reservation
  <2>3. Writes(reservations[r].book)
    BY <1>1, <2>1, <2>2, CancelWrites
  <2> QED
    BY <1>3, <2>3, TitleSpares DEF Undisturbed
<1>4. ASSUME NEW u \in Readers, DeactivateReader(u) PROVE Spares(Requests)
  BY <1>1, <1>4, NothingWritten DEF DeactivateReader, TypeOK
<1> QED
  BY <1>2, <1>3, <1>4 DEF LoneRequest

\* Every step keeps a free copy for each loan that has its lock, and enters loans for
\* free copies.
LEMMA TakingStep ==
    TakingInv /\ [SessionNext]_allVars =>
      /\ TakingInv'
      /\ \A l \in LoanIds :
           loans[l].status = "none" /\ loans'[l].status = "active"
           => copyState[loans'[l].copy] \in {"available", "reserved"}
<1> SUFFICES ASSUME TakingInv, [SessionNext]_allVars
             PROVE  TakingInv' /\ Spares({})
  BY DEF Spares
<1>calm. ASSUME UNCHANGED vars PROVE Spares(Requests)
  BY <1>calm, NothingWritten DEF vars, TakingInv, Titled, TypeOK
<1>1. ASSUME NEW p \in Requests, Arrive(p) \/ Step(p) \/ Abort(p)
      PROVE  TakingInv' /\ Spares({})
  <2>1. /\ SessionShape' /\ OthersGoOn(p)
        /\ \/ Arrive(p) /\ Began(p)
           \/ Waited(p)
           \/ Wrote(p) /\ Ended(p)
    BY <1>1, ArriveAdvances, StepKinds DEF Advances, TakingInv
  <2>2. Aims(p)' /\ TakesFree(p)'
    BY <2>1, FirstAim, LockAim, EndedAim
  <2>3. Spares(Requests \ {p})
    <3>1. CASE UNCHANGED vars
      BY <1>calm, <3>1 DEF Spares
    <3> QED
      BY <2>1, <3>1, WriteSpares DEF Began, Waited
  <2>4. ASSUME NEW q \in Requests \ {p} PROVE Aims(q)' /\ TakesFree(q)'
    <3>1. Spares({q})
      BY <2>3 DEF Spares
    <3> QED
      BY <2>1, <3>1, AimsKept DEF OthersGoOn
  <2> QED
    BY <2>1, <2>2, <2>3, <2>4 DEF TakingInv, Spares, Grows
<1>2. ASSUME UNCHANGED sessionVars, Spares(Requests)
      PROVE  TakingInv' /\ Spares({})
  <2>1. SessionShape'
    BY <1>2 DEF sessionVars, TakingInv, SessionShape
  <2>2. ASSUME NEW q \in Requests PROVE Aims(q)' /\ TakesFree(q)'
    <3>1. Spares({q})
      BY <1>2 DEF Spares
    <3> QED
      BY <1>2, <3>1, AimsKept DEF sessionVars
  <2> QED
    BY <1>2, <2>1, <2>2 DEF TakingInv, Spares, Grows
<1>3. CASE LoneRequest
  BY <1>2, <1>3, LoneSpares DEF LoneRequest
<1>4. CASE UNCHANGED allVars
  BY <1>2, <1>4, <1>calm DEF allVars
<1> QED
  BY <1>1, <1>3, <1>4 DEF SessionNext

\* Nothing is lent at first.
LEMMA TakingInit == SessionInit => TakingInv
<1> SUFFICES ASSUME SessionInit PROVE TakingInv
  OBVIOUS
<1>1. SessionShape /\ TypeOK
  BY ShapeInit, TypeInit DEF SessionInit
<1>2. Titled
  BY <1>1 DEF SessionInit, Init, NoLoan, NoReservation, Titled
<1>3. ASSUME NEW p \in Requests PROVE Aims(p) /\ TakesFree(p)
  <2>1. /\ req[p].op = None /\ req[p].pc = "idle"
        /\ None \notin {"lend", "pickup", "return", "undo", "cancel", "restore",
                        "reserve", "patch"}
    BY SessionAssumption DEF SessionInit, Idle, Operations
  <2> QED
    BY <2>1 DEF Aims, TakesFree, Granted, LoanOps
<1> QED
  BY <1>1, <1>2, <1>3 DEF TakingInv

\* Whatever overlaps, a loan is entered for a copy that is free at that commit.
THEOREM FreeCopyTaken == SessionSpec => LoanTakesFreeCopy
  BY TakingInit, TakingStep, PTL DEF SessionSpec, LoanTakesFreeCopy

-----------------------------------------------------------------------------
(* The limit of loans, whatever overlaps but the undoing of a return: the  *)
(* count made behind the reader's lock is still right at the commit.       *)

\* A loan that was granted has its reader's lock, and she is under her limit.
CountsRight(p) ==
    req[p].pc = "granted" /\ req[p].reader \in Readers =>
        /\ readerLock[req[p].reader] = p
        /\ UnderLoanLimit(req[p].reader)

LendingInv ==
    /\ TakingInv
    /\ \A u \in Readers : Limited(LoansOf(u), MaxActiveLoans[u])
    /\ \A p \in Requests : req[p].op # "undo" /\ CountsRight(p)

\* No reader but those in S has a loan more than before.
Lends(S) == \A u \in Readers \ S : LoansOf(u)' \subseteq LoansOf(u)

\* A reader who has no loan more is still under her limit.
LEMMA StillUnder ==
    ASSUME NEW u \in Readers, Limited(LoansOf(u), MaxActiveLoans[u]),
           LoansOf(u)' \subseteq LoansOf(u)
    PROVE  /\ Limited(LoansOf(u), MaxActiveLoans[u])'
           /\ UnderLoanLimit(u) => UnderLoanLimit(u)'
<1>1. MaxActiveLoans[u] \in Nat
  BY CirculationAssumption
<1>2. Limited(LoansOf(u)', MaxActiveLoans[u])
  BY <1>1, Fewer
<1>3. Cardinality(LoansOf(u)') <= Cardinality(LoansOf(u))
  BY FS_Subset DEF Limited
<1>4. Cardinality(LoansOf(u)') \in Nat /\ Cardinality(LoansOf(u)) \in Nat
  BY <1>2, FS_CardinalityType DEF Limited
<1>5. UnderLoanLimit(u) => UnderLoanLimit(u)'
  BY <1>1, <1>3, <1>4 DEF UnderLoanLimit
<1> QED
  BY <1>2, <1>5 DEF Limited

\* A loan is one more of its reader's.
LEMMA LoanCounted ==
    ASSUME TypeOK, NEW c, NEW v, AddLoan(c, v)
    PROVE  /\ Lends({v})
           /\ v \in Readers => \E l \in LoanIds : LoansOf(v)' \subseteq LoansOf(v) \cup {l}
<1>1. PICK l \in LoanIds :
        loans' = [loans EXCEPT ![l] = [copy |-> c, reader |-> v, status |-> "active"]]
  BY OldestInSet, CirculationAssumption DEF AddLoan, UnusedLoans
<1>2. ASSUME NEW u \in Readers PROVE LoansOf(u)' \subseteq LoansOf(u) \cup {l}
  BY <1>1 DEF LoansOf, TypeOK
<1>3. ASSUME NEW u \in Readers \ {v} PROVE LoansOf(u)' \subseteq LoansOf(u)
  BY <1>1 DEF LoansOf, TypeOK
<1> QED
  BY <1>2, <1>3 DEF Lends

\* A return is one less.
LEMMA ReturnCounted ==
    ASSUME TypeOK, NEW l \in LoanIds, loans' = [loans EXCEPT ![l].status = "returned"]
    PROVE  Lends({})
<1>1. /\ loans'[l].status = "returned"
      /\ \A m \in LoanIds \ {l} : loans'[m] = loans[m]
  BY DEF TypeOK, Loan
<1> QED
  BY <1>1 DEF Lends, LoansOf

\* Of what a request writes only a loan counts, and it was granted.
LEMMA WriteCounted ==
    ASSUME LendingInv, NEW p \in Requests, Wrote(p)
    PROVE  \/ Lends({})
           \/ /\ req[p].pc = "granted" /\ Lends({req[p].reader})
              /\ \A u \in Readers : u = req[p].reader =>
                   \E l \in LoanIds : LoansOf(u)' \subseteq LoansOf(u) \cup {l}
<1>1. TypeOK /\ Aims(p) /\ req[p].op # "undo"
  BY DEF LendingInv, TakingInv, Titled
<1>calm. ASSUME UNCHANGED loans PROVE Lends({})
  BY <1>calm DEF Lends, LoansOf
<1>2. CASE req[p].pc = "granted" /\ InsertLoan(p)
  <2>1. PICK c, u : u = req[p].reader /\ AddLoan(c, u)
    BY <1>2 DEF InsertLoan
  <2>2. /\ Lends({u})
        /\ u \in Readers => \E l \in LoanIds : LoansOf(u)' \subseteq LoansOf(u) \cup {l}
    BY <1>1, <2>1, LoanCounted
  <2> QED
    BY <1>2, <2>1, <2>2
<1>3. CASE InBookQueue(p) /\ bookLock[req[p].book] = None /\ Body(p)
  <2>1. CASE UNCHANGED loans
    BY <2>1, <1>calm
  <2>2. CASE /\ req[p].op = "return"
             /\ loans' = [loans EXCEPT ![req[p].arg].status = "returned"]
    BY <1>1, <2>2, ReturnCounted DEF Aims
  <2> QED
    BY <1>1, <1>3, <2>1, <2>2
    DEF Body, ReserveWith, ReturnWith, CancelWith, RestoreWith
<1>4. CASE req[p].op = "patch" /\ PatchWith(req[p].copy, req[p].arg, req[p].seen)
  BY <1>4, <1>calm DEF PatchWith
<1> QED
  BY <1>2, <1>3, <1>4, <1>calm DEF Wrote, vars

\* Nobody borrows by an operation that runs alone.
LEMMA LoneCounted ==
    ASSUME TypeOK, LoneRequest
    PROVE  Lends({})
<1>calm. ASSUME UNCHANGED loans PROVE Lends({})
  BY <1>calm DEF Lends, LoansOf
<1>1. ASSUME NEW l \in LoanIds, ReturnLoan(l) PROVE Lends({})
  BY <1>1, ReturnCounted DEF ReturnLoan, ReturnWith
<1>2. ASSUME NEW r \in ReservationIds, CancelReservation(r) PROVE Lends({})
  BY <1>2, <1>calm DEF CancelReservation, CancelWith
<1>3. ASSUME NEW u \in Readers, DeactivateReader(u) PROVE Lends({})
  BY <1>3, <1>calm DEF DeactivateReader
<1> QED
  BY <1>1, <1>2, <1>3 DEF LoneRequest

\* A request that goes on while the others lend to nobody it counted still counts right.
LEMMA CountKept ==
    ASSUME LendingInv, NEW q \in Requests, req'[q] = req[q],
           \A u \in Readers : readerLock'[u] = q <=> readerLock[u] = q,
           NEW S, Lends(S), req[q].pc = "granted" => req[q].reader \notin S
    PROVE  CountsRight(q)'
<1>1. SUFFICES ASSUME req[q].pc = "granted", NEW u \in Readers, u = req[q].reader
               PROVE  readerLock'[u] = q /\ UnderLoanLimit(u)'
  BY DEF CountsRight, UnderLoanLimit, LoansOf
<1>2. readerLock[u] = q /\ UnderLoanLimit(u) /\ Limited(LoansOf(u), MaxActiveLoans[u])
  BY <1>1 DEF LendingInv, CountsRight
<1>3. LoansOf(u)' \subseteq LoansOf(u)
  BY <1>1 DEF Lends
<1> QED
  BY <1>2, <1>3, StillUnder

\* No step takes a reader past her limit.
LEMMA LendingStep ==
    ASSUME "undo" \notin Overlapping
    PROVE  LendingInv /\ [SessionNext]_allVars => LendingInv'
<1> SUFFICES ASSUME LendingInv, [SessionNext]_allVars PROVE LendingInv'
  OBVIOUS
<1>taking. TakingInv /\ TakingInv' /\ SessionShape /\ TypeOK
  BY TakingStep DEF LendingInv, TakingInv, Titled
<1>spared. ASSUME Lends({})
           PROVE  \A u \in Readers : Limited(LoansOf(u), MaxActiveLoans[u])'
  BY <1>spared, StillUnder DEF LendingInv, Lends
<1>1. ASSUME NEW p \in Requests, Arrive(p) \/ Step(p) \/ Abort(p) PROVE LendingInv'
  <2>1. /\ SessionShape' /\ OthersGoOn(p)
        /\ Began(p) \/ Waited(p) \/ (Wrote(p) /\ Ended(p))
    BY <1>1, <1>taking, ArriveAdvances, StepKinds DEF Advances
  <2>2. CASE Began(p) \/ Waited(p)
    <3>1. Lends({}) /\ UNCHANGED vars
      BY <2>2 DEF Began, Waited, vars, Lends, LoansOf
    <3>2. req'[p].op # "undo"
      BY <2>2 DEF Began, Waited, Moved, LendingInv
    <3>3. CountsRight(p)'
      <4>1. CASE Began(p)
        BY <4>1 DEF Began, CountsRight
      <4>2. CASE Moved(p, "queued")
        BY <4>2 DEF Moved, CountsRight
      <4>3. CASE /\ Moved(p, "granted") /\ UnderLoanLimit(req[p].reader)
                 /\ readerLock' = [readerLock EXCEPT ![req[p].reader] = p]
        <5>1. SUFFICES ASSUME NEW u \in Readers, u = req[p].reader
                       PROVE  readerLock'[u] = p /\ UnderLoanLimit(u)'
          BY <4>3 DEF Moved, CountsRight, UnderLoanLimit, LoansOf
        <5>2. readerLock'[u] = p
          BY <4>3, <5>1, <1>taking DEF SessionShape
        <5> QED
          BY <3>1, <4>3, <5>1, <5>2 DEF UnderLoanLimit, LoansOf, vars
      <4> QED
        BY <2>2, <4>1, <4>2, <4>3 DEF Waited
    <3>4. ASSUME NEW q \in Requests \ {p} PROVE req'[q].op # "undo" /\ CountsRight(q)'
      BY <2>1, <3>1, CountKept DEF OthersGoOn, LendingInv
    <3> QED
      BY <1>taking, <1>spared, <3>1, <3>2, <3>3, <3>4 DEF LendingInv
  <2>3. CASE Wrote(p) /\ Ended(p)
    <3>1. req'[p].op # "undo" /\ CountsRight(p)'
      BY <2>3, SessionAssumption DEF Ended, Idle, CountsRight, Operations
    <3>2. CASE Lends({})
      <4>1. ASSUME NEW q \in Requests \ {p} PROVE req'[q].op # "undo" /\ CountsRight(q)'
        BY <2>1, <3>2, CountKept DEF OthersGoOn, LendingInv
      <4> QED
        BY <1>taking, <1>spared, <3>1, <3>2, <4>1 DEF LendingInv
    <3>3. CASE /\ req[p].pc = "granted" /\ Lends({req[p].reader})
               /\ \A u \in Readers : u = req[p].reader =>
                    \E l \in LoanIds : LoansOf(u)' \subseteq LoansOf(u) \cup {l}
      <4>1. ASSUME NEW q \in Requests \ {p} PROVE req'[q].op # "undo" /\ CountsRight(q)'
        <5>1. req[q].pc = "granted" /\ req[q].reader \in Readers
                => req[q].reader # req[p].reader
          BY <3>3 DEF LendingInv, CountsRight
        <5>2. CASE req[q].reader \in Readers
          BY <2>1, <3>3, <5>1, <5>2, CountKept DEF OthersGoOn, LendingInv
        <5>3. CASE req[q].reader \notin Readers
          BY <2>1, <5>3 DEF OthersGoOn, LendingInv, CountsRight
        <5> QED
          BY <5>2, <5>3
      <4>2. ASSUME NEW u \in Readers PROVE Limited(LoansOf(u), MaxActiveLoans[u])'
        <5>1. CASE u # req[p].reader
          BY <3>3, <5>1, StillUnder DEF LendingInv, Lends
        <5>2. CASE u = req[p].reader
          <6>1. PICK l \in LoanIds : LoansOf(u)' \subseteq LoansOf(u) \cup {l}
            BY <3>3, <5>2
          <6>2. /\ UnderLoanLimit(u) /\ Limited(LoansOf(u), MaxActiveLoans[u])
                /\ MaxActiveLoans[u] \in Nat
            BY <3>3, <5>2, CirculationAssumption DEF LendingInv, CountsRight
          <6>3. Limited(LoansOf(u)', MaxActiveLoans[u])
            BY <6>1, <6>2, OneMore DEF UnderLoanLimit
          <6> QED
            BY <6>3 DEF Limited
        <5> QED
          BY <5>1, <5>2
      <4> QED
        BY <1>taking, <3>1, <4>1, <4>2 DEF LendingInv
    <3> QED
      BY <2>3, <3>2, <3>3, WriteCounted
  <2> QED
    BY <2>1, <2>2, <2>3
<1>2. ASSUME UNCHANGED sessionVars, Lends({}) PROVE LendingInv'
  <2>1. ASSUME NEW q \in Requests PROVE req'[q].op # "undo" /\ CountsRight(q)'
    BY <1>2, CountKept DEF sessionVars, LendingInv
  <2> QED
    BY <1>taking, <1>2, <1>spared, <2>1 DEF LendingInv
<1>3. CASE LoneRequest
  BY <1>2, <1>3, <1>taking, LoneCounted DEF LoneRequest
<1>4. CASE UNCHANGED allVars
  BY <1>2, <1>4 DEF allVars, vars, Lends, LoansOf
<1> QED
  BY <1>1, <1>3, <1>4 DEF SessionNext

\* Nothing is lent at first.
LEMMA LendingInit == SessionInit => LendingInv
<1> SUFFICES ASSUME SessionInit PROVE LendingInv
  OBVIOUS
<1>1. TakingInv /\ LimitsInv
  BY TakingInit, LimitsInit DEF SessionInit
<1>2. ASSUME NEW p \in Requests PROVE req[p].op # "undo" /\ CountsRight(p)
  BY SessionAssumption DEF SessionInit, Idle, CountsRight, Operations
<1> QED
  BY <1>1, <1>2 DEF LendingInv, LimitsInv

\* However many requests lend at once, and whatever overlaps with them but the undoing of
\* a return, nobody borrows more than her policy allows: the loans are counted behind
\* her row lock (lock_borrower), and nobody else lends to her until the commit.
THEOREM LoansLimitedAtOnce ==
    ASSUME "undo" \notin Overlapping PROVE SessionSpec => []LoanLimit
<1>1. LendingInv => LoanLimit
  BY DEF LendingInv, LoanLimit, Limited
<1>2. LendingInv /\ [SessionNext]_allVars => LendingInv'
  BY LendingStep
<1> QED
  BY <1>1, <1>2, LendingInit, PTL DEF SessionSpec

=============================================================================
