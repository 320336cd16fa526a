------------------------ MODULE CirculationSessions ------------------------
(***************************************************************************)
(* The handlers of Circulation as concurrent requests, each with its own   *)
(* AsyncSession over PostgreSQL at READ COMMITTED.  A handler reads its    *)
(* target before it holds any lock, waits for the row locks                *)
(* lock_book_queue and lock_borrower take, and writes at commit.  Only     *)
(* create_loan refreshes a row after the wait (populate_existing); the     *)
(* others decide on the row as they first read it.  create_loan locks the  *)
(* book and then the reader, create_reservation the reader and then the    *)
(* book, so requests can wait in a circle and PostgreSQL aborts one.       *)
(***************************************************************************)
EXTENDS Circulation

CONSTANTS
    Requests,     \* requests being served at one time
    Overlapping,  \* operations whose requests may overlap with any other
    Alone,        \* operations that run from first read to commit undisturbed
    PatchedTo     \* bound: the states patch_copy is asked for

Operations == {"lend", "pickup", "return", "undo", "reserve", "cancel",
               "restore", "patch", "deactivate"}

ASSUME SessionAssumption ==
    /\ Overlapping \subseteq Operations \ {"deactivate"}
    /\ Alone \subseteq Operations
    /\ PatchedTo \subseteq BooksStates
    /\ None \notin Requests \cup Operations

VARIABLES
    req,        \* what each request is doing and what it has read
    bookLock,   \* the request that holds the row lock of each book
    readerLock  \* and of each reader

sessionVars == <<req, bookLock, readerLock>>
allVars == <<vars, sessionVars>>

Idle == [op |-> None, pc |-> "idle", book |-> None, copy |-> None,
         reader |-> None, arg |-> None, seen |-> None]

\* A request after its first read, which saw `seen`.
Begun(op, book, copy, reader, arg, seen) ==
    [op |-> op, pc |-> "begun", book |-> book, copy |-> copy,
     reader |-> reader, arg |-> arg, seen |-> seen]

LoanOps == {"lend", "pickup"}

SessionInit ==
    /\ Init
    /\ req = [p \in Requests |-> Idle]
    /\ bookLock = [b \in Books |-> None]
    /\ readerLock = [u \in Readers |-> None]

\* Commit or rollback: the transaction ends and its row locks are released.
Finish(p) ==
    /\ req' = [req EXCEPT ![p] = Idle]
    /\ bookLock' = [b \in Books |-> IF bookLock[b] = p THEN None ELSE bookLock[b]]
    /\ readerLock' =
           [u \in Readers |-> IF readerLock[u] = p THEN None ELSE readerLock[u]]

\* Mutant: the copy is released as soon as its state has been checked.
HoldsCopyWhileQueued(p, c) ==
    /\ req[p].op \in LoanOps
    /\ req[p].pc = "queued"
    /\ req[p].copy = c

\* create_loan holds its copy FOR UPDATE from the second lookup to the commit.
HoldsCopy(p, c) ==
    /\ req[p].op \in LoanOps
    /\ req[p].pc \in {"queued", "granted"}
    /\ req[p].copy = c

-----------------------------------------------------------------------------
(* The first, unlocked read of each handler *)

Begin(p, r) ==
    /\ req[p].pc = "idle"
    /\ r.op \in Overlapping
    /\ req' = [req EXCEPT ![p] = r]
    /\ UNCHANGED <<vars, bookLock, readerLock>>

BeginLend(p, c, u) ==
    /\ copyState[c] # "absent"
    /\ Begin(p, Begun("lend", BookOf[c], c, u, None, SeenReaders))

BeginPickup(p, r) ==
    LET row == reservations[r]
    IN  /\ row.copy # None
        /\ Begin(p, Begun("pickup", BookOf[row.copy], row.copy, row.reader, r,
                          SeenReaders))

BeginReserve(p, u, b) ==
    /\ u \in activeReaders
    /\ Begin(p, Begun("reserve", b, None, u, None, SeenReaders))

BeginOnLoan(p, op, l) ==
    /\ loans[l].status # "none"
    /\ Begin(p, Begun(op, BookOf[loans[l].copy], None, None, l, SeenLoan(l)))

BeginOnReservation(p, op, r) ==
    /\ reservations[r].status # "none"
    /\ Begin(p, Begun(op, reservations[r].book, None, None, r, SeenReservation(r)))

BeginPatch(p, c, new) ==
    /\ copyState[c] # "absent"
    /\ Begin(p, Begun("patch", None, c, None, new, SeenCopy(c)))

-----------------------------------------------------------------------------
(* create_loan after its first read *)

\* The checks made with the book and the refreshed copy locked.
CopyIsFree(p) ==
    /\ req[p].reader \in req[p].seen.readers
    /\ \/ req[p].op = "lend" /\ copyState[req[p].copy] = "available"
       \/ /\ req[p].op = "pickup"
          /\ CanPickUp(req[p].arg)
          /\ reservations[req[p].arg].copy = req[p].copy

\* Mutant: the copy is checked without the book's lock.
LockNoBook(p) ==
    /\ req[p].op \in LoanOps /\ req[p].pc = "begun"
    /\ \/ /\ CopyIsFree(p)
          /\ req' = [req EXCEPT ![p].pc = "queued"]
          /\ UNCHANGED <<bookLock, readerLock>>
       \/ ~CopyIsFree(p) /\ Finish(p)
    /\ UNCHANGED vars

LockBook(p) ==
    /\ req[p].op \in LoanOps /\ req[p].pc = "begun"
    /\ bookLock[req[p].book] = None
    /\ \/ /\ CopyIsFree(p)
          /\ bookLock' = [bookLock EXCEPT ![req[p].book] = p]
          /\ req' = [req EXCEPT ![p].pc = "queued"]
          /\ UNCHANGED readerLock
       \/ ~CopyIsFree(p) /\ Finish(p)
    /\ UNCHANGED vars

\* Mutant: the limit is checked without the reader's lock.
LockNoBorrower(p) ==
    LET u == req[p].reader
    IN  /\ req[p].op \in LoanOps /\ req[p].pc = "queued"
        /\ \/ /\ UnderLoanLimit(u)
              /\ req' = [req EXCEPT ![p].pc = "granted"]
              /\ UNCHANGED <<bookLock, readerLock>>
           \/ ~UnderLoanLimit(u) /\ Finish(p)
        /\ UNCHANGED vars

LockBorrower(p) ==
    LET u == req[p].reader
    IN  /\ req[p].op \in LoanOps /\ req[p].pc = "queued"
        /\ readerLock[u] = None
        /\ \/ /\ UnderLoanLimit(u)
              /\ readerLock' = [readerLock EXCEPT ![u] = p]
              /\ req' = [req EXCEPT ![p].pc = "granted"]
              /\ UNCHANGED bookLock
           \/ ~UnderLoanLimit(u) /\ Finish(p)
        /\ UNCHANGED vars

\* Mutant: the reservation is not marked fulfilled.
InsertLoanOnly(p) ==
    /\ AddLoan(req[p].copy, req[p].reader)
    /\ UNCHANGED reservations

InsertLoan(p) ==
    /\ AddLoan(req[p].copy, req[p].reader)
    /\ IF req[p].op = "pickup"
       THEN reservations' = [reservations EXCEPT ![req[p].arg].status = "fulfilled"]
       ELSE UNCHANGED reservations

\* LoanIds bounds the loans of a run: past it a request is dropped.
CommitLoan(p) ==
    /\ req[p].pc = "granted"
    /\ InsertLoan(p) \/ (UnusedLoans = {} /\ UNCHANGED vars)
    /\ Finish(p)

-----------------------------------------------------------------------------
(* The other handlers after their first read *)

\* create_reservation locks the reader first and checks her policy.
LockReserver(p) ==
    LET u == req[p].reader
    IN  /\ req[p].op = "reserve" /\ req[p].pc = "begun"
        /\ readerLock[u] = None
        /\ \/ /\ u \in CanReserve
              /\ readerLock' = [readerLock EXCEPT ![u] = p]
              /\ req' = [req EXCEPT ![p].pc = "queued"]
              /\ UNCHANGED bookLock
           \/ u \notin CanReserve /\ Finish(p)
        /\ UNCHANGED vars

\* What each handler writes once it has the book's lock, from what it saw.
Body(p) ==
    LET q == req[p]
    IN  \/ q.op = "reserve" /\ q.pc = "queued" /\ ReserveWith(q.reader, q.book, q.seen)
        \/ q.op = "return" /\ ReturnWith(q.arg, q.seen)
        \/ q.op = "undo" /\ UndoReturnWith(q.arg, q.seen)
        \/ q.op = "cancel" /\ CancelWith(q.arg, q.seen)
        \/ q.op = "restore" /\ RestoreWith(q.arg, q.seen)

InBookQueue(p) ==
    \/ req[p].op = "reserve" /\ req[p].pc = "queued"
    \/ req[p].op \in {"return", "undo", "cancel", "restore"}

Serve(p) ==
    /\ InBookQueue(p)
    /\ bookLock[req[p].book] = None
    /\ Body(p) \/ (~ENABLED Body(p) /\ UNCHANGED vars)
    /\ Finish(p)

\* patch_copy takes no queue lock; its UPDATE waits for the copy's row.
WritePatch(p) ==
    /\ req[p].op = "patch"
    /\ \A q \in Requests : ~HoldsCopy(q, req[p].copy)
    /\ PatchWith(req[p].copy, req[p].arg, req[p].seen)
    /\ Finish(p)

-----------------------------------------------------------------------------
(* Rollbacks *)

WaitsFor(p) ==
    CASE req[p].op \in LoanOps /\ req[p].pc = "queued" -> readerLock[req[p].reader]
      [] req[p].op = "reserve" /\ req[p].pc = "begun" -> readerLock[req[p].reader]
      [] req[p].op \in LoanOps /\ req[p].pc = "begun" -> bookLock[req[p].book]
      [] InBookQueue(p) -> bookLock[req[p].book]
      [] OTHER -> None

\* Mutant: only a request that waits for itself is seen to wait in a circle.
WaitsForItself(p) == WaitsFor(p) = p

InCircle(p) ==
    \E S \in SUBSET Requests :
        /\ p \in S
        /\ \A q \in S : WaitsFor(q) \in S /\ \E t \in S : WaitsFor(t) = q

\* PostgreSQL's deadlock detector aborts a request of the circle.
DeadlockVictim(p) ==
    /\ InCircle(p)
    /\ Finish(p)
    /\ UNCHANGED vars

\* A refusal for a reason outside this model (overdue or suspended reader), a
\* lost connection or a stopped worker: the transaction is rolled back.
Abort(p) ==
    /\ req[p].pc # "idle"
    /\ Finish(p)
    /\ UNCHANGED vars

-----------------------------------------------------------------------------
(* Operations that run alone, and the whole *)

Undisturbed(b) == bookLock[b] = None

LoneRequest ==
    /\ \/ /\ "return" \in Alone
          /\ \E l \in LoanIds : /\ loans[l].status = "active"
                                /\ Undisturbed(BookOf[loans[l].copy])
                                /\ ReturnLoan(l)
       \/ /\ "cancel" \in Alone
          /\ \E r \in ReservationIds : /\ reservations[r].status \in OpenStatus
                                       /\ Undisturbed(reservations[r].book)
                                       /\ CancelReservation(r)
       \/ /\ "deactivate" \in Alone
          /\ \E u \in Readers : readerLock[u] = None /\ DeactivateReader(u)
    /\ UNCHANGED sessionVars

Step(p) ==
    \/ LockBook(p)
    \/ LockBorrower(p)
    \/ CommitLoan(p)
    \/ LockReserver(p)
    \/ Serve(p)
    \/ WritePatch(p)
    \/ DeadlockVictim(p)

Arrive(p) ==
    \/ \E c \in Copies, u \in Readers : BeginLend(p, c, u)
    \/ \E r \in ReservationIds : BeginPickup(p, r)
    \/ \E u \in Readers, b \in Books : BeginReserve(p, u, b)
    \/ \E l \in LoanIds, op \in {"return", "undo"} : BeginOnLoan(p, op, l)
    \/ \E r \in ReservationIds, op \in {"cancel", "restore"} :
           BeginOnReservation(p, op, r)
    \/ \E c \in Copies, new \in PatchedTo : BeginPatch(p, c, new)

SessionNext ==
    \/ \E p \in Requests : Arrive(p) \/ Step(p) \/ Abort(p)
    \/ LoneRequest

SessionSpec == SessionInit /\ [][SessionNext]_allVars

\* Every request runs on its own task and PostgreSQL grants a row lock in the
\* order it was asked for, so a request that keeps finding its lock free gets
\* it.  Nothing makes readers or staff send requests.
Fairness ==
    \A p \in Requests :
        /\ SF_allVars(LockBook(p))
        /\ SF_allVars(LockBorrower(p))
        /\ WF_allVars(CommitLoan(p))
        /\ SF_allVars(LockReserver(p))
        /\ SF_allVars(Serve(p))
        /\ SF_allVars(WritePatch(p))
        /\ WF_allVars(DeadlockVictim(p))

FairSpec == SessionSpec /\ Fairness

-----------------------------------------------------------------------------
(* Properties *)

\* No copy is in the hands of two readers: the docstring of
\* test_concurrent_loans_same_copy_are_serialized.
OneLoanPerCopy == \A c \in Copies : \A l, m \in LoansOn(c) : l = m

\* A loan is entered only for a copy that is free in the table at that very
\* commit, whatever else was returned, cancelled, restored or edited by hand
\* since the copy was looked up (the comment on populate_existing).
LoanTakesFreeCopy ==
    [][\A l \in LoanIds :
           loans[l].status = "none" /\ loans'[l].status = "active"
           => copyState[loans'[l].copy] \in {"available", "reserved"}]_allVars

\* Whatever the requests interleave, each change of the tables is the change
\* one handler would have made with the tables to itself: lock_book_queue
\* serializes the operations of a title.
Serialized == [][Next]_vars

\* A request does not wait for ever, although lending takes the book's lock
\* and then the reader's, and reserving takes them in the other order.
RequestsFinish ==
    \A p \in Requests : req[p].pc # "idle" ~> req[p].pc = "idle"

=============================================================================
