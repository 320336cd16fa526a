---------------------------- MODULE StaffRequests ----------------------------
(***************************************************************************)
(* Requests of the staff that write to tables under unique keys, and the     *)
(* part of PostgreSQL they meet: a key that a transaction has inserted or a  *)
(* row it has locked is held until the transaction ends, and whoever needs  *)
(* it waits; two that wait for each other are a deadlock, and one of them    *)
(* is rolled back.  A request is served once, in its own session            *)
(* (src/src/database.py).                                                   *)
(***************************************************************************)
EXTENDS Integers, FiniteSets, FiniteSetsExt

CONSTANTS
  Requests,   \* the requests of the staff, each served once
  Schools,    \* schools, named by their code
  Keep,       \* a field that a request leaves out
  None

VARIABLE req  \* req[p]: what request p asked for and how far it has come

(* holds: the keys and rows kept until the end; wants: the one to take next. *)
NewRequest == [op |-> None, pc |-> "new", holds |-> {}, wants |-> None]

New(p) == req[p].pc = "new"
At(p, op, pc) == req[p].op = op /\ req[p].pc = pc

InFlight == {p \in Requests : req[p].pc \notin {"new", "done", "failed"}}

(* What an await can see of a key: nobody else has it in an open transaction. *)
Free(p, key) == \A q \in Requests \ {p} : key \notin req[q].holds
FreeOfAll(key) == \A q \in Requests : key \notin req[q].holds

Set(p, record) == req' = [req EXCEPT ![p] = record]
Ended(pc) == [NewRequest EXCEPT !.pc = pc]
Commit(p) == Set(p, Ended("done"))
Rollback(p) == Set(p, Ended("failed"))

WaitsFor(p, q) == req[p].wants \in req[q].holds

(* Two requests that each hold what the other wants.                       *)
Deadlocked(p) ==
  \E q \in Requests \ {p} : WaitsFor(p, q) /\ WaitsFor(q, p)

(* The steps at which a request succeeds, for the action properties.       *)
Succeeds(p) == p \in InFlight /\ req'[p].pc = "done"
==============================================================================
