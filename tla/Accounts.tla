------------------------------- MODULE Accounts -------------------------------
(***************************************************************************)
(* One account, the invitations that open it, and the requests that race    *)
(* for both: src/src/routers/users.py, routers/account_activation.py and    *)
(* services/account_activation.py.                                          *)
(*                                                                         *)
(* Requests are transactions at READ COMMITTED.  A request reads the user   *)
(* once and keeps what it read (the session's identity map); a statement    *)
(* that locks rows sees the rows committed when it was issued, waits for    *)
(* them one by one, and looks again at each before it takes it.  Writes     *)
(* become visible at commit, which releases the locks.                      *)
(*                                                                         *)
(* Lapses of time are events of their own: a code or an undo record         *)
(* expires, failed attempts grow old, a locked code is unlocked.            *)
(***************************************************************************)
EXTENDS Naturals, FiniteSets, FiniteSetsExt, TLC

CONSTANTS
  Requests,      \* slots for requests in flight
  Invitations,   \* keys of account_activation_tokens, in order of creation
  Undos,         \* keys of password_reset_undos, likewise
  Passwords,
  ACTIVATION_USER_ATTEMPTS,   \* settings.py
  Occurring,     \* the operations that occur, "time" among them
  Overlapping,   \* those whose requests may overlap with others
  None

Ops == {"regenerate", "reset", "undo", "revoke", "validate", "complete",
        "set_password", "deactivate"}

ASSUME AccountsAssumption ==
  /\ IsFiniteSet(Requests)
  /\ Invitations \subseteq Nat \ {0} /\ IsFiniteSet(Invitations)
  /\ Undos \subseteq Nat \ {0} /\ IsFiniteSet(Undos)
  /\ ACTIVATION_USER_ATTEMPTS \in Nat \ {0}
  /\ Occurring \subseteq Ops \cup {"time"}
  /\ Overlapping \subseteq Occurring
  /\ None \notin Requests \cup Invitations \cup Undos \cup Passwords
  /\ None \notin Ops

VARIABLES
  user,        \* the row of users
  inv,         \* rows of account_activation_tokens
  undos,       \* rows of password_reset_undos
  failures,    \* failed attempts on this username within the window
  userLock, invLock, undoLock,     \* row locks
  req,         \* what each request is doing
  issued,      \* versions for which AccountSessions handed out tokens
  ended,       \* ... and which a later change of the account has ended
  activations, \* how often each code has activated the account
  withdrawn    \* codes that staff revoked

tables == <<user, inv, undos, failures>>
locks == <<userLock, invLock, undoLock>>
history == <<issued, ended, activations, withdrawn>>
vars == <<user, inv, undos, failures, userLock, invLock, undoLock, req,
          issued, ended, activations, withdrawn>>

AccountStatus == {"PENDING_ACTIVATION", "ACTIVE", "DISABLED"}
User == [password: Passwords \cup {None}, account_status: AccountStatus,
         activated: BOOLEAN, is_active: BOOLEAN, auth_version: Nat]

(* used_at and revoked_at exclude each other: "live" has neither.          *)
NoInvitation == [state |-> "absent", expired |-> FALSE, locked |-> FALSE]
NoUndo == [made |-> FALSE, undone |-> FALSE, expired |-> FALSE,
           previous |-> None, previousInvitation |-> None,
           resetInvitation |-> None]
Idle == [op |-> None, pc |-> "idle", seen |-> None, cand |-> {},
         found |-> None, doomed |-> {}, undo |-> None, code |-> None,
         password |-> None]

Live == {i \in Invitations : inv[i].state = "live"}
Unmade == {i \in Invitations : inv[i].state = "absent"}
UnmadeUndos == {u \in Undos : ~undos[u].made}

Free(lock, p) == lock \in {None, p}
Open(p) == req[p].pc # "idle"

(* A request of Overlapping starts beside others of Overlapping, any other *)
(* only when nothing is in flight.                                         *)
MayStart(p, op) ==
  /\ op \in Occurring /\ ~Open(p)
  /\ \A q \in Requests : Open(q) =>
       op \in Overlapping /\ req[q].op \in Overlapping

Start(p, row) ==
  /\ MayStart(p, row.op)
  /\ req' = [req EXCEPT ![p] = row]
  /\ UNCHANGED <<tables, locks, history>>

(* Commit and rollback alike release every lock of the session.            *)
End(p) ==
  /\ req' = [req EXCEPT ![p] = Idle]
  /\ userLock' = IF userLock = p THEN None ELSE userLock
  /\ invLock' = [i \in Invitations |->
                   IF invLock[i] = p THEN None ELSE invLock[i]]
  /\ undoLock' = [u \in Undos |->
                    IF undoLock[u] = p THEN None ELSE undoLock[u]]

(* The unit of work sends a column only when it differs from what the      *)
(* session loaded; the others keep what is in the table.                   *)
Written(seen, new) ==
  [c \in DOMAIN user |-> IF new[c] # seen[c] THEN new[c] ELSE user[c]]

(* Ghosts: the sessions of a version end when the account moves on.        *)
MovesOn == ended' = ended \cup (issued \cap {user.auth_version})

-----------------------------------------------------------------------------
Init ==
  /\ user = [password |-> None, account_status |-> "PENDING_ACTIVATION",
             activated |-> FALSE, is_active |-> TRUE, auth_version |-> 0]
  /\ inv = [i \in Invitations |->
              IF i = Min(Invitations) THEN [NoInvitation EXCEPT !.state = "live"]
              ELSE NoInvitation]
  /\ undos = [u \in Undos |-> NoUndo]
  /\ failures = 0
  /\ userLock = None
  /\ invLock = [i \in Invitations |-> None]
  /\ undoLock = [u \in Undos |-> None]
  /\ req = [p \in Requests |-> Idle]
  /\ issued = {} /\ ended = {} /\ withdrawn = {}
  /\ activations = [i \in Invitations |-> 0]

-----------------------------------------------------------------------------
(* First steps: the checks a handler makes on its first, unlocked reads.   *)

(* Bound: a code is issued while a key is left for every issuer in flight.  *)
Issuing(op) == op \in {"regenerate", "reset"}

KeysLeft ==
  LET issuers == {q \in Requests : Issuing(req[q].op)}
  IN  /\ Cardinality(issuers) < Cardinality(Unmade)
      /\ Cardinality(issuers) < Cardinality(UnmadeUndos)

BeginRegenerate(p) ==
  /\ KeysLeft
  /\ user.account_status = "PENDING_ACTIVATION"
  /\ Start(p, [Idle EXCEPT !.op = "regenerate", !.pc = "sweep", !.seen = user])

BeginReset(p) ==
  /\ KeysLeft
  /\ Start(p, [Idle EXCEPT !.op = "reset", !.pc = "find", !.seen = user])

BeginUndo(p, u) ==
  /\ undos[u].made
  /\ Start(p, [Idle EXCEPT !.op = "undo", !.pc = "undo", !.seen = user, !.undo = u])

BeginRevoke(p) ==
  Start(p, [Idle EXCEPT !.op = "revoke", !.pc = "find", !.seen = user])

\* Mutant: attempts are counted one too late.
AttemptAllowedLate == failures <= ACTIVATION_USER_ATTEMPTS

(* _too_many_attempts.  An attempt names a code: its invitation, or None   *)
(* for a wrong one.                                                        *)
AttemptAllowed == failures < ACTIVATION_USER_ATTEMPTS

BeginComplete(p, code, password) ==
  /\ AttemptAllowed
  /\ Start(p, [Idle EXCEPT !.op = "complete", !.pc = "lock", !.code = code,
                           !.password = password])

(* verify_invitation without for_update reads the newest live code.  A     *)
(* valid one is only reported, so only failing validations are followed.   *)
Usable(i, code) ==
  /\ user.account_status = "PENDING_ACTIVATION" /\ user.is_active
  /\ i # None /\ i = code
  /\ ~inv[i].expired /\ ~inv[i].locked

Newest(S) == IF S = {} THEN None ELSE Max(S)

BeginValidate(p, code) ==
  /\ AttemptAllowed
  /\ ~Usable(Newest(Live), code)
  /\ Start(p, [Idle EXCEPT !.op = "validate", !.pc = "fail", !.code = code,
                           !.found = Newest(Live)])

(* update_user by the reader, or by staff on her behalf; delete_user.      *)
BeginSetPassword(p, password) ==
  Start(p, [Idle EXCEPT !.op = "set_password", !.pc = "finish", !.seen = user,
                        !.password = password])

BeginDeactivate(p) ==
  /\ user.account_status = "ACTIVE" /\ user.is_active
  /\ Start(p, [Idle EXCEPT !.op = "deactivate", !.pc = "finish", !.seen = user])

Begin(p) ==
  \/ BeginRegenerate(p) \/ BeginReset(p) \/ BeginRevoke(p)
  \/ BeginDeactivate(p)
  \/ \E u \in Undos : BeginUndo(p, u)
  \/ \E code \in Invitations \cup {None} :
       \/ BeginValidate(p, code)
       \/ \E password \in Passwords : BeginComplete(p, code, password)
  \/ \E password \in Passwords : BeginSetPassword(p, password)

-----------------------------------------------------------------------------
(* Locking statements.                                                     *)

(* SELECT user ... FOR UPDATE of complete, which reads the user here.      *)
LockUser(p) ==
  /\ req[p].pc = "lock" /\ Free(userLock, p)
  /\ userLock' = p
  /\ req' = [req EXCEPT ![p].pc = "find", ![p].seen = user]
  /\ UNCHANGED <<tables, invLock, undoLock, history>>

(* SELECT undo ... FOR UPDATE; a spent or expired record is refused.       *)
LockUndo(p) ==
  LET u == req[p].undo
  IN  /\ req[p].pc = "undo" /\ Free(undoLock[u], p)
      /\ IF undos[u].undone \/ undos[u].expired
         THEN End(p) /\ UNCHANGED <<tables, history>>
         ELSE /\ undoLock' = [undoLock EXCEPT ![u] = p]
              /\ req' = [req EXCEPT ![p].pc = "find"]
              /\ UNCHANGED <<tables, userLock, invLock, history>>

(* Where a handler goes on once active_invitation(for_update) has answered. *)
AfterFind(p, i) ==
  LET u == req[p].undo IN
  CASE req[p].op = "reset" -> "sweep"
    [] req[p].op = "revoke" -> IF i = None THEN "refused" ELSE "finish"
    [] req[p].op = "complete" -> IF Usable(i, req[p].code) THEN "sweep" ELSE "fail"
    [] req[p].op = "undo" ->
         IF i # undos[u].resetInvitation THEN "refused"
         ELSE IF undos[u].previousInvitation = None THEN "finish" ELSE "previous"

(* active_invitation(for_update): the statement is issued ...              *)
Find(p) ==
  /\ req[p].pc = "find"
  /\ req' = [req EXCEPT ![p].pc = "finding", ![p].cand = Live]
  /\ UNCHANGED <<tables, locks, history>>

\* Mutant: the row that was waited for is not looked at again.
NotReadAgain(i) == TRUE

(* ... and takes the newest of its rows that is still live.                *)
StillLive(i) == inv[i].state = "live"

Found(p) ==
  LET i == Newest(req[p].cand)
  IN  /\ req[p].pc = "finding"
      /\ i # None => Free(invLock[i], p)
      /\ IF i = None \/ StillLive(i)
         THEN /\ req' = [req EXCEPT ![p].pc = AfterFind(p, i), ![p].found = i]
              /\ invLock' = [j \in Invitations |-> IF j = i THEN p ELSE invLock[j]]
         ELSE /\ req' = [req EXCEPT ![p].cand = @ \ {i}]
              /\ UNCHANGED invLock
      /\ UNCHANGED <<tables, userLock, undoLock, history>>

\* Mutant: a new code leaves the earlier ones alone.
SweepNothing(p) ==
  /\ req[p].pc = "sweep"
  /\ req' = [req EXCEPT ![p].pc = "sweeping", ![p].cand = {}]
  /\ UNCHANGED <<tables, locks, history>>

(* The UPDATE that revokes the live codes: issued, row by row, done.       *)
Sweep(p) ==
  /\ req[p].pc = "sweep"
  /\ req' = [req EXCEPT ![p].pc = "sweeping",
       ![p].cand = IF req[p].op = "complete" THEN Live \ {req[p].found} ELSE Live]
  /\ UNCHANGED <<tables, locks, history>>

SweepRow(p, i) ==
  /\ req[p].pc = "sweeping" /\ i \in req[p].cand /\ Free(invLock[i], p)
  /\ IF inv[i].state = "live"
     THEN /\ req' = [req EXCEPT ![p].cand = @ \ {i}, ![p].doomed = @ \cup {i}]
          /\ invLock' = [invLock EXCEPT ![i] = p]
     ELSE /\ req' = [req EXCEPT ![p].cand = @ \ {i}]
          /\ UNCHANGED invLock
  /\ UNCHANGED <<tables, userLock, undoLock, history>>

Swept(p) ==
  /\ req[p].pc = "sweeping" /\ req[p].cand = {}
  /\ req' = [req EXCEPT ![p].pc = "finish"]
  /\ UNCHANGED <<tables, locks, history>>

(* The undo of a reset also locks the code the reset replaced.             *)
LockPrevious(p) ==
  LET i == undos[req[p].undo].previousInvitation
  IN  /\ req[p].pc = "previous" /\ Free(invLock[i], p)
      /\ invLock' = [invLock EXCEPT ![i] = p]
      /\ req' = [req EXCEPT ![p].pc = "finish"]
      /\ UNCHANGED <<tables, userLock, undoLock, history>>

-----------------------------------------------------------------------------
(* Last steps: the writes and the commit.  Every one of them inserts a row  *)
(* that names the user, or updates the user, and waits for her lock.        *)

Finishing(p, op) == req[p].pc = "finish" /\ req[p].op = op /\ Free(userLock, p)

(* generate_invitation: what the sweep took is revoked, a new code is live. *)
Issued(p, i) ==
  [j \in Invitations |->
     IF j = i THEN [NoInvitation EXCEPT !.state = "live"]
     ELSE IF j \in req[p].doomed THEN [inv[j] EXCEPT !.state = "revoked"]
     ELSE inv[j]]

Regenerate(p) ==
  /\ Finishing(p, "regenerate")
  /\ inv' = Issued(p, Min(Unmade))
  /\ End(p)
  /\ UNCHANGED <<user, undos, failures, history>>

ResetUser(seen) ==
  [seen EXCEPT !.password = None, !.account_status = "PENDING_ACTIVATION",
               !.activated = FALSE, !.auth_version = @ + 1]

Reset(p) ==
  LET seen == req[p].seen
  IN  /\ Finishing(p, "reset")
      /\ inv' = Issued(p, Min(Unmade))
      /\ undos' = [undos EXCEPT ![Min(UnmadeUndos)] =
           [NoUndo EXCEPT !.made = TRUE, !.previous = seen,
              !.previousInvitation = req[p].found,
              !.resetInvitation = Min(Unmade)]]
      /\ user' = Written(seen, ResetUser(seen))
      /\ MovesOn
      /\ End(p)
      /\ UNCHANGED <<failures, issued, activations, withdrawn>>

\* Mutant: the undo goes one version back instead of one on.
RestoredUserAndRecord(seen, previous) ==
  [seen EXCEPT !.password = previous.password,
               !.account_status = previous.account_status,
               !.activated = previous.activated,
               !.auth_version = previous.auth_version - 1]

\* Mutant: the undo leaves the status to the next activation.
RestoredPassword(seen, previous) ==
  [seen EXCEPT !.password = previous.password,
               !.auth_version = previous.auth_version + 1]

(* undo_password_reset: the version goes on from the one that was reset.   *)
RestoredUser(seen, previous) ==
  [seen EXCEPT !.password = previous.password,
               !.account_status = previous.account_status,
               !.activated = previous.activated,
               !.auth_version = previous.auth_version + 1]

(* The replaced code comes back, unless it has been used.                  *)
Reinstated(i) ==
  IF inv[i].state = "used" THEN inv[i] ELSE [inv[i] EXCEPT !.state = "live"]

UndoReset(p) ==
  LET u == undos[req[p].undo]
      seen == req[p].seen
  IN  /\ Finishing(p, "undo")
      /\ inv' = [i \in Invitations |->
           IF i = req[p].found THEN [inv[i] EXCEPT !.state = "revoked"]
           ELSE IF i = u.previousInvitation THEN Reinstated(i) ELSE inv[i]]
      /\ undos' = [undos EXCEPT ![req[p].undo].undone = TRUE]
      /\ user' = Written(seen, RestoredUser(seen, u.previous))
      /\ MovesOn
      /\ End(p)
      /\ UNCHANGED <<failures, issued, activations, withdrawn>>

Revoke(p) ==
  /\ Finishing(p, "revoke")
  /\ inv' = [inv EXCEPT ![req[p].found].state = "revoked"]
  /\ withdrawn' = withdrawn \cup {req[p].found}
  /\ End(p)
  /\ UNCHANGED <<user, undos, failures, issued, ended, activations>>

\* Mutant: the code is not marked as used.
CompleteWithoutUsing(p) ==
  LET seen == req[p].seen
      i == req[p].found
  IN  /\ Finishing(p, "complete")
      /\ user' = Written(seen,
           [seen EXCEPT !.password = req[p].password, !.account_status = "ACTIVE",
                        !.activated = TRUE, !.auth_version = @ + 1])
      /\ inv' = [j \in Invitations |->
           IF j \in req[p].doomed THEN [inv[j] EXCEPT !.state = "revoked"]
           ELSE inv[j]]
      /\ activations' = [activations EXCEPT ![i] = @ + 1]
      /\ MovesOn
      /\ End(p)
      /\ UNCHANGED <<undos, failures, issued, withdrawn>>

Complete(p) ==
  LET seen == req[p].seen
      i == req[p].found
  IN  /\ Finishing(p, "complete")
      /\ user' = Written(seen,
           [seen EXCEPT !.password = req[p].password, !.account_status = "ACTIVE",
                        !.activated = TRUE, !.auth_version = @ + 1])
      /\ inv' = [j \in Invitations |->
           IF j = i THEN [inv[j] EXCEPT !.state = "used"]
           ELSE IF j \in req[p].doomed THEN [inv[j] EXCEPT !.state = "revoked"]
           ELSE inv[j]]
      /\ activations' = [activations EXCEPT ![i] = @ + 1]
      /\ MovesOn
      /\ End(p)
      /\ UNCHANGED <<undos, failures, issued, withdrawn>>

SetPassword(p) ==
  /\ Finishing(p, "set_password")
  /\ user' = Written(req[p].seen,
                     [req[p].seen EXCEPT !.password = req[p].password])
  /\ End(p)
  /\ UNCHANGED <<inv, undos, failures, history>>

Deactivate(p) ==
  LET seen == req[p].seen
  IN  /\ Finishing(p, "deactivate")
      /\ user' = Written(seen,
           [seen EXCEPT !.is_active = FALSE, !.account_status = "DISABLED",
                        !.auth_version = @ + 1])
      /\ MovesOn
      /\ End(p)
      /\ UNCHANGED <<inv, undos, failures, issued, activations, withdrawn>>

(* A failed attempt is recorded, and the last one allowed locks the code.  *)
LocksCode(p) == req[p].found # None /\ failures + 1 >= ACTIVATION_USER_ATTEMPTS

Fail(p) ==
  LET code == req[p].found
  IN  /\ req[p].pc = "fail" /\ Free(userLock, p)
      /\ failures' = failures + 1
      /\ LocksCode(p) => Free(invLock[code], p)
      /\ inv' = IF LocksCode(p) THEN [inv EXCEPT ![code].locked = TRUE] ELSE inv
      /\ End(p)
      /\ UNCHANGED <<user, undos, history>>

\* Mutant: a refused request keeps the rows it locked.
RefusedHolding(p) ==
  /\ req[p].pc = "refused"
  /\ req' = [req EXCEPT ![p] = Idle]
  /\ UNCHANGED <<tables, locks, history>>

(* Answered with a conflict, or with nothing to revoke: rolled back.        *)
Refused(p) ==
  /\ req[p].pc = "refused"
  /\ End(p)
  /\ UNCHANGED <<tables, history>>

(* A request of a waiting circle is aborted by PostgreSQL.                 *)
WaitsFor(p, q) ==
  LET r == req[p]
      newest == Newest(r.cand)
  IN  /\ p # q
      /\ \/ r.pc = "lock" /\ userLock = q
         \/ r.pc \in {"finish", "fail"} /\ userLock = q
         \/ r.pc = "finding" /\ newest # None /\ invLock[newest] = q
         \/ /\ r.pc = "sweeping"
            /\ \A i \in r.cand : ~Free(invLock[i], p)
            /\ \E i \in r.cand : invLock[i] = q
         \/ r.pc = "undo" /\ undoLock[r.undo] = q
         \/ r.pc = "previous" /\ invLock[undos[r.undo].previousInvitation] = q
         \/ r.pc = "fail" /\ LocksCode(p) /\ invLock[r.found] = q

Deadlocked(p) ==
  \E S \in SUBSET Requests :
    p \in S /\ \A q \in S : \E r \in S : WaitsFor(q, r)

DeadlockVictim(p) ==
  /\ Deadlocked(p)
  /\ End(p)
  /\ UNCHANGED <<tables, history>>

Step(p) ==
  \/ LockUser(p) \/ LockUndo(p) \/ LockPrevious(p)
  \/ Find(p) \/ Found(p) \/ Sweep(p) \/ Swept(p)
  \/ \E i \in Invitations : SweepRow(p, i)
  \/ Regenerate(p) \/ Reset(p) \/ UndoReset(p) \/ Revoke(p) \/ Complete(p)
  \/ SetPassword(p) \/ Deactivate(p) \/ Fail(p) \/ Refused(p)

-----------------------------------------------------------------------------
(* Time tells on a code when it is live again, if it ever is.              *)
ExpireInvitation(i) ==
  /\ inv[i].state = "live" /\ ~inv[i].expired
  /\ inv' = [inv EXCEPT ![i].expired = TRUE]
  /\ UNCHANGED <<user, undos, failures, locks, req, history>>

ExpireUndo(u) ==
  /\ undos[u].made /\ ~undos[u].undone /\ ~undos[u].expired
  /\ undos' = [undos EXCEPT ![u].expired = TRUE]
  /\ UNCHANGED <<user, inv, failures, locks, req, history>>

WindowPasses ==
  /\ failures > 0 /\ failures' = 0
  /\ UNCHANGED <<user, inv, undos, locks, req, history>>

LockRunsOut(i) ==
  /\ inv[i].state = "live" /\ inv[i].locked
  /\ inv' = [inv EXCEPT ![i].locked = FALSE]
  /\ UNCHANGED <<user, undos, failures, locks, req, history>>

Time ==
  /\ "time" \in Occurring
  /\ \/ WindowPasses
     \/ \E i \in Invitations : ExpireInvitation(i) \/ LockRunsOut(i)
     \/ \E u \in Undos : ExpireUndo(u)

Next ==
  \/ \E p \in Requests : Begin(p) \/ Step(p) \/ DeadlockVictim(p)
  \/ Time

Spec == Init /\ [][Next]_vars

-----------------------------------------------------------------------------
(* Types, and the bound that failures keep even while requests race.        *)
TypeOK ==
  /\ user \in User
  /\ \A i \in Invitations :
       /\ inv[i].state \in {"absent", "live", "revoked", "used"}
       /\ {inv[i].expired, inv[i].locked} \subseteq BOOLEAN
       /\ invLock[i] \in Requests \cup {None}
  /\ \A u \in Undos :
       undos[u].made => /\ undos[u].previous \in User
                        /\ undos[u].previousInvitation \in Invitations \cup {None}
                        /\ undos[u].resetInvitation \in Invitations
  /\ failures \in 0..(ACTIVATION_USER_ATTEMPTS + Cardinality(Requests))
  /\ \A p \in Requests :
       /\ req[p].op \in Ops \cup {None}
       /\ req[p].cand \cup req[p].doomed \subseteq Invitations
       /\ req[p].pc = "idle" => req[p] = Idle

(* A code activates the account at most once, whatever runs beside it.     *)
(* verify_invitation takes the user and the code FOR UPDATE, and the code   *)
(* it has waited for is read again.                                        *)
UsedOnce == \A i \in Invitations : activations[i] <= 1

(* A password reset that was undone was never completed with the code it    *)
(* handed out: of an undo and a completion that race for the invitation     *)
(* only one finds it live.                                                 *)
UndoneNeverCompleted ==
  \A u \in Undos : undos[u].undone => activations[undos[u].resetInvitation] = 0

(* Undoing a reset gives the account back as the reset found it, though     *)
(* undo_password_reset writes from a copy of the user it read before it     *)
(* waited for the undo record and the invitations.  Holds when a reset is    *)
(* alone in flight and no password is set but with a code.                 *)
UndoRestores ==
  [][\A u \in Undos : undos'[u].undone /\ ~undos[u].undone =>
       LET before == undos[u].previous
       IN  /\ user'.password = before.password
           /\ user'.account_status = before.account_status
           /\ user'.activated = before.activated]_vars

(* A code that staff revoked is never accepted again: no undo of a reset,   *)
(* which revives the code the reset replaced, revives that one.            *)
WithdrawnStaysDead == \A i \in withdrawn : inv[i].state # "live"

(* Requests in flight let at most one failed attempt each past the limit:   *)
(* _too_many_attempts counts committed attempts only.                      *)
AttemptsBounded ==
  failures <= ACTIVATION_USER_ATTEMPTS + Cardinality(Requests) - 1

(* No request waits for a lock that nobody will release: while any is in     *)
(* flight, one of them can go on, or PostgreSQL has a circle to break.      *)
(* complete locks the user and then the code, reset_password the code and   *)
(* then the user.                                                          *)
NobodyStuck ==
  (\E p \in Requests : Open(p)) =>
    \E p \in Requests : Open(p) /\ (ENABLED Step(p) \/ Deadlocked(p))

(* At most one invitation is live: generate_invitation revokes those it     *)
(* finds before it adds its own.  Holds when invitations are generated one  *)
(* at a time; two generated at once both survive.                          *)
OneLiveInvitation == Cardinality(Live) <= 1
=============================================================================
