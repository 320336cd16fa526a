--------------------------- MODULE AccountProofs ---------------------------
(***************************************************************************)
(* What holds of Accounts for any number of requests, codes and undo        *)
(* records, whatever overlaps.                                             *)
(***************************************************************************)
EXTENDS Accounts, FiniteSetTheorems, TLAPS

-----------------------------------------------------------------------------
(* The first and the last key of a set *)

Less == {ss \in Nat \X Nat : ss[1] < ss[2]}

\* The order of the keys is well-founded.
LEMMA LessWellFounded == IsWellFoundedOn(Less, Nat)
  BY NatLessThanWellFounded, Zenon DEF OpToRel, Less

\* The next serial key is a key of the set.
LEMMA MinInSet ==
    ASSUME NEW S, S \subseteq Nat, S # {}
    PROVE  /\ Min(S) \in S
           /\ \A s \in S : Min(S) <= s
<1>1. PICK x \in S : \A y \in S : <<y, x>> \notin Less
  BY LessWellFounded, WFMin
<1>2. \A y \in S : x <= y
  <2> SUFFICES ASSUME NEW y \in S PROVE x <= y
    OBVIOUS
  <2>1. x \in Nat /\ y \in Nat
    OBVIOUS
  <2>2. ~(y < x)
    BY <1>1, <2>1 DEF Less
  <2> QED
    BY <2>1, <2>2
<1> QED
  BY <1>2 DEF Min

\* So is the newest code of a set: the key above which there are fewest keys.
LEMMA MaxInSet ==
    ASSUME NEW S, S \subseteq Nat, IsFiniteSet(S), S # {}
    PROVE  Max(S) \in S
<1> DEFINE Above(x) == {y \in S : y > x}
           Counts == {Cardinality(Above(x)) : x \in S}
<1>1. \A x \in S : IsFiniteSet(Above(x)) /\ Cardinality(Above(x)) \in Nat
  BY FS_Subset, FS_CardinalityType
<1>2. Counts \subseteq Nat /\ Counts # {}
  BY <1>1
<1> HIDE DEF Counts
<1>3. PICK n \in Counts : \A m \in Counts : n <= m
  BY <1>2, MinInSet
<1>4. PICK x \in S : n = Cardinality(Above(x))
  BY <1>3 DEF Counts
<1>5. ASSUME NEW y \in S, y > x PROVE FALSE
  <2>1. Above(y) \subseteq Above(x) /\ y \in Above(x) /\ y \notin Above(y)
    <3>1. \A z \in S : z > y => z > x
      <4> SUFFICES ASSUME NEW z \in S, z > y PROVE z > x
        OBVIOUS
      <4>1. x \in Nat /\ y \in Nat /\ z \in Nat
        OBVIOUS
      <4> QED
        BY <1>5, <4>1
    <3>2. y \in Nat /\ ~(y > y)
      OBVIOUS
    <3> QED
      BY <1>5, <3>1, <3>2
  <2> HIDE DEF Above
  <2>2. Cardinality(Above(y)) < Cardinality(Above(x))
    BY <1>1, <2>1, FS_Subset, FS_CardinalityType
  <2>3. Cardinality(Above(y)) \in Counts
    BY DEF Counts
  <2> QED
    BY <1>1, <1>3, <1>4, <2>2, <2>3
<1>6. \A y \in S : x >= y
  BY <1>5
<1> QED
  BY <1>6 DEF Max

-----------------------------------------------------------------------------
(* Rows *)

Pcs == {"idle", "lock", "undo", "find", "finding", "sweep", "sweeping",
        "previous", "finish", "fail", "refused"}

Row == [op : Ops \cup {None}, pc : Pcs, seen : User \cup {None},
        cand : SUBSET Invitations, found : Invitations \cup {None},
        doomed : SUBSET Invitations, undo : Undos \cup {None},
        code : Invitations \cup {None}, password : Passwords \cup {None}]

Invitation == [state : {"absent", "live", "revoked", "used"},
               expired : BOOLEAN, locked : BOOLEAN]

Undo == [made : BOOLEAN, undone : BOOLEAN, expired : BOOLEAN,
         previous : User \cup {None},
         previousInvitation : Invitations \cup {None},
         resetInvitation : Invitations \cup {None}]

\* The steps of each operation.
Path(op) ==
    CASE op = "regenerate" -> {"sweep", "sweeping", "finish"}
      [] op = "reset" -> {"find", "finding", "sweep", "sweeping", "finish"}
      [] op = "undo" -> {"undo", "find", "finding", "previous", "finish", "refused"}
      [] op = "revoke" -> {"find", "finding", "finish", "refused"}
      [] op = "complete" ->
           {"lock", "find", "finding", "sweep", "sweeping", "finish", "fail"}
      [] op = "validate" -> {"fail"}
      [] op \in {"set_password", "deactivate"} -> {"finish"}
      [] OTHER -> {"idle"}

\* What a request carries with it.
RowOK(row) ==
    /\ row \in Row
    /\ row.pc \in Path(row.op)
    /\ row.op \notin {None, "validate"} /\ row.pc # "lock" => row.seen \in User
    /\ row.op \in {"complete", "set_password"} => row.password \in Passwords
    /\ row.op = "undo" => row.undo \in Undos
    /\ row.pc = "idle" => row = Idle

\* A write of some columns of the user leaves a user.
LEMMA WrittenType ==
    ASSUME user \in User, NEW seen \in User, NEW new \in User
    PROVE  Written(seen, new) \in User
<1> DEFINE w == Written(seen, new)
<1>1. DOMAIN user = {"password", "account_status", "activated", "is_active", "auth_version"}
  BY DEF User
<1>2. w = [c \in {"password", "account_status", "activated", "is_active", "auth_version"} |->
            IF new[c] # seen[c] THEN new[c] ELSE user[c]]
  BY <1>1 DEF Written
<1> HIDE DEF w
<1>3. w = [password |-> w.password, account_status |-> w.account_status,
           activated |-> w.activated, is_active |-> w.is_active,
           auth_version |-> w.auth_version]
  BY <1>2
<1>4. /\ w.password = IF new.password # seen.password THEN new.password ELSE user.password
      /\ w.account_status = IF new.account_status # seen.account_status
                             THEN new.account_status ELSE user.account_status
      /\ w.activated = IF new.activated # seen.activated
                        THEN new.activated ELSE user.activated
      /\ w.is_active = IF new.is_active # seen.is_active
                        THEN new.is_active ELSE user.is_active
      /\ w.auth_version = IF new.auth_version # seen.auth_version
                           THEN new.auth_version ELSE user.auth_version
  BY <1>2
<1>5. w.password \in Passwords \cup {None} /\ w.account_status \in AccountStatus
  BY <1>4 DEF User
<1>6. w.activated \in BOOLEAN /\ w.is_active \in BOOLEAN
  BY <1>4 DEF User
<1>7. w.auth_version \in Nat
  BY <1>4 DEF User
<1>8. w \in User
  BY <1>3, <1>5, <1>6, <1>7 DEF User
<1> QED
  BY <1>8 DEF w

\* A request that does nothing carries nothing.
LEMMA IdleOK == RowOK(Idle)
  BY AccountsAssumption DEF RowOK, Row, Idle, Pcs, Ops, Path, User

\* What each operation means to write is a user.
LEMMA UserWrites ==
    ASSUME NEW seen \in User
    PROVE  /\ ResetUser(seen) \in User
           /\ \A previous \in User : RestoredUser(seen, previous) \in User
           /\ \A password \in Passwords :
                /\ [seen EXCEPT !.password = password] \in User
                /\ [seen EXCEPT !.password = password, !.account_status = "ACTIVE",
                        !.activated = TRUE, !.auth_version = @ + 1] \in User
           /\ [seen EXCEPT !.is_active = FALSE, !.account_status = "DISABLED",
                        !.auth_version = @ + 1] \in User
<1>1. /\ seen.auth_version + 1 \in Nat
      /\ AccountStatus = {"PENDING_ACTIVATION", "ACTIVE", "DISABLED"}
  BY DEF User, AccountStatus
<1>2. ResetUser(seen) \in User
  BY <1>1 DEF User, ResetUser
<1>3. ASSUME NEW previous \in User PROVE RestoredUser(seen, previous) \in User
  <2>1. previous.auth_version + 1 \in Nat
    BY DEF User
  <2> QED
    BY <2>1 DEF User, RestoredUser
<1>4. ASSUME NEW password \in Passwords
      PROVE  [seen EXCEPT !.password = password] \in User
  BY DEF User
<1>5. ASSUME NEW password \in Passwords
      PROVE  [seen EXCEPT !.password = password, !.account_status = "ACTIVE",
                          !.activated = TRUE, !.auth_version = @ + 1] \in User
  BY <1>1 DEF User
<1>6. [seen EXCEPT !.is_active = FALSE, !.account_status = "DISABLED",
                        !.auth_version = @ + 1] \in User
  BY <1>1 DEF User
<1> QED
  BY <1>2, <1>3, <1>4, <1>5, <1>6

-----------------------------------------------------------------------------
(* The invariant *)

Tables ==
    /\ user \in User
    /\ inv \in [Invitations -> Invitation]
    /\ undos \in [Undos -> Undo]
    /\ failures \in Nat
    /\ invLock \in [Invitations -> Requests \cup {None}]
    /\ activations \in [Invitations -> Nat]
    /\ req \in [Requests -> Row]

\* What a request has found or is about to revoke is live and locked by it, and
\* so is the code that an undo is about to bring back.
Holding(p) ==
    /\ req[p].op # "validate" /\ req[p].found # None =>
           /\ invLock[req[p].found] = p
           /\ inv[req[p].found].state = "live"
    /\ \A i \in req[p].doomed : invLock[i] = p /\ inv[i].state = "live"
    /\ req[p].op = "undo" =>
           /\ undos[req[p].undo].made
           /\ req[p].pc = "finish" /\ undos[req[p].undo].previousInvitation # None =>
                  invLock[undos[req[p].undo].previousInvitation] = p

Records ==
    \A u \in Undos : undos[u].made =>
        /\ undos[u].previous \in User
        /\ undos[u].resetInvitation \in Invitations
        /\ undos[u].previousInvitation # None =>
               inv[undos[u].previousInvitation].state # "absent"

Spent ==
    \A i \in Invitations :
        /\ activations[i] <= 1
        /\ activations[i] # 0 => inv[i].state = "used"

Issuers == {q \in Requests : Issuing(req[q].op)}

Keys ==
    /\ IsFiniteSet(Issuers)
    /\ Cardinality(Issuers) <= Cardinality(Unmade)
    /\ Cardinality(Issuers) <= Cardinality(UnmadeUndos)

AccountInv ==
    /\ Tables
    /\ \A p \in Requests : RowOK(req[p]) /\ Holding(p)
    /\ Records
    /\ Spent
    /\ Keys

\* A step of p leaves alone what others hold.
Considerate(p) ==
    /\ \A q \in Requests \ {p} : req'[q] = req[q]
    /\ \A i \in Invitations : invLock[i] \notin {None, p} => invLock'[i] = invLock[i]
    /\ \A i \in Invitations : invLock[i] \notin {None, p} /\ inv[i].state = "live" =>
           inv'[i].state = "live"
    /\ \A u \in Undos : undos[u].made =>
           /\ undos'[u].made
           /\ undos'[u].previousInvitation = undos[u].previousInvitation

\* So the others go on holding it.
LEMMA OthersKeep ==
    ASSUME AccountInv, NEW p \in Requests, Considerate(p), NEW q \in Requests \ {p}
    PROVE  RowOK(req'[q]) /\ Holding(q)'
<1>1. /\ req'[q] = req[q] /\ q \notin {None, p}
      /\ RowOK(req[q]) /\ Holding(q)
  BY AccountsAssumption DEF Considerate, AccountInv
<1>2. ASSUME req[q].op # "validate", req[q].found # None
      PROVE  invLock'[req[q].found] = q /\ inv'[req[q].found].state = "live"
  <2>1. req[q].found \in Invitations
    BY <1>1, <1>2 DEF RowOK, Row
  <2> QED
    BY <1>1, <1>2, <2>1 DEF Holding, Considerate
<1>3. ASSUME NEW i \in req[q].doomed
      PROVE  invLock'[i] = q /\ inv'[i].state = "live"
  <2>1. i \in Invitations
    BY <1>1, <1>3 DEF RowOK, Row
  <2> QED
    BY <1>1, <2>1 DEF Holding, Considerate
<1>4. ASSUME req[q].op = "undo"
      PROVE  /\ undos'[req[q].undo].made
             /\ req[q].pc = "finish" /\ undos'[req[q].undo].previousInvitation # None =>
                  invLock'[undos'[req[q].undo].previousInvitation] = q
  <2>1. PICK u \in Undos : u = req[q].undo
    BY <1>1, <1>4 DEF RowOK
  <2>2. /\ undos[u].made /\ undos'[u].made
        /\ undos'[u].previousInvitation = undos[u].previousInvitation
    BY <1>1, <1>4, <2>1 DEF Holding, Considerate
  <2>3. undos[u].previousInvitation \in Invitations \cup {None}
    BY DEF AccountInv, Tables, Undo
  <2> QED
    BY <1>1, <1>4, <2>1, <2>2, <2>3 DEF Holding, Considerate
<1> QED
  BY <1>1, <1>2, <1>3, <1>4 DEF Holding

\* What is left to show of a step.
LEMMA StepHolds ==
    ASSUME AccountInv, NEW p \in Requests, Considerate(p),
           RowOK(req'[p]), Holding(p)', Tables', Records', Spent', Keys'
    PROVE  AccountInv'
<1>1. ASSUME NEW q \in Requests PROVE RowOK(req'[q]) /\ Holding(q)'
  <2>1. CASE q = p
    <3>1. (q = p /\ Holding(p) => Holding(q))'
      OBVIOUS
    <3> QED
      BY <2>1, <3>1
  <2>2. CASE q # p
    BY <2>2, OthersKeep
  <2> QED
    BY <2>1, <2>2
<1> QED
  BY <1>1 DEF AccountInv

\* Keys are left for those who issue codes.
LEMMA KeysStay ==
    ASSUME AccountInv, NEW p \in Requests,
           NEW row, req' = [req EXCEPT ![p] = row],
           Issuing(row.op) => Issuing(req[p].op) \/ KeysLeft,
           Unmade' = Unmade, UnmadeUndos' = UnmadeUndos
    PROVE  Keys'
<1>1. /\ IsFiniteSet(Issuers)
      /\ Cardinality(Issuers) <= Cardinality(Unmade)
      /\ Cardinality(Issuers) <= Cardinality(UnmadeUndos)
  BY DEF AccountInv, Keys
<1>2. /\ Cardinality(Issuers) \in Nat
      /\ Cardinality(Unmade) \in Nat /\ Cardinality(UnmadeUndos) \in Nat
  <2>1. IsFiniteSet(Unmade) /\ IsFiniteSet(UnmadeUndos)
    BY AccountsAssumption, FS_Subset DEF Unmade, UnmadeUndos
  <2> QED
    BY <1>1, <2>1, FS_CardinalityType
<1>3. CASE Issuing(row.op)
  <2>1. Issuers' = Issuers \cup {p}
    BY <1>3 DEF Issuers, AccountInv, Tables
  <2>2. CASE p \in Issuers
    <3>1. Issuers' = Issuers
      BY <2>1, <2>2
    <3> QED
      BY <1>1, <3>1 DEF Keys
  <2>3. CASE p \notin Issuers
    <3>1. KeysLeft
      BY <1>3, <2>3 DEF Issuers
    <3>2. /\ Cardinality(Issuers) < Cardinality(Unmade)
          /\ Cardinality(Issuers) < Cardinality(UnmadeUndos)
      BY <3>1 DEF KeysLeft, Issuers
    <3>3. /\ IsFiniteSet(Issuers \cup {p})
          /\ Cardinality(Issuers \cup {p}) = Cardinality(Issuers) + 1
      BY <1>1, <2>3, FS_AddElement
    <3> QED
      BY <1>2, <2>1, <3>2, <3>3 DEF Keys
  <2> QED
    BY <2>2, <2>3
<1>4. CASE ~Issuing(row.op)
  <2>1. Issuers' = Issuers \ {p}
    BY <1>4 DEF Issuers, AccountInv, Tables
  <2>2. IsFiniteSet(Issuers') /\ Cardinality(Issuers') <= Cardinality(Issuers)
    BY <1>1, <2>1, FS_Subset
  <2>3. Cardinality(Issuers') \in Nat
    BY <2>2, FS_CardinalityType
  <2> QED
    BY <1>1, <1>2, <2>2, <2>3 DEF Keys
<1> QED
  BY <1>3, <1>4

\* A step that moves a request on and writes no code and no record.
LEMMA QuietStep ==
    ASSUME AccountInv, NEW p \in Requests,
           NEW row, RowOK(row), req' = [req EXCEPT ![p] = row],
           Issuing(row.op) => Issuing(req[p].op) \/ KeysLeft,
           invLock' \in [Invitations -> Requests \cup {None}],
           \A i \in Invitations :
              invLock[i] \notin {None, p} => invLock'[i] = invLock[i],
           user' \in User, failures' \in Nat,
           UNCHANGED <<inv, undos, activations>>, Holding(p)'
    PROVE  AccountInv'
<1>1. /\ Tables /\ Records /\ Spent
      /\ req'[p] = row /\ row \in Row
      /\ \A q \in Requests \ {p} : req'[q] = req[q]
  BY DEF AccountInv, Tables, RowOK
<1>2. Tables'
  BY <1>1 DEF Tables
<1>3. Records' /\ Spent'
  BY <1>1 DEF Records, Spent
<1>4. Keys'
  BY KeysStay DEF Unmade, UnmadeUndos
<1>5. Considerate(p)
  BY <1>1 DEF Considerate
<1> QED
  BY <1>1, <1>2, <1>3, <1>4, <1>5, StepHolds

\* A request that ends holds nothing.
LEMMA NothingHeld ==
    ASSUME NEW p \in Requests, req'[p] = Idle
    PROVE  Holding(p)'
<1>1. /\ Idle.op = None /\ Idle.found = None /\ Idle.doomed = {}
      /\ None # "undo"
  BY AccountsAssumption DEF Idle, Ops
<1> QED
  BY <1>1 DEF Holding

\* What releasing every lock of p is to the locks.
LEMMA Released ==
    ASSUME AccountInv, NEW p \in Requests, End(p)
    PROVE  /\ invLock' \in [Invitations -> Requests \cup {None}]
           /\ \A i \in Invitations :
                invLock[i] \notin {None, p} => invLock'[i] = invLock[i]
           /\ req' = [req EXCEPT ![p] = Idle] /\ req'[p] = Idle
           /\ req' \in [Requests -> Row]
           /\ \A q \in Requests \ {p} : req'[q] = req[q]
  BY IdleOK DEF AccountInv, Tables, End, RowOK

\* A request that ends without a word on codes and records.
LEMMA QuietEnd ==
    ASSUME AccountInv, NEW p \in Requests, End(p), user' \in User, failures' \in Nat,
           UNCHANGED <<inv, undos, activations>>
    PROVE  AccountInv'
<1>1. ~Issuing(Idle.op)
  BY AccountsAssumption DEF Issuing, Idle, Ops
<1>2. Holding(p)'
  BY Released, NothingHeld
<1> QED
  BY <1>1, <1>2, Released, IdleOK, QuietStep

-----------------------------------------------------------------------------
(* Requests begin *)

\* A request begins with a row that holds nothing.
LEMMA StartHolds ==
    ASSUME AccountInv, NEW p \in Requests, NEW row, RowOK(row), Start(p, row),
           row.doomed = {}, row.op = "validate" \/ row.found = None,
           row.op = "undo" => undos[row.undo].made /\ row.pc # "finish",
           Issuing(row.op) => KeysLeft
    PROVE  AccountInv'
<1>1. /\ req' = [req EXCEPT ![p] = row] /\ req'[p] = row
      /\ UNCHANGED <<user, inv, undos, failures, invLock, activations>>
  BY DEF Start, tables, locks, history, AccountInv, Tables
<1>2. Holding(p)'
  BY <1>1 DEF Holding
<1>3. /\ user' \in User /\ failures' \in Nat
      /\ invLock' \in [Invitations -> Requests \cup {None}]
  BY <1>1 DEF AccountInv, Tables
<1> QED
  BY <1>1, <1>2, <1>3, QuietStep

\* The newest of some codes is a code, or there is none.
LEMMA NewestType ==
    ASSUME NEW S, S \subseteq Invitations
    PROVE  Newest(S) \in Invitations \cup {None} /\ (S # {} => Newest(S) \in S)
<1>1. S \subseteq Nat /\ IsFiniteSet(S)
  BY AccountsAssumption, FS_Subset
<1> QED
  BY <1>1, MaxInSet DEF Newest

\* What a request begins with: nothing held, the user as she is, a key if it will
\* issue a code, an attempt left if it may fail.
Beginning(row) ==
    /\ RowOK(row) /\ row.op \in Ops /\ row.doomed = {}
    /\ row.op = "validate" \/ row.found = None
    /\ row.op = "undo" => undos[row.undo].made /\ row.pc = "undo"
    /\ row.op = "revoke" => row.pc = "find"
    /\ Issuing(row.op) =>
           KeysLeft /\ row.pc \notin {"sweeping", "finish"} /\ row.seen = user
    /\ row.op = "regenerate" => user.account_status = "PENDING_ACTIVATION"
    /\ row.op = "complete" => row.pc = "lock"
    /\ row.op = "deactivate" =>
           row.seen.account_status = "ACTIVE" /\ row.seen.is_active
    /\ row.op \in {"complete", "validate"} => AttemptAllowed

\* Every request begins like that.
LEMMA BeginStarts ==
    ASSUME AccountInv, NEW p \in Requests, Begin(p)
    PROVE  \E row : Start(p, row) /\ Beginning(row)
<1> DEFINE Goal == \E row : Start(p, row) /\ Beginning(row)
<1>1. user \in User /\ undos \in [Undos -> Undo]
  BY DEF AccountInv, Tables
<1>2. ASSUME BeginRegenerate(p) PROVE Goal
  <2> DEFINE row == [Idle EXCEPT !.op = "regenerate", !.pc = "sweep", !.seen = user]
  <2>1. Start(p, row) /\ KeysLeft /\ user.account_status = "PENDING_ACTIVATION"
    BY <1>2 DEF BeginRegenerate
  <2>2. /\ RowOK(row) /\ row.doomed = {} /\ row.found = None
        /\ row.op = "regenerate" /\ row.pc = "sweep" /\ row.seen = user
    BY <1>1, IdleOK, AccountsAssumption DEF RowOK, Row, Idle, Pcs, Ops, Path
  <2> HIDE DEF row
  <2> QED
    BY <2>1, <2>2 DEF Beginning, Issuing, Ops
<1>3. ASSUME BeginReset(p) PROVE Goal
  <2> DEFINE row == [Idle EXCEPT !.op = "reset", !.pc = "find", !.seen = user]
  <2>1. Start(p, row) /\ KeysLeft
    BY <1>3 DEF BeginReset
  <2>2. /\ RowOK(row) /\ row.doomed = {} /\ row.found = None
        /\ row.op = "reset" /\ row.pc = "find" /\ row.seen = user
    BY <1>1, IdleOK, AccountsAssumption DEF RowOK, Row, Idle, Pcs, Ops, Path
  <2> HIDE DEF row
  <2> QED
    BY <2>1, <2>2 DEF Beginning, Issuing, Ops
<1>4. ASSUME NEW u \in Undos, BeginUndo(p, u) PROVE Goal
  <2> DEFINE row == [Idle EXCEPT !.op = "undo", !.pc = "undo", !.seen = user, !.undo = u]
  <2>1. Start(p, row) /\ undos[u].made
    BY <1>4 DEF BeginUndo
  <2>2. /\ RowOK(row) /\ row.doomed = {} /\ row.found = None
        /\ row.op = "undo" /\ row.undo = u /\ row.pc = "undo"
    BY <1>1, IdleOK, AccountsAssumption DEF RowOK, Row, Idle, Pcs, Ops, Path
  <2> HIDE DEF row
  <2> QED
    BY <2>1, <2>2 DEF Beginning, Issuing, Ops
<1>5. ASSUME BeginRevoke(p) PROVE Goal
  <2> DEFINE row == [Idle EXCEPT !.op = "revoke", !.pc = "find", !.seen = user]
  <2>1. Start(p, row)
    BY <1>5 DEF BeginRevoke
  <2>2. /\ RowOK(row) /\ row.doomed = {} /\ row.found = None
        /\ row.op = "revoke" /\ row.pc = "find"
    BY <1>1, IdleOK, AccountsAssumption DEF RowOK, Row, Idle, Pcs, Ops, Path
  <2> HIDE DEF row
  <2> QED
    BY <2>1, <2>2 DEF Beginning, Issuing, Ops
<1>6. ASSUME NEW code \in Invitations \cup {None}, NEW password \in Passwords,
             BeginComplete(p, code, password)
      PROVE  Goal
  <2> DEFINE row == [Idle EXCEPT !.op = "complete", !.pc = "lock", !.code = code,
                                 !.password = password]
  <2>1. Start(p, row) /\ AttemptAllowed
    BY <1>6 DEF BeginComplete
  <2>2. /\ RowOK(row) /\ row.doomed = {} /\ row.found = None
        /\ row.op = "complete" /\ row.pc = "lock"
    BY <1>1, IdleOK, AccountsAssumption DEF RowOK, Row, Idle, Pcs, Ops, Path
  <2> HIDE DEF row
  <2> QED
    BY <2>1, <2>2 DEF Beginning, Issuing, Ops
<1>7. ASSUME NEW code \in Invitations \cup {None}, BeginValidate(p, code)
      PROVE  Goal
  <2> DEFINE row == [Idle EXCEPT !.op = "validate", !.pc = "fail", !.code = code,
                                 !.found = Newest(Live)]
  <2>1. Start(p, row) /\ AttemptAllowed
    BY <1>7 DEF BeginValidate
  <2>2. Newest(Live) \in Invitations \cup {None}
    BY NewestType DEF Live
  <2>3. RowOK(row) /\ row.doomed = {} /\ row.op = "validate"
    BY <1>1, <2>2, IdleOK, AccountsAssumption DEF RowOK, Row, Idle, Pcs, Ops, Path
  <2> HIDE DEF row
  <2> QED
    BY <2>1, <2>3 DEF Beginning, Issuing, Ops
<1>8. ASSUME NEW password \in Passwords, BeginSetPassword(p, password)
      PROVE  Goal
  <2> DEFINE row == [Idle EXCEPT !.op = "set_password", !.pc = "finish",
                                 !.seen = user, !.password = password]
  <2>1. Start(p, row)
    BY <1>8 DEF BeginSetPassword
  <2>2. RowOK(row) /\ row.doomed = {} /\ row.found = None /\ row.op = "set_password"
    BY <1>1, IdleOK, AccountsAssumption DEF RowOK, Row, Idle, Pcs, Ops, Path
  <2> HIDE DEF row
  <2> QED
    BY <2>1, <2>2 DEF Beginning, Issuing, Ops
<1>9. ASSUME BeginDeactivate(p) PROVE Goal
  <2> DEFINE row == [Idle EXCEPT !.op = "deactivate", !.pc = "finish", !.seen = user]
  <2>1. Start(p, row) /\ user.account_status = "ACTIVE" /\ user.is_active
    BY <1>9 DEF BeginDeactivate
  <2>2. /\ RowOK(row) /\ row.doomed = {} /\ row.found = None
        /\ row.op = "deactivate" /\ row.seen = user
    BY <1>1, IdleOK, AccountsAssumption DEF RowOK, Row, Idle, Pcs, Ops, Path
  <2> HIDE DEF row
  <2> QED
    BY <2>1, <2>2 DEF Beginning, Issuing, Ops
<1> QED
  BY <1>2, <1>3, <1>4, <1>5, <1>6, <1>7, <1>8, <1>9 DEF Begin

\* A request that begins holds nothing yet, and a key is left for it.
LEMMA BeginHolds ==
    ASSUME AccountInv, NEW p \in Requests, Begin(p)
    PROVE  AccountInv'
<1>1. PICK row : Start(p, row) /\ Beginning(row)
  BY BeginStarts
<1> QED
  BY <1>1, StartHolds DEF Beginning

-----------------------------------------------------------------------------
(* Requests go on *)

\* A step that changes where p is and leaves what it holds.
LEMMA MoveHolds ==
    ASSUME AccountInv, NEW p \in Requests, NEW row, RowOK(row),
           req' = [req EXCEPT ![p] = row],
           row.op = req[p].op, row.found = req[p].found,
           row.doomed = req[p].doomed, row.undo = req[p].undo,
           ~(row.op = "undo" /\ row.pc = "finish"),
           UNCHANGED <<user, inv, undos, failures, invLock, activations>>
    PROVE  AccountInv'
<1>1. /\ req'[p] = row /\ Holding(p)
      /\ user' \in User /\ failures' \in Nat
      /\ invLock' \in [Invitations -> Requests \cup {None}]
  BY DEF AccountInv, Tables
<1>2. Holding(p)'
  BY <1>1 DEF Holding
<1> QED
  BY <1>1, <1>2, QuietStep

\* complete_activation locks the user before it looks for a code.
LEMMA LockUserHolds ==
    ASSUME AccountInv, NEW p \in Requests, LockUser(p)
    PROVE  AccountInv'
<1> DEFINE row == [req[p] EXCEPT !.pc = "find", !.seen = user]
<1>1. /\ RowOK(req[p]) /\ req \in [Requests -> Row] /\ user \in User
      /\ req[p].pc = "lock"
  BY DEF AccountInv, Tables, LockUser
<1>2. req[p].op = "complete"
  BY <1>1 DEF RowOK, Path
<1>3. /\ req' = [req EXCEPT ![p] = row]
      /\ UNCHANGED <<user, inv, undos, failures, invLock, activations>>
  BY <1>1 DEF LockUser, tables, history, Row
<1>4. /\ RowOK(row) /\ row.op = req[p].op /\ row.found = req[p].found
      /\ row.doomed = req[p].doomed /\ row.undo = req[p].undo
  BY <1>1, <1>2, AccountsAssumption DEF RowOK, Row, Path, Pcs
<1> HIDE DEF row
<1> QED
  BY <1>2, <1>3, <1>4, MoveHolds

\* undo_password_reset locks its record.
LEMMA LockUndoHolds ==
    ASSUME AccountInv, NEW p \in Requests, LockUndo(p)
    PROVE  AccountInv'
<1> DEFINE row == [req[p] EXCEPT !.pc = "find"]
<1>1. /\ RowOK(req[p]) /\ req \in [Requests -> Row] /\ user \in User
      /\ failures \in Nat /\ req[p].pc = "undo"
  BY DEF AccountInv, Tables, LockUndo
<1>2. req[p].op = "undo"
  BY <1>1 DEF RowOK, Path
<1>3. CASE End(p) /\ UNCHANGED <<tables, history>>
  BY <1>1, <1>3, QuietEnd DEF tables, history
<1>4. CASE req' = [req EXCEPT ![p].pc = "find"] /\ UNCHANGED <<tables, invLock, history>>
  <2>1. /\ req' = [req EXCEPT ![p] = row]
        /\ UNCHANGED <<user, inv, undos, failures, invLock, activations>>
    BY <1>1, <1>4 DEF tables, history, Row
  <2>2. /\ RowOK(row) /\ row.op = req[p].op /\ row.found = req[p].found
        /\ row.doomed = req[p].doomed /\ row.undo = req[p].undo /\ row.pc = "find"
    BY <1>1, <1>2, AccountsAssumption DEF RowOK, Row, Path, Pcs
  <2> HIDE DEF row
  <2> QED
    BY <2>1, <2>2, MoveHolds
<1> QED
  BY <1>3, <1>4 DEF LockUndo

\* The code looked for is the newest live one of a first read.
LEMMA FindHolds ==
    ASSUME AccountInv, NEW p \in Requests, Find(p)
    PROVE  AccountInv'
<1> DEFINE row == [req[p] EXCEPT !.pc = "finding", !.cand = Live]
<1>1. /\ RowOK(req[p]) /\ req \in [Requests -> Row] /\ req[p].pc = "find"
      /\ Live \subseteq Invitations
  BY DEF AccountInv, Tables, Find, Live
<1>2. req[p].op \in {"reset", "undo", "revoke", "complete"}
  BY <1>1 DEF RowOK, Path
<1>3. /\ req' = [req EXCEPT ![p] = row]
      /\ UNCHANGED <<user, inv, undos, failures, invLock, activations>>
  BY <1>1 DEF Find, tables, locks, history, Row
<1>4. /\ RowOK(row) /\ row.op = req[p].op /\ row.found = req[p].found
      /\ row.doomed = req[p].doomed /\ row.undo = req[p].undo /\ row.pc = "finding"
  BY <1>1, <1>2, AccountsAssumption DEF RowOK, Row, Path, Pcs
<1> HIDE DEF row
<1> QED
  BY <1>3, <1>4, MoveHolds

\* So are the codes to be revoked.
LEMMA SweepHolds ==
    ASSUME AccountInv, NEW p \in Requests, Sweep(p)
    PROVE  AccountInv'
<1> DEFINE cand == IF req[p].op = "complete" THEN Live \ {req[p].found} ELSE Live
           row == [req[p] EXCEPT !.pc = "sweeping", !.cand = cand]
<1>1. /\ RowOK(req[p]) /\ req \in [Requests -> Row] /\ req[p].pc = "sweep"
      /\ cand \subseteq Invitations
  BY DEF AccountInv, Tables, Sweep, Live
<1>2. req[p].op \in {"regenerate", "reset", "complete"}
  BY <1>1 DEF RowOK, Path
<1>3. /\ req' = [req EXCEPT ![p] = row]
      /\ UNCHANGED <<user, inv, undos, failures, invLock, activations>>
  BY <1>1 DEF Sweep, tables, locks, history, Row
<1> HIDE DEF cand
<1>4. /\ RowOK(row) /\ row.op = req[p].op /\ row.found = req[p].found
      /\ row.doomed = req[p].doomed /\ row.undo = req[p].undo /\ row.pc = "sweeping"
  BY <1>1, <1>2, AccountsAssumption DEF RowOK, Row, Path, Pcs
<1> HIDE DEF row
<1> QED
  BY <1>3, <1>4, MoveHolds

\* All of them are locked: the sweep is over.
LEMMA SweptHolds ==
    ASSUME AccountInv, NEW p \in Requests, Swept(p)
    PROVE  AccountInv'
<1> DEFINE row == [req[p] EXCEPT !.pc = "finish"]
<1>1. RowOK(req[p]) /\ req \in [Requests -> Row] /\ req[p].pc = "sweeping"
  BY DEF AccountInv, Tables, Swept
<1>2. req[p].op \in {"regenerate", "reset", "complete"}
  BY <1>1 DEF RowOK, Path
<1>3. /\ req' = [req EXCEPT ![p] = row]
      /\ UNCHANGED <<user, inv, undos, failures, invLock, activations>>
  BY <1>1 DEF Swept, tables, locks, history, Row
<1>4. /\ RowOK(row) /\ row.op = req[p].op /\ row.found = req[p].found
      /\ row.doomed = req[p].doomed /\ row.undo = req[p].undo
  BY <1>1, <1>2, AccountsAssumption DEF RowOK, Row, Path, Pcs
<1> HIDE DEF row
<1> QED
  BY <1>2, <1>3, <1>4, MoveHolds

\* The code is locked once nobody else holds it, and kept if it is still live.
LEMMA FoundHolds ==
    ASSUME AccountInv, NEW p \in Requests, Found(p)
    PROVE  AccountInv'
<1> DEFINE i == Newest(req[p].cand)
<1>1. /\ RowOK(req[p]) /\ Holding(p) /\ req[p] \in Row /\ req[p].pc = "finding"
      /\ req \in [Requests -> Row]
      /\ invLock \in [Invitations -> Requests \cup {None}]
      /\ user \in User /\ failures \in Nat
  BY DEF AccountInv, Tables, Found
<1>2. req[p].op \in {"reset", "undo", "revoke", "complete"}
  BY <1>1 DEF RowOK, Path
<1>3. i \in Invitations \cup {None}
  BY <1>1, NewestType DEF Row
<1>4. /\ i # None => invLock[i] \in {None, p}
      /\ UNCHANGED <<user, inv, undos, failures, activations>>
  BY DEF Found, Free, tables, history
<1> HIDE DEF i
<1>5. ASSUME i = None \/ inv[i].state = "live",
             req' = [req EXCEPT ![p].pc = AfterFind(p, i), ![p].found = i],
             invLock' = [j \in Invitations |-> IF j = i THEN p ELSE invLock[j]]
      PROVE  AccountInv'
  <2> DEFINE row == [req[p] EXCEPT !.pc = AfterFind(p, i), !.found = i]
  <2>1. /\ AfterFind(p, i) \in Path(req[p].op) \cap Pcs
        /\ AfterFind(p, i) \notin {"lock", "idle"}
        /\ req[p].op = "undo" /\ AfterFind(p, i) = "finish" =>
              undos[req[p].undo].previousInvitation = None
    BY <1>2 DEF AfterFind, Path, Pcs
  <2>2. req' = [req EXCEPT ![p] = row]
    BY <1>1, <1>5 DEF Row
  <2>3. /\ RowOK(row) /\ row.op = req[p].op /\ row.found = i
        /\ row.doomed = req[p].doomed /\ row.undo = req[p].undo
        /\ row.pc = AfterFind(p, i)
    BY <1>1, <1>2, <1>3, <2>1 DEF RowOK, Row
  <2> HIDE DEF row
  <2>4. req'[p] = row
    BY <1>1, <2>2
  <2>5. Holding(p)'
    <3>1. i # None => invLock'[i] = p /\ inv'[i].state = "live"
      BY <1>3, <1>4, <1>5
    <3>2. ASSUME NEW j \in row.doomed PROVE invLock'[j] = p /\ inv'[j].state = "live"
      <4>1. j \in Invitations /\ j \in req[p].doomed
        BY <2>3, <3>2 DEF RowOK, Row
      <4> QED
        BY <1>1, <1>4, <1>5, <4>1 DEF Holding
    <3>3. row.op = "undo" =>
             /\ undos'[row.undo].made
             /\ row.pc = "finish" => undos'[row.undo].previousInvitation = None
      BY <1>1, <1>4, <2>1, <2>3 DEF Holding
    <3> QED
      BY <2>3, <2>4, <3>1, <3>2, <3>3 DEF Holding
  <2>6. /\ invLock' \in [Invitations -> Requests \cup {None}]
        /\ \A j \in Invitations :
              invLock[j] \notin {None, p} => invLock'[j] = invLock[j]
    BY <1>1, <1>3, <1>4, <1>5, AccountsAssumption
  <2> QED
    BY <1>1, <1>4, <2>2, <2>3, <2>5, <2>6, QuietStep
<1>6. ASSUME req' = [req EXCEPT ![p].cand = @ \ {i}], UNCHANGED invLock
      PROVE  AccountInv'
  <2> DEFINE row == [req[p] EXCEPT !.cand = @ \ {i}]
  <2>1. req' = [req EXCEPT ![p] = row]
    BY <1>1, <1>6 DEF Row
  <2>2. /\ RowOK(row) /\ row.op = req[p].op /\ row.found = req[p].found
        /\ row.doomed = req[p].doomed /\ row.undo = req[p].undo /\ row.pc = "finding"
    BY <1>1, <1>2 DEF RowOK, Row
  <2> HIDE DEF row
  <2> QED
    BY <1>4, <1>6, <2>1, <2>2, MoveHolds
<1> QED
  BY <1>5, <1>6 DEF Found, StillLive, i

\* One more code of the sweep is locked, and kept if it is still live.
LEMMA SweepRowHolds ==
    ASSUME AccountInv, NEW p \in Requests, NEW i \in Invitations, SweepRow(p, i)
    PROVE  AccountInv'
<1>1. /\ RowOK(req[p]) /\ Holding(p) /\ req[p] \in Row /\ req[p].pc = "sweeping"
      /\ req \in [Requests -> Row]
      /\ invLock \in [Invitations -> Requests \cup {None}]
      /\ user \in User /\ failures \in Nat
  BY DEF AccountInv, Tables, SweepRow
<1>2. req[p].op \in {"regenerate", "reset", "complete"}
  BY <1>1 DEF RowOK, Path
<1>3. /\ invLock[i] \in {None, p}
      /\ UNCHANGED <<user, inv, undos, failures, activations>>
  BY DEF SweepRow, Free, tables, history
<1>4. ASSUME inv[i].state = "live",
             req' = [req EXCEPT ![p].cand = @ \ {i}, ![p].doomed = @ \cup {i}],
             invLock' = [invLock EXCEPT ![i] = p]
      PROVE  AccountInv'
  <2> DEFINE row == [req[p] EXCEPT !.cand = @ \ {i}, !.doomed = @ \cup {i}]
  <2>1. req' = [req EXCEPT ![p] = row]
    BY <1>1, <1>4 DEF Row
  <2>2. /\ RowOK(row) /\ row.op = req[p].op /\ row.found = req[p].found
        /\ row.doomed = req[p].doomed \cup {i}
    BY <1>1, <1>2 DEF RowOK, Row
  <2> HIDE DEF row
  <2>3. req'[p] = row
    BY <1>1, <2>1
  <2>4. Holding(p)'
    <3>1. \A j \in row.doomed : invLock'[j] = p /\ inv'[j].state = "live"
      BY <1>1, <1>3, <1>4, <2>2 DEF Holding
    <3>2. row.found # None => invLock'[row.found] = p /\ inv'[row.found].state = "live"
      BY <1>1, <1>2, <1>3, <1>4, <2>2 DEF Holding
    <3> QED
      BY <1>2, <2>2, <2>3, <3>1, <3>2 DEF Holding
  <2>5. /\ invLock' \in [Invitations -> Requests \cup {None}]
        /\ \A j \in Invitations :
              invLock[j] \notin {None, p} => invLock'[j] = invLock[j]
    BY <1>1, <1>3, <1>4
  <2> QED
    BY <1>1, <1>3, <2>1, <2>2, <2>4, <2>5, QuietStep
<1>5. ASSUME req' = [req EXCEPT ![p].cand = @ \ {i}], UNCHANGED invLock
      PROVE  AccountInv'
  <2> DEFINE row == [req[p] EXCEPT !.cand = @ \ {i}]
  <2>1. req' = [req EXCEPT ![p] = row]
    BY <1>1, <1>5 DEF Row
  <2>2. /\ RowOK(row) /\ row.op = req[p].op /\ row.found = req[p].found
        /\ row.doomed = req[p].doomed /\ row.undo = req[p].undo /\ row.pc = "sweeping"
    BY <1>1, <1>2 DEF RowOK, Row
  <2> HIDE DEF row
  <2> QED
    BY <1>3, <1>5, <2>1, <2>2, MoveHolds
<1> QED
  BY <1>4, <1>5 DEF SweepRow

\* The undo locks the code the reset revoked, whatever its state.
LEMMA LockPreviousHolds ==
    ASSUME AccountInv, NEW p \in Requests, LockPrevious(p)
    PROVE  AccountInv'
<1> DEFINE row == [req[p] EXCEPT !.pc = "finish"]
           i == undos[req[p].undo].previousInvitation
<1>1. /\ RowOK(req[p]) /\ Holding(p) /\ req[p] \in Row /\ req[p].pc = "previous"
      /\ req \in [Requests -> Row]
      /\ invLock \in [Invitations -> Requests \cup {None}]
      /\ user \in User /\ failures \in Nat
  BY DEF AccountInv, Tables, LockPrevious
<1>2. req[p].op = "undo" /\ req[p].undo \in Undos
  BY <1>1 DEF RowOK, Path
<1>3. i \in Invitations \cup {None}
  BY <1>2 DEF AccountInv, Tables, Undo
<1>4. /\ invLock[i] \in {None, p} /\ invLock' = [invLock EXCEPT ![i] = p]
      /\ req' = [req EXCEPT ![p].pc = "finish"]
      /\ UNCHANGED <<user, inv, undos, failures, activations>>
  BY DEF LockPrevious, Free, tables, history
<1>5. req' = [req EXCEPT ![p] = row]
  BY <1>1, <1>4 DEF Row
<1>6. /\ RowOK(row) /\ row.op = req[p].op /\ row.found = req[p].found
      /\ row.doomed = req[p].doomed /\ row.undo = req[p].undo
  BY <1>1, <1>2, AccountsAssumption DEF RowOK, Row, Path, Pcs
<1> HIDE DEF row
<1>7. req'[p] = row
  BY <1>1, <1>5
<1>8. Holding(p)'
  <2>1. ASSUME NEW j \in Invitations, invLock[j] = p PROVE invLock'[j] = p
    BY <1>1, <1>4, <2>1
  <2>2. row.found # None => invLock'[row.found] = p /\ inv'[row.found].state = "live"
    BY <1>1, <1>2, <1>4, <1>6, <2>1 DEF Holding, Row
  <2>3. \A j \in row.doomed : invLock'[j] = p /\ inv'[j].state = "live"
    BY <1>1, <1>4, <1>6, <2>1 DEF Holding, Row
  <2>4. i # None => invLock'[i] = p
    BY <1>1, <1>3, <1>4
  <2>5. undos'[row.undo].made /\ undos'[row.undo].previousInvitation = i
    BY <1>1, <1>2, <1>4, <1>6 DEF Holding
  <2> QED
    BY <1>7, <2>2, <2>3, <2>4, <2>5 DEF Holding
<1>9. /\ invLock' \in [Invitations -> Requests \cup {None}]
      /\ \A j \in Invitations :
            invLock[j] \notin {None, p} => invLock'[j] = invLock[j]
  BY <1>1, <1>4
<1> QED
  BY <1>1, <1>4, <1>5, <1>6, <1>8, <1>9, QuietStep

-----------------------------------------------------------------------------
(* Requests end *)

\* Those that write the user, or nothing.
LEMMA UserEndHolds ==
    ASSUME AccountInv, NEW p \in Requests,
           SetPassword(p) \/ Deactivate(p) \/ Refused(p) \/ DeadlockVictim(p)
    PROVE  AccountInv'
<1>1. user \in User /\ failures \in Nat /\ RowOK(req[p])
  BY DEF AccountInv, Tables
<1>2. CASE SetPassword(p)
  <2>1. req[p].seen \in User /\ req[p].password \in Passwords
    BY <1>1, <1>2, AccountsAssumption DEF SetPassword, Finishing, RowOK, Ops
  <2>2. user' \in User
    BY <1>1, <1>2, <2>1, WrittenType, UserWrites DEF SetPassword
  <2> QED
    BY <1>1, <1>2, <2>2, QuietEnd DEF SetPassword, history
<1>3. CASE Deactivate(p)
  <2>1. req[p].seen \in User
    BY <1>1, <1>3, AccountsAssumption DEF Deactivate, Finishing, RowOK, Ops
  <2>2. user' \in User
    BY <1>1, <1>3, <2>1, WrittenType, UserWrites DEF Deactivate
  <2> QED
    BY <1>1, <1>3, <2>2, QuietEnd DEF Deactivate
<1>4. CASE Refused(p) \/ DeadlockVictim(p)
  BY <1>1, <1>4, QuietEnd DEF Refused, DeadlockVictim, tables, history
<1> QED
  BY <1>2, <1>3, <1>4

\* Those that write codes or records.
LEMMA WritingEnd ==
    ASSUME AccountInv, NEW p \in Requests, End(p),
           user' \in User, failures' \in Nat,
           inv' \in [Invitations -> Invitation], undos' \in [Undos -> Undo],
           activations' \in [Invitations -> Nat],
           \A i \in Invitations : invLock[i] \notin {None, p} /\ inv[i].state = "live"
              => inv'[i].state = "live",
           \A u \in Undos : undos[u].made =>
              /\ undos'[u].made
              /\ undos'[u].previousInvitation = undos[u].previousInvitation,
           Records', Spent', Keys'
    PROVE  AccountInv'
<1>1. Considerate(p)
  BY Released DEF Considerate
<1>2. Tables'
  BY Released DEF Tables
<1>3. RowOK(req'[p]) /\ Holding(p)'
  BY Released, NothingHeld, IdleOK
<1> QED
  BY <1>1, <1>2, <1>3, StepHolds

\* A request that ends and issued nothing leaves the keys.
LEMMA KeysAtEnd ==
    ASSUME AccountInv, NEW p \in Requests, End(p),
           Unmade' = Unmade, UnmadeUndos' = UnmadeUndos
    PROVE  Keys'
<1>1. ~Issuing(Idle.op)
  BY AccountsAssumption DEF Issuing, Idle, Ops
<1> QED
  BY <1>1, Released, KeysStay

\* Locking or unlocking a code, or its expiry, changes no state.
LEMMA FlagsType ==
    ASSUME NEW row \in Invitation, NEW flag \in BOOLEAN
    PROVE  /\ [row EXCEPT !.locked = flag] \in Invitation
           /\ [row EXCEPT !.locked = flag].state = row.state
           /\ [row EXCEPT !.expired = flag] \in Invitation
           /\ [row EXCEPT !.expired = flag].state = row.state
<1>1. /\ [row EXCEPT !.locked = flag] \in Invitation
      /\ [row EXCEPT !.locked = flag].state = row.state
  BY DEF Invitation
<1>2. /\ [row EXCEPT !.expired = flag] \in Invitation
      /\ [row EXCEPT !.expired = flag].state = row.state
  BY DEF Invitation
<1> QED
  BY <1>1, <1>2

\* A failed attempt may lock a code, and changes no state of one.
LEMMA FailHolds ==
    ASSUME AccountInv, NEW p \in Requests, Fail(p)
    PROVE  AccountInv'
<1>1. /\ Tables /\ Records /\ Spent /\ RowOK(req[p])
      /\ user' = user /\ undos' = undos /\ failures' = failures + 1
      /\ activations' = activations /\ End(p)
      /\ \/ inv' = inv
         \/ req[p].found # None /\ inv' = [inv EXCEPT ![req[p].found].locked = TRUE]
  BY DEF AccountInv, Fail, LocksCode, history
<1>2. req[p].found \in Invitations \cup {None}
  BY <1>1 DEF RowOK, Row
<1>3. /\ inv' \in [Invitations -> Invitation]
      /\ \A i \in Invitations : inv'[i].state = inv[i].state
  <2>1. \A i \in Invitations :
          /\ [inv[i] EXCEPT !.locked = TRUE] \in Invitation
          /\ [inv[i] EXCEPT !.locked = TRUE].state = inv[i].state
    BY <1>1, FlagsType DEF Tables
  <2>2. \A i \in Invitations :
          inv'[i] = inv[i] \/ inv'[i] = [inv[i] EXCEPT !.locked = TRUE]
    BY <1>1, <1>2 DEF Tables
  <2>3. inv' \in [Invitations -> Invitation]
    BY <1>1, <1>2, <2>1 DEF Tables
  <2> QED
    BY <2>1, <2>2, <2>3
<1>4. Unmade' = Unmade /\ UnmadeUndos' = UnmadeUndos
  BY <1>1, <1>3 DEF Unmade, UnmadeUndos
<1>5. Records'
  <2>1. \A u \in Undos : undos[u].previousInvitation \in Invitations \cup {None}
    BY <1>1 DEF Tables, Undo
  <2> QED
    BY <1>1, <1>3, <2>1 DEF Records
<1>6. Spent'
  BY <1>1, <1>3 DEF Spent
<1>7. /\ user' \in User /\ failures' \in Nat /\ undos' \in [Undos -> Undo]
      /\ activations' \in [Invitations -> Nat]
  BY <1>1 DEF Tables
<1> QED
  BY <1>1, <1>3, <1>4, <1>5, <1>6, <1>7, KeysAtEnd, WritingEnd

\* A code in some set of states, with another state.
LEMMA StateType ==
    ASSUME AccountInv, NEW i \in Invitations,
           NEW state \in {"absent", "live", "revoked", "used"}
    PROVE  /\ [inv[i] EXCEPT !.state = state] \in Invitation
           /\ [inv[i] EXCEPT !.state = state].state = state
           /\ [NoInvitation EXCEPT !.state = "live"] \in Invitation
           /\ [NoInvitation EXCEPT !.state = "live"].state = "live"
  BY DEF AccountInv, Tables, Invitation, NoInvitation

\* Staff revoke the code they found.
LEMMA RevokeHolds ==
    ASSUME AccountInv, NEW p \in Requests, Revoke(p)
    PROVE  AccountInv'
<1> DEFINE i == req[p].found
<1>1. /\ Tables /\ Records /\ Spent /\ RowOK(req[p]) /\ Holding(p)
      /\ UNCHANGED <<user, undos, failures, activations>>
      /\ inv' = [inv EXCEPT ![i].state = "revoked"] /\ End(p)
      /\ req[p].op = "revoke"
  BY DEF AccountInv, Revoke, Finishing
<1>2. i \in Invitations \cup {None}
  BY <1>1 DEF RowOK, Row
<1>3. i # None => invLock[i] = p /\ inv[i].state = "live"
  BY <1>1 DEF Holding
<1> HIDE DEF i
<1>4. /\ inv' \in [Invitations -> Invitation]
      /\ \A j \in Invitations : IF j = i THEN inv'[j].state = "revoked"
                                         ELSE inv'[j] = inv[j]
  BY <1>1, <1>2, StateType DEF Tables
<1>5. Unmade' = Unmade /\ UnmadeUndos' = UnmadeUndos
  BY <1>1, <1>3, <1>4, AccountsAssumption DEF Unmade, UnmadeUndos
<1>6. Records'
  <2>1. \A u \in Undos : undos[u].previousInvitation \in Invitations \cup {None}
    BY <1>1 DEF Tables, Undo
  <2> QED
    BY <1>1, <1>4, <2>1 DEF Records
<1>7. Spent'
  BY <1>1, <1>3, <1>4, AccountsAssumption DEF Spent
<1>8. \A j \in Invitations : invLock[j] \notin {None, p} /\ inv[j].state = "live"
              => inv'[j].state = "live"
  BY <1>3, <1>4, AccountsAssumption
<1>9. /\ user' \in User /\ failures' \in Nat /\ undos' \in [Undos -> Undo]
      /\ activations' \in [Invitations -> Nat]
  BY <1>1 DEF Tables
<1> QED
  BY <1>1, <1>4, <1>5, <1>6, <1>7, <1>8, <1>9, KeysAtEnd, WritingEnd

\* A completion uses the code it found, which has never been used.
LEMMA CompleteHolds ==
    ASSUME AccountInv, NEW p \in Requests, Complete(p)
    PROVE  AccountInv'
<1> DEFINE i == req[p].found
           doomed == req[p].doomed
<1>1. /\ Tables /\ Records /\ Spent /\ RowOK(req[p]) /\ Holding(p)
      /\ UNCHANGED <<undos, failures>> /\ End(p)
      /\ req[p].op = "complete" /\ req[p].pc = "finish"
      /\ user' = Written(req[p].seen,
           [req[p].seen EXCEPT !.password = req[p].password, !.account_status = "ACTIVE",
                        !.activated = TRUE, !.auth_version = @ + 1])
      /\ inv' = [j \in Invitations |->
           IF j = i THEN [inv[j] EXCEPT !.state = "used"]
           ELSE IF j \in doomed THEN [inv[j] EXCEPT !.state = "revoked"]
           ELSE inv[j]]
      /\ activations' = [activations EXCEPT ![i] = @ + 1]
  BY DEF AccountInv, Complete, Finishing
<1>2. i \in Invitations \cup {None} /\ doomed \subseteq Invitations
  BY <1>1 DEF RowOK, Row
<1>3. /\ i # None => invLock[i] = p /\ inv[i].state = "live"
      /\ \A j \in doomed : invLock[j] = p /\ inv[j].state = "live"
  BY <1>1 DEF Holding
<1>4. user' \in User
  <2>1. req[p].seen \in User /\ req[p].password \in Passwords /\ user \in User
    BY <1>1, AccountsAssumption DEF RowOK, Ops, Tables
  <2> QED
    BY <1>1, <2>1, UserWrites, WrittenType
<1> HIDE DEF i, doomed
<1>5. /\ inv' \in [Invitations -> Invitation]
      /\ \A j \in Invitations :
           /\ j = i => inv'[j].state = "used"
           /\ j # i /\ j \in doomed => inv'[j].state = "revoked"
           /\ j # i /\ j \notin doomed => inv'[j] = inv[j]
  BY <1>1, <1>2, StateType DEF Tables
<1>6. /\ activations' \in [Invitations -> Nat]
      /\ \A j \in Invitations :
           activations'[j] = IF j = i THEN activations[j] + 1 ELSE activations[j]
  <2>1. \A j \in Invitations : activations[j] \in Nat /\ activations[j] + 1 \in Nat
    BY <1>1 DEF Tables
  <2>2. activations' = [j \in Invitations |->
                          IF j = i THEN activations[j] + 1 ELSE activations[j]]
    BY <1>1 DEF Tables
  <2> QED
    BY <2>1, <2>2
<1>7. Unmade' = Unmade /\ UnmadeUndos' = UnmadeUndos
  BY <1>1, <1>3, <1>5, AccountsAssumption DEF Unmade, UnmadeUndos
<1>8. Records'
  <2>1. \A u \in Undos : undos[u].previousInvitation \in Invitations \cup {None}
    BY <1>1 DEF Tables, Undo
  <2> QED
    BY <1>1, <1>5, <2>1 DEF Records
<1>9. Spent'
  <2> SUFFICES ASSUME NEW j \in Invitations
               PROVE  /\ activations'[j] <= 1
                      /\ activations'[j] # 0 => inv'[j].state = "used"
    BY DEF Spent
  <2>1. CASE j = i
    <3>1. inv[j].state = "live"
      BY <1>3, <2>1, AccountsAssumption
    <3>2. activations[j] = 0
      BY <1>1, <3>1 DEF Spent
    <3> QED
      BY <1>5, <1>6, <2>1, <3>2
  <2>2. CASE j # i
    BY <1>1, <1>3, <1>5, <1>6, <2>2 DEF Spent
  <2> QED
    BY <2>1, <2>2
<1>10. \A j \in Invitations : invLock[j] \notin {None, p} /\ inv[j].state = "live"
              => inv'[j].state = "live"
  BY <1>3, <1>5, AccountsAssumption
<1>11. failures' \in Nat /\ undos' \in [Undos -> Undo]
  BY <1>1 DEF Tables
<1> QED
  BY <1>1, <1>4, <1>5, <1>6, <1>7, <1>8, <1>9, <1>10, <1>11, KeysAtEnd, WritingEnd

\* Undoing a reset revokes its code and brings back the one it replaced, unless
\* that one was used.
LEMMA UndoResetHolds ==
    ASSUME AccountInv, NEW p \in Requests, UndoReset(p)
    PROVE  AccountInv'
<1> DEFINE i == req[p].found
           u == req[p].undo
           k == undos[u].previousInvitation
<1>1. /\ Tables /\ Records /\ Spent /\ RowOK(req[p]) /\ Holding(p)
      /\ UNCHANGED <<failures, activations>> /\ End(p)
      /\ req[p].op = "undo" /\ req[p].pc = "finish"
      /\ inv' = [j \in Invitations |->
           IF j = i THEN [inv[j] EXCEPT !.state = "revoked"]
           ELSE IF j = k THEN Reinstated(j) ELSE inv[j]]
      /\ undos' = [undos EXCEPT ![u].undone = TRUE]
      /\ user' = Written(req[p].seen, RestoredUser(req[p].seen, undos[u].previous))
  BY DEF AccountInv, UndoReset, Finishing
<1>2. /\ i \in Invitations \cup {None} /\ u \in Undos
      /\ undos[u].made /\ k \in Invitations \cup {None}
  BY <1>1 DEF RowOK, Row, Holding, Tables, Undo
<1>3. /\ i # None => invLock[i] = p /\ inv[i].state = "live"
      /\ k # None => invLock[k] = p /\ inv[k].state # "absent"
  BY <1>1, <1>2 DEF Holding, Records
<1>4. user' \in User
  <2>1. req[p].seen \in User /\ undos[u].previous \in User /\ user \in User
    BY <1>1, <1>2, AccountsAssumption DEF RowOK, Ops, Tables, Records
  <2> QED
    BY <1>1, <2>1, UserWrites, WrittenType
<1> HIDE DEF i, k
<1>5. \A j \in Invitations :
        /\ Reinstated(j) \in Invitation
        /\ Reinstated(j).state \in {"live", "used"}
        /\ inv[j].state = "used" => Reinstated(j).state = "used"
        /\ inv[j].state # "used" => Reinstated(j).state = "live"
  BY <1>1, StateType DEF Reinstated, Tables
<1>6. /\ inv' \in [Invitations -> Invitation]
      /\ \A j \in Invitations :
           /\ j = i => inv'[j].state = "revoked"
           /\ j # i /\ j = k => inv'[j] = Reinstated(j)
           /\ j # i /\ j # k => inv'[j] = inv[j]
  BY <1>1, <1>5, StateType DEF Tables
<1>7. /\ undos' \in [Undos -> Undo]
      /\ \A v \in Undos :
           /\ undos'[v].made = undos[v].made
           /\ undos'[v].previous = undos[v].previous
           /\ undos'[v].previousInvitation = undos[v].previousInvitation
           /\ undos'[v].resetInvitation = undos[v].resetInvitation
  BY <1>1, <1>2 DEF Tables, Undo
<1>8. Unmade' = Unmade
  <2>1. \A j \in Invitations : inv'[j].state = "absent" <=> inv[j].state = "absent"
    BY <1>3, <1>5, <1>6, AccountsAssumption
  <2> QED
    BY <2>1 DEF Unmade
<1>9. UnmadeUndos' = UnmadeUndos
  BY <1>7 DEF UnmadeUndos
<1>10. Records'
  <2>1. \A v \in Undos : undos[v].previousInvitation \in Invitations \cup {None}
    BY <1>1 DEF Tables, Undo
  <2>2. \A j \in Invitations : inv[j].state # "absent" => inv'[j].state # "absent"
    BY <1>3, <1>5, <1>6, AccountsAssumption
  <2> QED
    BY <1>1, <1>7, <2>1, <2>2 DEF Records
<1>11. Spent'
  BY <1>1, <1>3, <1>5, <1>6, AccountsAssumption DEF Spent
<1>12. \A j \in Invitations : invLock[j] \notin {None, p} /\ inv[j].state = "live"
              => inv'[j].state = "live"
  BY <1>3, <1>6, AccountsAssumption
<1>13. failures' \in Nat /\ activations' \in [Invitations -> Nat]
  BY <1>1 DEF Tables
<1> HIDE DEF u
<1>14. Keys'
  BY <1>1, <1>8, <1>9, KeysAtEnd
<1>15. \A v \in Undos : undos[v].made =>
          /\ undos'[v].made
          /\ undos'[v].previousInvitation = undos[v].previousInvitation
  BY <1>7
<1> QED
  BY <1>1, <1>4, <1>6, <1>7, <1>10, <1>11, <1>12, <1>13, <1>14, <1>15, WritingEnd

-----------------------------------------------------------------------------
(* A code is issued *)

\* Who issues one has a key left for the code and for the record.
LEMMA KeysForIssuer ==
    ASSUME AccountInv, NEW p \in Requests, Issuing(req[p].op)
    PROVE  Min(Unmade) \in Unmade /\ Min(UnmadeUndos) \in UnmadeUndos
<1>1. p \in Issuers /\ IsFiniteSet(Issuers)
  BY DEF Issuers, AccountInv, Keys
<1>2. Cardinality(Issuers) \in Nat /\ Cardinality(Issuers) # 0
  BY <1>1, FS_CardinalityType, FS_EmptySet
<1>3. /\ Unmade \subseteq Nat /\ UnmadeUndos \subseteq Nat
      /\ IsFiniteSet(Unmade) /\ IsFiniteSet(UnmadeUndos)
  BY AccountsAssumption, FS_Subset DEF Unmade, UnmadeUndos
<1>4. Unmade # {} /\ UnmadeUndos # {}
  BY <1>2, <1>3, FS_EmptySet, FS_CardinalityType DEF AccountInv, Keys
<1> QED
  BY <1>3, <1>4, MinInSet

\* It uses them up as it ends.
LEMMA KeysTaken ==
    ASSUME AccountInv, NEW p \in Requests, Issuing(req[p].op), End(p),
           NEW i \in Unmade, Unmade' = Unmade \ {i},
           NEW u \in UnmadeUndos,
           UnmadeUndos' = UnmadeUndos \/ UnmadeUndos' = UnmadeUndos \ {u}
    PROVE  Keys'
<1>1. /\ IsFiniteSet(Issuers) /\ p \in Issuers
      /\ Cardinality(Issuers) <= Cardinality(Unmade)
      /\ Cardinality(Issuers) <= Cardinality(UnmadeUndos)
  BY DEF Issuers, AccountInv, Keys
<1>2. IsFiniteSet(Unmade) /\ IsFiniteSet(UnmadeUndos)
  BY AccountsAssumption, FS_Subset DEF Unmade, UnmadeUndos
<1>3. /\ Cardinality(Issuers) \in Nat
      /\ Cardinality(Unmade) \in Nat /\ Cardinality(UnmadeUndos) \in Nat
  BY <1>1, <1>2, FS_CardinalityType
<1>4. Issuers' = Issuers \ {p}
  <2>1. ~Issuing(Idle.op)
    BY AccountsAssumption DEF Issuing, Idle, Ops
  <2> QED
    BY <2>1, Released DEF Issuers
<1>5. /\ IsFiniteSet(Issuers')
      /\ Cardinality(Issuers') = Cardinality(Issuers) - 1
      /\ Cardinality(Unmade') = Cardinality(Unmade) - 1
      /\ Cardinality(UnmadeUndos \ {u}) = Cardinality(UnmadeUndos) - 1
  BY <1>1, <1>2, <1>4, FS_RemoveElement
<1>6. Cardinality(UnmadeUndos') >= Cardinality(UnmadeUndos) - 1
  BY <1>3, <1>5
<1>7. Cardinality(Issuers') <= Cardinality(UnmadeUndos')
  <2>1. Cardinality(UnmadeUndos') \in {Cardinality(UnmadeUndos), Cardinality(UnmadeUndos) - 1}
    BY <1>5
  <2> QED
    BY <1>1, <1>3, <1>5, <2>1
<1> QED
  BY <1>1, <1>3, <1>5, <1>7 DEF Keys

\* What a new code does to the old ones.
LEMMA IssuedCodes ==
    ASSUME AccountInv, NEW p \in Requests, NEW i \in Unmade, inv' = Issued(p, i)
    PROVE  /\ inv' \in [Invitations -> Invitation]
           /\ Unmade' = Unmade \ {i}
           /\ \A j \in Invitations :
                /\ inv[j].state # "absent" => inv'[j].state # "absent"
                /\ inv[j].state = "used" => inv'[j].state = "used"
                /\ invLock[j] \notin {None, p} /\ inv[j].state = "live"
                   => inv'[j].state = "live"
<1>1. /\ Tables /\ i \in Invitations /\ inv[i].state = "absent"
      /\ \A j \in req[p].doomed : invLock[j] = p /\ inv[j].state = "live"
  BY DEF AccountInv, Holding, Unmade
<1>2. /\ inv' \in [Invitations -> Invitation]
      /\ \A j \in Invitations :
           /\ j = i => inv'[j].state = "live"
           /\ j # i /\ j \in req[p].doomed => inv'[j].state = "revoked"
           /\ j # i /\ j \notin req[p].doomed => inv'[j] = inv[j]
  BY <1>1, StateType DEF Issued, Tables
<1>3. \A j \in Invitations : inv'[j].state = "absent" <=> inv[j].state = "absent" /\ j # i
  BY <1>1, <1>2
<1> QED
  BY <1>1, <1>2, <1>3 DEF Unmade

\* A new code replaces the old ones.
LEMMA RegenerateHolds ==
    ASSUME AccountInv, NEW p \in Requests, Regenerate(p)
    PROVE  AccountInv'
<1>1. /\ Tables /\ Records /\ Spent /\ Issuing(req[p].op) /\ End(p)
      /\ UNCHANGED <<user, undos, failures, activations>>
  BY DEF AccountInv, Regenerate, Finishing, history, Issuing
<1>2. PICK i \in Unmade, u \in UnmadeUndos : inv' = Issued(p, i)
  BY <1>1, KeysForIssuer DEF Regenerate
<1>3. /\ inv' \in [Invitations -> Invitation]
      /\ Unmade' = Unmade \ {i} /\ UnmadeUndos' = UnmadeUndos
      /\ \A j \in Invitations :
           /\ inv[j].state # "absent" => inv'[j].state # "absent"
           /\ inv[j].state = "used" => inv'[j].state = "used"
           /\ invLock[j] \notin {None, p} /\ inv[j].state = "live"
              => inv'[j].state = "live"
  BY <1>1, <1>2, IssuedCodes DEF UnmadeUndos
<1>4. Keys'
  BY <1>1, <1>3, KeysTaken
<1>5. Records'
  <2>1. \A v \in Undos : undos[v].previousInvitation \in Invitations \cup {None}
    BY <1>1 DEF Tables, Undo
  <2> QED
    BY <1>1, <1>3, <2>1 DEF Records
<1>6. Spent'
  BY <1>1, <1>3 DEF Spent
<1>7. /\ user' \in User /\ failures' \in Nat /\ undos' \in [Undos -> Undo]
      /\ activations' \in [Invitations -> Nat]
  BY <1>1 DEF Tables
<1> QED
  BY <1>1, <1>3, <1>4, <1>5, <1>6, <1>7, WritingEnd

\* A reset withdraws the password, and leaves a code and the record of an undo.
LEMMA ResetHolds ==
    ASSUME AccountInv, NEW p \in Requests, Reset(p)
    PROVE  AccountInv'
<1> DEFINE seen == req[p].seen
           record(i) == [NoUndo EXCEPT !.made = TRUE, !.previous = seen,
                           !.previousInvitation = req[p].found,
                           !.resetInvitation = i]
<1>1. /\ Tables /\ Records /\ Spent /\ RowOK(req[p]) /\ Holding(p)
      /\ Issuing(req[p].op) /\ req[p].op = "reset" /\ req[p].pc = "finish"
      /\ End(p) /\ UNCHANGED <<failures, activations>>
      /\ user' = Written(seen, ResetUser(seen))
  BY DEF AccountInv, Reset, Finishing, Issuing
<1>2. PICK i \in Unmade, u \in UnmadeUndos :
        /\ inv' = Issued(p, i)
        /\ undos' = [undos EXCEPT ![u] = record(i)]
  BY <1>1, KeysForIssuer DEF Reset
<1>3. /\ inv' \in [Invitations -> Invitation]
      /\ Unmade' = Unmade \ {i}
      /\ \A j \in Invitations :
           /\ inv[j].state # "absent" => inv'[j].state # "absent"
           /\ inv[j].state = "used" => inv'[j].state = "used"
           /\ invLock[j] \notin {None, p} /\ inv[j].state = "live"
              => inv'[j].state = "live"
  BY <1>2, IssuedCodes
<1>4. /\ i \in Invitations /\ u \in Undos /\ ~undos[u].made
      /\ req[p].found \in Invitations \cup {None}
      /\ req[p].found # None => inv[req[p].found].state = "live"
      /\ seen \in User /\ user \in User
  BY <1>1, AccountsAssumption DEF Unmade, UnmadeUndos, RowOK, Row, Holding, Ops, Tables
<1>5. /\ record(i) \in Undo /\ record(i).made
      /\ record(i).previous = seen /\ record(i).resetInvitation = i
      /\ record(i).previousInvitation = req[p].found
  BY <1>4 DEF NoUndo, Undo
<1> HIDE DEF record
<1>6. /\ undos' \in [Undos -> Undo] /\ undos'[u] = record(i)
      /\ \A v \in Undos \ {u} : undos'[v] = undos[v]
  BY <1>1, <1>2, <1>4, <1>5 DEF Tables
<1>7. UnmadeUndos' = UnmadeUndos \ {u}
  BY <1>4, <1>5, <1>6 DEF UnmadeUndos
<1>8. Keys'
  BY <1>1, <1>3, <1>7, KeysTaken
<1>9. Records'
  <2> SUFFICES ASSUME NEW v \in Undos, undos'[v].made
               PROVE  /\ undos'[v].previous \in User
                      /\ undos'[v].resetInvitation \in Invitations
                      /\ undos'[v].previousInvitation # None =>
                           inv'[undos'[v].previousInvitation].state # "absent"
    BY DEF Records
  <2>1. CASE v = u
    BY <1>3, <1>4, <1>5, <1>6, <2>1
  <2>2. CASE v # u
    <3>1. undos[v].previousInvitation \in Invitations \cup {None}
      BY <1>1 DEF Tables, Undo
    <3> QED
      BY <1>1, <1>3, <1>6, <2>2, <3>1 DEF Records
  <2> QED
    BY <2>1, <2>2
<1>10. Spent'
  BY <1>1, <1>3 DEF Spent
<1>11. user' \in User
  BY <1>1, <1>4, UserWrites, WrittenType
<1>12. failures' \in Nat /\ activations' \in [Invitations -> Nat]
  BY <1>1 DEF Tables
<1>13. \A v \in Undos : undos[v].made =>
          /\ undos'[v].made
          /\ undos'[v].previousInvitation = undos[v].previousInvitation
  BY <1>4, <1>6
<1> QED
  BY <1>1, <1>3, <1>6, <1>8, <1>9, <1>10, <1>11, <1>12, <1>13, WritingEnd

-----------------------------------------------------------------------------
(* Time, and the theorems *)

\* Time changes no state of a code and no record but its window.
LEMMA TimeHolds ==
    ASSUME AccountInv, Time \/ UNCHANGED vars
    PROVE  AccountInv'
<1>1. /\ Tables /\ Records /\ Spent /\ Keys
      /\ \A p \in Requests : RowOK(req[p]) /\ Holding(p)
      /\ UNCHANGED <<user, invLock, activations, req>>
  BY DEF AccountInv, Time, WindowPasses, ExpireInvitation, LockRunsOut, ExpireUndo,
         vars, locks, history
<1>2. /\ inv' \in [Invitations -> Invitation]
      /\ \A i \in Invitations : inv'[i].state = inv[i].state
  <2>1. CASE inv' = inv
    BY <1>1, <2>1 DEF Tables
  <2>2. CASE \E i \in Invitations, flag \in BOOLEAN :
               \/ inv' = [inv EXCEPT ![i].expired = flag]
               \/ inv' = [inv EXCEPT ![i].locked = flag]
    <3>1. PICK i \in Invitations, flag \in BOOLEAN :
               \/ inv' = [inv EXCEPT ![i].expired = flag]
               \/ inv' = [inv EXCEPT ![i].locked = flag]
      BY <2>2
    <3>2. inv'[i] = [inv[i] EXCEPT !.expired = flag] \/ inv'[i] = [inv[i] EXCEPT !.locked = flag]
      BY <1>1, <3>1 DEF Tables
    <3>3. /\ DOMAIN inv' = Invitations /\ inv' = [j \in Invitations |-> inv'[j]]
          /\ \A j \in Invitations \ {i} : inv'[j] = inv[j]
      BY <1>1, <3>1 DEF Tables
    <3>4. inv'[i] \in Invitation /\ inv'[i].state = inv[i].state
      <4>1. inv[i] \in Invitation
        BY <1>1 DEF Tables
      <4> HIDE DEF Invitation
      <4> QED
        BY <3>2, <4>1, FlagsType
    <3> QED
      BY <1>1, <3>3, <3>4 DEF Tables
  <2> QED
    BY <2>1, <2>2 DEF Time, WindowPasses, ExpireInvitation, LockRunsOut, ExpireUndo, vars
<1>3. /\ undos' \in [Undos -> Undo]
      /\ \A u \in Undos :
           /\ undos'[u].made = undos[u].made
           /\ undos'[u].previous = undos[u].previous
           /\ undos'[u].previousInvitation = undos[u].previousInvitation
           /\ undos'[u].resetInvitation = undos[u].resetInvitation
  <2>1. CASE undos' = undos
    BY <1>1, <2>1 DEF Tables
  <2>2. CASE \E v \in Undos : undos' = [undos EXCEPT ![v].expired = TRUE]
    <3>1. PICK v \in Undos : undos' = [undos EXCEPT ![v].expired = TRUE]
      BY <2>2
    <3>2. /\ undos'[v] = [undos[v] EXCEPT !.expired = TRUE]
          /\ undos' = [u \in Undos |-> undos'[u]]
          /\ \A u \in Undos \ {v} : undos'[u] = undos[u]
      BY <1>1, <3>1 DEF Tables
    <3>3. undos[v] \in Undo
      BY <1>1 DEF Tables
    <3>4. /\ [undos[v] EXCEPT !.expired = TRUE] \in Undo
          /\ undos'[v].made = undos[v].made
          /\ undos'[v].previous = undos[v].previous
          /\ undos'[v].previousInvitation = undos[v].previousInvitation
          /\ undos'[v].resetInvitation = undos[v].resetInvitation
      BY <3>2, <3>3 DEF Undo
    <3> QED
      BY <1>1, <3>2, <3>4 DEF Tables
  <2> QED
    BY <2>1, <2>2 DEF Time, WindowPasses, ExpireInvitation, LockRunsOut, ExpireUndo, vars
<1>4. failures' \in Nat
  BY <1>1 DEF Tables, Time, WindowPasses, ExpireInvitation, LockRunsOut, ExpireUndo, vars
<1>5. Tables'
  BY <1>1, <1>2, <1>3, <1>4 DEF Tables
<1>6. Records'
  <2>1. \A v \in Undos : undos[v].previousInvitation \in Invitations \cup {None}
    BY <1>1 DEF Tables, Undo
  <2> QED
    BY <1>1, <1>2, <1>3, <2>1 DEF Records
<1>7. Spent'
  BY <1>1, <1>2 DEF Spent
<1>8. Keys'
  <2>1. Issuers' = Issuers /\ Unmade' = Unmade /\ UnmadeUndos' = UnmadeUndos
    BY <1>1, <1>2, <1>3 DEF Issuers, Unmade, UnmadeUndos
  <2> QED
    BY <1>1, <2>1 DEF Keys
<1>9. ASSUME NEW p \in Requests PROVE RowOK(req'[p]) /\ Holding(p)'
  <2>1. /\ RowOK(req[p]) /\ Holding(p)
        /\ req[p].found \in Invitations \cup {None}
        /\ req[p].doomed \subseteq Invitations
        /\ req[p].op = "undo" => req[p].undo \in Undos
    BY <1>1 DEF RowOK, Row
  <2> QED
    BY <1>1, <1>2, <1>3, <2>1 DEF Holding
<1> QED
  BY <1>1, <1>5, <1>6, <1>7, <1>8, <1>9 DEF AccountInv

\* Every step keeps the invariant.
LEMMA AccountStep == AccountInv /\ [Next]_vars => AccountInv'
<1> SUFFICES ASSUME AccountInv, [Next]_vars PROVE AccountInv'
  OBVIOUS
<1>1. ASSUME NEW p \in Requests, Step(p) PROVE AccountInv'
  BY <1>1, LockUserHolds, LockUndoHolds, LockPreviousHolds, FindHolds, FoundHolds,
     SweepHolds, SweptHolds, SweepRowHolds, RegenerateHolds, ResetHolds,
     UndoResetHolds, RevokeHolds, CompleteHolds, UserEndHolds, FailHolds
  DEF Step
<1> QED
  BY <1>1, BeginHolds, UserEndHolds, TimeHolds DEF Next

\* A service nobody has asked for anything.
LEMMA AccountInit == Init => AccountInv
<1> SUFFICES ASSUME Init PROVE AccountInv
  OBVIOUS
<1>1. /\ \A i \in Invitations :
            inv[i] \in {NoInvitation, [NoInvitation EXCEPT !.state = "live"]}
      /\ \A u \in Undos : undos[u] = NoUndo
      /\ \A p \in Requests : req[p] = Idle
      /\ \A i \in Invitations : activations[i] = 0
  BY DEF Init
<1>2. Tables
  <2>1. /\ NoInvitation \in Invitation
        /\ [NoInvitation EXCEPT !.state = "live"] \in Invitation
        /\ NoUndo \in Undo /\ Idle \in Row
    BY IdleOK DEF NoInvitation, Invitation, NoUndo, Undo, RowOK
  <2>2. user \in User
    BY DEF Init, User, AccountStatus
  <2> QED
    BY <2>1, <2>2 DEF Init, Tables
<1>3. ASSUME NEW p \in Requests PROVE RowOK(req[p]) /\ Holding(p)
  <2>1. Idle.op = None /\ Idle.found = None /\ Idle.doomed = {} /\ None # "undo"
    BY AccountsAssumption DEF Idle, Ops
  <2> QED
    BY <1>1, <2>1, IdleOK DEF Holding
<1>4. Records
  BY <1>1 DEF Records, NoUndo
<1>5. Spent
  BY <1>1 DEF Spent
<1>6. Keys
  <2>1. Issuers = {}
    BY <1>1, AccountsAssumption DEF Issuers, Issuing, Idle, Ops
  <2>2. IsFiniteSet(Unmade) /\ IsFiniteSet(UnmadeUndos)
    BY AccountsAssumption, FS_Subset DEF Unmade, UnmadeUndos
  <2> QED
    BY <2>1, <2>2, FS_EmptySet, FS_CardinalityType DEF Keys
<1> QED
  BY <1>2, <1>3, <1>4, <1>5, <1>6 DEF AccountInv

\* However many requests race for it, a code activates the account at most once.
THEOREM CodeUsedOnce == Spec => []UsedOnce
<1>1. AccountInv => UsedOnce
  BY DEF AccountInv, Spent, UsedOnce
<1> QED
  BY <1>1, AccountInit, AccountStep, PTL DEF Spec
-----------------------------------------------------------------------------
(* Attempts *)

\* The requests that may still count as a failed attempt.
Attempting == {p \in Requests : req[p].op \in {"complete", "validate"}}

\* _too_many_attempts lets an attempt in while the count is below the limit;
\* from then on it is counted with those in flight.
AttemptsInv ==
    failures + Cardinality(Attempting) <= ACTIVATION_USER_ATTEMPTS + Cardinality(Requests) - 1

\* How many attempts are in flight.
LEMMA AttemptingType ==
    /\ IsFiniteSet(Attempting) /\ Cardinality(Attempting) \in Nat
    /\ Cardinality(Requests) \in Nat
    /\ Cardinality(Attempting) <= Cardinality(Requests)
<1>1. Attempting \subseteq Requests
  BY DEF Attempting
<1> QED
  BY <1>1, AccountsAssumption, FS_Subset, FS_CardinalityType

\* A request that keeps its operation, or ends, adds no attempt; nor does time.
LEMMA NoNewAttempt ==
    ASSUME AccountInv, AttemptsInv, failures' \in 0 .. failures, Attempting' \subseteq Attempting
    PROVE  AttemptsInv'
<1>1. /\ IsFiniteSet(Attempting') /\ Cardinality(Attempting') \in Nat
      /\ Cardinality(Attempting') <= Cardinality(Attempting)
  BY AttemptingType, FS_Subset, FS_CardinalityType
<1> QED
  BY <1>1, AttemptingType, AccountsAssumption DEF AttemptsInv, AccountInv, Tables

\* A failed attempt moves from those in flight to those counted.
LEMMA FailCounts ==
    ASSUME AccountInv, AttemptsInv, NEW p \in Requests, Fail(p)
    PROVE  AttemptsInv'
<1>1. /\ RowOK(req[p]) /\ req[p].pc = "fail" /\ failures \in Nat
      /\ failures' = failures + 1 /\ End(p)
  BY DEF AccountInv, Tables, Fail
<1>2. p \in Attempting
  BY <1>1 DEF Attempting, RowOK, Path
<1>3. Attempting' = Attempting \ {p}
  <2>1. Idle.op \notin {"complete", "validate"}
    BY AccountsAssumption DEF Idle, Ops
  <2> QED
    BY <1>1, <2>1, Released DEF Attempting
<1>4. Cardinality(Attempting') = Cardinality(Attempting) - 1
  BY <1>2, <1>3, AttemptingType, FS_RemoveElement
<1> QED
  BY <1>1, <1>4, AttemptingType, AccountsAssumption DEF AttemptsInv

\* An attempt is let in while one is left.
LEMMA AttemptBegins ==
    ASSUME AccountInv, NEW p \in Requests, AttemptAllowed, UNCHANGED failures
    PROVE  AttemptsInv'
<1>1. /\ Cardinality(Attempting)' \in Nat /\ Cardinality(Requests) \in Nat
      /\ Cardinality(Attempting)' <= Cardinality(Requests)
  <2>1. Attempting' \subseteq Requests
    BY DEF Attempting
  <2> QED
    BY <2>1, AccountsAssumption, FS_Subset, FS_CardinalityType
<1> QED
  BY <1>1, AccountsAssumption DEF AttemptsInv, AttemptAllowed, AccountInv, Tables

\* Every step keeps the count of attempts.
LEMMA AttemptsStep == AccountInv /\ AttemptsInv /\ [Next]_vars => AttemptsInv'
<1> SUFFICES ASSUME AccountInv, AttemptsInv, [Next]_vars PROVE AttemptsInv'
  OBVIOUS
<1>1. req \in [Requests -> Row] /\ failures \in Nat
  BY DEF AccountInv, Tables
<1>2. ASSUME failures' = failures, NEW p \in Requests, NEW row,
             req' = [req EXCEPT ![p] = row],
             row.op \in {"complete", "validate"} => row.op = req[p].op
      PROVE  AttemptsInv'
  BY <1>1, <1>2, NoNewAttempt DEF Attempting
<1>3. ASSUME NEW p \in Requests, End(p), failures' = failures PROVE AttemptsInv'
  <2>1. Idle.op \notin {"complete", "validate"}
    BY AccountsAssumption DEF Idle, Ops
  <2> QED
    BY <1>2, <1>3, <2>1, Released
<1>4. ASSUME NEW p \in Requests, Begin(p) PROVE AttemptsInv'
  <2>1. PICK row : Start(p, row) /\ Beginning(row)
    BY <1>4, BeginStarts
  <2>2. failures' = failures /\ req' = [req EXCEPT ![p] = row]
    BY <2>1 DEF Start, tables
  <2>3. CASE AttemptAllowed
    BY <2>2, <2>3, AttemptBegins
  <2>4. CASE ~AttemptAllowed
    BY <1>2, <2>1, <2>2, <2>4 DEF Beginning
  <2> QED
    BY <2>3, <2>4
<1>5. ASSUME NEW p \in Requests,
             \/ LockUser(p) \/ LockUndo(p) \/ LockPrevious(p) \/ Find(p) \/ Found(p)
             \/ Sweep(p) \/ Swept(p) \/ \E i \in Invitations : SweepRow(p, i)
      PROVE  AttemptsInv'
  <2>1. failures' = failures
    BY <1>5 DEF LockUser, LockUndo, LockPrevious, Find, Found, Sweep, Swept, SweepRow,
       tables
  <2>2. \/ End(p)
        \/ \A q \in Requests : req'[q].op = req[q].op
    <3>1. CASE LockUser(p) \/ LockUndo(p) \/ LockPrevious(p) \/ Find(p)
      BY <1>1, <3>1 DEF LockUser, LockUndo, LockPrevious, Find, Row
    <3>2. CASE Found(p) \/ Sweep(p) \/ Swept(p)
      BY <1>1, <3>2 DEF Found, Sweep, Swept, Row
    <3>3. CASE \E i \in Invitations : SweepRow(p, i)
      BY <1>1, <3>3 DEF SweepRow, Row
    <3> QED
      BY <1>5, <3>1, <3>2, <3>3
  <2> QED
    BY <1>1, <1>3, <2>1, <2>2, NoNewAttempt DEF Attempting
<1>6. ASSUME NEW p \in Requests,
             \/ Regenerate(p) \/ Reset(p) \/ UndoReset(p) \/ Revoke(p) \/ Complete(p)
             \/ SetPassword(p) \/ Deactivate(p) \/ Refused(p) \/ DeadlockVictim(p)
      PROVE  AttemptsInv'
  BY <1>3, <1>6 DEF Regenerate, Reset, UndoReset, Revoke, Complete, SetPassword,
     Deactivate, Refused, DeadlockVictim, tables
<1>7. ASSUME Time \/ UNCHANGED vars PROVE AttemptsInv'
  <2>1. failures' \in 0 .. failures /\ req' = req
    BY <1>1, <1>7 DEF Time, WindowPasses, ExpireInvitation, LockRunsOut, ExpireUndo, vars
  <2> QED
    BY <2>1, NoNewAttempt DEF Attempting
<1> QED
  BY <1>4, <1>5, <1>6, <1>7, FailCounts DEF Next, Step

\* Requests in flight let at most one failed attempt each past the limit.
THEOREM AttemptsLimited == Spec => []AttemptsBounded
<1>1. Init => AttemptsInv
  <2> SUFFICES ASSUME Init PROVE AttemptsInv
    OBVIOUS
  <2>1. Attempting = {}
    BY AccountsAssumption DEF Init, Attempting, Idle, Ops
  <2> QED
    BY <2>1, FS_EmptySet, AttemptingType, AccountsAssumption DEF Init, AttemptsInv
<1>2. AccountInv /\ AttemptsInv => AttemptsBounded
  BY AttemptingType, AccountsAssumption DEF AttemptsInv, AttemptsBounded, AccountInv, Tables
<1> QED
  BY <1>1, <1>2, AccountInit, AccountStep, AttemptsStep, PTL DEF Spec

\* The account, its codes and records keep their types, and so do requests.
THEOREM TypesKept == Spec => []TypeOK
<1>1. ASSUME AccountInv, AttemptsBounded PROVE TypeOK
  <2>1. Tables /\ Records /\ \A p \in Requests : RowOK(req[p])
    BY <1>1 DEF AccountInv
  <2>2. failures \in 0 .. (ACTIVATION_USER_ATTEMPTS + Cardinality(Requests))
    BY <1>1, <2>1, AttemptingType, AccountsAssumption DEF AttemptsBounded, Tables
  <2>3. \A i \in Invitations :
          /\ inv[i].state \in {"absent", "live", "revoked", "used"}
          /\ {inv[i].expired, inv[i].locked} \subseteq BOOLEAN
          /\ invLock[i] \in Requests \cup {None}
    BY <2>1 DEF Tables, Invitation
  <2>4. \A u \in Undos : undos[u].previousInvitation \in Invitations \cup {None}
    BY <2>1 DEF Tables, Undo
  <2>5. \A p \in Requests :
          /\ req[p].op \in Ops \cup {None}
          /\ req[p].cand \cup req[p].doomed \subseteq Invitations
          /\ req[p].pc = "idle" => req[p] = Idle
    BY <2>1 DEF RowOK, Row
  <2> QED
    BY <2>1, <2>2, <2>3, <2>4, <2>5 DEF TypeOK, Tables, Records
<1> QED
  BY <1>1, AccountInit, AccountStep, AttemptsLimited, PTL DEF Spec

-----------------------------------------------------------------------------
(* Codes that never open the account again *)

\* A reset that can still be undone.
Pending(u) == undos[u].made /\ ~undos[u].undone

Settled(i) == inv[i].state \in {"revoked", "used"}

\* A code that no undo will bring back.
Retired(i) ==
    /\ Settled(i)
    /\ \A u \in Undos : Pending(u) => undos[u].previousInvitation # i

\* What a request has done on its way: an undo has its record to itself and found
\* the code of the reset, a reset revokes the code it found, and who means to revoke
\* a code has found one.
Progress(p) ==
    /\ req[p].op = "undo" /\ req[p].pc # "undo" =>
           undoLock[req[p].undo] = p /\ ~undos[req[p].undo].undone
    /\ req[p].op = "undo" /\ req[p].pc \in {"previous", "finish"} =>
           req[p].found = undos[req[p].undo].resetInvitation
    /\ req[p].op = "reset" /\ req[p].found # None =>
           /\ req[p].pc = "sweeping" => req[p].found \in req[p].cand \cup req[p].doomed
           /\ req[p].pc = "finish" => req[p].found \in req[p].doomed
    /\ req[p].op = "revoke" /\ req[p].pc = "finish" => req[p].found # None

\* The code that a pending undo would bring back is not live, and is its alone.
Replaced ==
    \A u \in Undos : Pending(u) /\ undos[u].previousInvitation # None =>
        /\ Settled(undos[u].previousInvitation)
        /\ \A v \in Undos : Pending(v)
                /\ undos[v].previousInvitation = undos[u].previousInvitation => u = v

Reverted ==
    \A u \in Undos :
        /\ undos[u].made => undos[u].previousInvitation # undos[u].resetInvitation
        /\ undos[u].undone =>
               /\ undos[u].made
               /\ Retired(undos[u].resetInvitation)
               /\ activations[undos[u].resetInvitation] = 0

Withdrawn == withdrawn \subseteq Invitations /\ \A i \in withdrawn : Retired(i)

HistoryInv ==
    /\ undoLock \in [Undos -> Requests \cup {None}]
    /\ \A p \in Requests : Progress(p)
    /\ Replaced
    /\ Reverted
    /\ Withdrawn

\* A step of p leaves alone the records that others hold.
LeavesRecords(p) ==
    /\ undoLock' \in [Undos -> Requests \cup {None}]
    /\ \A q \in Requests \ {p} : req'[q] = req[q]
    /\ \A u \in Undos :
         /\ undoLock[u] \notin {None, p} =>
              undoLock'[u] = undoLock[u] /\ undos'[u].undone = undos[u].undone
         /\ undos[u].made => undos'[u].resetInvitation = undos[u].resetInvitation

\* So the others are where they were.
LEMMA OthersProgress ==
    ASSUME AccountInv, HistoryInv, NEW p \in Requests, LeavesRecords(p),
           NEW q \in Requests \ {p}
    PROVE  Progress(q)'
<1>1. /\ req'[q] = req[q] /\ Progress(q) /\ Holding(q) /\ RowOK(req[q])
      /\ q \notin {None, p}
  BY AccountsAssumption DEF LeavesRecords, HistoryInv, AccountInv
<1>2. ASSUME req[q].op = "undo", req[q].pc # "undo"
      PROVE  /\ undoLock'[req[q].undo] = q /\ ~undos'[req[q].undo].undone
             /\ req[q].pc \in {"previous", "finish"} =>
                  req[q].found = undos'[req[q].undo].resetInvitation
  <2>1. PICK u \in Undos : u = req[q].undo
    BY <1>1, <1>2 DEF RowOK
  <2>2. undoLock[u] = q /\ ~undos[u].undone /\ undos[u].made
    BY <1>1, <1>2, <2>1 DEF Progress, Holding
  <2> QED
    BY <1>1, <1>2, <2>1, <2>2 DEF LeavesRecords, Progress
<1> QED
  BY <1>1, <1>2 DEF Progress

\* With p where it should be, everyone is.
LEMMA AllProgress ==
    ASSUME AccountInv, HistoryInv, NEW p \in Requests, LeavesRecords(p), Progress(p)'
    PROVE  \A q \in Requests : Progress(q)'
<1>1. ASSUME NEW q \in Requests, q = p PROVE Progress(q)'
  <2>1. (q = p /\ Progress(p) => Progress(q))'
    OBVIOUS
  <2> QED
    BY <1>1, <2>1
<1>2. ASSUME NEW q \in Requests \ {p} PROVE Progress(q)'
  BY OthersProgress
<1>3. \A q \in Requests : q = p \/ q \in Requests \ {p}
  OBVIOUS
<1> QED
  BY <1>1, <1>2, <1>3

\* What releasing the locks of p is to the records.
LEMMA RecordsReleased ==
    ASSUME AccountInv, HistoryInv, NEW p \in Requests, End(p)
    PROVE  /\ undoLock' \in [Undos -> Requests \cup {None}]
           /\ \A u \in Undos :
                undoLock[u] \notin {None, p} => undoLock'[u] = undoLock[u]
           /\ \A q \in Requests \ {p} : req'[q] = req[q]
           /\ Progress(p)'
<1>1. Idle.op \notin {"undo", "reset", "revoke"}
  BY AccountsAssumption DEF Idle, Ops
<1>2. Progress(p)'
  BY <1>1, Released DEF Progress
<1> QED
  BY <1>2, Released DEF HistoryInv, End

\* A step that leaves the records, and settles no code of theirs otherwise: no code
\* that is settled comes back, none that is activated was, and what is withdrawn
\* was live.
Settles ==
    /\ UNCHANGED withdrawn \/ \E i \in Invitations :
         /\ withdrawn' = withdrawn \cup {i}
         /\ inv[i].state = "live" /\ Settled(i)'
    /\ \A i \in Invitations : Settled(i) =>
         Settled(i)' /\ activations'[i] = activations[i]
    /\ \A u \in Undos :
         /\ undos'[u].made = undos[u].made
         /\ undos'[u].undone = undos[u].undone
         /\ undos'[u].previousInvitation = undos[u].previousInvitation
         /\ undos'[u].resetInvitation = undos[u].resetInvitation

\* Such a step keeps what the records say.
LEMMA SettlesHolds ==
    ASSUME AccountInv, HistoryInv, NEW p \in Requests, LeavesRecords(p), Settles,
           Progress(p)'
    PROVE  HistoryInv'
<1>1. /\ Replaced /\ Reverted /\ Withdrawn
      /\ \A u \in Undos : undos[u].previousInvitation \in Invitations \cup {None}
      /\ \A u \in Undos : undos[u].made => undos[u].resetInvitation \in Invitations
  BY DEF HistoryInv, AccountInv, Tables, Undo, Records
<1>2. \A u \in Undos : Pending(u)' <=> Pending(u)
  BY DEF Settles, Pending
<1>3. ASSUME NEW i \in Invitations, Retired(i) PROVE Retired(i)'
  BY <1>2, <1>3 DEF Retired, Settles
<1>4. Replaced'
  <2> SUFFICES ASSUME NEW u \in Undos, Pending(u), undos[u].previousInvitation # None
               PROVE  /\ Settled(undos[u].previousInvitation)'
                      /\ \A v \in Undos : Pending(v)
                           /\ undos[v].previousInvitation = undos[u].previousInvitation
                           => u = v
    BY <1>2 DEF Replaced, Settles, Settled
  <2>1. PICK i \in Invitations : i = undos[u].previousInvitation
    BY <1>1
  <2>2. Settled(i)'
    BY <1>1, <2>1 DEF Replaced, Settles
  <2>3. undos'[u].previousInvitation = i
    BY <2>1 DEF Settles
  <2> QED
    BY <1>1, <2>1, <2>2, <2>3 DEF Replaced, Settled
<1>5. Reverted'
  <2> SUFFICES ASSUME NEW u \in Undos
               PROVE  /\ undos'[u].made =>
                           undos'[u].previousInvitation # undos'[u].resetInvitation
                      /\ undos'[u].undone =>
                           /\ undos'[u].made
                           /\ Retired(undos[u].resetInvitation)'
                           /\ activations'[undos'[u].resetInvitation] = 0
    BY DEF Reverted
  <2>1. CASE undos[u].undone
    <3>1. PICK i \in Invitations : i = undos[u].resetInvitation
      BY <1>1, <2>1 DEF Reverted
    <3>2. Retired(i) /\ activations[i] = 0 /\ undos'[u].resetInvitation = i
      BY <1>1, <2>1, <3>1 DEF Reverted, Settles
    <3>3. Retired(i)' /\ activations'[i] = 0
      BY <1>3, <3>2 DEF Settles, Retired
    <3>4. Retired(undos[u].resetInvitation)'
      BY <3>2, <3>3 DEF Retired, Settled
    <3> QED
      BY <1>1, <2>1, <3>2, <3>3, <3>4 DEF Reverted, Settles
  <2>2. CASE ~undos[u].undone
    BY <1>1, <2>2 DEF Reverted, Settles
  <2> QED
    BY <2>1, <2>2
<1>6. Withdrawn'
  <2>1. ASSUME NEW i \in Invitations, inv[i].state = "live", Settled(i)'
        PROVE  Retired(i)'
    <3>1. \A u \in Undos : Pending(u) => undos[u].previousInvitation # i
      BY <1>1, <2>1, AccountsAssumption DEF Replaced, Settled
    <3> QED
      BY <1>2, <2>1, <3>1 DEF Retired, Settles
  <2> QED
    BY <1>1, <1>3, <2>1 DEF Withdrawn, Settles
<1> QED
  BY <1>4, <1>5, <1>6, AllProgress DEF HistoryInv, LeavesRecords

\* A step that writes no table.
LEMMA NoTableWritten ==
    ASSUME AccountInv, HistoryInv, NEW p \in Requests, LeavesRecords(p),
           UNCHANGED <<tables, history>>, Progress(p)'
    PROVE  HistoryInv'
<1>1. Settles
  BY DEF Settles, Settled, tables, history
<1> QED
  BY <1>1, SettlesHolds

\* A request begins.
LEMMA BeginProgress ==
    ASSUME AccountInv, HistoryInv, NEW p \in Requests, Begin(p)
    PROVE  HistoryInv'
<1>1. PICK row : Start(p, row) /\ Beginning(row)
  BY BeginStarts
<1>2. req' = [req EXCEPT ![p] = row] /\ UNCHANGED <<tables, locks, history>>
  BY <1>1 DEF Start
<1>3. req'[p] = row /\ \A q \in Requests \ {p} : req'[q] = req[q]
  BY <1>2 DEF AccountInv, Tables
<1>4. Progress(p)'
  BY <1>1, <1>3 DEF Progress, Beginning
<1>5. LeavesRecords(p)
  BY <1>2, <1>3 DEF LeavesRecords, HistoryInv, locks, tables
<1> QED
  BY <1>2, <1>4, <1>5, NoTableWritten

\* A request that has no record to lock goes on.
LEMMA StepProgress ==
    ASSUME AccountInv, HistoryInv, NEW p \in Requests,
           \/ LockUser(p) \/ LockPrevious(p) \/ Find(p) \/ Found(p)
           \/ Sweep(p) \/ Swept(p) \/ \E i \in Invitations : SweepRow(p, i)
    PROVE  HistoryInv'
<1>1. /\ req \in [Requests -> Row] /\ RowOK(req[p]) /\ Holding(p) /\ Progress(p)
      /\ undoLock \in [Undos -> Requests \cup {None}]
  BY DEF AccountInv, Tables, HistoryInv
<1>2. UNCHANGED <<tables, undoLock, history>>
  BY DEF LockUser, LockPrevious, Find, Found, Sweep, Swept, SweepRow, locks
<1>3. \A q \in Requests \ {p} : req'[q] = req[q]
  BY DEF LockUser, LockPrevious, Find, Found, Sweep, Swept, SweepRow, AccountInv, Tables
<1>4. LeavesRecords(p)
  BY <1>1, <1>2, <1>3 DEF LeavesRecords, tables
<1>5. Progress(p)'
  <2>1. CASE LockUser(p)
    <3>1. req[p].op = "complete" /\ req'[p].op = req[p].op
      BY <1>1, <2>1 DEF LockUser, RowOK, Path, Row
    <3> QED
      BY <3>1 DEF Progress
  <2>2. CASE LockPrevious(p)
    <3>1. /\ req[p].op = "undo" /\ req[p].pc = "previous" /\ req'[p].op = req[p].op
          /\ req'[p].undo = req[p].undo /\ req'[p].found = req[p].found
      BY <1>1, <2>2 DEF LockPrevious, RowOK, Path, Row
    <3> QED
      BY <1>1, <1>2, <3>1 DEF Progress, tables
  <2>3. CASE Find(p)
    <3>1. /\ req[p].pc = "find" /\ req'[p].op = req[p].op /\ req'[p].pc = "finding"
          /\ req'[p].undo = req[p].undo
      BY <1>1, <2>3 DEF Find, Row
    <3> QED
      BY <1>1, <1>2, <3>1 DEF Progress, tables
  <2>4. CASE Found(p)
    <3>1. PICK i : i = Newest(req[p].cand)
      OBVIOUS
    <3>2. /\ req[p].pc = "finding" /\ req'[p].op = req[p].op /\ req'[p].undo = req[p].undo
          /\ \/ req'[p].pc = AfterFind(p, i) /\ req'[p].found = i
             \/ req'[p].pc = "finding"
      BY <1>1, <2>4, <3>1 DEF Found, Row
    <3>3. CASE req[p].op = "undo"
      <4>1. undoLock'[req'[p].undo] = p /\ ~undos'[req'[p].undo].undone
        BY <1>1, <1>2, <3>2, <3>3 DEF Progress, tables
      <4>2. req'[p].pc \in {"previous", "finish"} =>
              req'[p].found = undos'[req'[p].undo].resetInvitation
        BY <1>2, <3>2, <3>3 DEF AfterFind, tables
      <4> QED
        BY <3>2, <3>3, <4>1, <4>2 DEF Progress
    <3>4. CASE req[p].op \in {"reset", "revoke"}
      BY <3>2, <3>4 DEF Progress, AfterFind
    <3>5. CASE req[p].op \notin {"undo", "reset", "revoke"}
      BY <3>2, <3>5 DEF Progress
    <3> QED
      BY <3>3, <3>4, <3>5
  <2>5. CASE Sweep(p)
    <3>1. /\ req[p].op \in {"regenerate", "reset", "complete"} /\ req'[p].op = req[p].op
          /\ req'[p].found = req[p].found /\ req'[p].pc = "sweeping"
          /\ req[p].op = "reset" => req'[p].cand = Live
      BY <1>1, <2>5 DEF Sweep, RowOK, Path, Row
    <3>2. req[p].op = "reset" /\ req[p].found # None => req[p].found \in Live
      BY <1>1 DEF Holding, Row, Live
    <3> QED
      BY <3>1, <3>2 DEF Progress
  <2>6. CASE Swept(p)
    <3>1. /\ req[p].op \in {"regenerate", "reset", "complete"} /\ req'[p].op = req[p].op
          /\ req'[p].found = req[p].found /\ req[p].pc = "sweeping"
          /\ req'[p].pc = "finish" /\ req[p].cand = {} /\ req'[p].doomed = req[p].doomed
      BY <1>1, <2>6 DEF Swept, RowOK, Path, Row
    <3> QED
      BY <1>1, <3>1 DEF Progress
  <2>7. ASSUME NEW i \in Invitations, SweepRow(p, i) PROVE Progress(p)'
    <3>1. /\ req[p].op \in {"regenerate", "reset", "complete"} /\ req'[p].op = req[p].op
          /\ req'[p].found = req[p].found /\ req[p].pc = "sweeping"
          /\ req'[p].pc = "sweeping" /\ req'[p].cand = req[p].cand \ {i}
          /\ req'[p].doomed = IF inv[i].state = "live" THEN req[p].doomed \cup {i}
                                                       ELSE req[p].doomed
      <4>1. req[p].op \in {"regenerate", "reset", "complete"}
        BY <1>1, <2>7 DEF SweepRow, RowOK, Path
      <4>2. CASE inv[i].state = "live"
        BY <1>1, <2>7, <4>1, <4>2 DEF SweepRow, Row
      <4>3. CASE inv[i].state # "live"
        BY <1>1, <2>7, <4>1, <4>3 DEF SweepRow, Row
      <4> QED
        BY <4>2, <4>3
    <3>2. req[p].op = "reset" /\ req[p].found # None => inv[req[p].found].state = "live"
      BY <1>1 DEF Holding
    <3> QED
      BY <1>1, <3>1, <3>2 DEF Progress
  <2> QED
    BY <2>1, <2>2, <2>3, <2>4, <2>5, <2>6, <2>7
<1> QED
  BY <1>2, <1>4, <1>5, NoTableWritten

\* An undo takes its record, and finds it not undone.
LEMMA LockUndoProgress ==
    ASSUME AccountInv, HistoryInv, NEW p \in Requests, LockUndo(p)
    PROVE  HistoryInv'
<1>1. /\ req \in [Requests -> Row] /\ RowOK(req[p]) /\ req[p].pc = "undo"
      /\ undoLock \in [Undos -> Requests \cup {None}]
      /\ UNCHANGED <<tables, history>>
  BY DEF AccountInv, Tables, HistoryInv, LockUndo
<1>2. req[p].op = "undo" /\ req[p].undo \in Undos
  BY <1>1 DEF RowOK, Path
<1>3. CASE End(p)
  <2>1. LeavesRecords(p) /\ Progress(p)'
    BY <1>1, <1>3, RecordsReleased DEF LeavesRecords, tables
  <2> QED
    BY <1>1, <2>1, NoTableWritten
<1>4. CASE ~End(p)
  <2>1. /\ ~undos[req[p].undo].undone
        /\ undoLock[req[p].undo] \in {None, p}
        /\ undoLock' = [undoLock EXCEPT ![req[p].undo] = p]
        /\ req' = [req EXCEPT ![p].pc = "find"]
    BY <1>4 DEF LockUndo, Free
  <2>2. /\ \A q \in Requests \ {p} : req'[q] = req[q]
        /\ req'[p].undo = req[p].undo /\ req'[p].pc = "find" /\ req'[p].op = "undo"
    BY <1>1, <1>2, <2>1 DEF Row
  <2>3. Progress(p)'
    BY <1>1, <1>2, <2>1, <2>2 DEF Progress, tables
  <2>4. LeavesRecords(p)
    BY <1>1, <1>2, <2>1, <2>2 DEF LeavesRecords, tables
  <2> QED
    BY <1>1, <2>3, <2>4, NoTableWritten
<1> QED
  BY <1>3, <1>4

\* Requests that end and leave the states of the codes.
LEMMA QuietEndProgress ==
    ASSUME AccountInv, HistoryInv, NEW p \in Requests,
           \/ SetPassword(p) \/ Deactivate(p) \/ Fail(p)
           \/ Refused(p) \/ DeadlockVictim(p)
    PROVE  HistoryInv'
<1>1. /\ End(p) /\ UNCHANGED <<undos, withdrawn, activations>>
      /\ inv' = inv \/ inv' = [inv EXCEPT ![req[p].found].locked = TRUE]
  BY DEF SetPassword, Deactivate, Fail, Refused, DeadlockVictim, tables, history
<1>2. LeavesRecords(p) /\ Progress(p)'
  BY <1>1, RecordsReleased DEF LeavesRecords
<1>3. \A i \in Invitations : inv'[i].state = inv[i].state
  BY <1>1 DEF AccountInv, Tables, Invitation
<1>4. Settles
  BY <1>1, <1>3 DEF Settles, Settled
<1> QED
  BY <1>2, <1>4, SettlesHolds

\* A new code leaves a settled one settled, and settles the live ones it sweeps.
LEMMA IssuedSettles ==
    ASSUME AccountInv, NEW p \in Requests, NEW i \in Unmade, inv' = Issued(p, i)
    PROVE  \A j \in Invitations :
             /\ Settled(j) => Settled(j)'
             /\ j \in req[p].doomed => inv[j].state = "live" /\ Settled(j)'
             /\ j # i /\ j \notin req[p].doomed => inv'[j] = inv[j]
<1>1. /\ Tables /\ i \in Invitations /\ inv[i].state = "absent"
      /\ \A j \in req[p].doomed : inv[j].state = "live"
  BY DEF AccountInv, Holding, Unmade
<1>2. \A j \in Invitations :
           /\ j # i /\ j \in req[p].doomed => inv'[j].state = "revoked"
           /\ j # i /\ j \notin req[p].doomed => inv'[j] = inv[j]
  BY <1>1, StateType DEF Issued
<1> QED
  BY <1>1, <1>2 DEF Settled

\* A code issued beside the others revokes live ones.
LEMMA RegenerateProgress ==
    ASSUME AccountInv, HistoryInv, NEW p \in Requests, Regenerate(p)
    PROVE  HistoryInv'
<1>1. /\ End(p) /\ UNCHANGED <<undos, withdrawn, activations>> /\ Issuing(req[p].op)
  BY DEF Regenerate, Finishing, history, Issuing
<1>2. PICK i \in Unmade : inv' = Issued(p, i)
  BY <1>1, KeysForIssuer DEF Regenerate
<1>3. \A j \in Invitations : Settled(j) => Settled(j)'
  BY <1>2, IssuedSettles
<1>4. LeavesRecords(p) /\ Progress(p)'
  BY <1>1, RecordsReleased DEF LeavesRecords
<1>5. Settles
  BY <1>1, <1>3 DEF Settles
<1> QED
  BY <1>4, <1>5, SettlesHolds

\* Staff revoke a live code.
LEMMA RevokeProgress ==
    ASSUME AccountInv, HistoryInv, NEW p \in Requests, Revoke(p)
    PROVE  HistoryInv'
<1>1. /\ End(p) /\ UNCHANGED <<undos, activations>>
      /\ RowOK(req[p]) /\ Holding(p) /\ Progress(p) /\ Tables
      /\ req[p].op = "revoke" /\ req[p].pc = "finish"
  BY DEF Revoke, Finishing, AccountInv, HistoryInv
<1>2. PICK i \in Invitations : i = req[p].found
  BY <1>1 DEF RowOK, Row, Progress
<1>3. /\ inv[i].state = "live" /\ inv' = [inv EXCEPT ![i].state = "revoked"]
      /\ withdrawn' = withdrawn \cup {i}
  BY <1>1, <1>2, AccountsAssumption DEF Holding, Revoke
<1>4. /\ inv'[i].state = "revoked"
      /\ \A j \in Invitations \ {i} : inv'[j] = inv[j]
  BY <1>1, <1>3, StateType DEF Tables
<1>5. LeavesRecords(p) /\ Progress(p)'
  BY <1>1, RecordsReleased DEF LeavesRecords
<1>6. Settles
  BY <1>1, <1>3, <1>4 DEF Settles, Settled
<1> QED
  BY <1>5, <1>6, SettlesHolds

\* A completion uses a live code and revokes the other live ones.
LEMMA CompleteProgress ==
    ASSUME AccountInv, HistoryInv, NEW p \in Requests, Complete(p)
    PROVE  HistoryInv'
<1> DEFINE i == req[p].found
           doomed == req[p].doomed
<1>1. /\ Tables /\ RowOK(req[p]) /\ Holding(p) /\ End(p)
      /\ UNCHANGED <<undos, withdrawn>> /\ req[p].op = "complete"
      /\ inv' = [j \in Invitations |->
           IF j = i THEN [inv[j] EXCEPT !.state = "used"]
           ELSE IF j \in doomed THEN [inv[j] EXCEPT !.state = "revoked"]
           ELSE inv[j]]
      /\ activations' = [activations EXCEPT ![i] = @ + 1]
  BY DEF AccountInv, Complete, Finishing
<1>2. /\ i # None => inv[i].state = "live"
      /\ \A j \in doomed : inv[j].state = "live"
  BY <1>1 DEF Holding
<1> HIDE DEF i, doomed
<1>3. \A j \in Invitations :
        /\ j # i /\ j \notin doomed => inv'[j] = inv[j]
        /\ j # i => activations'[j] = activations[j]
  BY <1>1 DEF Tables
<1>4. LeavesRecords(p) /\ Progress(p)'
  BY <1>1, RecordsReleased DEF LeavesRecords
<1>5. ASSUME NEW j \in Invitations, Settled(j)
      PROVE  Settled(j)' /\ activations'[j] = activations[j]
  <2>1. j # i /\ j \notin doomed
    BY <1>2, <1>5, AccountsAssumption DEF Settled
  <2> QED
    BY <1>3, <1>5, <2>1 DEF Settled
<1>6. Settles
  BY <1>1, <1>5 DEF Settles
<1> QED
  BY <1>4, <1>6, SettlesHolds

\* A reset replaces a live code, which it revokes.
LEMMA ResetProgress ==
    ASSUME AccountInv, HistoryInv, NEW p \in Requests, Reset(p)
    PROVE  HistoryInv'
<1> DEFINE record(i) == [NoUndo EXCEPT !.made = TRUE, !.previous = req[p].seen,
                           !.previousInvitation = req[p].found,
                           !.resetInvitation = i]
<1>1. /\ Tables /\ Records /\ RowOK(req[p]) /\ Holding(p) /\ Progress(p)
      /\ Replaced /\ Reverted /\ Withdrawn
      /\ req[p].op = "reset" /\ req[p].pc = "finish"
      /\ Issuing(req[p].op) /\ End(p) /\ UNCHANGED <<activations, withdrawn>>
  BY DEF AccountInv, HistoryInv, Reset, Finishing, Issuing
<1>2. PICK i \in Unmade, u \in UnmadeUndos :
        /\ inv' = Issued(p, i)
        /\ undos' = [undos EXCEPT ![u] = record(i)]
  BY <1>1, KeysForIssuer DEF Reset
<1>3. /\ i \in Invitations /\ inv[i].state = "absent"
      /\ u \in Undos /\ ~undos[u].made /\ ~undos[u].undone
  BY <1>1, <1>2 DEF Unmade, UnmadeUndos, Reverted
<1>4. PICK k \in Invitations \cup {None} :
        /\ k = req[p].found
        /\ k # None => inv[k].state = "live" /\ k # i /\ Settled(k)'
  <2>1. PICK k \in Invitations \cup {None} :
          k = req[p].found /\ (k # None => k \in req[p].doomed)
    BY <1>1 DEF RowOK, Row, Progress
  <2> QED
    BY <1>1, <1>2, <1>3, <2>1, IssuedSettles DEF RowOK, Row
<1>5. /\ record(i).made /\ record(i).undone = FALSE
      /\ record(i).previousInvitation = k /\ record(i).resetInvitation = i
  BY <1>4 DEF NoUndo
<1> HIDE DEF record
<1>6. undos'[u] = record(i) /\ \A v \in Undos \ {u} : undos'[v] = undos[v]
  BY <1>1, <1>2, <1>3 DEF Tables
<1>7. \A v \in Undos : Pending(v)' <=> v = u \/ Pending(v)
  BY <1>3, <1>5, <1>6 DEF Pending
<1>8. ASSUME NEW v \in Undos, NEW j \in Invitations, Pending(v)',
             undos'[v].previousInvitation = j
      PROVE  /\ v = u => j = k
             /\ v # u => Pending(v) /\ undos[v].previousInvitation = j /\ Settled(j)
  BY <1>1, <1>5, <1>6, <1>7, <1>8, AccountsAssumption DEF Replaced
<1>9. \A j \in Invitations : Settled(j) => Settled(j)' /\ j # k
  BY <1>2, <1>4, IssuedSettles, AccountsAssumption DEF Settled
<1>10. \A j \in Invitations : Retired(j) => Retired(j)'
  <2> SUFFICES ASSUME NEW j \in Invitations, Retired(j), NEW v \in Undos, Pending(v)'
               PROVE  undos'[v].previousInvitation # j
    BY <1>9 DEF Retired
  <2> QED
    BY <1>8, <1>9 DEF Retired
<1>11. Replaced'
  <2> SUFFICES ASSUME NEW v \in Undos, Pending(v)', undos'[v].previousInvitation # None,
                      NEW w \in Undos, Pending(w)',
                      undos'[w].previousInvitation = undos'[v].previousInvitation
               PROVE  Settled(undos[v].previousInvitation)' /\ v = w
    BY DEF Replaced
  <2>1. PICK j \in Invitations : undos'[v].previousInvitation = j
    BY <1>1, <1>4, <1>5, <1>6 DEF Tables, Undo
  <2>2. Settled(j)'
    BY <1>4, <1>8, <1>9, <2>1, AccountsAssumption
  <2>3. v = w
    BY <1>1, <1>8, <1>9, <2>1, AccountsAssumption DEF Replaced
  <2> QED
    BY <2>1, <2>2, <2>3 DEF Settled
<1>12. Reverted'
  <2> SUFFICES ASSUME NEW v \in Undos
               PROVE  /\ undos'[v].made =>
                           undos'[v].previousInvitation # undos'[v].resetInvitation
                      /\ undos'[v].undone =>
                           /\ undos'[v].made
                           /\ Retired(undos[v].resetInvitation)'
                           /\ activations'[undos'[v].resetInvitation] = 0
    BY DEF Reverted
  <2>1. CASE v = u
    BY <1>3, <1>4, <1>5, <1>6, <2>1, AccountsAssumption
  <2>2. CASE v # u /\ undos[v].undone
    <3>1. PICK j \in Invitations : j = undos[v].resetInvitation
      BY <1>1, <2>2 DEF Reverted, Records
    <3>2. Retired(j)' /\ undos'[v] = undos[v] /\ activations'[j] = 0
      BY <1>1, <1>6, <1>10, <2>2, <3>1 DEF Reverted
    <3>3. Retired(undos[v].resetInvitation)'
      BY <3>1, <3>2 DEF Retired, Settled
    <3> QED
      BY <1>1, <2>2, <3>1, <3>2, <3>3 DEF Reverted
  <2>3. CASE v # u /\ ~undos[v].undone
    BY <1>1, <1>6, <2>3 DEF Reverted
  <2> QED
    BY <2>1, <2>2, <2>3
<1>13. Withdrawn'
  BY <1>1, <1>10 DEF Withdrawn
<1>14. LeavesRecords(p) /\ Progress(p)'
  <2>1. undos'[u].undone = undos[u].undone
    BY <1>1, <1>3, <1>5, <1>6 DEF Tables, Undo
  <2> QED
    BY <1>1, <1>3, <1>6, <2>1, RecordsReleased DEF LeavesRecords
<1> QED
  BY <1>11, <1>12, <1>13, <1>14, AllProgress DEF HistoryInv, LeavesRecords

\* Undoing a reset settles its code for good and brings back the one it replaced,
\* which no other undo would and which nobody withdrew.
LEMMA UndoResetProgress ==
    ASSUME AccountInv, HistoryInv, NEW p \in Requests, UndoReset(p)
    PROVE  HistoryInv'
<1>1. /\ Tables /\ Records /\ Spent /\ RowOK(req[p]) /\ Holding(p) /\ Progress(p)
      /\ Replaced /\ Reverted /\ Withdrawn
      /\ req[p].op = "undo" /\ req[p].pc = "finish"
      /\ End(p) /\ UNCHANGED <<activations, withdrawn>>
  BY DEF AccountInv, HistoryInv, UndoReset, Finishing
<1>2. PICK u \in Undos, i \in Invitations, k \in Invitations \cup {None} :
        /\ u = req[p].undo /\ i = req[p].found /\ i = undos[u].resetInvitation
        /\ k = undos[u].previousInvitation
        /\ undos[u].made /\ ~undos[u].undone /\ undoLock[u] = p
  <2>1. PICK u \in Undos : u = req[p].undo /\ undos[u].made
    BY <1>1 DEF RowOK, Holding
  <2>2. undos[u].resetInvitation \in Invitations
    BY <1>1, <2>1 DEF Records
  <2>3. undos[u].previousInvitation \in Invitations \cup {None}
    BY <1>1 DEF Tables, Undo
  <2> QED
    BY <1>1, <2>1, <2>2, <2>3 DEF Progress
<1>3. /\ inv' = [j \in Invitations |->
           IF j = i THEN [inv[j] EXCEPT !.state = "revoked"]
           ELSE IF j = k THEN Reinstated(j) ELSE inv[j]]
      /\ undos' = [undos EXCEPT ![u].undone = TRUE]
  BY <1>2 DEF UndoReset
<1>4. /\ inv[i].state = "live" /\ k # i
      /\ \A v \in Undos : Pending(v) => undos[v].previousInvitation # i
      /\ \A v \in Undos : Pending(v) /\ v # u /\ k # None
                          => undos[v].previousInvitation # k
      /\ Pending(u) /\ activations[i] = 0
  <2>1. inv[i].state = "live" /\ k # i /\ Pending(u)
    BY <1>1, <1>2, AccountsAssumption DEF Holding, Reverted, Pending
  <2>2. activations[i] = 0
    BY <1>1, <2>1 DEF Spent
  <2> QED
    BY <1>1, <1>2, <2>1, <2>2, AccountsAssumption DEF Replaced, Settled
<1>5. /\ inv'[i].state = "revoked"
      /\ \A j \in Invitations : j # i /\ j # k => inv'[j] = inv[j]
  BY <1>3, StateType
<1>6. \A v \in Undos :
        /\ undos'[v].made = undos[v].made
        /\ undos'[v].previousInvitation = undos[v].previousInvitation
        /\ undos'[v].resetInvitation = undos[v].resetInvitation
        /\ undos'[v].undone = IF v = u THEN TRUE ELSE undos[v].undone
  BY <1>1, <1>3 DEF Tables, Undo
<1>7. \A v \in Undos : Pending(v)' <=> Pending(v) /\ v # u
  BY <1>6 DEF Pending
<1>8. \A j \in Invitations : Retired(j) => Retired(j)'
  <2> SUFFICES ASSUME NEW j \in Invitations, Retired(j) PROVE Retired(j)'
    OBVIOUS
  <2>1. j # i /\ j # k
    BY <1>2, <1>4 DEF Retired, Settled
  <2> QED
    BY <1>5, <1>6, <1>7, <2>1 DEF Retired, Settled
<1>9. Retired(i)'
  BY <1>4, <1>5, <1>6, <1>7 DEF Retired, Settled
<1>10. Replaced'
  <2> SUFFICES ASSUME NEW v \in Undos, Pending(v)', undos'[v].previousInvitation # None,
                      NEW w \in Undos, Pending(w)',
                      undos'[w].previousInvitation = undos'[v].previousInvitation
               PROVE  Settled(undos[v].previousInvitation)' /\ v = w
    BY DEF Replaced
  <2>1. PICK j \in Invitations : undos[v].previousInvitation = j
    BY <1>1, <1>6 DEF Tables, Undo
  <2>2. /\ Pending(v) /\ v # u /\ Settled(j) /\ j # i /\ j # k
        /\ undos'[v].previousInvitation = j
    BY <1>1, <1>4, <1>6, <1>7, <2>1, AccountsAssumption DEF Replaced
  <2>3. Settled(j)'
    BY <1>5, <2>2 DEF Settled
  <2>4. v = w
    BY <1>1, <1>6, <1>7, <2>1, <2>2, AccountsAssumption DEF Replaced
  <2> QED
    BY <2>2, <2>3, <2>4 DEF Settled
<1>11. Reverted'
  <2> SUFFICES ASSUME NEW v \in Undos
               PROVE  /\ undos'[v].made =>
                           undos'[v].previousInvitation # undos'[v].resetInvitation
                      /\ undos'[v].undone =>
                           /\ undos'[v].made
                           /\ Retired(undos[v].resetInvitation)'
                           /\ activations'[undos'[v].resetInvitation] = 0
    BY DEF Reverted
  <2>1. CASE v = u
    <3>1. undos'[u].resetInvitation = i /\ activations'[i] = 0
      BY <1>1, <1>2, <1>4, <1>6
    <3>2. Retired(undos[v].resetInvitation)'
      BY <1>9, <2>1, <3>1 DEF Retired, Settled
    <3> QED
      BY <1>2, <1>4, <1>6, <2>1, <3>1, <3>2
  <2>2. CASE v # u /\ undos[v].undone
    <3>1. PICK j \in Invitations : j = undos[v].resetInvitation
      BY <1>1, <2>2 DEF Reverted, Records
    <3>2. Retired(j)' /\ undos'[v].resetInvitation = j /\ activations'[j] = 0
      BY <1>1, <1>6, <1>8, <2>2, <3>1 DEF Reverted
    <3>3. Retired(undos[v].resetInvitation)'
      BY <3>2 DEF Retired, Settled
    <3> QED
      BY <1>1, <1>6, <2>2, <3>1, <3>2, <3>3 DEF Reverted
  <2>3. CASE v # u /\ ~undos[v].undone
    BY <1>1, <1>6, <2>3 DEF Reverted
  <2> QED
    BY <2>1, <2>2, <2>3
<1>12. Withdrawn'
  BY <1>1, <1>8 DEF Withdrawn
<1>13. LeavesRecords(p) /\ Progress(p)'
  BY <1>1, <1>2, <1>6, RecordsReleased, AccountsAssumption DEF LeavesRecords
<1> QED
  BY <1>10, <1>11, <1>12, <1>13, AllProgress DEF HistoryInv, LeavesRecords

\* Time settles no code and undoes no reset.
LEMMA TimeProgress ==
    ASSUME AccountInv, HistoryInv, Time \/ UNCHANGED vars
    PROVE  HistoryInv'
<1>1. /\ Tables /\ Replaced /\ Reverted /\ Withdrawn
      /\ undoLock \in [Undos -> Requests \cup {None}]
      /\ \A p \in Requests : Progress(p) /\ RowOK(req[p]) /\ Holding(p)
      /\ \A u \in Undos : undos[u].previousInvitation \in Invitations \cup {None}
      /\ \A u \in Undos : undos[u].made => undos[u].resetInvitation \in Invitations
      /\ UNCHANGED <<req, undoLock, activations, withdrawn>>
  BY DEF HistoryInv, AccountInv, Tables, Undo, Records, Time, WindowPasses,
         ExpireInvitation, LockRunsOut, ExpireUndo, vars, locks, history
<1>2. \A i \in Invitations : inv'[i].state = inv[i].state
  <2>1. ASSUME NEW i \in Invitations, ExpireInvitation(i) \/ LockRunsOut(i)
        PROVE  \A j \in Invitations : inv'[j].state = inv[j].state
    BY <1>1, <2>1 DEF Tables, Invitation, ExpireInvitation, LockRunsOut
  <2> QED
    BY <2>1 DEF Time, WindowPasses, ExpireUndo, vars
<1>3. \A u \in Undos :
        /\ undos'[u].made = undos[u].made
        /\ undos'[u].undone = undos[u].undone
        /\ undos'[u].previousInvitation = undos[u].previousInvitation
        /\ undos'[u].resetInvitation = undos[u].resetInvitation
  BY <1>1 DEF Tables, Undo, Time, WindowPasses, ExpireInvitation, LockRunsOut,
     ExpireUndo, vars
<1>4. \A i \in Invitations : (Settled(i) => Settled(i)') /\ (Retired(i) => Retired(i)')
  BY <1>2, <1>3 DEF Settled, Retired, Pending
<1>5. Replaced'
  <2> SUFFICES ASSUME NEW u \in Undos, Pending(u)', undos[u].previousInvitation # None
               PROVE  /\ Settled(undos[u].previousInvitation)'
                      /\ \A v \in Undos : Pending(v)'
                           /\ undos[v].previousInvitation = undos[u].previousInvitation
                           => u = v
    BY <1>3 DEF Replaced
  <2>1. PICK i \in Invitations : i = undos[u].previousInvitation
    BY <1>1
  <2>2. Pending(u) /\ Settled(i)' /\ undos'[u].previousInvitation = i
    BY <1>1, <1>3, <1>4, <2>1, AccountsAssumption DEF Replaced, Pending
  <2> QED
    BY <1>1, <1>3, <2>1, <2>2, AccountsAssumption DEF Replaced, Settled, Pending
<1>6. Reverted'
  <2> SUFFICES ASSUME NEW u \in Undos, undos[u].undone
               PROVE  Retired(undos[u].resetInvitation)'
    BY <1>1, <1>3 DEF Reverted
  <2>1. PICK i \in Invitations : i = undos[u].resetInvitation
    BY <1>1 DEF Reverted
  <2>2. Retired(i)' /\ undos'[u].resetInvitation = i
    BY <1>1, <1>3, <1>4, <2>1 DEF Reverted
  <2> QED
    BY <2>2 DEF Retired, Settled
<1>7. Withdrawn'
  BY <1>1, <1>4 DEF Withdrawn
<1>8. ASSUME NEW p \in Requests PROVE Progress(p)'
  <2>1. CASE req[p].op = "undo"
    <3>1. PICK u \in Undos : u = req[p].undo /\ undos[u].made
      BY <1>1, <2>1 DEF RowOK, Holding
    <3> QED
      BY <1>1, <1>3, <2>1, <3>1 DEF Progress
  <2>2. CASE req[p].op # "undo"
    BY <1>1, <2>2 DEF Progress
  <2> QED
    BY <2>1, <2>2
<1> QED
  BY <1>1, <1>5, <1>6, <1>7, <1>8 DEF HistoryInv

\* Every step keeps what the records and the revocations say.
LEMMA HistoryStep == AccountInv /\ HistoryInv /\ [Next]_vars => HistoryInv'
<1> SUFFICES ASSUME AccountInv, HistoryInv, [Next]_vars PROVE HistoryInv'
  OBVIOUS
<1>1. ASSUME NEW p \in Requests, Step(p) PROVE HistoryInv'
  BY <1>1, StepProgress, LockUndoProgress, RegenerateProgress, ResetProgress,
     UndoResetProgress, RevokeProgress, CompleteProgress, QuietEndProgress
  DEF Step
<1> QED
  BY <1>1, BeginProgress, QuietEndProgress, TimeProgress DEF Next

\* No record, no revocation and no request to begin with.
LEMMA HistoryInit == Init => HistoryInv
<1> SUFFICES ASSUME Init PROVE HistoryInv
  OBVIOUS
<1>1. Idle.op \notin {"undo", "reset", "revoke"}
  BY AccountsAssumption DEF Idle, Ops
<1>2. \A p \in Requests : Progress(p)
  BY <1>1 DEF Init, Progress
<1>3. Replaced /\ Reverted /\ Withdrawn
  BY DEF Init, Replaced, Reverted, Withdrawn, Pending, NoUndo
<1> QED
  BY <1>2, <1>3 DEF HistoryInv, Init

\* Of an undo and a completion that race for the code of a reset, one at most
\* comes through, whatever happens later.
THEOREM UndoneStaysUncompleted == Spec => []UndoneNeverCompleted
<1>1. HistoryInv => UndoneNeverCompleted
  BY DEF HistoryInv, Reverted, UndoneNeverCompleted
<1> QED
  BY <1>1, AccountInit, AccountStep, HistoryInit, HistoryStep, PTL DEF Spec

\* No undo of a reset revives a code that staff revoked.
THEOREM WithdrawnNeverLive == Spec => []WithdrawnStaysDead
<1>1. HistoryInv => WithdrawnStaysDead
  BY DEF HistoryInv, Withdrawn, Retired, Settled, WithdrawnStaysDead
<1> QED
  BY <1>1, AccountInit, AccountStep, HistoryInit, HistoryStep, PTL DEF Spec

-----------------------------------------------------------------------------
(* One live code *)

\* Whoever issues a code does so with no other request in flight.
IssuersAlone == \A op \in Overlapping : ~Issuing(op)

Together ==
    \A p, q \in Requests : p # q /\ Open(p) /\ Open(q) =>
        {req[p].op, req[q].op} \subseteq Overlapping

\* Who issues a code has taken, or will take, every live one.
Sweeps(p) ==
    Issuing(req[p].op) =>
        /\ req[p].pc = "sweeping" => Live \subseteq req[p].cand \cup req[p].doomed
        /\ req[p].pc = "finish" => Live \subseteq req[p].doomed

Single == \A i, j \in Live : i = j

LiveInv == Together /\ (\A p \in Requests : Sweeps(p)) /\ Single

\* The steps by which a request goes on, and those by which it ends.
Working(p) ==
    \/ LockUser(p) \/ LockUndo(p) \/ LockPrevious(p) \/ Find(p) \/ Found(p)
    \/ Sweep(p) \/ Swept(p) \/ \E i \in Invitations : SweepRow(p, i)

Ending(p) ==
    \/ Regenerate(p) \/ Reset(p) \/ UndoReset(p) \/ Revoke(p) \/ Complete(p)
    \/ SetPassword(p) \/ Deactivate(p) \/ Fail(p) \/ Refused(p) \/ DeadlockVictim(p)

\* A request that goes on keeps its operation and writes no table.
LEMMA WorkingOn ==
    ASSUME AccountInv, NEW p \in Requests, Working(p)
    PROVE  /\ Open(p) /\ UNCHANGED <<tables, history>>
           /\ \A q \in Requests \ {p} : req'[q] = req[q]
           /\ End(p) \/ req'[p].op = req[p].op
<1>1. req \in [Requests -> Row]
  BY DEF AccountInv, Tables
<1>2. CASE LockUser(p) \/ LockPrevious(p) \/ Find(p)
  BY <1>1, <1>2 DEF LockUser, LockPrevious, Find, Open, Row
<1>3. CASE LockUndo(p)
  BY <1>1, <1>3, Released DEF LockUndo, Open, Row
<1>4. CASE Found(p) \/ Sweep(p) \/ Swept(p)
  BY <1>1, <1>4 DEF Found, Sweep, Swept, Open, Row
<1>5. CASE \E i \in Invitations : SweepRow(p, i)
  BY <1>1, <1>5 DEF SweepRow, Open, Row
<1> QED
  BY <1>2, <1>3, <1>4, <1>5 DEF Working

\* A request that ends was in flight: who waits in a circle waits for something.
LEMMA EndingNow ==
    ASSUME AccountInv, NEW p \in Requests, Ending(p)
    PROVE  Open(p) /\ End(p)
<1>1. CASE DeadlockVictim(p)
  <2>1. PICK q : WaitsFor(p, q)
    BY <1>1 DEF DeadlockVictim, Deadlocked
  <2> QED
    BY <1>1, <2>1 DEF DeadlockVictim, WaitsFor, Open
<1>2. CASE ~DeadlockVictim(p)
  BY <1>2 DEF Ending, Regenerate, Reset, UndoReset, Revoke, Complete, SetPassword,
     Deactivate, Fail, Refused, Finishing, Open
<1> QED
  BY <1>1, <1>2

\* A request that is not in flight issues nothing.
LEMMA ClosedIssuesNothing ==
    ASSUME AccountInv, NEW p \in Requests
    PROVE  Issuing(req[p].op) => Open(p)
  BY AccountsAssumption DEF AccountInv, RowOK, Open, Issuing, Idle, Ops

\* Beside a request in flight nobody issues a code.
LEMMA NoIssuerBeside ==
    ASSUME AccountInv, Together, IssuersAlone,
           NEW p \in Requests, Open(p), NEW q \in Requests \ {p}
    PROVE  ~Issuing(req[q].op)
  BY ClosedIssuesNothing DEF Together, IssuersAlone

\* Requests go on beside the others as they began.
LEMMA TogetherKept ==
    ASSUME AccountInv, Together, NEW p \in Requests, Open(p),
           \A q \in Requests \ {p} : req'[q] = req[q],
           End(p) \/ req'[p].op = req[p].op
    PROVE  Together'
<1>1. Idle.pc = "idle"
  BY DEF Idle
<1>2. Open(p)' => req'[p].op = req[p].op
  BY <1>1, Released DEF Open
<1> QED
  BY <1>2 DEF Together, Open

\* A request begins.
LEMMA BeginLive ==
    ASSUME AccountInv, LiveInv, NEW p \in Requests, Begin(p)
    PROVE  LiveInv'
<1>1. PICK row : Start(p, row) /\ Beginning(row)
  BY BeginStarts
<1>2. /\ req' = [req EXCEPT ![p] = row] /\ MayStart(p, row.op) /\ inv' = inv
  BY <1>1 DEF Start, tables
<1>3. req'[p] = row /\ \A q \in Requests \ {p} : req'[q] = req[q]
  BY <1>2 DEF AccountInv, Tables
<1>4. Together'
  BY <1>2, <1>3 DEF LiveInv, Together, Open, MayStart
<1>5. ASSUME NEW q \in Requests PROVE Sweeps(q)'
  BY <1>1, <1>2, <1>3 DEF LiveInv, Sweeps, Live, Beginning
<1>6. Single'
  BY <1>2 DEF LiveInv, Single, Live
<1> QED
  BY <1>4, <1>5, <1>6 DEF LiveInv

\* A request goes on; an issuer marks live codes for revocation, one by one.
LEMMA WorkingLive ==
    ASSUME AccountInv, LiveInv, IssuersAlone, NEW p \in Requests, Working(p)
    PROVE  LiveInv'
<1>1. /\ Open(p) /\ UNCHANGED <<tables, history>>
      /\ \A q \in Requests \ {p} : req'[q] = req[q]
      /\ End(p) \/ req'[p].op = req[p].op
  BY WorkingOn
<1>2. /\ Together' /\ Live' = Live /\ Single'
      /\ \A q \in Requests \ {p} : ~Issuing(req'[q].op)
  BY <1>1, TogetherKept, NoIssuerBeside DEF LiveInv, Live, Single, tables
<1>3. Sweeps(p)'
  <2> SUFFICES ASSUME Issuing(req'[p].op)
               PROVE  /\ req'[p].pc = "sweeping" =>
                           Live \subseteq req'[p].cand \cup req'[p].doomed
                      /\ req'[p].pc = "finish" => Live \subseteq req'[p].doomed
    BY <1>2 DEF Sweeps
  <2>1. ~Issuing(Idle.op)
    BY AccountsAssumption DEF Idle, Issuing, Ops
  <2>2. /\ req \in [Requests -> Row] /\ RowOK(req[p]) /\ req[p].op \in {"regenerate", "reset"}
        /\ Sweeps(p) /\ ~End(p)
    BY <1>1, <2>1, Released DEF AccountInv, Tables, Issuing, LiveInv
  <2>3. CASE LockUser(p) \/ LockUndo(p) \/ LockPrevious(p)
    BY <2>2, <2>3 DEF LockUser, LockUndo, LockPrevious, RowOK, Path
  <2>4. CASE Find(p)
    BY <2>2, <2>4 DEF Find, Row
  <2>5. CASE Found(p)
    BY <2>2, <2>5 DEF Found, AfterFind, RowOK, Path, Row
  <2>6. CASE Sweep(p)
    BY <2>2, <2>6 DEF Sweep, Row
  <2>7. CASE Swept(p)
    BY <2>2, <2>7 DEF Swept, Row, Sweeps, Issuing
  <2>8. ASSUME NEW i \in Invitations, SweepRow(p, i)
        PROVE  /\ req'[p].pc = "sweeping" /\ Live \subseteq req'[p].cand \cup req'[p].doomed
    <3>1. CASE inv[i].state = "live"
      BY <2>2, <2>8, <3>1 DEF SweepRow, Row, Sweeps, Issuing
    <3>2. CASE inv[i].state # "live"
      <4>1. i \notin Live
        BY <3>2 DEF Live
      <4> QED
        BY <2>2, <2>8, <3>2, <4>1 DEF SweepRow, Row, Sweeps, Issuing
    <3> QED
      BY <3>1, <3>2
  <2> QED
    BY <2>3, <2>4, <2>5, <2>6, <2>7, <2>8 DEF Working
<1>4. ASSUME NEW q \in Requests PROVE Sweeps(q)'
  <2>1. CASE q = p
    <3>1. (q = p /\ Sweeps(p) => Sweeps(q))'
      OBVIOUS
    <3> QED
      BY <1>3, <2>1, <3>1
  <2>2. CASE q # p
    BY <1>2, <2>2 DEF Sweeps
  <2> QED
    BY <2>1, <2>2
<1> QED
  BY <1>2, <1>4 DEF LiveInv

\* A new code is the only live one; an undo puts one in the place of another.
LEMMA EndingLive ==
    ASSUME AccountInv, HistoryInv, LiveInv, IssuersAlone, NEW p \in Requests, Ending(p)
    PROVE  LiveInv'
<1>1. /\ Open(p) /\ End(p) /\ Tables /\ RowOK(req[p]) /\ Holding(p) /\ Progress(p)
      /\ Sweeps(p) /\ Single
      /\ req'[p] = Idle /\ \A q \in Requests \ {p} : req'[q] = req[q]
  BY EndingNow, Released DEF AccountInv, HistoryInv, LiveInv
<1>2. Together'
  BY <1>1, TogetherKept DEF LiveInv
<1>3. ASSUME NEW q \in Requests PROVE Sweeps(q)'
  <2>1. ~Issuing(Idle.op)
    BY AccountsAssumption DEF Idle, Issuing, Ops
  <2>2. ~Issuing(req'[q].op)
    BY <1>1, <2>1, NoIssuerBeside DEF LiveInv
  <2> QED
    BY <2>2 DEF Sweeps
<1>4. Single'
  <2>1. CASE Regenerate(p) \/ Reset(p)
    <3>1. Issuing(req[p].op) /\ req[p].pc = "finish"
      BY <2>1 DEF Regenerate, Reset, Finishing, Issuing
    <3>2. PICK i \in Unmade : inv' = Issued(p, i)
      BY <2>1, <3>1, KeysForIssuer DEF Regenerate, Reset
    <3>3. ASSUME NEW j \in Invitations, inv'[j].state = "live" PROVE j = i
      <4>1. j \in Live => Settled(j)'
        BY <1>1, <3>1, <3>2, IssuedSettles DEF Sweeps
      <4> QED
        BY <1>1, <3>2, <3>3, <4>1, IssuedSettles DEF Live, Settled, RowOK, Row
    <3> QED
      BY <3>3 DEF Single, Live
  <2>2. CASE UndoReset(p)
    <3>1. /\ req[p].op = "undo" /\ req[p].pc = "finish" /\ req[p].undo \in Undos
          /\ undos[req[p].undo].made
      BY <1>1, <2>2 DEF UndoReset, Finishing, RowOK, Holding
    <3>2. PICK i, k : /\ i \in Invitations /\ i = req[p].found
                     /\ k = undos[req[p].undo].previousInvitation
      BY <1>1, <3>1 DEF AccountInv, Records, Progress
    <3>3. inv' = [j \in Invitations |->
           IF j = i THEN [inv[j] EXCEPT !.state = "revoked"]
           ELSE IF j = k THEN Reinstated(j) ELSE inv[j]]
      BY <2>2, <3>2 DEF UndoReset
    <3>4. i \in Live
      BY <1>1, <3>1, <3>2, AccountsAssumption DEF Holding, Live
    <3>5. ASSUME NEW j \in Invitations, inv'[j].state = "live" PROVE j = k
      BY <1>1, <3>3, <3>4, <3>5, StateType DEF Live, Single
    <3> QED
      BY <3>5 DEF Single, Live
  <2>3. CASE Revoke(p) \/ Complete(p)
    <3>1. ASSUME NEW j \in Invitations
          PROVE  inv'[j].state = inv[j].state \/ inv'[j].state \in {"revoked", "used"}
      <4>1. CASE Revoke(p)
        <5>1. PICK i : i = req[p].found
          OBVIOUS
        <5>2. inv' = [inv EXCEPT ![i].state = "revoked"]
          BY <4>1, <5>1 DEF Revoke
        <5> QED
          BY <1>1, <5>2, StateType DEF Tables
      <4>2. CASE Complete(p)
        BY <4>2, StateType DEF Complete
      <4> QED
        BY <2>3, <4>1, <4>2
    <3>2. Live' \subseteq Live
      BY <3>1 DEF Live
    <3> QED
      BY <1>1, <3>2 DEF Single
  <2>4. CASE SetPassword(p) \/ Deactivate(p) \/ Fail(p) \/ Refused(p) \/ DeadlockVictim(p)
    <3>1. inv' = inv \/ inv' = [inv EXCEPT ![req[p].found].locked = TRUE]
      BY <2>4 DEF SetPassword, Deactivate, Fail, Refused, DeadlockVictim, tables
    <3>2. \A i \in Invitations : inv'[i].state = inv[i].state
      BY <1>1, <3>1 DEF Tables, Invitation
    <3> QED
      BY <1>1, <3>2 DEF Single, Live
  <2> QED
    BY <2>1, <2>2, <2>3, <2>4 DEF Ending
<1> QED
  BY <1>2, <1>3, <1>4 DEF LiveInv

\* Time makes no code live.
LEMMA TimeLive ==
    ASSUME AccountInv, LiveInv, Time \/ UNCHANGED vars
    PROVE  LiveInv'
<1>1. req' = req /\ \A i \in Invitations : inv'[i].state = inv[i].state
  <2>1. ASSUME NEW i \in Invitations, ExpireInvitation(i) \/ LockRunsOut(i)
        PROVE  req' = req /\ \A j \in Invitations : inv'[j].state = inv[j].state
    BY <2>1 DEF AccountInv, Tables, Invitation, ExpireInvitation, LockRunsOut
  <2> QED
    BY <2>1 DEF Time, WindowPasses, ExpireUndo, vars
<1>2. Live' = Live
  BY <1>1 DEF Live
<1> QED
  BY <1>1, <1>2 DEF LiveInv, Together, Open, Sweeps, Single

\* Every step keeps one code live at most.
LEMMA LiveStep ==
    IssuersAlone => (AccountInv /\ HistoryInv /\ LiveInv /\ [Next]_vars => LiveInv')
<1> SUFFICES ASSUME IssuersAlone, AccountInv, HistoryInv, LiveInv, [Next]_vars
             PROVE  LiveInv'
  OBVIOUS
<1>1. ASSUME NEW p \in Requests, Step(p) PROVE Working(p) \/ Ending(p)
  BY <1>1 DEF Step, Working, Ending
<1> QED
  BY <1>1, BeginLive, WorkingLive, EndingLive, TimeLive DEF Next, Ending

\* One code is live to begin with.
LEMMA LiveInit == Init => LiveInv
<1> SUFFICES ASSUME Init PROVE LiveInv
  OBVIOUS
<1>1. Idle.pc = "idle" /\ ~Issuing(Idle.op)
  BY AccountsAssumption DEF Idle, Issuing, Ops
<1>2. \A i \in Live : i = Min(Invitations)
  BY DEF Init, Live, NoInvitation
<1> QED
  BY <1>1, <1>2 DEF Init, LiveInv, Together, Open, Sweeps, Single

\* While codes are issued one at a time, one at most is live, whatever undoes,
\* completes or revokes it beside others.
THEOREM OneCodeLive == IssuersAlone => (Spec => []OneLiveInvitation)
<1>1. LiveInv => OneLiveInvitation
  <2> SUFFICES ASSUME Single PROVE Cardinality(Live) <= 1
    BY DEF LiveInv, OneLiveInvitation
  <2>1. CASE Live = {}
    <3>1. Cardinality(Live) = 0
      BY <2>1, FS_EmptySet
    <3> QED
      BY <3>1
  <2>2. CASE Live # {}
    <3>1. PICK i : Live = {i}
      BY <2>2 DEF Single
    <3>2. Cardinality(Live) = 1
      BY <3>1, FS_Singleton
    <3> QED
      BY <3>2
  <2> QED
    BY <2>1, <2>2
<1>2. SUFFICES ASSUME IssuersAlone PROVE Spec => []OneLiveInvitation
  OBVIOUS
<1>3. AccountInv /\ HistoryInv /\ LiveInv /\ [Next]_vars => LiveInv'
  BY <1>2, LiveStep
<1> QED
  BY <1>1, <1>3, AccountInit, AccountStep, HistoryInit, HistoryStep, LiveInit, PTL
  DEF Spec

=============================================================================
