------------------------ MODULE AdministrationProofs ------------------------
(***************************************************************************)
(* What holds of Administration for any number of requests of the staff,     *)
(* schools, books, genres and accounts, however the requests overlap.        *)
(***************************************************************************)
EXTENDS Administration, TLAPS

-----------------------------------------------------------------------------
(* The invariant *)

\* How far a request of each kind can have come.
Stages ==
  ({"create"} \X {"terms", "insert term"})
    \cup ({"update"} \X {"lock book", "terms", "insert term"})
    \cup ({"customize"} \X {"select", "insert override", "terms", "insert term"})
    \cup ({"mark", "import"} \X {"save days"})
    \cup {<<"policies", "save policies">>, <<"delegate", "save capabilities">>,
          <<"edit", "save account">>}
    \cup ({"register"} \X {"insert account", "invite"})

\* One that is not under way holds nothing; one that waits for a key says for which.
RowOK(r) ==
    /\ {"op", "pc", "holds", "wants"} \subseteq DOMAIN r
    /\ r.pc = "insert term" => r.wants = TermKey(r.wants[2])
    /\ r.pc = "lock book" => r.wants = BookKey(r.book)
    /\ IF r.pc \in {"new", "done", "failed"} THEN r.holds = {}
                                           ELSE <<r.op, r.pc>> \in Stages

\* A request that has been answered, or a row inserted before.
Over(x) == x # None /\ (x \in Requests => req[x].pc \in {"done", "failed"})

Shape ==
    /\ req = [p \in Requests |-> req[p]]
    /\ accounts = [u \in Residents \cup Requests |-> accounts[u]]
    /\ \A p \in Requests : RowOK(req[p])

\* A key is held by one request at a time.
Exclusive ==
    \A p, q \in Requests : p # q => req[p].holds \cap req[q].holds = {}

\* Distinct accounts, those that are inserted and not committed included, have no key
\* in common.
AccountKeys ==
    /\ \A u, v \in Registered :
         u # v => UniqueKeys(accounts[u]) \cap UniqueKeys(accounts[v]) = {}
    /\ \A p \in Requests : p \in InFlight /\ req[p].op = "register" =>
         /\ "account" \in DOMAIN req[p]
         /\ req[p].pc = "invite" =>
              /\ UniqueKeys(req[p].account) \subseteq req[p].holds
              /\ \A u \in Registered :
                   UniqueKeys(req[p].account) \cap UniqueKeys(accounts[u]) = {}

\* What a request for a range of days has worked out.
RangeOK(r) ==
    /\ r.first \in Nat /\ r.last \in Nat
    /\ r.todo = WeekdaysOf(r.first, r.last) \ r.seen

RangeRead ==
    \A p \in Requests : p \in InFlight /\ req[p].op = "mark" => RangeOK(req[p])

OfficeInv == Shape /\ Exclusive /\ AccountKeys /\ RangeRead

-----------------------------------------------------------------------------
(* Every step is one request's.                                            *)

\* What a step of p leaves of the requests: p has not been answered before, it keeps
\* to the stages, and it takes no key that another holds.
Moves(p) ==
    /\ New(p) \/ p \in InFlight
    /\ req' = [req EXCEPT ![p] = req'[p]]
    /\ RowOK(req'[p])
    /\ \A key \in req'[p].holds : key \in req[p].holds \/ Free(p, key)

\* p has been answered.
Answered(p) ==
    req'[p] \in {Ended("done"), Ended("failed"), [Ended("done") EXCEPT !.op = "restore"]}

\* What a request writes of itself.
LEMMA SetRow ==
    ASSUME Shape, NEW p \in Requests, NEW row, Set(p, row)
    PROVE  req'[p] = row /\ req' = [req EXCEPT ![p] = req'[p]]
  BY DEF Shape, Set

\* A request that is answered moves, and lets go of its keys.
LEMMA AnswerMoves ==
    ASSUME Shape, NEW p \in Requests, New(p) \/ p \in InFlight,
           \/ Commit(p) \/ Rollback(p)
           \/ Set(p, [Ended("done") EXCEPT !.op = "restore"])
    PROVE  Moves(p) /\ Answered(p)
  <1>1. ASSUME NEW row, row \in {Ended("done"), Ended("failed"),
                                 [Ended("done") EXCEPT !.op = "restore"]}
        PROVE  RowOK(row) /\ row.holds = {}
    BY <1>1 DEF Ended, NewRequest, RowOK
  <1>2. Answered(p) /\ req' = [req EXCEPT ![p] = req'[p]]
    BY SetRow DEF Answered, Commit, Rollback
  <1> QED
    BY <1>1, <1>2 DEF Moves, Answered

-----------------------------------------------------------------------------
(* Keys are held by one request at a time.                                 *)

\* What a request on the catalogue does to the requests.
LEMMA CatalogueMoves ==
    ASSUME Shape, NEW p \in Requests, CatalogueRequest(p)
    PROVE  /\ Moves(p)
           /\ Answered(p) \/ req'[p].op \in {"create", "update", "customize"}
  <1>1. CASE CatalogueBegin(p)
    <2>1. New(p)
      BY <1>1 DEF CatalogueBegin, CreateTerm, DeleteTerm, DeactivateBook, BeginUpdate,
                  AddCopy, RestoreBook, BeginCreate, BeginCustomize
    <2>2. ASSUME NEW g \in Terms, CreateTerm(p, g) \/ DeleteTerm(p, g)
          PROVE  Commit(p)
      BY <2>2 DEF CreateTerm, DeleteTerm
    <2>3. ASSUME NEW b \in Books, DeactivateBook(p, b)
          PROVE  Commit(p)
      BY <2>3 DEF DeactivateBook
    <2>4. ASSUME NEW s \in Schools, NEW b \in Books, AddCopy(p, s, b)
          PROVE  Commit(p)
      BY <2>4 DEF AddCopy
    <2>5. ASSUME NEW s \in Schools, NEW b \in Books, RestoreBook(p, s, b)
          PROVE  Set(p, [Ended("done") EXCEPT !.op = "restore"])
      BY <2>5 DEF RestoreBook
    <2>6. ASSUME NEW b \in Books, NEW title, NEW names, BeginUpdate(p, b, title, names)
          PROVE  Moves(p) /\ req'[p].op = "update"
      <3>1. /\ req' = [req EXCEPT ![p] = req'[p]]
            /\ {"op", "pc", "holds", "wants"} \subseteq DOMAIN req'[p]
            /\ req'[p].op = "update" /\ req'[p].pc \in {"lock book", "terms"}
            /\ req'[p].pc = "lock book" => req'[p].wants = BookKey(req'[p].book)
            /\ req'[p].holds = {}
        BY <2>6 DEF Set, Shape, BeginUpdate
      <3>2. RowOK(req'[p])
        BY <3>1 DEF RowOK, Stages
      <3> QED
        BY <2>1, <3>1, <3>2 DEF Moves
    <2>7. ASSUME NEW s \in Schools, NEW b \in Books, NEW title, NEW names,
                 BeginCreate(p, s, b, title, names)
          PROVE  Moves(p) /\ req'[p].op = "create"
      <3>1. /\ req' = [req EXCEPT ![p] = req'[p]]
            /\ {"op", "pc", "holds", "wants"} \subseteq DOMAIN req'[p]
            /\ req'[p].op = "create" /\ req'[p].pc = "terms" /\ req'[p].holds = {}
        BY <2>7 DEF Set, Shape, BeginCreate
      <3>2. RowOK(req'[p])
        BY <3>1 DEF RowOK, Stages
      <3> QED
        BY <2>1, <3>1, <3>2 DEF Moves
    <2>8. ASSUME NEW s \in Schools, NEW b \in Books, NEW title, NEW description,
                 NEW names, BeginCustomize(p, s, b, title, description, names)
          PROVE  Moves(p) /\ req'[p].op = "customize"
      <3>1. /\ req' = [req EXCEPT ![p] = req'[p]]
            /\ {"op", "pc", "holds", "wants"} \subseteq DOMAIN req'[p]
            /\ req'[p].op = "customize" /\ req'[p].pc = "select" /\ req'[p].holds = {}
        BY <2>8 DEF Set, Shape, BeginCustomize
      <3>2. RowOK(req'[p])
        BY <3>1 DEF RowOK, Stages
      <3> QED
        BY <2>1, <3>1, <3>2 DEF Moves
    <2> QED
      BY <1>1, <2>1, <2>2, <2>3, <2>4, <2>5, <2>6, <2>7, <2>8, AnswerMoves
         DEF CatalogueBegin
  <1>2. CASE CatalogueStep(p)
    <2> DEFINE r == req[p]
    <2>1. /\ RowOK(r) /\ {"op", "pc", "holds", "wants"} \subseteq DOMAIN r
          /\ r.pc \notin {"new", "done", "failed"} => <<r.op, r.pc>> \in Stages
      BY DEF Shape, RowOK
    <2>2. p \in InFlight
      BY <1>2 DEF CatalogueStep, LookUp, InsertTerm, CommitCreate, LockBook,
                  WantBook, CommitUpdate, SelectOverride, InsertOverride, CommitCustomize,
                  Resolved, Resolving, At, InFlight
    <2>3. r.pc \in {"terms", "insert term"} => r.op \in {"create", "update", "customize"}
      BY <2>1 DEF Stages
    <2>4. ASSUME NEW g \in Terms, LookUp(p, g)
          PROVE  Moves(p) /\ req'[p].op \in {"create", "update", "customize"}
      <3>1. r.pc = "terms"
        BY <2>4 DEF LookUp, Resolving
      <3>2. /\ req' = [req EXCEPT ![p] = req'[p]]
            /\ DOMAIN req'[p] = DOMAIN r /\ req'[p].op = r.op
            /\ \/ req'[p].pc = "terms"
               \/ req'[p].pc = "insert term" /\ req'[p].wants = TermKey(g)
            /\ req'[p].holds = r.holds
        <4>1. CASE g \in Present
          <5>1. /\ req' = [req EXCEPT ![p] = req'[p]]
                /\ req'[p] = [r EXCEPT !.got = @ \cup RowsOf({g})]
            BY <2>4, <4>1 DEF Set, Shape, LookUp
          <5> QED
            BY <2>1, <3>1, <5>1
        <4>2. CASE g \notin Present
          <5>1. /\ req' = [req EXCEPT ![p] = req'[p]]
                /\ req'[p] = [r EXCEPT !.pc = "insert term", !.wants = TermKey(g)]
            BY <2>4, <4>2 DEF Set, Shape, LookUp
          <5> QED
            BY <2>1, <5>1
        <4> QED
          BY <4>1, <4>2
      <3>3. TermKey(g)[2] = g
        BY DEF TermKey
      <3>4. RowOK(req'[p])
        BY <2>1, <2>3, <3>1, <3>2, <3>3 DEF RowOK, Stages
      <3> QED
        BY <2>2, <2>3, <3>1, <3>2, <3>4 DEF Moves
    <2>5. ASSUME InsertTerm(p), ~Rollback(p)
          PROVE  Moves(p) /\ req'[p].op \in {"create", "update", "customize"}
      <3>1. r.pc = "insert term" /\ Free(p, r.wants)
        BY <2>5 DEF InsertTerm
      <3>2. /\ req' = [req EXCEPT ![p] = req'[p]]
            /\ DOMAIN req'[p] = DOMAIN r /\ req'[p].op = r.op
            /\ req'[p].pc = "terms"
            /\ req'[p].holds = r.holds \cup {TermKey(r.wants[2])}
        <4>1. /\ req' = [req EXCEPT ![p] = req'[p]]
              /\ req'[p] = [r EXCEPT !.pc = "terms", !.wants = None,
                                     !.got = @ \cup {<<r.wants[2], p>>},
                                     !.holds = @ \cup {TermKey(r.wants[2])}]
          BY <2>5 DEF Set, Shape, InsertTerm
        <4> QED
          BY <2>1, <4>1
      <3>3. TermKey(r.wants[2]) = r.wants
        BY <2>1, <3>1 DEF RowOK
      <3>4. RowOK(req'[p])
        BY <2>1, <2>3, <3>1, <3>2 DEF RowOK, Stages
      <3> QED
        BY <2>2, <2>3, <3>1, <3>2, <3>3, <3>4 DEF Moves
    <2>6. ASSUME LockBook(p)
          PROVE  Moves(p) /\ req'[p].op \in {"create", "update", "customize"}
      <3>1. r.pc = "lock book" /\ Free(p, r.wants) /\ r.op = "update"
        BY <2>1, <2>6 DEF LockBook, Stages
      <3>2. /\ req' = [req EXCEPT ![p] = req'[p]]
            /\ DOMAIN req'[p] = DOMAIN r /\ req'[p].op = r.op
            /\ req'[p].pc = "terms" /\ req'[p].holds = r.holds \cup {BookKey(r.book)}
        BY <2>1, <2>6 DEF Set, Shape, LockBook
      <3>3. BookKey(r.book) = r.wants
        BY <2>1, <3>1 DEF RowOK
      <3>4. RowOK(req'[p])
        BY <2>1, <3>1, <3>2 DEF RowOK, Stages
      <3> QED
        BY <2>2, <3>1, <3>2, <3>3, <3>4 DEF Moves
    <2>7. ASSUME WantBook(p)
          PROVE  Moves(p) /\ req'[p].op \in {"create", "update", "customize"}
      <3>1. r.pc = "terms"
        BY <2>7 DEF WantBook, Resolved, Resolving
      <3>2. /\ req' = [req EXCEPT ![p] = req'[p]]
            /\ DOMAIN req'[p] = DOMAIN r /\ req'[p].op = r.op
            /\ req'[p].pc = "terms" /\ req'[p].holds = r.holds
        BY <2>1, <2>7, <3>1 DEF Set, Shape, WantBook
      <3>3. RowOK(req'[p])
        BY <2>1, <2>3, <3>1, <3>2 DEF RowOK, Stages
      <3> QED
        BY <2>2, <2>3, <3>1, <3>2, <3>3 DEF Moves
    <2>8. ASSUME SelectOverride(p)
          PROVE  Moves(p) /\ req'[p].op \in {"create", "update", "customize"}
      <3>1. r.pc = "select" /\ r.op = "customize"
        BY <2>8 DEF SelectOverride, At
      <3>2. /\ req' = [req EXCEPT ![p] = req'[p]]
            /\ DOMAIN req'[p] = DOMAIN r /\ req'[p].op = r.op
            /\ req'[p].pc \in {"terms", "insert override"}
            /\ \A key \in req'[p].holds : key \in r.holds \/ Free(p, key)
        <4> DEFINE key == OverrideKey(r.school, r.book)
        <4>1. /\ req' = [req EXCEPT ![p] = req'[p]]
              /\ \/ req'[p] = [r EXCEPT !.pc = "insert override", !.wants = key]
                 \/ /\ Free(p, key)
                    /\ req'[p] = [r EXCEPT !.pc = "terms", !.holds = {key},
                         !.seen = RowsOf(OverrideTerms(overrides[r.school, r.book]))]
          BY <2>8 DEF Set, Shape, SelectOverride
        <4> HIDE DEF key
        <4>2. CASE req'[p] = [r EXCEPT !.pc = "insert override", !.wants = key]
          BY <2>1, <4>1, <4>2
        <4>3. CASE /\ Free(p, key)
                   /\ req'[p] = [r EXCEPT !.pc = "terms", !.holds = {key},
                        !.seen = RowsOf(OverrideTerms(overrides[r.school, r.book]))]
          BY <2>1, <4>1, <4>3
        <4> QED
          BY <4>1, <4>2, <4>3
      <3>3. RowOK(req'[p])
        BY <2>1, <3>1, <3>2 DEF RowOK, Stages
      <3> QED
        BY <2>2, <3>1, <3>2, <3>3 DEF Moves
    <2>9. ASSUME InsertOverride(p), ~Rollback(p)
          PROVE  Moves(p) /\ req'[p].op \in {"create", "update", "customize"}
      <3>1. r.pc = "insert override" /\ r.op = "customize"
        BY <2>9 DEF InsertOverride, At
      <3>2. /\ req' = [req EXCEPT ![p] = req'[p]]
            /\ DOMAIN req'[p] = DOMAIN r /\ req'[p].op = r.op
            /\ req'[p].pc = "terms"
            /\ \A key \in req'[p].holds : key \in r.holds \/ Free(p, key)
        <4>1. /\ req' = [req EXCEPT ![p] = req'[p]]
              /\ req'[p] = [r EXCEPT !.pc = "terms", !.holds = {r.wants}, !.wants = None]
              /\ Free(p, r.wants)
          BY <2>9 DEF Set, Shape, InsertOverride
        <4> QED
          BY <2>1, <4>1
      <3>3. RowOK(req'[p])
        BY <2>1, <3>1, <3>2 DEF RowOK, Stages
      <3> QED
        BY <2>2, <3>1, <3>2, <3>3 DEF Moves
    <2>10. CommitCreate(p) \/ CommitUpdate(p) \/ CommitCustomize(p) =>
             Commit(p) \/ Rollback(p)
      BY DEF CommitCreate, CommitUpdate, CommitCustomize
    <2> QED
      BY <1>2, <2>2, <2>4, <2>5, <2>6, <2>7, <2>8, <2>9, <2>10, AnswerMoves
         DEF CatalogueStep
  <1> QED
    BY <1>1, <1>2 DEF CatalogueRequest

\* What a request of the office that begins does to the requests.
LEMMA OfficeBegins ==
    ASSUME Shape, NEW p \in Requests,
           CalendarBegin(p) \/ RulesBegin(p) \/ AccountsBegin(p)
    PROVE  /\ Moves(p)
           /\ \/ Answered(p)
              \/ req'[p].op \in {"import", "policies", "delegate", "edit"}
              \/ req'[p].op = "mark" /\ RangeOK(req'[p])
              \/ /\ req'[p].op = "register" /\ req'[p].pc = "insert account"
                 /\ "account" \in DOMAIN req'[p]
           /\ UNCHANGED accounts
  <1> DEFINE fields == {"op", "pc", "holds", "wants"}
  <1>1. New(p)
    BY DEF CalendarBegin, RulesBegin, AccountsBegin, MarkDay, BeginMark, DeleteDays,
           BeginImport, BeginPolicies, BeginDelegate, RegisterStudent, RegisterStaff,
           BeginRegister, BeginEdit, CreateSchool
  <1>2. ASSUME req' = [req EXCEPT ![p] = req'[p]], fields \subseteq DOMAIN req'[p],
               <<req'[p].op, req'[p].pc>> \in Stages, req'[p].holds = {},
               req'[p].pc \notin {"insert term", "lock book"}
        PROVE  Moves(p)
    BY <1>1, <1>2 DEF Moves, RowOK, Stages
  <1>3. CASE CalendarBegin(p)
    <2>1. ASSUME NEW by \in Managers, NEW d, MarkDay(p, by, d)
          PROVE  (Commit(p) \/ Rollback(p)) /\ UNCHANGED accounts
      BY <2>1 DEF MarkDay, officeVars
    <2>2. ASSUME NEW by \in Managers, NEW first \in Nat, NEW last \in Nat,
                 BeginMark(p, by, first, last)
          PROVE  /\ Moves(p) /\ UNCHANGED accounts
                 /\ req'[p].op = "mark" /\ RangeOK(req'[p])
      <3>1. /\ req' = [req EXCEPT ![p] = req'[p]] /\ fields \subseteq DOMAIN req'[p]
            /\ req'[p].op = "mark" /\ req'[p].pc = "save days" /\ req'[p].holds = {}
            /\ RangeOK(req'[p]) /\ UNCHANGED accounts
        BY <2>2 DEF BeginMark, Set, Shape, RangeOK, officeVars
      <3> QED
        BY <1>2, <3>1 DEF Stages
    <2>3. ASSUME NEW by \in Managers, NEW first, NEW last, DeleteDays(p, by, first, last)
          PROVE  Commit(p) /\ UNCHANGED accounts
      BY <2>3 DEF DeleteDays
    <2>4. ASSUME NEW by \in Managers, NEW answer, BeginImport(p, by, answer)
          PROVE  Moves(p) /\ req'[p].op = "import" /\ UNCHANGED accounts
      <3>1. /\ req' = [req EXCEPT ![p] = req'[p]] /\ fields \subseteq DOMAIN req'[p]
            /\ req'[p].op = "import" /\ req'[p].pc = "save days" /\ req'[p].holds = {}
            /\ UNCHANGED accounts
        BY <2>4 DEF BeginImport, Set, Shape, officeVars
      <3> QED
        BY <1>2, <3>1 DEF Stages
    <2>5. \A span \in Spans : span[1] \in Nat /\ span[2] \in Nat
      BY OfficeAssumption
    <2> QED
      BY <1>1, <1>3, <2>1, <2>2, <2>3, <2>4, <2>5, AnswerMoves DEF CalendarBegin
  <1>4. CASE RulesBegin(p)
    <2>1. ASSUME NEW by \in Managers, NEW asked, BeginPolicies(p, by, asked)
          PROVE  Moves(p) /\ req'[p].op = "policies" /\ UNCHANGED accounts
      <3>1. /\ req' = [req EXCEPT ![p] = req'[p]] /\ fields \subseteq DOMAIN req'[p]
            /\ req'[p].op = "policies" /\ req'[p].pc = "save policies"
            /\ req'[p].holds = {} /\ UNCHANGED accounts
        BY <2>1 DEF BeginPolicies, Set, Shape, officeVars
      <3> QED
        BY <1>2, <3>1 DEF Stages
    <2>2. ASSUME NEW asked, BeginDelegate(p, asked)
          PROVE  Moves(p) /\ req'[p].op = "delegate" /\ UNCHANGED accounts
      <3>1. /\ req' = [req EXCEPT ![p] = req'[p]] /\ fields \subseteq DOMAIN req'[p]
            /\ req'[p].op = "delegate" /\ req'[p].pc = "save capabilities"
            /\ req'[p].holds = {} /\ UNCHANGED accounts
        BY <2>2 DEF BeginDelegate, Set, Shape, officeVars
      <3> QED
        BY <1>2, <3>1 DEF Stages
    <2> QED
      BY <1>4, <2>1, <2>2 DEF RulesBegin
  <1>5. CASE AccountsBegin(p)
    <2>1. ASSUME NEW account, BeginRegister(p, account)
          PROVE  /\ Moves(p) /\ UNCHANGED accounts
                 /\ req'[p].op = "register" /\ req'[p].pc = "insert account"
                 /\ "account" \in DOMAIN req'[p]
      <3>1. /\ req' = [req EXCEPT ![p] = req'[p]] /\ fields \subseteq DOMAIN req'[p]
            /\ req'[p].op = "register" /\ req'[p].pc = "insert account"
            /\ req'[p].holds = {} /\ "account" \in DOMAIN req'[p] /\ UNCHANGED accounts
        BY <2>1 DEF BeginRegister, Set, Shape, officeVars
      <3> QED
        BY <1>2, <3>1 DEF Stages
    <2>2. ASSUME NEW u, NEW field, NEW value, BeginEdit(p, u, field, value)
          PROVE  Moves(p) /\ req'[p].op = "edit" /\ UNCHANGED accounts
      <3>1. /\ req' = [req EXCEPT ![p] = req'[p]] /\ fields \subseteq DOMAIN req'[p]
            /\ req'[p].op = "edit" /\ req'[p].pc = "save account"
            /\ req'[p].holds = {} /\ UNCHANGED accounts
        BY <2>2 DEF BeginEdit, Set, Shape, officeVars
      <3> QED
        BY <1>2, <3>1 DEF Stages
    <2>3. ASSUME NEW s, CreateSchool(p, s)
          PROVE  (Commit(p) \/ Rollback(p)) /\ UNCHANGED accounts
      BY <2>3 DEF CreateSchool
    <2>4. ASSUME NEW s, NEW name, NEW cpf,
                 \/ RegisterStudent(p, s, name, cpf)
                 \/ \E email, by : RegisterStaff(p, s, name, email, cpf, by)
          PROVE  \E account : BeginRegister(p, account)
      BY <2>4 DEF RegisterStudent, RegisterStaff
    <2>5. \/ \E account : BeginRegister(p, account)
          \/ \E u, field, value : BeginEdit(p, u, field, value)
          \/ \E s : CreateSchool(p, s)
      BY <1>5, <2>4 DEF AccountsBegin
    <2> QED
      BY <1>1, <2>1, <2>2, <2>3, <2>5, AnswerMoves
  <1> QED
    BY <1>3, <1>4, <1>5

\* And what one does that goes on.
LEMMA OfficeSteps ==
    ASSUME Shape, NEW p \in Requests, OfficeStep(p),
           req[p].op = "register" /\ p \in InFlight => "account" \in DOMAIN req[p]
    PROVE  /\ p \in InFlight /\ Moves(p)
           /\ \/ Answered(p)
              \/ /\ InsertAccount(p) /\ req'[p].op = "register"
                 /\ "account" \in DOMAIN req'[p] /\ req'[p].account = req[p].account
                 /\ req'[p].pc = "invite" /\ req'[p].holds = UniqueKeys(req[p].account)
                 /\ ~Refused(req[p].account, Registered)
  <1> DEFINE r == req[p]
  <1>1. /\ RowOK(r) /\ {"op", "pc", "holds", "wants"} \subseteq DOMAIN r
    BY DEF Shape, RowOK
  <1>2. p \in InFlight
    BY DEF OfficeStep, SaveDays, SavePolicies, SaveCapabilities, InsertAccount,
           CommitAccount, SaveAccount, At, InFlight
  <1>3. ASSUME ~(Commit(p) \/ Rollback(p))
        PROVE  InsertAccount(p)
    BY <1>3 DEF OfficeStep, SaveDays, SavePolicies, SaveCapabilities, CommitAccount,
                SaveAccount
  <1>4. ASSUME InsertAccount(p), ~Rollback(p)
        PROVE  /\ Moves(p) /\ req'[p].op = "register"
               /\ "account" \in DOMAIN req'[p] /\ req'[p].account = req[p].account
               /\ req'[p].pc = "invite" /\ req'[p].holds = UniqueKeys(req[p].account)
               /\ ~Refused(req[p].account, Registered)
    <2>1. /\ req' = [req EXCEPT ![p] = req'[p]]
          /\ req'[p] = [r EXCEPT !.pc = "invite", !.holds = UniqueKeys(r.account)]
          /\ ~Refused(req[p].account, Registered)
          /\ r.op = "register"
          /\ \A key \in UniqueKeys(r.account) : Free(p, key)
      BY <1>4 DEF Set, Shape, InsertAccount, At
    <2>2. /\ DOMAIN req'[p] = DOMAIN r /\ req'[p].op = "register" /\ req'[p].pc = "invite"
          /\ req'[p].holds = UniqueKeys(r.account)
          /\ "account" \in DOMAIN r /\ req'[p].account = r.account
      BY <1>1, <1>2, <2>1
    <2>3. RowOK(req'[p])
      BY <1>1, <2>2 DEF RowOK, Stages
    <2> QED
      BY <1>2, <2>1, <2>2, <2>3 DEF Moves
  <1> QED
    BY <1>2, <1>3, <1>4, AnswerMoves

\* A step of one request keeps the others as they are.
LEMMA MovesKeep ==
    ASSUME Shape, Exclusive, NEW p \in Requests, Moves(p)
    PROVE  /\ req' = [q \in Requests |-> req'[q]]
           /\ \A q \in Requests : RowOK(req'[q])
           /\ \A q \in Requests \ {p} : req'[q] = req[q]
           /\ Exclusive'
  <1>1. /\ req' = [q \in Requests |-> req'[q]]
        /\ \A q \in Requests \ {p} : req'[q] = req[q]
    BY DEF Shape, Moves
  <1>2. \A q \in Requests : RowOK(req'[q])
    BY <1>1 DEF Shape, Moves
  <1>3. \A q \in Requests \ {p} : req'[p].holds \cap req[q].holds = {}
    BY DEF Moves, Exclusive, Free
  <1>4. Exclusive'
    BY <1>1, <1>3 DEF Exclusive
  <1> QED
    BY <1>1, <1>2, <1>4

-----------------------------------------------------------------------------
(* Accounts.                                                               *)

\* While the accounts stay, a request that does not come to the invitation of a new one
\* leaves their keys apart.
LEMMA KeysApart ==
    ASSUME OfficeInv, NEW p \in Requests, Moves(p), UNCHANGED accounts,
           Answered(p) \/ (req'[p].op = "register" =>
             "account" \in DOMAIN req'[p] /\ req'[p].pc = "insert account")
    PROVE  AccountKeys'
  <1>1. \A q \in Requests \ {p} : req'[q] = req[q]
    BY MovesKeep DEF OfficeInv
  <1>2. Registered' = Registered
    BY DEF Registered
  <1>3. Answered(p) => p \notin InFlight'
    BY DEF Answered, InFlight, Ended, NewRequest
  <1>4. \A u, v \in Registered' :
          u # v => UniqueKeys(accounts'[u]) \cap UniqueKeys(accounts'[v]) = {}
    BY <1>2 DEF OfficeInv, AccountKeys
  <1>5. ASSUME NEW q \in Requests, q \in InFlight', req'[q].op = "register"
        PROVE  /\ "account" \in DOMAIN req'[q]
               /\ req'[q].pc = "invite" =>
                    /\ UniqueKeys(req'[q].account) \subseteq req'[q].holds
                    /\ \A u \in Registered' :
                         UniqueKeys(req'[q].account) \cap UniqueKeys(accounts'[u]) = {}
    <2>1. CASE q = p
      BY <1>3, <1>5, <2>1
    <2>2. CASE q # p
      <3>1. req'[q] = req[q] /\ q \in InFlight
        BY <1>1, <1>5, <2>2 DEF InFlight
      <3> QED
        BY <1>2, <1>5, <3>1 DEF OfficeInv, AccountKeys
    <2> QED
      BY <2>1, <2>2
  <1> QED
    BY <1>4, <1>5 DEF AccountKeys

\* An account that is inserted, with keys that nobody has and nobody is inserting.
LEMMA KeysOfInserted ==
    ASSUME OfficeInv, NEW p \in Requests, InsertAccount(p), Moves(p),
           req[p].op = "register", UNCHANGED accounts,
           "account" \in DOMAIN req'[p], req'[p].account = req[p].account,
           req'[p].holds = UniqueKeys(req[p].account),
           ~Refused(req[p].account, Registered)
    PROVE  AccountKeys'
  <1>1. \A q \in Requests \ {p} : req'[q] = req[q]
    BY MovesKeep DEF OfficeInv
  <1>2. Registered' = Registered
    BY DEF Registered
  <1>3. \A u, v \in Registered' :
          u # v => UniqueKeys(accounts'[u]) \cap UniqueKeys(accounts'[v]) = {}
    BY <1>2 DEF OfficeInv, AccountKeys
  <1>4. \A u \in Registered :
          UniqueKeys(req[p].account) \cap UniqueKeys(accounts[u]) = {}
    BY DEF Refused
  <1>5. ASSUME NEW q \in Requests, q \in InFlight', req'[q].op = "register"
        PROVE  /\ "account" \in DOMAIN req'[q]
               /\ req'[q].pc = "invite" =>
                    /\ UniqueKeys(req'[q].account) \subseteq req'[q].holds
                    /\ \A u \in Registered' :
                         UniqueKeys(req'[q].account) \cap UniqueKeys(accounts'[u]) = {}
    <2>1. CASE q = p
      BY <1>2, <1>4, <2>1
    <2>2. CASE q # p
      <3>1. req'[q] = req[q] /\ q \in InFlight
        BY <1>1, <1>5, <2>2 DEF InFlight
      <3> QED
        BY <1>2, <1>5, <3>1 DEF OfficeInv, AccountKeys
    <2> QED
      BY <2>1, <2>2
  <1> QED
    BY <1>3, <1>5 DEF AccountKeys

\* An account that is entered under free keys, in place of w or of nothing.
LEMMA KeysOfEntered ==
    ASSUME OfficeInv, NEW p \in Requests, Moves(p), Answered(p), NEW w, NEW new,
           accounts' = [accounts EXCEPT ![w] = new],
           \A u \in Registered \ {w} : UniqueKeys(new) \cap UniqueKeys(accounts[u]) = {},
           \A q \in Requests \ {p} : UniqueKeys(new) \cap req[q].holds = {}
    PROVE  AccountKeys'
  <1>1. \A q \in Requests \ {p} : req'[q] = req[q]
    BY MovesKeep DEF OfficeInv
  <1>2. p \notin InFlight'
    BY DEF Answered, InFlight, Ended, NewRequest
  <1>3. /\ \A u \in Registered' :
             u = w \/ (u \in Registered /\ accounts'[u] = accounts[u])
        /\ w \in Registered' => accounts'[w] = new
    BY DEF Registered, OfficeInv, Shape
  <1>4. \A u, v \in Registered' :
          u # v => UniqueKeys(accounts'[u]) \cap UniqueKeys(accounts'[v]) = {}
    BY <1>3 DEF OfficeInv, AccountKeys
  <1>5. ASSUME NEW q \in Requests, q \in InFlight', req'[q].op = "register"
        PROVE  /\ "account" \in DOMAIN req'[q]
               /\ req'[q].pc = "invite" =>
                    /\ UniqueKeys(req'[q].account) \subseteq req'[q].holds
                    /\ \A u \in Registered' :
                         UniqueKeys(req'[q].account) \cap UniqueKeys(accounts'[u]) = {}
    <2>1. q # p /\ req'[q] = req[q] /\ q \in InFlight
      BY <1>1, <1>2, <1>5 DEF InFlight
    <2>2. /\ "account" \in DOMAIN req[q]
          /\ req[q].pc = "invite" =>
               /\ UniqueKeys(req[q].account) \subseteq req[q].holds
               /\ \A u \in Registered :
                    UniqueKeys(req[q].account) \cap UniqueKeys(accounts[u]) = {}
      BY <1>5, <2>1 DEF OfficeInv, AccountKeys
    <2>3. UniqueKeys(new) \cap req[q].holds = {}
      BY <2>1
    <2> QED
      BY <1>3, <2>1, <2>2, <2>3
  <1> QED
    BY <1>4, <1>5 DEF AccountKeys

\* A school that is deleted takes accounts and leaves the others as they were.
LEMMA KeysOfLeft ==
    ASSUME OfficeInv, NEW p \in Requests, NEW s, DeleteSchool(p, s), Moves(p), Answered(p)
    PROVE  AccountKeys'
  <1>1. \A q \in Requests : q \notin InFlight'
    <2>1. \A q \in Requests \ {p} : req'[q] = req[q]
      BY MovesKeep DEF OfficeInv
    <2>2. p \notin InFlight'
      BY DEF Answered, InFlight, Ended, NewRequest
    <2> QED
      BY <2>1, <2>2 DEF DeleteSchool, InFlight
  <1>2. \A u \in Registered' : u \in Registered /\ accounts'[u] = accounts[u]
    <2>1. \A u \in DOMAIN accounts' : u \in DOMAIN accounts
                                      /\ accounts'[u] \in {None, accounts[u]}
      BY DEF DeleteSchool, officeVars
    <2> QED
      BY <2>1 DEF Registered
  <1> QED
    BY <1>1, <1>2 DEF AccountKeys, OfficeInv

\* The days that a request for a range has to mark stay what they were.
LEMMA RangesStand ==
    ASSUME OfficeInv, NEW p \in Requests, Moves(p),
           \/ Answered(p)
           \/ req'[p].op = "mark" => RangeOK(req'[p])
    PROVE  RangeRead'
  <1>1. \A q \in Requests \ {p} : req'[q] = req[q]
    BY MovesKeep DEF OfficeInv
  <1>2. Answered(p) => p \notin InFlight'
    BY DEF Answered, InFlight, Ended, NewRequest
  <1>3. \A q \in Requests : q # p /\ q \in InFlight' => q \in InFlight
    BY <1>1 DEF InFlight
  <1> QED
    BY <1>1, <1>2, <1>3 DEF OfficeInv, RangeRead

\* The accounts are those of a map from residents and requests.
LEMMA AccountsMap ==
    ASSUME accounts = [u \in Residents \cup Requests |-> accounts[u]],
           \/ UNCHANGED accounts
           \/ \E w, new : accounts' = [accounts EXCEPT ![w] = new]
           \/ \E p, s : DeleteSchool(p, s)
    PROVE  accounts' = [u \in Residents \cup Requests |-> accounts'[u]]
  BY DEF DeleteSchool, officeVars

\* What one step of a request keeps.
LEMMA OfficeInductive ==
    ASSUME OfficeInv, NEW p \in Requests,
           \/ CatalogueRequest(p) \/ OfficeRequest(p) \/ DeadlockVictim(p)
           \/ \E s \in Schools : DeleteSchool(p, s)
    PROVE  OfficeInv' /\ Moves(p)
  <1> USE DEF OfficeInv
  <1>1. ASSUME Moves(p), accounts' = [u \in Residents \cup Requests |-> accounts'[u]],
               AccountKeys', RangeRead'
        PROVE  OfficeInv' /\ Moves(p)
    BY <1>1, MovesKeep DEF Shape
  <1>2. CASE CatalogueRequest(p)
    <2>1. /\ Moves(p) /\ UNCHANGED accounts
          /\ Answered(p) \/ req'[p].op \in {"create", "update", "customize"}
      BY <1>2, CatalogueMoves DEF CatalogueRequest, officeVars
    <2>2. AccountKeys' /\ RangeRead'
      BY <2>1, KeysApart, RangesStand
    <2> QED
      BY <1>1, <2>1, <2>2, AccountsMap DEF Shape
  <1>3. CASE OfficeRequest(p)
    <2>1. CASE CalendarBegin(p) \/ RulesBegin(p) \/ AccountsBegin(p)
      <3>1. /\ Moves(p) /\ UNCHANGED accounts
            /\ \/ Answered(p)
               \/ req'[p].op \in {"import", "policies", "delegate", "edit"}
               \/ req'[p].op = "mark" /\ RangeOK(req'[p])
               \/ /\ req'[p].op = "register" /\ req'[p].pc = "insert account"
                  /\ "account" \in DOMAIN req'[p]
        BY <2>1, OfficeBegins
      <3>2. AccountKeys' /\ RangeRead'
        BY <3>1, KeysApart, RangesStand
      <3> QED
        BY <1>1, <3>1, <3>2, AccountsMap DEF Shape
    <2>2. CASE OfficeStep(p)
      <3>1. /\ p \in InFlight /\ Moves(p)
            /\ \/ Answered(p)
               \/ /\ InsertAccount(p) /\ req'[p].op = "register"
                  /\ "account" \in DOMAIN req'[p] /\ req'[p].account = req[p].account
                  /\ req'[p].pc = "invite" /\ req'[p].holds = UniqueKeys(req[p].account)
                  /\ ~Refused(req[p].account, Registered)
        BY <2>2, OfficeSteps DEF AccountKeys
      <3>2. RangeRead'
        BY <3>1, RangesStand
      <3>3. CASE UNCHANGED accounts
        <4>1. CASE Answered(p)
          BY <1>1, <3>1, <3>2, <3>3, <4>1, KeysApart, AccountsMap DEF Shape
        <4>2. CASE ~Answered(p)
          <5>1. req[p].op = "register"
            BY <3>1, <4>2 DEF InsertAccount, At
          <5>2. AccountKeys'
            BY <3>1, <3>3, <4>2, <5>1, KeysOfInserted
          <5> QED
            BY <1>1, <3>1, <3>2, <3>3, <5>2, AccountsMap DEF Shape
        <4> QED
          BY <4>1, <4>2
      <3>4. CASE CommitAccount(p) /\ ~UNCHANGED accounts
        <4> DEFINE new == req[p].account
        <4>1. /\ accounts' = [accounts EXCEPT ![p] = new]
              /\ req[p].op = "register" /\ req[p].pc = "invite" /\ Commit(p)
          BY <3>4 DEF CommitAccount, At
        <4>2. /\ UniqueKeys(new) \subseteq req[p].holds
              /\ \A u \in Registered : UniqueKeys(new) \cap UniqueKeys(accounts[u]) = {}
          BY <3>1, <4>1 DEF AccountKeys
        <4>3. \A q \in Requests \ {p} : UniqueKeys(new) \cap req[q].holds = {}
          BY <4>2 DEF Exclusive
        <4>4. Answered(p)
          BY <3>1, <4>1, AnswerMoves
        <4>5. AccountKeys'
          BY <3>1, <4>1, <4>2, <4>3, <4>4, KeysOfEntered
        <4> QED
          BY <1>1, <3>1, <3>2, <4>1, <4>5, AccountsMap DEF Shape
      <3>5. CASE SaveAccount(p) /\ ~UNCHANGED accounts
        <4> DEFINE w == req[p].user
                   new == [accounts[w] EXCEPT ![req[p].field] = req[p].value]
        <4>1. /\ accounts' = [accounts EXCEPT ![w] = new]
              /\ \A key \in UniqueKeys(new) : Free(p, key)
              /\ ~Refused(new, Registered \ {w}) /\ Commit(p)
          BY <3>5 DEF SaveAccount, officeVars
        <4> HIDE DEF w, new
        <4>2. \A u \in Registered \ {w} :
                UniqueKeys(new) \cap UniqueKeys(accounts[u]) = {}
          BY <4>1 DEF Refused
        <4>3. \A q \in Requests \ {p} : UniqueKeys(new) \cap req[q].holds = {}
          BY <4>1 DEF Free
        <4>4. Answered(p)
          BY <3>1, <4>1, AnswerMoves
        <4>5. AccountKeys'
          BY <3>1, <4>1, <4>2, <4>3, <4>4, KeysOfEntered
        <4> QED
          BY <1>1, <3>1, <3>2, <4>1, <4>5, AccountsMap DEF Shape
      <3> QED
        BY <2>2, <3>3, <3>4, <3>5 DEF OfficeStep, SaveDays, SavePolicies,
           SaveCapabilities, InsertAccount, officeVars
    <2> QED
      BY <1>3, <2>1, <2>2 DEF OfficeRequest
  <1>4. CASE DeadlockVictim(p)
    <2>1. p \in InFlight /\ Rollback(p) /\ UNCHANGED accounts
      BY <1>4 DEF DeadlockVictim, Deadlocked, WaitsFor, InFlight, Shape, RowOK, officeVars
    <2>2. Moves(p) /\ Answered(p)
      BY <2>1, AnswerMoves
    <2>3. AccountKeys' /\ RangeRead'
      BY <2>1, <2>2, KeysApart, RangesStand
    <2> QED
      BY <1>1, <2>1, <2>2, <2>3, AccountsMap DEF Shape
  <1>5. ASSUME NEW s \in Schools, DeleteSchool(p, s)
        PROVE  OfficeInv' /\ Moves(p)
    <2>1. Moves(p) /\ Answered(p)
      BY <1>5, AnswerMoves DEF DeleteSchool
    <2>2. AccountKeys' /\ RangeRead'
      BY <1>5, <2>1, KeysOfLeft, RangesStand
    <2> QED
      BY <1>1, <1>5, <2>1, <2>2, AccountsMap DEF Shape
  <1> QED
    BY <1>2, <1>3, <1>4, <1>5

\* To begin with nothing has been asked.
LEMMA OfficeInit == Init => OfficeInv
  <1> SUFFICES ASSUME Init
               PROVE  OfficeInv
    OBVIOUS
  <1>1. \A p \in Requests : req[p] = NewRequest
    BY DEF Init
  <1>2. \A p \in Requests : RowOK(req[p]) /\ req[p].holds = {} /\ p \notin InFlight
    <2>1. /\ {"op", "pc", "holds", "wants"} \subseteq DOMAIN NewRequest
          /\ NewRequest.pc = "new" /\ NewRequest.holds = {}
      BY DEF NewRequest
    <2> QED
      BY <1>1, <2>1 DEF RowOK, InFlight
  <1>3. Shape
    <2>1. /\ req = [p \in Requests |-> NewRequest]
          /\ accounts = [u \in Residents \cup Requests |->
                            IF u \in Residents THEN InitialAccounts[u] ELSE None]
      BY DEF Init
    <2>2. /\ req = [p \in Requests |-> req[p]]
          /\ accounts = [u \in Residents \cup Requests |-> accounts[u]]
      BY <2>1
    <2> QED
      BY <1>2, <2>2 DEF Shape
  <1>4. \A u \in Registered : u \in Residents /\ accounts[u] = InitialAccounts[u]
    <2>1. accounts = [u \in Residents \cup Requests |->
                        IF u \in Residents THEN InitialAccounts[u] ELSE None]
      BY DEF Init
    <2> QED
      BY <2>1 DEF Registered
  <1>5. AccountKeys
    BY <1>2, <1>4, AdministrationAssumption DEF AccountKeys
  <1> QED
    BY <1>2, <1>3, <1>5 DEF OfficeInv, Exclusive, RangeRead

\* Steps of a request, or none.
LEMMA OfficeKept == OfficeInv /\ [Next]_vars => OfficeInv'
  <1> SUFFICES ASSUME OfficeInv, [Next]_vars
               PROVE  OfficeInv'
    OBVIOUS
  <1>1. CASE Next
    BY <1>1, OfficeInductive DEF Next
  <1>2. CASE UNCHANGED vars
    BY <1>2 DEF OfficeInv, Shape, Exclusive, AccountKeys, RangeRead, Registered,
                InFlight, vars, officeVars
  <1> QED
    BY <1>1, <1>2

\* However registrations and edits overlap after looking for the CPF in vain, one person
\* has one account, and a username and an e-mail have one holder (create_user,
\* create_student, create_school_admin, update_user).
THEOREM AccountsApart == Spec => []OneAccountPerPerson
  <1>1. OfficeInv => OneAccountPerPerson
    BY DEF OfficeInv, AccountKeys, OneAccountPerPerson, UniqueKeys
  <1> QED
    BY <1>1, OfficeInit, OfficeKept, PTL DEF Spec

-----------------------------------------------------------------------------
(* What succeeds.                                                          *)

\* A request succeeds by a step of its own.
LEMMA Successes ==
    ASSUME OfficeInv, [Next]_vars, NEW q \in Requests, Succeeds(q)
    PROVE  \/ CatalogueStep(q) /\ UNCHANGED officeVars
           \/ OfficeStep(q) /\ UNCHANGED catalogueVars
  <1>1. q \in InFlight /\ req'[q].pc = "done" /\ req[q].pc # "done"
    BY DEF Succeeds, InFlight
  <1>2. PICK p \in Requests :
          \/ CatalogueRequest(p) \/ OfficeRequest(p) \/ DeadlockVictim(p)
          \/ \E s \in Schools : DeleteSchool(p, s)
    BY <1>1 DEF Next, vars
  <1>3. p = q
    BY <1>1, <1>2, OfficeInductive, MovesKeep DEF OfficeInv
  <1>4. ~New(q)
    BY <1>1 DEF New, InFlight
  <1>5. ~CatalogueBegin(q)
    BY <1>4 DEF CatalogueBegin, CreateTerm, DeleteTerm, DeactivateBook, BeginUpdate,
                AddCopy, RestoreBook, BeginCreate, BeginCustomize
  <1>6. ~CalendarBegin(q) /\ ~RulesBegin(q) /\ ~AccountsBegin(q)
    BY <1>4 DEF CalendarBegin, RulesBegin, AccountsBegin, MarkDay, BeginMark, DeleteDays,
                BeginImport, BeginPolicies, BeginDelegate, RegisterStudent, RegisterStaff,
                BeginRegister, BeginEdit, CreateSchool
  <1>7. ~DeadlockVictim(q)
    BY <1>1 DEF DeadlockVictim, Rollback, Set, Ended, NewRequest, OfficeInv, Shape
  <1>8. \A s : ~DeleteSchool(q, s)
    BY <1>4 DEF DeleteSchool
  <1> QED
    BY <1>2, <1>3, <1>5, <1>6, <1>7, <1>8 DEF CatalogueRequest, OfficeRequest

\* A range of days succeeds by saving them.
LEMMA RangeSaved ==
    ASSUME OfficeInv, NEW p \in Requests, p \in InFlight, req[p].op = "mark",
           CatalogueStep(p) \/ OfficeStep(p)
    PROVE  SaveDays(p)
  <1>1. req[p].pc = "save days"
    BY DEF OfficeInv, Shape, RowOK, Stages, InFlight
  <1> QED
    BY <1>1 DEF CatalogueStep, LookUp, InsertTerm, CommitCreate, LockBook, WantBook,
                CommitUpdate, SelectOverride, InsertOverride, CommitCustomize, Resolved,
                Resolving, At, OfficeStep, SavePolicies, SaveCapabilities,
                InsertAccount, CommitAccount, SaveAccount

\* A range or month answered with success is marked to its last weekday, but for the days
\* that somebody unmarked meanwhile; no weekend is touched and no marked day is lost
\* (create_non_working_range, create_non_working_month).
THEOREM RangesMarked == Spec => RangeStaysMarked
  <1>1. ASSUME OfficeInv, [Next]_vars
        PROVE  RangeMarked
    <2> SUFFICES ASSUME NEW p \in Requests, Succeeds(p), req[p].op = "mark"
                 PROVE  LET span == {d \in req[p].first .. req[p].last :
                                       d % 7 \notin {5, 6}}
                            unmarked == req[p].seen \ nonWorkingDays
                        IN  /\ span \ unmarked \subseteq nonWorkingDays'
                            /\ nonWorkingDays \subseteq nonWorkingDays'
                            /\ nonWorkingDays' \subseteq nonWorkingDays \cup span
      BY DEF RangeMarked
    <2>1. p \in InFlight /\ SaveDays(p)
      BY <1>1, Successes, RangeSaved DEF Succeeds
    <2>2. nonWorkingDays' = nonWorkingDays \cup req[p].todo
      BY <1>1, <2>1 DEF SaveDays, Succeeds, Rollback, Set, Ended, NewRequest, OfficeInv,
                        Shape
    <2>3. /\ req[p].first \in Nat /\ req[p].last \in Nat
          /\ req[p].todo = WeekdaysOf(req[p].first, req[p].last) \ req[p].seen
      BY <1>1, <2>1 DEF OfficeInv, RangeRead, RangeOK
    <2>4. \A d \in req[p].first .. req[p].last : Weekend(d) <=> d % 7 \in {5, 6}
      BY <2>3 DEF Weekend
    <2> QED
      BY <2>2, <2>3, <2>4 DEF WeekdaysOf
  <1> QED
    BY <1>1, OfficeInit, OfficeKept, PTL DEF Spec, RangeStaysMarked

-----------------------------------------------------------------------------
(* Customizations: the invariant.                                          *)

\* A row of genres or authors is one of a request that is over, and a slug that is
\* being inserted has none.
TermRows ==
    /\ terms = [g \in Terms |-> terms[g]]
    /\ \A g \in Present : Over(terms[g])
    /\ \A p \in Requests, g \in Terms : TermKey(g) \in req[p].holds => g \notin Present

\* Customizations refer to terms that are there.
OverrideRows ==
    /\ overrides = [sb \in Schools \X Books |-> overrides[sb]]
    /\ \A sb \in Schools \X Books : overrides[sb] # None =>
         /\ overrides[sb] \in OverrideRow
         /\ Over(overrides[sb].row)
         /\ overrides[sb].terms # Inherit => overrides[sb].terms \subseteq Present

\* The rows p has found or inserted for the names it was given.
Gathered(p) ==
    /\ {"names", "got"} \subseteq DOMAIN req[p]
    /\ req[p].names \in SUBSET Terms
    /\ req[p].pc = "insert term" =>
         \E g \in req[p].names : req[p].wants = TermKey(g)
    /\ \A row \in req[p].got :
         /\ row[1] \in req[p].names /\ row = <<row[1], row[2]>>
         /\ IF row[2] = p THEN TermKey(row[1]) \in req[p].holds ELSE Over(row[2])

Gathering ==
    \A p \in Requests :
      p \in InFlight /\ req[p].op \in {"create", "update", "customize"} => Gathered(p)

\* The references of a customization, none where there is none.
Slugs(sb) == IF overrides[sb] = None THEN {} ELSE OverrideTerms(overrides[sb])

\* What has become of the references p has read under the lock of the customization:
\* those that are still there are among them, and where one is missing its row is gone.
References(p) ==
    LET slugs == Slugs(<<req[p].school, req[p].book>>)
    IN  /\ RowsOf(slugs) \subseteq req[p].seen
        /\ \A row \in req[p].seen :
             /\ row[1] \in Terms /\ row = <<row[1], row[2]>> /\ Over(row[2])
             /\ terms[row[1]] = row[2] => row[1] \in slugs

\* What p has been asked and has loaded, which stays as it is.
Asked(r) ==
    /\ {"school", "book", "title", "description", "replaces", "names", "got", "loaded",
        "seen"} \subseteq DOMAIN r
    /\ r.school \in Schools /\ r.book \in Books
    /\ r.title \in Titles \cup {Keep} /\ r.description \in {Keep, None}
    /\ r.loaded # None => r.loaded \in OverrideRow
    /\ r.pc = "insert override" => r.wants = OverrideKey(r.school, r.book)
    /\ r.pc \in {"select", "insert override"} => r.got = {} /\ r.seen = {}
    /\ r.pc \in {"terms", "insert term"} => OverrideKey(r.school, r.book) \in r.holds

Customizing ==
    \A p \in Requests : p \in InFlight /\ req[p].op = "customize" =>
      /\ Asked(req[p])
      /\ req[p].loaded # None => Over(req[p].loaded.row)
      /\ req[p].pc \in {"terms", "insert term"} => References(p)

CustomInv == TermRows /\ OverrideRows /\ Gathering /\ Customizing

-----------------------------------------------------------------------------
(* What a step does to the rows of genres and authors.                     *)

\* A request that is over stays over, one that is answered is, and one that is not begun
\* or not over is not.
LEMMA OverStays ==
    ASSUME Shape, Exclusive, NEW p \in Requests, Moves(p)
    PROVE  /\ ~Over(p)
           /\ \A x : Over(x) => Over(x)'
           /\ Answered(p) => Over(p)'
  <1>1. ~Over(p)
    BY DEF Over, Moves, New, InFlight
  <1>2. \A q \in Requests \ {p} : req'[q] = req[q]
    BY MovesKeep
  <1>3. ASSUME NEW x, Over(x)
        PROVE  Over(x)'
    BY <1>1, <1>2, <1>3 DEF Over
  <1>4. Answered(p) => Over(p)'
    BY AdministrationAssumption DEF Answered, Over, Ended, NewRequest
  <1> QED
    BY <1>1, <1>3, <1>4

\* Rows come only for slugs that have none and that nobody else inserts.
TermsGrow(p) ==
    /\ terms' = [g \in Terms |-> terms'[g]]
    /\ \A g \in Terms :
         \/ terms'[g] = terms[g]
         \/ terms'[g] = p /\ g \notin Present /\ Free(p, TermKey(g))

\* A commit enters the rows that p has inserted.
LEMMA OwnTermsGrow ==
    ASSUME OfficeInv, CustomInv, NEW p \in Requests, terms' = WithOwnTerms(p)
    PROVE  TermsGrow(p) /\ \A g \in OwnTerms(p) : terms'[g] = p
  <1>1. \A g \in OwnTerms(p) : Free(p, TermKey(g))
    BY DEF OwnTerms, Free, OfficeInv, Exclusive
  <1> QED
    BY <1>1 DEF CustomInv, TermRows, TermsGrow, WithOwnTerms, OwnTerms

\* Which rows of genres, authors and customizations a step changes.
LEMMA TermsChange ==
    ASSUME OfficeInv, CustomInv, NEW p \in Requests,
           \/ CatalogueRequest(p) \/ OfficeRequest(p) \/ DeadlockVictim(p)
           \/ \E s \in Schools : DeleteSchool(p, s)
    PROVE  \/ UNCHANGED terms
           \/ TermsGrow(p) /\ Answered(p)
           \/ \E g \in Terms : DeleteTerm(p, g)
  <1>1. CASE CatalogueBegin(p)
    <2>1. ASSUME NEW g \in Terms, CreateTerm(p, g)
          PROVE  TermsGrow(p) /\ Answered(p)
      BY <2>1, AnswerMoves DEF CreateTerm, TermsGrow, CustomInv, TermRows, OfficeInv,
                               Free, FreeOfAll
    <2> QED
      BY <1>1, <2>1 DEF CatalogueBegin, DeactivateBook, BeginUpdate, AddCopy, RestoreBook,
                        BeginCreate, BeginCustomize, catalogueVars
  <1>2. CASE CatalogueStep(p)
    <2>1. CASE CommitCreate(p) \/ CommitUpdate(p) \/ CommitCustomize(p)
      <3>1. UNCHANGED terms \/ (terms' = WithOwnTerms(p) /\ Commit(p))
        BY <2>1 DEF CommitCreate, CommitUpdate, CommitCustomize, catalogueVars
      <3>2. p \in InFlight
        BY <2>1 DEF CommitCreate, CommitUpdate, CommitCustomize, Resolved, Resolving,
                    InFlight
      <3> QED
        BY <3>1, <3>2, AnswerMoves, OwnTermsGrow DEF OfficeInv
    <2> QED
      BY <1>2, <2>1 DEF CatalogueStep, LookUp, InsertTerm, LockBook, WantBook,
                        SelectOverride, InsertOverride, catalogueVars
  <1> QED
    BY <1>1, <1>2 DEF CatalogueRequest, OfficeRequest, DeadlockVictim, DeleteSchool,
                      catalogueVars

\* A request that begins holds nothing.
LEMMA BeginsEmpty ==
    ASSUME Shape, NEW p \in Requests,
           CatalogueBegin(p) \/ CalendarBegin(p) \/ RulesBegin(p) \/ AccountsBegin(p)
    PROVE  req'[p].holds = {}
  <1>1. ASSUME \/ Commit(p) \/ Rollback(p)
               \/ Set(p, [Ended("done") EXCEPT !.op = "restore"])
        PROVE  req'[p].holds = {}
    BY <1>1 DEF Shape, Commit, Rollback, Set, Ended, NewRequest
  <1>2. ASSUME NEW b, NEW title, NEW names, BeginUpdate(p, b, title, names)
        PROVE  req'[p].holds = {}
    BY <1>2 DEF BeginUpdate, Set, Shape
  <1>3. ASSUME NEW s, NEW b, NEW title, NEW names, BeginCreate(p, s, b, title, names)
        PROVE  req'[p].holds = {}
    BY <1>3 DEF BeginCreate, Set, Shape
  <1>4. ASSUME NEW s, NEW b, NEW title, NEW description, NEW names,
               BeginCustomize(p, s, b, title, description, names)
        PROVE  req'[p].holds = {}
    BY <1>4 DEF BeginCustomize, Set, Shape
  <1>5. ASSUME CatalogueBegin(p)
        PROVE  req'[p].holds = {}
    BY <1>1, <1>2, <1>3, <1>4, <1>5 DEF CatalogueBegin, CreateTerm, DeleteTerm,
       DeactivateBook, AddCopy, RestoreBook
  <1>6. ASSUME NEW by, NEW first, NEW last, BeginMark(p, by, first, last)
        PROVE  req'[p].holds = {}
    BY <1>6 DEF BeginMark, Set, Shape
  <1>7. ASSUME NEW by, NEW answer, BeginImport(p, by, answer)
        PROVE  req'[p].holds = {}
    BY <1>7 DEF BeginImport, Set, Shape
  <1>8. ASSUME NEW by, NEW asked, BeginPolicies(p, by, asked)
        PROVE  req'[p].holds = {}
    BY <1>8 DEF BeginPolicies, Set, Shape
  <1>9. ASSUME NEW asked, BeginDelegate(p, asked)
        PROVE  req'[p].holds = {}
    BY <1>9 DEF BeginDelegate, Set, Shape
  <1>10. ASSUME CalendarBegin(p) \/ RulesBegin(p)
         PROVE  req'[p].holds = {}
    BY <1>1, <1>6, <1>7, <1>8, <1>9, <1>10 DEF CalendarBegin, RulesBegin, MarkDay,
       DeleteDays
  <1>11. ASSUME NEW account, BeginRegister(p, account)
         PROVE  req'[p].holds = {}
    BY <1>11 DEF BeginRegister, Set, Shape
  <1>12. ASSUME NEW u, NEW field, NEW value, BeginEdit(p, u, field, value)
         PROVE  req'[p].holds = {}
    BY <1>12 DEF BeginEdit, Set, Shape
  <1>13. ASSUME AccountsBegin(p)
         PROVE  req'[p].holds = {}
    BY <1>1, <1>11, <1>12, <1>13 DEF AccountsBegin, RegisterStudent, RegisterStaff,
       CreateSchool
  <1> QED
    BY <1>5, <1>10, <1>13

\* A key for a slug is taken only when the slug has no row, and by one that inserts it.
LEMMA TermKeysTaken ==
    ASSUME OfficeInv, CustomInv, NEW p \in Requests, NEW g \in Terms,
           \/ CatalogueRequest(p) \/ OfficeRequest(p) \/ DeadlockVictim(p)
           \/ \E s \in Schools : DeleteSchool(p, s),
           TermKey(g) \in req'[p].holds
    PROVE  \/ TermKey(g) \in req[p].holds
           \/ UNCHANGED terms /\ g \notin Present
  <1> DEFINE r == req[p]
  <1>1. /\ {"op", "pc", "holds", "wants"} \subseteq DOMAIN r /\ RowOK(r)
        /\ req' = [req EXCEPT ![p] = req'[p]]
    BY OfficeInductive DEF OfficeInv, Shape, RowOK, Moves
  <1>2. ~Commit(p) /\ ~Rollback(p)
    BY DEF OfficeInv, Shape, Commit, Rollback, Set, Ended, NewRequest
  <1>3. CASE CatalogueBegin(p) \/ CalendarBegin(p) \/ RulesBegin(p) \/ AccountsBegin(p)
    BY <1>3, BeginsEmpty DEF OfficeInv
  <1>4. CASE CatalogueStep(p)
    <2>1. CASE \E h \in Terms : LookUp(p, h)
      <3>1. r.pc = "terms"
        BY <2>1 DEF LookUp, Resolving
      <3>2. \/ \E rows : req'[p] = [r EXCEPT !.got = rows]
            \/ \E key : req'[p] = [r EXCEPT !.pc = "insert term", !.wants = key]
        BY <2>1 DEF LookUp, Set, OfficeInv, Shape
      <3> QED
        BY <1>1, <3>2
    <2>2. CASE InsertTerm(p)
      <3>1. /\ r.wants[2] \notin Present /\ UNCHANGED terms /\ r.pc = "insert term"
            /\ req'[p] = [r EXCEPT !.pc = "terms", !.wants = None,
                                   !.got = @ \cup {<<r.wants[2], p>>},
                                   !.holds = @ \cup {TermKey(r.wants[2])}]
        BY <1>2, <2>2 DEF InsertTerm, Set, OfficeInv, Shape, catalogueVars
      <3>2. req'[p].holds = r.holds \cup {TermKey(r.wants[2])}
        BY <1>1, <3>1
      <3>3. TermKey(g) = TermKey(r.wants[2]) => g = r.wants[2]
        BY DEF TermKey
      <3> QED
        BY <3>1, <3>2, <3>3
    <2>3. CASE LockBook(p)
      <3>1. req'[p] = [r EXCEPT !.pc = "terms", !.wants = None,
                                !.holds = @ \cup {BookKey(r.book)}]
        BY <2>3 DEF LockBook, Set, OfficeInv, Shape
      <3>2. req'[p].holds = r.holds \cup {BookKey(r.book)}
        BY <1>1, <3>1
      <3> QED
        BY <3>2 DEF TermKey, BookKey
    <2>4. CASE WantBook(p)
      <3>1. req'[p] = [r EXCEPT !.wants = BookKey(r.book)]
        BY <2>4 DEF WantBook, Set, OfficeInv, Shape
      <3> QED
        BY <1>1, <3>1
    <2>5. CASE SelectOverride(p)
      <3> DEFINE key == OverrideKey(r.school, r.book)
      <3>1. \/ req'[p] = [r EXCEPT !.pc = "insert override", !.wants = key]
            \/ req'[p] = [r EXCEPT !.pc = "terms", !.holds = {key},
                   !.seen = RowsOf(OverrideTerms(overrides[r.school, r.book]))]
        BY <2>5 DEF SelectOverride, Set, OfficeInv, Shape
      <3>2. TermKey(g) # key
        BY DEF TermKey, OverrideKey
      <3> HIDE DEF key
      <3>3. req'[p].holds = r.holds \/ req'[p].holds = {key}
        BY <1>1, <3>1
      <3> QED
        BY <3>2, <3>3
    <2>6. CASE InsertOverride(p)
      <3>1. /\ r.pc = "insert override"
            /\ req'[p] = [r EXCEPT !.pc = "terms", !.holds = {r.wants}, !.wants = None]
        BY <1>2, <2>6 DEF InsertOverride, At, Set, OfficeInv, Shape
      <3>2. req'[p].holds = {r.wants}
        BY <1>1, <3>1
      <3>3. r.wants = OverrideKey(r.school, r.book)
        BY <2>6, <3>1 DEF CustomInv, Customizing, Asked, InsertOverride, At, InFlight
      <3> QED
        BY <3>2, <3>3 DEF TermKey, OverrideKey
    <2> QED
      BY <1>2, <1>4, <2>1, <2>2, <2>3, <2>4, <2>5, <2>6
         DEF CatalogueStep, CommitCreate, CommitUpdate, CommitCustomize
  <1>5. CASE OfficeStep(p)
    <2>1. req[p].op = "register" /\ p \in InFlight => "account" \in DOMAIN req[p]
      BY DEF OfficeInv, AccountKeys
    <2>2. req'[p].holds = UniqueKeys(req[p].account) \/ Answered(p)
      BY <1>5, <2>1, OfficeSteps DEF OfficeInv
    <2>3. TermKey(g) \notin UniqueKeys(req[p].account)
      BY DEF TermKey, UniqueKeys
    <2> QED
      BY <2>2, <2>3 DEF Answered, Ended, NewRequest
  <1>6. CASE DeadlockVictim(p) \/ \E s \in Schools : DeleteSchool(p, s)
    BY <1>2, <1>6 DEF DeadlockVictim, DeleteSchool
  <1> QED
    BY <1>3, <1>4, <1>5, <1>6 DEF CatalogueRequest, OfficeRequest

\* The rows of genres and authors.
LEMMA TermRowsKept ==
    ASSUME OfficeInv, CustomInv, NEW p \in Requests,
           \/ CatalogueRequest(p) \/ OfficeRequest(p) \/ DeadlockVictim(p)
           \/ \E s \in Schools : DeleteSchool(p, s)
    PROVE  TermRows'
  <1>1. Moves(p)
    BY OfficeInductive
  <1>2. /\ \A x : Over(x) => Over(x)'
        /\ Answered(p) => Over(p)' /\ req'[p].holds = {}
    BY <1>1, OverStays DEF OfficeInv, Answered, Ended, NewRequest
  <1>3. \A q \in Requests \ {p} : req'[q] = req[q]
    BY <1>1, MovesKeep DEF OfficeInv
  <1>4. CASE UNCHANGED terms
    <2>1. Present' = Present
      BY <1>4 DEF Present
    <2>2. \A g \in Present' : Over(terms[g])'
      BY <1>2, <1>4, <2>1 DEF CustomInv, TermRows
    <2>3. ASSUME NEW q \in Requests, NEW g \in Terms, TermKey(g) \in req'[q].holds
          PROVE  g \notin Present
      BY <1>3, <2>3, TermKeysTaken DEF CustomInv, TermRows
    <2> QED
      BY <1>4, <2>1, <2>2, <2>3 DEF CustomInv, TermRows
  <1>5. CASE TermsGrow(p) /\ Answered(p)
    <2>1. \A g \in Present' : Over(terms[g])'
      <3> SUFFICES ASSUME NEW g \in Present'
                   PROVE  Over(terms[g])'
        OBVIOUS
      <3>1. CASE terms'[g] = p
        BY <1>2, <1>5, <3>1 DEF Over
      <3>2. CASE terms'[g] = terms[g]
        <4>1. Over(terms[g]) /\ g \in Present
          BY <3>2 DEF Present, CustomInv, TermRows
        <4>2. \A x : x = terms'[g] /\ Over(x) => Over(terms[g])'
          BY <1>2 DEF Over
        <4> QED
          BY <3>2, <4>1, <4>2
      <3> QED
        BY <1>5, <3>1, <3>2 DEF TermsGrow, Present
    <2>2. ASSUME NEW q \in Requests, NEW g \in Terms, TermKey(g) \in req'[q].holds
          PROVE  g \notin Present'
      <3>1. q # p /\ TermKey(g) \in req[q].holds
        BY <1>2, <1>3, <1>5, <2>2
      <3>2. g \notin Present /\ ~Free(p, TermKey(g))
        BY <3>1 DEF Free, CustomInv, TermRows
      <3> QED
        BY <1>5, <3>2 DEF TermsGrow, Present
    <2> QED
      BY <1>5, <2>1, <2>2 DEF TermRows, TermsGrow
  <1>6. ASSUME NEW h \in Terms, DeleteTerm(p, h)
        PROVE  TermRows'
    <2>1. terms' = [terms EXCEPT ![h] = None] /\ Commit(p)
      BY <1>6 DEF DeleteTerm
    <2>2. /\ terms' = [g \in Terms |-> terms'[g]]
          /\ \A g \in Present' : g \in Present /\ terms'[g] = terms[g]
      BY <2>1 DEF CustomInv, TermRows, Present
    <2>3. \A g \in Present' : Over(terms[g])'
      BY <1>2, <2>2 DEF CustomInv, TermRows, Over
    <2>4. ASSUME NEW q \in Requests, NEW g \in Terms, TermKey(g) \in req'[q].holds
          PROVE  g \notin Present'
      <3>1. q # p
        BY <2>1, <2>4 DEF Commit, Set, Ended, NewRequest, OfficeInv, Shape
      <3> QED
        BY <1>3, <2>2, <2>4, <3>1 DEF CustomInv, TermRows
    <2> QED
      BY <2>2, <2>3, <2>4 DEF TermRows
  <1> QED
    BY <1>4, <1>5, <1>6, TermsChange

-----------------------------------------------------------------------------
(* What a customization saves.                                             *)

\* The two statements that replace the references leave those that were asked for.
LEMMA AppliedNames ==
    ASSUME OfficeInv, CustomInv, NEW p \in Requests, p \in InFlight,
           req[p].op = "customize", Resolved(p), TermsExist(p)
    PROVE  Applied(p, Slugs(<<req[p].school, req[p].book>>)) = req[p].names
  <1> DEFINE r == req[p]
             slugs == Slugs(<<r.school, r.book>>)
             left == (RowsOf(slugs) \cup Added(p)) \ Removed(p)
  <1>1. ~Over(p)
    BY DEF Over, InFlight
  <1>2. References(p) /\ Gathered(p)
    BY DEF CustomInv, Customizing, Gathering, Resolved, Resolving
  <1>3. /\ RowsOf(slugs) \subseteq r.seen
        /\ \A row \in r.seen :
             /\ row = <<row[1], row[2]>> /\ Over(row[2])
             /\ terms[row[1]] = row[2] => row[1] \in slugs
    BY <1>2 DEF References
  <1> HIDE DEF slugs
  <1>4. left \subseteq r.got
    BY <1>3 DEF Added, Removed
  <1>5. r.got \subseteq left
    <2> SUFFICES ASSUME NEW row \in r.got
                 PROVE  row \in left
      OBVIOUS
    <2>1. CASE row \notin r.seen
      BY <2>1 DEF Added, Removed
    <2>2. CASE row \in r.seen
      <3>1. row[2] # p
        BY <1>1, <1>3, <2>2
      <3>2. terms[row[1]] = row[2]
        BY <3>1 DEF TermsExist
      <3>3. row[1] \in slugs /\ row = <<row[1], terms[row[1]]>>
        BY <1>3, <2>2, <3>2
      <3>4. row \in RowsOf(slugs)
        BY <3>3 DEF RowsOf
      <3> QED
        BY <3>4 DEF Removed
    <2> QED
      BY <2>1, <2>2
  <1>6. {row[1] : row \in r.got} = r.names
    <2>1. \A row \in r.got : row[1] \in r.names
      BY <1>2 DEF Gathered
    <2>2. r.names \ {row[1] : row \in r.got} = {}
      BY DEF Resolved, Unresolved
    <2> QED
      BY <2>1, <2>2
  <1>7. left = r.got
    BY <1>4, <1>5
  <1>8. Applied(p, slugs) = {row[1] : row \in left}
    BY DEF Applied
  <1> QED
    BY <1>6, <1>7, <1>8 DEF slugs

\* After the commit each of them has a row.
LEMMA NamesPresent ==
    ASSUME OfficeInv, CustomInv, NEW p \in Requests, p \in InFlight,
           req[p].op = "customize", Resolved(p), TermsExist(p), terms' = WithOwnTerms(p)
    PROVE  req[p].names \subseteq Present'
  <1> DEFINE r == req[p]
  <1> SUFFICES ASSUME NEW g \in r.names
               PROVE  g \in Present'
    OBVIOUS
  <1>1. Gathered(p)
    BY DEF CustomInv, Gathering
  <1>2. PICK row \in r.got : row[1] = g
    BY DEF Resolved, Unresolved
  <1>3. g \in Terms
    BY <1>1 DEF Gathered
  <1>4. TermsGrow(p) /\ \A h \in OwnTerms(p) : terms'[h] = p
    BY OwnTermsGrow
  <1>5. CASE row[2] = p
    <2>1. g \in OwnTerms(p)
      BY <1>1, <1>2, <1>3, <1>5 DEF Gathered, OwnTerms
    <2> QED
      BY <1>3, <1>4, <2>1, AdministrationAssumption DEF Present
  <1>6. CASE row[2] # p
    <2>1. terms[g] = row[2] /\ row[2] # None
      BY <1>1, <1>2, <1>6 DEF TermsExist, Gathered, Over
    <2> QED
      BY <1>3, <1>4, <2>1, AdministrationAssumption DEF Present, TermsGrow
  <1> QED
    BY <1>5, <1>6

\* What the row of a customization is once it has been saved.
SavedRow(p) ==
    LET r == req[p]
        current == IF overrides[r.school, r.book] = None
                   THEN NewOverride(p) ELSE overrides[r.school, r.book]
        held == Held(r, current)
    IN  [row |-> current.row,
         title |-> Written(r.title, held.title, current.title),
         description |-> Written(r.description, held.description, current.description),
         terms |-> IF r.replaces THEN r.names ELSE current.terms]

\* A customization is saved whole, by one that holds its key.
LEMMA CustomizationSaved ==
    ASSUME OfficeInv, CustomInv, NEW p \in Requests, CommitCustomize(p), ~Rollback(p)
    PROVE  /\ p \in InFlight /\ req[p].op = "customize" /\ req[p].pc = "terms"
           /\ overrides' =
                [overrides EXCEPT ![<<req[p].school, req[p].book>>] = SavedRow(p)]
           /\ terms' = WithOwnTerms(p) /\ Commit(p) /\ UNCHANGED <<books, shelves>>
           /\ req[p].replaces => req[p].names \subseteq Present'
  <1> DEFINE r == req[p]
             current == IF overrides[r.school, r.book] = None
                        THEN NewOverride(p) ELSE overrides[r.school, r.book]
             held == Held(r, current)
  <1>1. p \in InFlight /\ r.op = "customize" /\ r.pc = "terms" /\ Resolved(p)
    BY DEF CommitCustomize, Resolved, Resolving, InFlight
  <1>2. OverrideTerms(current) = Slugs(<<r.school, r.book>>)
    BY DEF Slugs, OverrideTerms, NewOverride
  <1>3. /\ r.replaces => TermsExist(p)
        /\ overrides' = [overrides EXCEPT ![<<r.school, r.book>>] =
             [row |-> current.row,
              title |-> Written(r.title, held.title, current.title),
              description |->
                Written(r.description, held.description, current.description),
              terms |-> IF r.replaces THEN Applied(p, OverrideTerms(current))
                                      ELSE current.terms]]
        /\ terms' = WithOwnTerms(p) /\ Commit(p) /\ UNCHANGED <<books, shelves>>
    BY DEF CommitCustomize
  <1>4. r.replaces => Applied(p, OverrideTerms(current)) = r.names
    BY <1>1, <1>2, <1>3, AppliedNames
  <1>5. overrides' = [overrides EXCEPT ![<<r.school, r.book>>] = SavedRow(p)]
    BY <1>3, <1>4 DEF SavedRow
  <1> QED
    BY <1>1, <1>3, <1>5, NamesPresent

-----------------------------------------------------------------------------
(* Customizations: the rows.                                               *)

\* Only a deletion takes a row of genres or authors away.
LEMMA PresentGrows ==
    ASSUME NEW p \in Requests, UNCHANGED terms \/ TermsGrow(p)
    PROVE  Present \subseteq Present'
  BY AdministrationAssumption DEF TermsGrow, Present

\* A request cannot be answered in two ways at once.
LEMMA CommitOrRollback ==
    ASSUME Shape, NEW p \in Requests
    PROVE  ~(Commit(p) /\ Rollback(p))
  <1>1. Ended("done").pc = "done" /\ Ended("failed").pc = "failed"
    BY DEF Ended, NewRequest
  <1> QED
    BY <1>1, SetRow DEF Commit, Rollback

\* Which step changes a customization.
LEMMA OverridesChange ==
    ASSUME Shape, NEW p \in Requests,
           \/ CatalogueRequest(p) \/ OfficeRequest(p) \/ DeadlockVictim(p)
           \/ \E s \in Schools : DeleteSchool(p, s)
    PROVE  \/ UNCHANGED overrides
           \/ \E g \in Terms : DeleteTerm(p, g)
           \/ CommitCustomize(p) /\ ~Rollback(p)
           \/ \E s \in Schools, b \in Books : RestoreBook(p, s, b)
           \/ \E s \in Schools : DeleteSchool(p, s)
  <1>1. CASE CatalogueBegin(p)
    BY <1>1 DEF CatalogueBegin, CreateTerm, DeactivateBook, BeginUpdate, AddCopy,
                BeginCreate, BeginCustomize, catalogueVars
  <1>2. CASE CatalogueStep(p)
    <2>1. CASE CommitCustomize(p) /\ Rollback(p)
      BY <2>1, CommitOrRollback DEF CommitCustomize, catalogueVars
    <2> QED
      BY <1>2, <2>1 DEF CatalogueStep, LookUp, InsertTerm, CommitCreate, LockBook,
                        WantBook, CommitUpdate, SelectOverride, InsertOverride,
                        catalogueVars
  <1> QED
    BY <1>1, <1>2 DEF CatalogueRequest, OfficeRequest, DeadlockVictim, catalogueVars

\* So is a new one.
LEMMA NewOverrideOK ==
    ASSUME NEW p \in Requests
    PROVE  /\ NewOverride(p) \in OverrideRow
           /\ NewOverride(p).row = p /\ NewOverride(p).terms = Inherit
  <1>1. Inherit \in (SUBSET Terms) \cup {Inherit}
    OBVIOUS
  <1>2. NewOverride(p) = [row |-> p, title |-> Inherit, description |-> Inherit,
                          terms |-> Inherit]
    BY DEF NewOverride
  <1>3. NewOverride(p) \in OverrideRow
    BY <1>1, <1>2 DEF OverrideRow
  <1> QED
    BY <1>2, <1>3

\* The row that is saved is one of a customization, whose references are there.
LEMMA SavedOK ==
    ASSUME OfficeInv, CustomInv, NEW p \in Requests, CommitCustomize(p), ~Rollback(p)
    PROVE  /\ SavedRow(p) \in OverrideRow
           /\ SavedRow(p).row = p \/ Over(SavedRow(p).row)
           /\ SavedRow(p).terms # Inherit => SavedRow(p).terms \subseteq Present'
  <1> DEFINE r == req[p]
             old == overrides[r.school, r.book]
             current == IF old = None THEN NewOverride(p) ELSE old
             held == Held(r, current)
  <1>1. /\ p \in InFlight /\ r.op = "customize"
        /\ r.replaces => r.names \subseteq Present'
        /\ terms' = WithOwnTerms(p)
    BY CustomizationSaved
  <1>2. /\ r.school \in Schools /\ r.book \in Books
        /\ r.title \in Titles \cup {Keep} /\ r.description \in {Keep, None}
    BY <1>1 DEF CustomInv, Customizing, Asked
  <1>3. /\ old # None => /\ old \in OverrideRow /\ Over(old.row)
                         /\ old.terms # Inherit => old.terms \subseteq Present
    BY <1>2 DEF CustomInv, OverrideRows
  <1>4. /\ current \in OverrideRow
        /\ current.row = p \/ Over(current.row)
        /\ current.terms # Inherit => current.terms \subseteq Present
    <2>1. CASE old = None
      BY <2>1, NewOverrideOK
    <2>2. CASE old # None
      BY <1>3, <2>2
    <2> QED
      BY <2>1, <2>2
  <1>5. r.names \in SUBSET Terms
    BY <1>1 DEF CustomInv, Gathering, Gathered
  <1>6. Present \subseteq Present'
    BY <1>1, OwnTermsGrow, PresentGrows
  <1> HIDE DEF current
  <1>7. /\ Written(r.title, held.title, current.title) \in Titles \cup {Inherit}
        /\ Written(r.description, held.description, current.description)
             \in {None, Inherit}
    BY <1>2, <1>4 DEF Written, OverrideRow
  <1>8. SavedRow(p) = [row |-> current.row,
           title |-> Written(r.title, held.title, current.title),
           description |-> Written(r.description, held.description, current.description),
           terms |-> IF r.replaces THEN r.names ELSE current.terms]
    BY DEF SavedRow, current
  <1> HIDE DEF held
  <1>9. /\ current.row \in Requests \cup {Earlier}
        /\ current.terms \in (SUBSET Terms) \cup {Inherit}
    BY <1>4 DEF OverrideRow
  <1>10. SavedRow(p) \in OverrideRow
    BY <1>5, <1>7, <1>8, <1>9 DEF OverrideRow
  <1> QED
    BY <1>1, <1>4, <1>6, <1>8, <1>10

\* A customization that is taken over as it was, with the terms there were.
LEMMA OverrideCarried ==
    ASSUME NEW p \in Requests, OfficeInv, Moves(p), Present \subseteq Present',
           NEW sb, overrides'[sb] = overrides[sb],
           /\ overrides[sb] \in OverrideRow
           /\ Over(overrides[sb].row)
           /\ overrides[sb].terms # Inherit => overrides[sb].terms \subseteq Present
    PROVE  /\ overrides'[sb] \in OverrideRow
           /\ Over(overrides[sb].row)'
           /\ overrides'[sb].terms # Inherit => overrides'[sb].terms \subseteq Present'
  <1>1. \A x : Over(x) => Over(x)'
    BY OverStays DEF OfficeInv
  <1>2. \A x : x = overrides'[sb].row /\ Over(x)' => Over(overrides[sb].row)'
    BY DEF Over
  <1> QED
    BY <1>1, <1>2

\* The customizations.
LEMMA OverrideRowsKept ==
    ASSUME OfficeInv, CustomInv, NEW p \in Requests,
           \/ CatalogueRequest(p) \/ OfficeRequest(p) \/ DeadlockVictim(p)
           \/ \E s \in Schools : DeleteSchool(p, s)
    PROVE  OverrideRows'
  <1> DEFINE Fine(sb) == overrides[sb] # None =>
               /\ overrides[sb] \in OverrideRow
               /\ Over(overrides[sb].row)
               /\ overrides[sb].terms # Inherit => overrides[sb].terms \subseteq Present
  <1>1. Moves(p)
    BY OfficeInductive
  <1>2. /\ \A x : Over(x) => Over(x)'
        /\ Answered(p) => Over(p)'
    BY <1>1, OverStays DEF OfficeInv
  <1>3. /\ overrides = [sb \in Schools \X Books |-> overrides[sb]]
        /\ \A sb \in Schools \X Books : Fine(sb)
    BY DEF CustomInv, OverrideRows
  <1>4. SUFFICES /\ overrides' = [sb \in Schools \X Books |-> overrides'[sb]]
                 /\ \A sb \in Schools \X Books : Fine(sb)'
    BY DEF OverrideRows
  <1>5. ASSUME Present \subseteq Present', NEW sb \in Schools \X Books,
               overrides'[sb] \in {None, overrides[sb]}
        PROVE  Fine(sb)'
    <2>1. CASE overrides'[sb] = None
      BY <2>1
    <2>2. CASE overrides'[sb] # None
      <3>1. overrides'[sb] = overrides[sb] /\ overrides[sb] # None
        BY <1>5, <2>2
      <3> QED
        BY <1>1, <1>3, <1>5, <3>1, OverrideCarried
    <2> QED
      BY <2>1, <2>2
  <1>6. CASE \E g \in Terms : DeleteTerm(p, g)
    <2>1. PICK g \in Terms : DeleteTerm(p, g)
      BY <1>6
    <2>2. /\ terms' = [terms EXCEPT ![g] = None]
          /\ overrides' = [sb \in Schools \X Books |->
               IF overrides[sb] = None \/ overrides[sb].terms = Inherit
               THEN overrides[sb]
               ELSE [overrides[sb] EXCEPT !.terms = @ \ {g}]]
      BY <2>1 DEF DeleteTerm
    <2>3. Present' = Present \ {g}
      BY <2>2 DEF CustomInv, TermRows, Present
    <2>4. ASSUME NEW sb \in Schools \X Books
          PROVE  Fine(sb)'
      <3>1. CASE overrides[sb] = None
        BY <2>2, <3>1
      <3>2. CASE overrides[sb] # None /\ overrides[sb].terms = Inherit
        <4>1. overrides'[sb] = overrides[sb]
          BY <2>2, <3>2
        <4>2. \A x : x = overrides'[sb].row /\ Over(x)' => Over(overrides[sb].row)'
          BY DEF Over
        <4> QED
          BY <1>2, <1>3, <3>2, <4>1, <4>2
      <3>3. CASE overrides[sb] # None /\ overrides[sb].terms # Inherit
        <4> DEFINE o == overrides[sb]
        <4>1. /\ o \in OverrideRow /\ Over(o.row) /\ o.terms \subseteq Present
          BY <1>3, <3>3
        <4>2. overrides'[sb] = [o EXCEPT !.terms = @ \ {g}]
          BY <2>2, <3>3
        <4> HIDE DEF o
        <4>3. o.terms \ {g} \in (SUBSET Terms) \cup {Inherit}
          BY <4>1 DEF Present
        <4>4. /\ overrides'[sb] \in OverrideRow /\ overrides'[sb].row = o.row
              /\ overrides'[sb].terms = o.terms \ {g}
          BY <4>1, <4>2, <4>3 DEF OverrideRow
        <4>5. \A x : x = overrides'[sb].row /\ Over(x)' => Over(overrides[sb].row)'
          BY DEF Over
        <4> QED
          BY <1>2, <2>3, <4>1, <4>4, <4>5
      <3> QED
        BY <3>1, <3>2, <3>3
    <2>5. overrides' = [sb \in Schools \X Books |-> overrides'[sb]]
      BY <2>2
    <2> QED
      BY <2>4, <2>5
  <1>7. CASE ~\E g \in Terms : DeleteTerm(p, g)
    <2>1. Present \subseteq Present'
      BY <1>7, TermsChange, PresentGrows
    <2>2. CASE UNCHANGED overrides
      BY <1>3, <1>5, <2>1, <2>2
    <2>3. CASE CommitCustomize(p) /\ ~Rollback(p)
      <3>1. PICK here :
              overrides' = [overrides EXCEPT ![here] = SavedRow(p)] /\ Answered(p)
        BY <2>3, CustomizationSaved, AnswerMoves DEF OfficeInv
      <3>2. /\ SavedRow(p) \in OverrideRow
            /\ SavedRow(p).row = p \/ Over(SavedRow(p).row)
            /\ SavedRow(p).terms # Inherit => SavedRow(p).terms \subseteq Present'
        BY <2>3, SavedOK
      <3>3. \A sb \in Schools \X Books : sb # here => Fine(sb)'
        BY <1>3, <1>5, <2>1, <3>1
      <3>4. ASSUME here \in Schools \X Books
            PROVE  Fine(here)'
        <4>1. overrides'[here] = SavedRow(p)
          BY <1>3, <3>1, <3>4
        <4>2. \A x : x = overrides'[here].row /\ Over(x)' => Over(overrides[here].row)'
          BY DEF Over
        <4> QED
          BY <1>2, <3>1, <3>2, <4>1, <4>2
      <3> QED
        BY <1>3, <3>1, <3>3, <3>4
    <2>4. CASE \E s \in Schools, b \in Books : RestoreBook(p, s, b)
      <3>1. PICK s \in Schools, b \in Books : RestoreBook(p, s, b)
        BY <2>4
      <3>2. overrides' = [overrides EXCEPT ![<<s, b>>] = None]
        BY <3>1 DEF RestoreBook
      <3>3. /\ \A sb \in Schools \X Books : overrides'[sb] \in {None, overrides[sb]}
            /\ overrides' = [sb \in Schools \X Books |-> overrides'[sb]]
        BY <1>3, <3>2
      <3> QED
        BY <1>5, <2>1, <3>3
    <2>5. CASE \E s \in Schools : DeleteSchool(p, s)
      <3>1. PICK s \in Schools : DeleteSchool(p, s)
        BY <2>5
      <3>2. CASE UNCHANGED overrides
        BY <1>3, <1>5, <2>1, <3>2
      <3>3. CASE ~UNCHANGED overrides
        <4>1. PICK gone : overrides' = [sb \in Schools \X Books |->
                IF sb[1] = s \/ sb[2] \in gone THEN None ELSE overrides[sb]]
          BY <3>1, <3>3 DEF DeleteSchool, catalogueVars
        <4>2. /\ \A sb \in Schools \X Books : overrides'[sb] \in {None, overrides[sb]}
              /\ overrides' = [sb \in Schools \X Books |-> overrides'[sb]]
          BY <4>1
        <4> QED
          BY <1>5, <2>1, <4>2
      <3> QED
        BY <3>2, <3>3
    <2> QED
      BY <1>7, <2>2, <2>3, <2>4, <2>5, OverridesChange DEF OfficeInv
  <1> QED
    BY <1>6, <1>7

-----------------------------------------------------------------------------
(* Customizations: the requests.                                           *)

\* Who stands still keeps what it has gathered.
LEMMA GatheredStands ==
    ASSUME OfficeInv, NEW p \in Requests, Moves(p), NEW q \in Requests \ {p}, Gathered(q)
    PROVE  Gathered(q)'
  <1>1. req'[q] = req[q] /\ \A x : Over(x) => Over(x)'
    BY MovesKeep, OverStays DEF OfficeInv
  <1>2. \A row \in req'[q].got :
          /\ row[1] \in req'[q].names /\ row = <<row[1], row[2]>>
          /\ IF row[2] = q THEN TermKey(row[1]) \in req'[q].holds ELSE Over(row[2])'
    BY <1>1 DEF Gathered
  <1> QED
    BY <1>1, <1>2 DEF Gathered

\* One that begins has gathered nothing.
LEMMA GatheringBegins ==
    ASSUME OfficeInv, NEW p \in Requests, CatalogueBegin(p), ~Answered(p)
    PROVE  Gathered(p)'
  <1>1. ~Commit(p) /\ ~Rollback(p) /\ ~Set(p, [Ended("done") EXCEPT !.op = "restore"])
    BY SetRow DEF OfficeInv, Answered, Commit, Rollback
  <1>2. ASSUME {"names", "got"} \subseteq DOMAIN req'[p], req'[p].names \in SUBSET Terms,
               req'[p].got = {}, req'[p].pc # "insert term"
        PROVE  Gathered(p)'
    BY <1>2 DEF Gathered
  <1>3. ASSUME NEW b, NEW title, NEW names \in (SUBSET Terms) \cup {Keep},
               BeginUpdate(p, b, title, names)
        PROVE  Gathered(p)'
    BY <1>2, <1>3 DEF BeginUpdate, Set, OfficeInv, Shape
  <1>4. ASSUME NEW s, NEW b, NEW title, NEW names \in SUBSET Terms,
               BeginCreate(p, s, b, title, names)
        PROVE  Gathered(p)'
    BY <1>2, <1>4 DEF BeginCreate, Set, OfficeInv, Shape
  <1>5. ASSUME NEW s, NEW b, NEW title, NEW description,
               NEW names \in (SUBSET Terms) \cup {Keep},
               BeginCustomize(p, s, b, title, description, names)
        PROVE  Gathered(p)'
    BY <1>2, <1>5 DEF BeginCustomize, Set, OfficeInv, Shape
  <1> QED
    BY <1>1, <1>3, <1>4, <1>5 DEF CatalogueBegin, CreateTerm, DeleteTerm, DeactivateBook,
       AddCopy, RestoreBook

\* A request that gathers the rows of its names finds or inserts one after the other.
LEMMA GatheringGoesOn ==
    ASSUME OfficeInv, CustomInv, NEW p \in Requests, CatalogueStep(p), ~Answered(p),
           Moves(p)
    PROVE  Gathered(p)'
  <1> DEFINE r == req[p]
  <1>1. \A x : Over(x) => Over(x)' /\ x # p
    BY OverStays DEF OfficeInv
  <1>2. /\ {"op", "pc", "holds", "wants"} \subseteq DOMAIN r
        /\ r.pc \notin {"new", "done", "failed"} => <<r.op, r.pc>> \in Stages
    BY DEF OfficeInv, Shape, RowOK
  <1>3. ~Commit(p) /\ ~Rollback(p)
    BY SetRow DEF OfficeInv, Answered, Commit, Rollback
  <1>4. Gathered(p)
    <2>1. p \in InFlight /\ r.op \in {"create", "update", "customize"}
      BY <1>2, <1>3 DEF CatalogueStep, LookUp, InsertTerm, CommitCreate, LockBook,
                  WantBook, CommitUpdate, SelectOverride, InsertOverride, CommitCustomize,
                  Resolved, Resolving, At, InFlight, Stages
    <2> QED
      BY <2>1 DEF CustomInv, Gathering
  <1>5. ASSUME DOMAIN req'[p] = DOMAIN r, req'[p].names = r.names,
               req'[p].pc = "insert term" =>
                 \E g \in r.names : req'[p].wants = TermKey(g),
               \A row \in req'[p].got :
                 /\ row[1] \in r.names /\ row = <<row[1], row[2]>>
                 /\ IF row[2] = p THEN TermKey(row[1]) \in req'[p].holds ELSE Over(row[2])
        PROVE  Gathered(p)'
    <2>1. \A row \in req'[p].got :
            /\ row[1] \in req'[p].names /\ row = <<row[1], row[2]>>
            /\ IF row[2] = p THEN TermKey(row[1]) \in req'[p].holds ELSE Over(row[2])'
      BY <1>1, <1>5
    <2> QED
      BY <1>4, <1>5, <2>1 DEF Gathered
  <1>6. ASSUME NEW g \in Terms, LookUp(p, g)
        PROVE  Gathered(p)'
    <2>1. r.pc = "terms" /\ g \in r.names
      BY <1>6 DEF LookUp, Resolving, Unresolved
    <2>2. CASE g \in Present
      <3>1. req'[p] = [r EXCEPT !.got = @ \cup {<<g, terms[g]>>}]
        BY <1>6, <2>2 DEF LookUp, RowsOf, Set, OfficeInv, Shape
      <3>2. /\ DOMAIN req'[p] = DOMAIN r /\ req'[p].names = r.names /\ req'[p].pc = r.pc
            /\ req'[p].holds = r.holds /\ req'[p].got = r.got \cup {<<g, terms[g]>>}
        BY <1>2, <1>4, <3>1 DEF Gathered
      <3>3. Over(terms[g]) /\ terms[g] # p
        BY <1>1, <2>2 DEF CustomInv, TermRows
      <3> QED
        BY <1>4, <1>5, <2>1, <3>2, <3>3 DEF Gathered
    <2>3. CASE g \notin Present
      <3>1. req'[p] = [r EXCEPT !.pc = "insert term", !.wants = TermKey(g)]
        BY <1>6, <2>3 DEF LookUp, Set, OfficeInv, Shape
      <3>2. /\ DOMAIN req'[p] = DOMAIN r /\ req'[p].names = r.names
            /\ req'[p].wants = TermKey(g)
            /\ req'[p].holds = r.holds /\ req'[p].got = r.got
        BY <1>2, <1>4, <3>1 DEF Gathered
      <3> QED
        BY <1>4, <1>5, <2>1, <3>2 DEF Gathered
    <2> QED
      BY <2>2, <2>3
  <1>7. CASE InsertTerm(p)
    <2>1. /\ r.pc = "insert term"
          /\ req'[p] = [r EXCEPT !.pc = "terms", !.wants = None,
                                 !.got = @ \cup {<<r.wants[2], p>>},
                                 !.holds = @ \cup {TermKey(r.wants[2])}]
      BY <1>3, <1>7 DEF InsertTerm, Set, OfficeInv, Shape
    <2>2. PICK g \in r.names : r.wants = TermKey(g)
      BY <1>4, <2>1 DEF Gathered
    <2>3. TermKey(g)[2] = g
      BY DEF TermKey
    <2>4. req'[p] = [r EXCEPT !.pc = "terms", !.wants = None, !.got = @ \cup {<<g, p>>},
                              !.holds = @ \cup {TermKey(g)}]
      BY <2>1, <2>2, <2>3
    <2>5. /\ DOMAIN req'[p] = DOMAIN r /\ req'[p].names = r.names /\ req'[p].pc = "terms"
          /\ req'[p].holds = r.holds \cup {TermKey(g)}
          /\ req'[p].got = r.got \cup {<<g, p>>}
      BY <1>2, <1>4, <2>4 DEF Gathered
    <2>6. ASSUME NEW row \in req'[p].got
          PROVE  /\ row[1] \in r.names /\ row = <<row[1], row[2]>>
                 /\ IF row[2] = p THEN TermKey(row[1]) \in req'[p].holds ELSE Over(row[2])
      <3>1. CASE row \in r.got
        BY <1>4, <2>5, <3>1 DEF Gathered
      <3>2. CASE row = <<g, p>>
        BY <2>5, <3>2
      <3> QED
        BY <2>5, <3>1, <3>2
    <2> QED
      BY <1>5, <2>5, <2>6
  <1>8. CASE LockBook(p)
    <2>1. req'[p] = [r EXCEPT !.pc = "terms", !.wants = None,
                              !.holds = @ \cup {BookKey(r.book)}]
      BY <1>8 DEF LockBook, Set, OfficeInv, Shape
    <2>2. /\ DOMAIN req'[p] = DOMAIN r /\ req'[p].names = r.names /\ req'[p].pc = "terms"
          /\ req'[p].holds = r.holds \cup {BookKey(r.book)} /\ req'[p].got = r.got
      BY <1>2, <1>4, <2>1 DEF Gathered
    <2> QED
      BY <1>4, <1>5, <2>2 DEF Gathered
  <1>9. CASE WantBook(p)
    <2>1. r.pc = "terms" /\ req'[p] = [r EXCEPT !.wants = BookKey(r.book)]
      BY <1>9 DEF WantBook, Resolved, Resolving, Set, OfficeInv, Shape
    <2>2. /\ DOMAIN req'[p] = DOMAIN r /\ req'[p].names = r.names /\ req'[p].pc = "terms"
          /\ req'[p].holds = r.holds /\ req'[p].got = r.got
      BY <1>2, <1>4, <2>1 DEF Gathered
    <2> QED
      BY <1>4, <1>5, <2>2 DEF Gathered
  <1>10. ASSUME \/ \E key : req'[p] = [r EXCEPT !.pc = "insert override", !.wants = key]
                \/ \E key, seen :
                     req'[p] = [r EXCEPT !.pc = "terms", !.holds = {key}, !.seen = seen]
                \/ \E key :
                     req'[p] = [r EXCEPT !.pc = "terms", !.holds = {key}, !.wants = None],
                r.got = {}
         PROVE  Gathered(p)'
    <2>1. /\ DOMAIN req'[p] = DOMAIN r /\ req'[p].names = r.names
          /\ req'[p].pc # "insert term" /\ req'[p].got = {}
      BY <1>2, <1>4, <1>10 DEF Gathered
    <2> QED
      BY <1>5, <2>1
  <1>11. CASE SelectOverride(p)
    <2>1. r.got = {}
      BY <1>11 DEF SelectOverride, At, InFlight, CustomInv, Customizing, Asked
    <2>2. \/ req'[p] = [r EXCEPT !.pc = "insert override",
                                 !.wants = OverrideKey(r.school, r.book)]
          \/ req'[p] = [r EXCEPT !.pc = "terms",
                          !.holds = {OverrideKey(r.school, r.book)},
                          !.seen = RowsOf(OverrideTerms(overrides[r.school, r.book]))]
      BY <1>11 DEF SelectOverride, Set, OfficeInv, Shape
    <2> QED
      BY <1>10, <2>1, <2>2
  <1>12. CASE InsertOverride(p)
    <2>1. r.got = {}
      BY <1>12 DEF InsertOverride, At, InFlight, CustomInv, Customizing, Asked
    <2>2. req'[p] = [r EXCEPT !.pc = "terms", !.holds = {r.wants}, !.wants = None]
      BY <1>3, <1>12 DEF InsertOverride, Set, OfficeInv, Shape
    <2> QED
      BY <1>10, <2>1, <2>2
  <1> QED
    BY <1>3, <1>6, <1>7, <1>8, <1>9, <1>11, <1>12
       DEF CatalogueStep, CommitCreate, CommitUpdate, CommitCustomize

\* What is gathered.
LEMMA GatheringKept ==
    ASSUME OfficeInv, CustomInv, NEW p \in Requests,
           \/ CatalogueRequest(p) \/ OfficeRequest(p) \/ DeadlockVictim(p)
           \/ \E s \in Schools : DeleteSchool(p, s)
    PROVE  Gathering'
  <1> SUFFICES ASSUME NEW q \in Requests, q \in InFlight',
                      req'[q].op \in {"create", "update", "customize"}
               PROVE  Gathered(q)'
    BY DEF Gathering
  <1>1. Moves(p)
    BY OfficeInductive
  <1>2. CASE q # p
    <2>1. q \in InFlight /\ req[q].op \in {"create", "update", "customize"}
      BY <1>1, <1>2, MovesKeep DEF OfficeInv, InFlight
    <2> QED
      BY <1>1, <1>2, <2>1, GatheredStands DEF CustomInv, Gathering
  <1>3. CASE q = p
    <2>1. ~Answered(p)
      BY <1>3 DEF Answered, InFlight, Ended, NewRequest
    <2>2. CatalogueRequest(p)
      <3>1. ~OfficeRequest(p)
        BY <1>3, <2>1, OfficeBegins, OfficeSteps DEF OfficeRequest, OfficeInv, AccountKeys
      <3>2. ~DeadlockVictim(p) /\ \A s \in Schools : ~DeleteSchool(p, s)
        BY <1>1, <2>1, AnswerMoves DEF DeadlockVictim, DeleteSchool, OfficeInv, Moves
      <3> QED
        BY <3>1, <3>2
    <2> QED
      BY <1>1, <1>3, <2>1, <2>2, GatheringBegins, GatheringGoesOn DEF CatalogueRequest
  <1> QED
    BY <1>2, <1>3

\* Nobody changes a customization whose key q holds, but for a deletion of terms.
LEMMA OverrideStands ==
    ASSUME OfficeInv, CustomInv, NEW p \in Requests,
           \/ CatalogueRequest(p) \/ OfficeRequest(p) \/ DeadlockVictim(p)
           \/ \E s \in Schools : DeleteSchool(p, s),
           NEW q \in Requests \ {p}, q \in InFlight,
           NEW s \in Schools, NEW b \in Books, OverrideKey(s, b) \in req[q].holds,
           ~\E g \in Terms : DeleteTerm(p, g)
    PROVE  overrides'[<<s, b>>] = overrides[<<s, b>>]
  <1>1. CASE CommitCustomize(p) /\ ~Rollback(p)
    <2>1. PICK t, c : t = req[p].school /\ c = req[p].book
      OBVIOUS
    <2>2. /\ overrides' = [overrides EXCEPT ![<<t, c>>] = SavedRow(p)]
          /\ OverrideKey(t, c) \in req[p].holds
      BY <1>1, <2>1, CustomizationSaved DEF CustomInv, Customizing, Asked
    <2>3. OverrideKey(t, c) \notin req[q].holds
      BY <2>2 DEF OfficeInv, Exclusive
    <2>4. <<t, c>> # <<s, b>>
      BY <2>3 DEF OverrideKey
    <2> QED
      BY <2>2, <2>4 DEF CustomInv, OverrideRows
  <1>2. ASSUME NEW t \in Schools, NEW c \in Books, RestoreBook(p, t, c)
        PROVE  overrides'[<<s, b>>] = overrides[<<s, b>>]
    <2>1. /\ overrides' = [overrides EXCEPT ![<<t, c>>] = None]
          /\ OverrideKey(t, c) \notin req[q].holds
      BY <1>2 DEF RestoreBook, FreeOfAll
    <2>2. <<t, c>> # <<s, b>>
      BY <2>1 DEF OverrideKey
    <2> QED
      BY <2>1, <2>2 DEF CustomInv, OverrideRows
  <1>3. \A t \in Schools : ~DeleteSchool(p, t)
    BY DEF DeleteSchool
  <1> QED
    BY <1>1, <1>2, <1>3, OverridesChange DEF OfficeInv

\* What was read under the lock of a customization stays true of it, while terms come and
\* go.
LEMMA ReferencesStand ==
    ASSUME OfficeInv, CustomInv, NEW p \in Requests, Moves(p),
           \/ UNCHANGED terms \/ TermsGrow(p) \/ \E g \in Terms : DeleteTerm(p, g),
           NEW q \in Requests, References(q),
           NEW s \in Schools, NEW b \in Books, s = req[q].school, b = req[q].book,
           req'[q].school = s, req'[q].book = b, req'[q].seen = req[q].seen,
           ~(\E g \in Terms : DeleteTerm(p, g))
              => overrides'[<<s, b>>] = overrides[<<s, b>>]
    PROVE  References(q)'
  <1>1. PICK sb : sb = <<s, b>> /\ sb \in Schools \X Books
    OBVIOUS
  <1>2. /\ RowsOf(Slugs(sb)) \subseteq req[q].seen
        /\ \A row \in req[q].seen :
             /\ row[1] \in Terms /\ row = <<row[1], row[2]>> /\ Over(row[2])
             /\ terms[row[1]] = row[2] => row[1] \in Slugs(sb)
    BY <1>1 DEF References
  <1>3. /\ \A x : Over(x) => Over(x)'
        /\ \A x : Over(x) => x # p /\ x # None
    BY OverStays DEF OfficeInv, Over
  <1>4. Slugs(sb) \subseteq Present
    BY <1>1 DEF CustomInv, OverrideRows, Slugs, OverrideTerms
  <1>5. SUFFICES /\ RowsOf(Slugs(sb))' \subseteq req[q].seen
                 /\ \A row \in req[q].seen :
                      terms'[row[1]] = row[2] => row[1] \in Slugs(sb)'
    BY <1>1, <1>2, <1>3, <1>5 DEF References
  <1>6. CASE (UNCHANGED terms \/ TermsGrow(p)) /\ overrides'[sb] = overrides[sb]
    <2>1. Slugs(sb)' = Slugs(sb)
      BY <1>6 DEF Slugs
    <2>2. \A g \in Slugs(sb) : terms'[g] = terms[g]
      BY <1>4, <1>6 DEF TermsGrow, Present
    <2>3. RowsOf(Slugs(sb))' = RowsOf(Slugs(sb))
      BY <2>1, <2>2 DEF RowsOf
    <2>4. \A row \in req[q].seen : terms'[row[1]] = row[2] => terms[row[1]] = row[2]
      BY <1>2, <1>3, <1>6 DEF TermsGrow
    <2> QED
      BY <1>2, <2>1, <2>3, <2>4
  <1>7. ASSUME NEW g \in Terms, DeleteTerm(p, g)
        PROVE  /\ RowsOf(Slugs(sb))' \subseteq req[q].seen
               /\ \A row \in req[q].seen :
                    terms'[row[1]] = row[2] => row[1] \in Slugs(sb)'
    <2>1. /\ terms' = [terms EXCEPT ![g] = None]
          /\ overrides'[sb] = IF overrides[sb] = None \/ overrides[sb].terms = Inherit
                              THEN overrides[sb]
                              ELSE [overrides[sb] EXCEPT !.terms = @ \ {g}]
      BY <1>1, <1>7 DEF DeleteTerm
    <2>2. Slugs(sb)' = Slugs(sb) \ {g}
      <3>1. CASE overrides[sb] = None \/ overrides[sb].terms = Inherit
        BY <2>1, <3>1 DEF Slugs, OverrideTerms
      <3>2. CASE overrides[sb] # None /\ overrides[sb].terms # Inherit
        <4> DEFINE o == overrides[sb]
        <4>1. /\ o \in OverrideRow /\ o.terms \subseteq Present
              /\ Slugs(sb) = o.terms
          BY <1>1, <3>2 DEF CustomInv, OverrideRows, Slugs, OverrideTerms
        <4>2. overrides'[sb] = [o EXCEPT !.terms = @ \ {g}]
          BY <2>1, <3>2
        <4> HIDE DEF o
        <4>3. /\ o.terms \ {g} \in SUBSET Terms
              /\ o.terms \ {g} \in (SUBSET Terms) \cup {Inherit}
          BY <4>1 DEF Present
        <4>4. overrides'[sb] \in OverrideRow /\ overrides'[sb].terms = o.terms \ {g}
          BY <4>1, <4>2, <4>3 DEF OverrideRow
        <4>5. overrides'[sb] # None /\ overrides'[sb].terms # Inherit
          BY <4>3, <4>4, AdministrationAssumption, CatalogueAssumption
        <4> QED
          BY <4>1, <4>4, <4>5 DEF Slugs, OverrideTerms
      <3> QED
        BY <3>1, <3>2
    <2>3. \A h \in Slugs(sb) \ {g} : terms'[h] = terms[h]
      BY <1>4, <2>1 DEF Present, CustomInv, TermRows
    <2>4. RowsOf(Slugs(sb))' \subseteq RowsOf(Slugs(sb))
      BY <2>2, <2>3 DEF RowsOf
    <2>5. \A row \in req[q].seen :
            terms'[row[1]] = row[2] => terms[row[1]] = row[2] /\ row[1] # g
      BY <1>2, <1>3, <2>1 DEF CustomInv, TermRows
    <2> QED
      BY <1>2, <2>2, <2>4, <2>5
  <1> QED
    BY <1>1, <1>6, <1>7

\* What one that begins to customize has been asked and has loaded.
LEMMA CustomizingBegins ==
    ASSUME OfficeInv, CustomInv, NEW p \in Requests, Moves(p),
           NEW s \in Schools, NEW b \in Books, NEW title \in Titles \cup {Keep},
           NEW description \in {Keep, None}, NEW names \in (SUBSET Terms) \cup {Keep},
           BeginCustomize(p, s, b, title, description, names)
    PROVE  /\ Asked(req'[p])
           /\ req'[p].loaded # None => Over(req[p].loaded.row)'
           /\ req'[p].pc = "select"
  <1>2. overrides[s, b] # None => /\ overrides[s, b] \in OverrideRow
                                  /\ Over(overrides[s, b].row)
    BY DEF CustomInv, OverrideRows
  <1>3. PICK old : old = overrides[s, b]
    OBVIOUS
  <1>4. old # None => Over(old.row)'
    BY <1>2, <1>3, OverStays DEF OfficeInv
  <1>5. /\ req'[p].loaded = old /\ req'[p].pc = "select"
        /\ req'[p].school = s /\ req'[p].book = b /\ req'[p].title = title
        /\ req'[p].description = description
        /\ req'[p].got = {} /\ req'[p].seen = {}
        /\ {"school", "book", "title", "description", "replaces", "names", "got",
            "loaded", "seen"} \subseteq DOMAIN req'[p]
    <2>1. req'[p] =
            [op |-> "customize", pc |-> "select", holds |-> {}, wants |-> None,
             school |-> s, book |-> b, title |-> title,
             description |-> description, replaces |-> names # Keep,
             names |-> IF names = Keep THEN {} ELSE names, got |-> {},
             loaded |-> old, seen |-> {}]
      BY <1>3 DEF BeginCustomize, Set, OfficeInv, Shape
    <2> QED
      BY <2>1
  <1>6. \A x : x = req'[p].loaded.row /\ Over(x)' => Over(req[p].loaded.row)'
    BY DEF Over
  <1>7. Asked(req'[p])
    BY <1>2, <1>3, <1>5 DEF Asked
  <1> QED
    BY <1>4, <1>5, <1>6, <1>7

\* What is read under the lock is what there is.
LEMMA FreshReferences ==
    ASSUME OfficeInv, CustomInv, NEW p \in Requests, Moves(p), UNCHANGED catalogueVars,
           NEW s \in Schools, NEW b \in Books, req'[p].school = s, req'[p].book = b,
           req'[p].seen = RowsOf(Slugs(<<s, b>>))
    PROVE  References(p)'
  <1>1. PICK slugs : slugs = Slugs(<<s, b>>)
    OBVIOUS
  <1>2. slugs \subseteq Present
    BY <1>1 DEF CustomInv, OverrideRows, Slugs, OverrideTerms
  <1>3. Slugs(<<s, b>>)' = slugs /\ RowsOf(slugs)' = RowsOf(slugs)
    BY <1>1 DEF Slugs, RowsOf, catalogueVars
  <1>4. \A row \in RowsOf(slugs) :
          /\ row[1] \in slugs /\ row[1] \in Terms /\ row = <<row[1], row[2]>>
          /\ row[2] = terms[row[1]]
    BY <1>2 DEF RowsOf, Present
  <1>5. \A row \in RowsOf(slugs) : Over(row[2])'
    BY <1>2, <1>4, OverStays DEF CustomInv, TermRows, OfficeInv
  <1>6. RowsOf(Slugs(<<s, b>>))' = RowsOf(slugs)
    BY <1>3 DEF RowsOf
  <1> QED
    BY <1>1, <1>3, <1>4, <1>5, <1>6 DEF References

\* The request is for the same.
Same(new, old) ==
    /\ new.school = old.school /\ new.book = old.book /\ new.title = old.title
    /\ new.description = old.description /\ new.replaces = old.replaces
    /\ new.names = old.names /\ new.loaded = old.loaded

\* What one that customizes keeps of them in a step of its own.
LEMMA CustomizingGoesOn ==
    ASSUME OfficeInv, CustomInv, NEW p \in Requests, Moves(p), CatalogueStep(p),
           ~Answered(p), req[p].op = "customize"
    PROVE  /\ Asked(req'[p]) /\ req'[p].loaded = req[p].loaded
           /\ req'[p].pc \in {"terms", "insert term"} => References(p)'
  <1> DEFINE r == req[p]
  <1>1. ~Commit(p) /\ ~Rollback(p)
    BY SetRow DEF OfficeInv, Answered, Commit, Rollback
  <1>2. /\ {"op", "pc", "holds", "wants"} \subseteq DOMAIN r
        /\ r.pc \notin {"new", "done", "failed"} => <<r.op, r.pc>> \in Stages
    BY DEF OfficeInv, Shape, RowOK
  <1>3. p \in InFlight /\ UNCHANGED catalogueVars
    BY <1>1 DEF CatalogueStep, LookUp, InsertTerm, CommitCreate, LockBook, WantBook,
                CommitUpdate, SelectOverride, InsertOverride, CommitCustomize,
                Resolved, Resolving, At, InFlight
  <1>4. Asked(r) /\ (r.pc \in {"terms", "insert term"} => References(p))
    BY <1>3 DEF CustomInv, Customizing
  <1>5. ASSUME DOMAIN req'[p] = DOMAIN r,
               Same(req'[p], r) /\ req'[p].seen = r.seen,
               r.pc \in {"terms", "insert term"}, req'[p].pc \in {"terms", "insert term"},
               r.holds \subseteq req'[p].holds
        PROVE  /\ Asked(req'[p]) /\ req'[p].loaded = r.loaded
               /\ req'[p].pc \in {"terms", "insert term"} => References(p)'
    <2>1. Asked(req'[p]) /\ req'[p].loaded = r.loaded
      BY <1>4, <1>5 DEF Asked, Same
    <2>2. /\ r.school \in Schools /\ r.book \in Books
          /\ req'[p].school = r.school /\ req'[p].book = r.book /\ req'[p].seen = r.seen
      BY <1>4, <1>5 DEF Asked, Same
    <2>3. References(p)'
      BY <1>3, <1>4, <1>5, <2>2, ReferencesStand DEF catalogueVars
    <2> QED
      BY <2>1, <2>3
  <1>6. ASSUME NEW g \in Terms, LookUp(p, g)
        PROVE  /\ Asked(req'[p]) /\ req'[p].loaded = r.loaded
               /\ req'[p].pc \in {"terms", "insert term"} => References(p)'
    <2>1. r.pc = "terms"
      BY <1>6 DEF LookUp, Resolving
    <2>2. CASE g \in Present
      <3>1. req'[p] = [r EXCEPT !.got = @ \cup RowsOf({g})]
        BY <1>6, <2>2 DEF LookUp, Set, OfficeInv, Shape
      <3>2. /\ DOMAIN req'[p] = DOMAIN r
            /\ Same(req'[p], r) /\ req'[p].seen = r.seen
            /\ req'[p].pc = r.pc /\ req'[p].holds = r.holds
        BY <1>2, <1>4, <3>1 DEF Asked, Same
      <3> QED
        BY <1>5, <2>1, <3>2
    <2>3. CASE g \notin Present
      <3>1. req'[p] = [r EXCEPT !.pc = "insert term", !.wants = TermKey(g)]
        BY <1>6, <2>3 DEF LookUp, Set, OfficeInv, Shape
      <3>2. /\ DOMAIN req'[p] = DOMAIN r /\ req'[p].pc = "insert term"
            /\ Same(req'[p], r) /\ req'[p].seen = r.seen /\ req'[p].holds = r.holds
        BY <1>2, <1>4, <3>1 DEF Asked, Same
      <3> QED
        BY <1>5, <2>1, <3>2
    <2> QED
      BY <2>2, <2>3
  <1>7. CASE InsertTerm(p)
    <2>1. PICK got, held : /\ r.pc = "insert term" /\ r.holds \subseteq held
            /\ req'[p] = [r EXCEPT !.pc = "terms", !.wants = None, !.got = got,
                                   !.holds = held]
      <3>1. /\ r.pc = "insert term"
            /\ req'[p] = [r EXCEPT !.pc = "terms", !.wants = None,
                                   !.got = r.got \cup {<<r.wants[2], p>>},
                                   !.holds = r.holds \cup {TermKey(r.wants[2])}]
        BY <1>1, <1>7 DEF InsertTerm, Set, OfficeInv, Shape
      <3> QED
        BY <3>1
    <2>2. /\ DOMAIN req'[p] = DOMAIN r /\ req'[p].pc = "terms" /\ req'[p].holds = held
          /\ Same(req'[p], r) /\ req'[p].seen = r.seen
      BY <1>2, <1>4, <2>1 DEF Asked, Same
    <2> QED
      BY <1>5, <2>1, <2>2
  <1>8. CASE SelectOverride(p)
    <2> DEFINE key == OverrideKey(r.school, r.book)
               o == overrides[r.school, r.book]
    <2>1. r.pc = "select" /\ r.got = {} /\ r.seen = {}
      BY <1>4, <1>8 DEF SelectOverride, At, Asked
    <2>2. CASE o = None
      <3>1. req'[p] = [r EXCEPT !.pc = "insert override", !.wants = key]
        BY <1>8, <2>2 DEF SelectOverride, Set, OfficeInv, Shape
      <3> HIDE DEF key
      <3>2. /\ DOMAIN req'[p] = DOMAIN r /\ req'[p].pc = "insert override"
            /\ req'[p].wants = key
            /\ Same(req'[p], r) /\ req'[p].seen = r.seen /\ req'[p].got = r.got
        BY <1>2, <1>4, <3>1 DEF Asked, Same
      <3> QED
        BY <1>4, <2>1, <3>2 DEF Asked, Same, key
    <2>3. CASE o # None
      <3>1. PICK seen : /\ seen = RowsOf(OverrideTerms(o))
              /\ req'[p] = [r EXCEPT !.pc = "terms", !.holds = {key}, !.seen = seen]
        BY <1>8, <2>3 DEF SelectOverride, Set, OfficeInv, Shape
      <3> HIDE DEF key
      <3>2. /\ DOMAIN req'[p] = DOMAIN r /\ req'[p].pc = "terms"
            /\ req'[p].holds = {key} /\ req'[p].seen = seen
            /\ Same(req'[p], r) /\ req'[p].got = r.got
        BY <1>2, <1>4, <3>1 DEF Asked, Same
      <3>3. Asked(req'[p]) /\ req'[p].loaded = r.loaded
        BY <1>4, <3>2 DEF Asked, Same, key
      <3>4. Slugs(<<r.school, r.book>>) = OverrideTerms(o)
        BY <2>3 DEF Slugs
      <3>5. req'[p].seen = RowsOf(Slugs(<<r.school, r.book>>))
        BY <3>1, <3>2, <3>4
      <3>6. /\ r.school \in Schools /\ r.book \in Books
            /\ req'[p].school = r.school /\ req'[p].book = r.book
        BY <1>4, <3>2 DEF Asked, Same
      <3>7. References(p)'
        BY <1>3, <3>5, <3>6, FreshReferences
      <3> QED
        BY <3>3, <3>7
    <2> QED
      BY <2>2, <2>3
  <1>9. CASE InsertOverride(p)
    <2>1. /\ r.pc = "insert override" /\ r.got = {} /\ r.seen = {}
          /\ r.wants = OverrideKey(r.school, r.book)
      BY <1>4, <1>9 DEF InsertOverride, At, Asked
    <2>2. /\ overrides[r.school, r.book] = None
          /\ req'[p] = [r EXCEPT !.pc = "terms", !.holds = {r.wants}, !.wants = None]
      BY <1>1, <1>9 DEF InsertOverride, Set, OfficeInv, Shape
    <2>3. /\ DOMAIN req'[p] = DOMAIN r /\ req'[p].pc = "terms"
          /\ req'[p].holds = {r.wants}
          /\ Same(req'[p], r) /\ req'[p].got = r.got /\ req'[p].seen = r.seen
      BY <1>2, <1>4, <2>2 DEF Asked, Same
    <2>4. Asked(req'[p]) /\ req'[p].loaded = r.loaded
      BY <1>4, <2>1, <2>3 DEF Asked, Same
    <2>5. Slugs(<<r.school, r.book>>) = {}
      BY <2>2 DEF Slugs
    <2>6. RowsOf({}) = {}
      BY DEF RowsOf
    <2>7. References(p)'
      BY <1>3, <1>4, <2>1, <2>3, <2>5, <2>6, FreshReferences DEF Asked, Same
    <2> QED
      BY <2>4, <2>7
  <1>10. ~LockBook(p) /\ ~WantBook(p)
    BY <1>2 DEF LockBook, WantBook, Stages
  <1> QED
    BY <1>1, <1>6, <1>7, <1>8, <1>9, <1>10
       DEF CatalogueStep, CommitCreate, CommitUpdate, CommitCustomize

\* A request on the catalogue that goes on is for the same.
LEMMA StepsKeepOp ==
    ASSUME Shape, NEW p \in Requests, CatalogueStep(p), ~Answered(p)
    PROVE  p \in InFlight /\ req'[p].op = req[p].op
  <1> DEFINE r == req[p]
  <1>1. ~Commit(p) /\ ~Rollback(p)
    BY SetRow DEF Answered, Commit, Rollback
  <1>2. /\ {"op", "pc", "holds", "wants"} \subseteq DOMAIN r
        /\ r.pc \notin {"new", "done", "failed"} => <<r.op, r.pc>> \in Stages
    BY DEF Shape, RowOK
  <1>3. p \in InFlight
    BY <1>1 DEF CatalogueStep, LookUp, InsertTerm, CommitCreate, LockBook, WantBook,
                CommitUpdate, SelectOverride, InsertOverride, CommitCustomize,
                Resolved, Resolving, At, InFlight
  <1>4. ASSUME NEW g \in Terms, LookUp(p, g)
        PROVE  req'[p].op = r.op
    <2>1. \/ req'[p] = [r EXCEPT !.got = @ \cup RowsOf({g})]
          \/ req'[p] = [r EXCEPT !.pc = "insert term", !.wants = TermKey(g)]
      BY <1>4 DEF LookUp, Set, Shape
    <2> QED
      BY <1>2, <2>1
  <1>5. CASE InsertTerm(p)
    <2>1. PICK got, holds :
            req'[p] = [r EXCEPT !.pc = "terms", !.wants = None, !.got = got,
                                !.holds = holds]
      <3>1. req'[p] = [r EXCEPT !.pc = "terms", !.wants = None,
                                !.got = r.got \cup {<<r.wants[2], p>>},
                                !.holds = r.holds \cup {TermKey(r.wants[2])}]
        BY <1>1, <1>5 DEF InsertTerm, Set, Shape
      <3> QED
        BY <3>1
    <2> QED
      BY <1>2, <1>3, <2>1
  <1>6. CASE LockBook(p) \/ WantBook(p)
    <2>1. PICK pc, wants, holds :
            req'[p] = [r EXCEPT !.pc = pc, !.wants = wants, !.holds = holds]
      <3>1. \/ req'[p] = [r EXCEPT !.pc = "terms", !.wants = None,
                                   !.holds = r.holds \cup {BookKey(r.book)}]
            \/ req'[p] = [r EXCEPT !.wants = BookKey(r.book)]
        BY <1>6 DEF LockBook, WantBook, Set, Shape
      <3>2. \/ req'[p] = [r EXCEPT !.pc = "terms", !.wants = None,
                                   !.holds = r.holds \cup {BookKey(r.book)}]
            \/ req'[p] = [r EXCEPT !.pc = r.pc, !.wants = BookKey(r.book),
                                   !.holds = r.holds]
        BY <1>2, <3>1
      <3> QED
        BY <3>2
    <2> QED
      BY <1>2, <1>3, <2>1
  <1>7. CASE SelectOverride(p) \/ InsertOverride(p)
    <2> DEFINE key == OverrideKey(r.school, r.book)
               seen == RowsOf(OverrideTerms(overrides[r.school, r.book]))
    <2>1. \/ req'[p] = [r EXCEPT !.pc = "insert override", !.wants = key]
          \/ req'[p] = [r EXCEPT !.pc = "terms", !.holds = {key}, !.seen = seen]
          \/ req'[p] = [r EXCEPT !.pc = "terms", !.holds = {r.wants}, !.wants = None]
      BY <1>1, <1>7 DEF SelectOverride, InsertOverride, Set, Shape
    <2> HIDE DEF key, seen
    <2> QED
      BY <1>2, <1>3, <2>1
  <1> QED
    BY <1>1, <1>3, <1>4, <1>5, <1>6, <1>7
       DEF CatalogueStep, CommitCreate, CommitUpdate, CommitCustomize

\* What one that customizes has is true of it when it stands still.
LEMMA CustomizingStands ==
    ASSUME OfficeInv, CustomInv, NEW p \in Requests,
           \/ CatalogueRequest(p) \/ OfficeRequest(p) \/ DeadlockVictim(p)
           \/ \E s \in Schools : DeleteSchool(p, s),
           NEW q \in Requests \ {p}, q \in InFlight', req'[q].op = "customize"
    PROVE  /\ Asked(req'[q])
           /\ req'[q].loaded # None => Over(req[q].loaded.row)'
           /\ req'[q].pc \in {"terms", "insert term"} => References(q)'
  <1>1. Moves(p)
    BY OfficeInductive
  <1>2. req'[q] = req[q] /\ q \in InFlight /\ req[q].op = "customize"
    BY <1>1, MovesKeep DEF OfficeInv, InFlight
  <1>3. /\ Asked(req[q])
        /\ req[q].loaded # None => Over(req[q].loaded.row)
        /\ req[q].pc \in {"terms", "insert term"} => References(q)
    BY <1>2 DEF CustomInv, Customizing
  <1>4. req'[q].loaded # None => Over(req[q].loaded.row)'
    <2>1. \A x : Over(x) => Over(x)'
      BY <1>1, OverStays DEF OfficeInv
    <2>2. \A x : x = req'[q].loaded.row /\ Over(x)' => Over(req[q].loaded.row)'
      BY DEF Over
    <2> QED
      BY <1>2, <1>3, <2>1, <2>2
  <1>5. ASSUME req'[q].pc \in {"terms", "insert term"}
        PROVE  References(q)'
    <2>1. PICK s \in Schools, b \in Books : s = req[q].school /\ b = req[q].book
      BY <1>3 DEF Asked
    <2>2. OverrideKey(s, b) \in req[q].holds
      BY <1>2, <1>3, <1>5, <2>1 DEF Asked
    <2>3. ~(\E g \in Terms : DeleteTerm(p, g))
             => overrides'[<<s, b>>] = overrides[<<s, b>>]
      BY <1>2, <2>2, OverrideStands
    <2>4. UNCHANGED terms \/ TermsGrow(p) \/ \E g \in Terms : DeleteTerm(p, g)
      BY TermsChange
    <2> QED
      BY <1>1, <1>2, <1>3, <1>5, <2>1, <2>3, <2>4, ReferencesStand
  <1> QED
    BY <1>2, <1>3, <1>4, <1>5

\* What one that customizes has, after a step of its own.
LEMMA CustomizingMoves ==
    ASSUME OfficeInv, CustomInv, NEW p \in Requests,
           \/ CatalogueRequest(p) \/ OfficeRequest(p) \/ DeadlockVictim(p)
           \/ \E s \in Schools : DeleteSchool(p, s),
           p \in InFlight', req'[p].op = "customize"
    PROVE  /\ Asked(req'[p])
           /\ req'[p].loaded # None => Over(req[p].loaded.row)'
           /\ req'[p].pc \in {"terms", "insert term"} => References(p)'
  <1>1. Moves(p)
    BY OfficeInductive
  <1>2. ~Answered(p)
    BY DEF Answered, InFlight, Ended, NewRequest
  <1>3. CatalogueRequest(p)
    <2>1. ~OfficeRequest(p)
      BY <1>2, OfficeBegins, OfficeSteps DEF OfficeRequest, OfficeInv, AccountKeys
    <2>2. ~DeadlockVictim(p) /\ \A s \in Schools : ~DeleteSchool(p, s)
      BY <1>1, <1>2, AnswerMoves DEF DeadlockVictim, DeleteSchool, OfficeInv, Moves
    <2> QED
      BY <2>1, <2>2
  <1>4. CASE CatalogueBegin(p)
    <2>1. ~Commit(p) /\ ~Rollback(p) /\ ~Set(p, [Ended("done") EXCEPT !.op = "restore"])
      BY <1>2, SetRow DEF OfficeInv, Answered, Commit, Rollback
    <2>2. ASSUME NEW b, NEW title, NEW names, BeginUpdate(p, b, title, names)
          PROVE  FALSE
      <3>1. req'[p].op = "update"
        BY <2>2 DEF BeginUpdate, Set, OfficeInv, Shape
      <3> QED
        BY <3>1
    <2>3. ASSUME NEW s, NEW b, NEW title, NEW names, BeginCreate(p, s, b, title, names)
          PROVE  FALSE
      <3>1. req'[p].op = "create"
        BY <2>3 DEF BeginCreate, Set, OfficeInv, Shape
      <3> QED
        BY <3>1
    <2>4. PICK s \in Schools, b \in Books, title \in Titles \cup {Keep},
               description \in {Keep, None}, names \in (SUBSET Terms) \cup {Keep} :
                 BeginCustomize(p, s, b, title, description, names)
      BY <1>4, <2>1, <2>2, <2>3 DEF CatalogueBegin, CreateTerm, DeleteTerm,
         DeactivateBook, AddCopy, RestoreBook
    <2> QED
      BY <1>1, <2>4, CustomizingBegins
  <1>5. CASE CatalogueStep(p)
    <2>1. p \in InFlight /\ req[p].op = "customize"
      BY <1>2, <1>5, StepsKeepOp DEF OfficeInv
    <2>2. /\ Asked(req'[p]) /\ req'[p].loaded = req[p].loaded
          /\ req'[p].pc \in {"terms", "insert term"} => References(p)'
      BY <1>1, <1>2, <1>5, <2>1, CustomizingGoesOn
    <2>3. req[p].loaded # None => Over(req[p].loaded.row)
      BY <2>1 DEF CustomInv, Customizing
    <2>4. \A x : Over(x) => Over(x)'
      BY <1>1, OverStays DEF OfficeInv
    <2>5. \A x : x = req'[p].loaded.row /\ Over(x)' => Over(req[p].loaded.row)'
      BY DEF Over
    <2> QED
      BY <2>2, <2>3, <2>4, <2>5
  <1> QED
    BY <1>3, <1>4, <1>5 DEF CatalogueRequest

\* One step of a request keeps the invariant.
LEMMA CustomInductive ==
    ASSUME OfficeInv, CustomInv, NEW p \in Requests,
           \/ CatalogueRequest(p) \/ OfficeRequest(p) \/ DeadlockVictim(p)
           \/ \E s \in Schools : DeleteSchool(p, s)
    PROVE  CustomInv'
  <1>1. Customizing'
    BY CustomizingStands, CustomizingMoves DEF Customizing
  <1> QED
    BY <1>1, TermRowsKept, OverrideRowsKept, GatheringKept DEF CustomInv

\* To begin with all rows are old, and nothing has been asked.
LEMMA CustomInit == Init => CustomInv
  <1> SUFFICES ASSUME Init
               PROVE  CustomInv
    OBVIOUS
  <1>1. \A p \in Requests : p \notin InFlight /\ req[p].holds = {}
    BY DEF Init, NewRequest, InFlight
  <1>2. Over(Earlier)
    BY AdministrationAssumption DEF Over
  <1>3. terms \in [Terms -> {None, Earlier}]
    BY DEF Init
  <1>4. TermRows
    BY <1>1, <1>2, <1>3 DEF TermRows, Present
  <1>5. /\ overrides \in [Schools \X Books -> InitialOverrides]
        /\ \A sb \in Schools \X Books : overrides[sb] # None =>
             overrides[sb].terms = Inherit \/ overrides[sb].terms \subseteq Present
    BY DEF Init
  <1>6. ASSUME NEW sb \in Schools \X Books, overrides[sb] # None
        PROVE  /\ overrides[sb] \in OverrideRow /\ Over(overrides[sb].row)
               /\ overrides[sb].terms # Inherit => overrides[sb].terms \subseteq Present
    <2>1. overrides[sb] \in OverrideRow /\ overrides[sb].row = Earlier
      BY <1>5, <1>6, AdministrationAssumption
    <2> QED
      BY <1>2, <1>5, <1>6, <2>1
  <1>7. OverrideRows
    BY <1>5, <1>6 DEF OverrideRows
  <1> QED
    BY <1>1, <1>4, <1>7 DEF CustomInv, Gathering, Customizing

\* Steps of a request, or none.
LEMMA CustomKept == OfficeInv /\ CustomInv /\ [Next]_vars => CustomInv'
  <1> SUFFICES ASSUME OfficeInv, CustomInv, [Next]_vars
               PROVE  CustomInv'
    OBVIOUS
  <1>1. CASE Next
    BY <1>1, CustomInductive DEF Next
  <1>2. CASE UNCHANGED vars
    <2>1. req' = req /\ terms' = terms /\ overrides' = overrides
      BY <1>2 DEF vars, catalogueVars
    <2>2. /\ Present' = Present /\ InFlight' = InFlight
          /\ \A x : Over(x)' <=> Over(x)
      BY <2>1 DEF Present, InFlight, Over
    <2>3. TermRows'
      <3>1. \A g \in Present : \A x : x = terms'[g] /\ Over(x)' => Over(terms[g])'
        BY DEF Over
      <3> QED
        BY <2>1, <2>2, <3>1 DEF CustomInv, TermRows
    <2>4. OverrideRows'
      <3>1. \A sb : \A x : x = overrides'[sb].row /\ Over(x)' => Over(overrides[sb].row)'
        BY DEF Over
      <3> QED
        BY <2>1, <2>2, <3>1 DEF CustomInv, OverrideRows
    <2>5. Gathering'
      <3>1. ASSUME NEW q \in Requests, Gathered(q)
            PROVE  Gathered(q)'
        BY <2>1, <2>2, <3>1 DEF Gathered, Over
      <3> QED
        BY <2>1, <2>2, <3>1 DEF CustomInv, Gathering
    <2>6. Customizing'
      <3>1. ASSUME NEW q \in Requests, References(q)
            PROVE  References(q)'
        BY <2>1, <2>2, <3>1 DEF References, RowsOf, Slugs, OverrideTerms, Over
      <3>2. \A q : \A x : x = req'[q].loaded.row /\ Over(x)' => Over(req[q].loaded.row)'
        BY DEF Over
      <3> QED
        BY <2>1, <2>2, <3>1, <3>2 DEF CustomInv, Customizing
    <2> QED
      BY <2>3, <2>4, <2>5, <2>6 DEF CustomInv
  <1> QED
    BY <1>1, <1>2

\* Both hold throughout.
LEMMA BothHold == Spec => [](OfficeInv /\ CustomInv)
  BY OfficeInit, CustomInit, OfficeKept, CustomKept, PTL DEF Spec

-----------------------------------------------------------------------------
(* What customizations and updates of the catalogue show.                  *)

\* A customization succeeds by being saved, an update of the shared record by its commit.
LEMMA CustomizationCommits ==
    ASSUME OfficeInv, [Next]_vars, NEW p \in Requests, Succeeds(p)
    PROVE  /\ req[p].op = "customize" => CommitCustomize(p) /\ ~Rollback(p)
           /\ req[p].op = "update" => CommitUpdate(p) /\ ~Rollback(p)
  <1>1. /\ p \in InFlight /\ RowOK(req[p]) /\ {"op", "pc"} \subseteq DOMAIN req[p]
        /\ req'[p].pc = "done"
    BY DEF Succeeds, InFlight, OfficeInv, Shape, RowOK
  <1>2. <<req[p].op, req[p].pc>> \in Stages
    BY <1>1 DEF RowOK, InFlight
  <1>3. ~Rollback(p)
    BY <1>1 DEF Rollback, Set, Ended, NewRequest, OfficeInv, Shape
  <1>4. ASSUME req[p].op \in {"customize", "update"}
        PROVE  CommitCustomize(p) \/ CommitUpdate(p)
    <2>1. ~OfficeStep(p)
      BY <1>2, <1>4 DEF Stages, OfficeStep, SaveDays, SavePolicies, SaveCapabilities,
                        InsertAccount, CommitAccount, SaveAccount, At
    <2>2. CatalogueStep(p)
      BY <2>1, Successes
    <2>3. \A g \in Terms : ~LookUp(p, g)
      <3>1. \A g : req'[p] # [req[p] EXCEPT !.got = @ \cup RowsOf({g})] \/ ~Resolving(p)
        BY <1>1 DEF Resolving
      <3>2. \A g : req'[p] # [req[p] EXCEPT !.pc = "insert term", !.wants = TermKey(g)]
        BY <1>1
      <3> QED
        BY <3>1, <3>2 DEF LookUp, Set, OfficeInv, Shape
    <2>4. ~InsertTerm(p)
      BY <1>1, <1>3 DEF InsertTerm, Set, OfficeInv, Shape
    <2>5. ~LockBook(p)
      BY <1>1 DEF LockBook, Set, OfficeInv, Shape
    <2>6. ~WantBook(p)
      BY <1>1 DEF WantBook, Resolved, Resolving, Set, OfficeInv, Shape
    <2>7. ~SelectOverride(p) /\ ~InsertOverride(p)
      BY <1>1, <1>3 DEF SelectOverride, InsertOverride, Set, OfficeInv, Shape
    <2>8. ~CommitCreate(p)
      BY <1>4 DEF CommitCreate
    <2> QED
      BY <2>2, <2>3, <2>4, <2>5, <2>6, <2>7, <2>8 DEF CatalogueStep
  <1> QED
    BY <1>3, <1>4 DEF CommitCustomize, CommitUpdate

\* A customization stays at its school, and an update of the shared record does not reach
\* the fields a school has made its own.
LEMMA Isolated ==
    ASSUME OfficeInv, CustomInv, [Next]_vars
    PROVE  SchoolsIsolated
  <1>1. ASSUME NEW p \in Requests, Succeeds(p), req[p].op = "customize",
               NEW s \in Schools \ {req[p].school}, NEW b \in Books
        PROVE  Effective(s, b)' = Effective(s, b)
    <2>1. PICK t, c : t = req[p].school /\ c = req[p].book
      OBVIOUS
    <2>2. /\ overrides' = [overrides EXCEPT ![<<t, c>>] = SavedRow(p)]
          /\ books' = books
      BY <1>1, <2>1, CustomizationCommits, CustomizationSaved
    <2>3. overrides'[<<s, b>>] = overrides[<<s, b>>]
      BY <1>1, <2>1, <2>2 DEF CustomInv, OverrideRows
    <2>4. OverrideOf(s, b)' = OverrideOf(s, b)
      BY <2>3 DEF OverrideOf, NewOverride
    <2> QED
      BY <2>2, <2>4 DEF Effective
  <1>2. ASSUME NEW p \in Requests, Succeeds(p), req[p].op = "update",
               NEW s \in Schools, NEW b \in {req[p].book}, NEW field \in Customized(s, b)
        PROVE  Effective(s, b)'[field] = Effective(s, b)[field]
    <2>1. UNCHANGED overrides
      BY <1>2, CustomizationCommits DEF CommitUpdate
    <2>2. PICK own : own = OverrideOf(s, b) /\ own = OverrideOf(s, b)'
      BY <2>1 DEF OverrideOf, NewOverride
    <2>3. field \in {"title", "description", "terms"} /\ own[field] # Inherit
      BY <1>2, <2>2 DEF Customized
    <2>4. /\ own.title # Inherit => Effective(s, b).title = own.title
          /\ own.description # Inherit => Effective(s, b).description = own.description
          /\ own.terms # Inherit => Effective(s, b).terms = own.terms
      BY <2>2 DEF Effective
    <2>5. /\ own.title # Inherit => Effective(s, b)'.title = own.title
          /\ own.description # Inherit => Effective(s, b)'.description = own.description
          /\ own.terms # Inherit => Effective(s, b)'.terms = own.terms
      BY <2>2 DEF Effective
    <2> QED
      BY <2>3, <2>4, <2>5
  <1> QED
    BY <1>1, <1>2 DEF SchoolsIsolated

\* What a school's staff customizes shows at that school and nowhere else, and a change to
\* the shared record never shows through a field that the school has made its own
\* (resolve_book, load_book_overrides, _apply_global_book_update).
THEOREM SchoolsApart == Spec => SchoolsStayIsolated
  BY BothHold, Isolated, PTL DEF Spec, SchoolsStayIsolated

\* A customization saves what it asks for.
LEMMA Sticks ==
    ASSUME OfficeInv, CustomInv, [Next]_vars, NEW p \in Requests, Succeeds(p),
           req[p].op = "customize", NEW s, NEW b, s = req[p].school, b = req[p].book
    PROVE  LET r == req[p]
               was == OverrideOf(s, b)
               now == OverrideOf(s, b)'
               AskedAsLoaded(field) ==
                 r.loaded # None /\ r.loaded.row = was.row /\ r[field] = r.loaded[field]
           IN  /\ \A field \in {"title", "description"} :
                    now[field] = IF r[field] = Keep \/ AskedAsLoaded(field)
                                 THEN was[field] ELSE r[field]
               /\ now.terms = IF r.replaces THEN r.names ELSE was.terms
  <1> DEFINE r == req[p]
             old == overrides[r.school, r.book]
             current == IF old = None THEN NewOverride(p) ELSE old
             held == Held(r, current)
             same == r.loaded # None /\ r.loaded.row = current.row
  <1>1. /\ overrides' = [overrides EXCEPT ![<<s, b>>] = SavedRow(p)]
        /\ SavedRow(p) \in OverrideRow /\ p \in InFlight
    BY CustomizationCommits, CustomizationSaved, SavedOK
  <1>2. s \in Schools /\ b \in Books /\ (r.loaded # None => Over(r.loaded.row))
    BY <1>1 DEF CustomInv, Customizing, Asked
  <1>3. OverrideOf(s, b)' = SavedRow(p)
    BY <1>1, <1>2, AdministrationAssumption DEF OverrideOf, CustomInv, OverrideRows
  <1>4. PICK was : was = OverrideOf(s, b)
    OBVIOUS
  <1>5. /\ was.title = current.title /\ was.description = current.description
        /\ was.terms = current.terms
        /\ was.row = IF old = None THEN None ELSE current.row
        /\ old = None => current.row = p
    BY <1>4 DEF OverrideOf, NewOverride
  <1>6. same <=> r.loaded # None /\ r.loaded.row = was.row
    BY <1>1, <1>2, <1>5 DEF Over, InFlight
  <1>7. /\ SavedRow(p).title = Written(r.title, held.title, current.title)
        /\ SavedRow(p).description =
             Written(r.description, held.description, current.description)
        /\ SavedRow(p).terms = IF r.replaces THEN r.names ELSE current.terms
    <2> DEFINE title == Written(r.title, held.title, current.title)
               description ==
                 Written(r.description, held.description, current.description)
               kept == IF r.replaces THEN r.names ELSE current.terms
               row == current.row
    <2>1. SavedRow(p) = [row |-> row, title |-> title, description |-> description,
                         terms |-> kept]
      BY DEF SavedRow
    <2> HIDE DEF row, title, description, kept
    <2>2. /\ SavedRow(p).title = title /\ SavedRow(p).description = description
          /\ SavedRow(p).terms = kept
      BY <2>1
    <2> QED
      BY <2>2 DEF title, description, kept
  <1>8. held = IF same THEN r.loaded ELSE current
    BY DEF Held
  <1> DEFINE new == SavedRow(p)
  <1> HIDE DEF current, held, same, new
  <1>9. /\ held.title = IF same THEN r.loaded.title ELSE current.title
        /\ held.description = IF same THEN r.loaded.description ELSE current.description
    BY <1>8
  <1>10. new.title = IF r.title = Keep \/ (same /\ r.title = r.loaded.title)
                     THEN was.title ELSE r.title
    BY <1>5, <1>7, <1>9 DEF Written, new
  <1>11. new.description =
           IF r.description = Keep \/ (same /\ r.description = r.loaded.description)
           THEN was.description ELSE r.description
    BY <1>5, <1>7, <1>9 DEF Written, new
  <1>12. new.terms = IF r.replaces THEN r.names ELSE was.terms
    BY <1>5, <1>7 DEF new
  <1>13. OverrideOf(s, b)' = new
    BY <1>3 DEF new
  <1> DEFINE AskedAsLoaded(field) ==
               r.loaded # None /\ r.loaded.row = was.row /\ r[field] = r.loaded[field]
  <1>14. /\ AskedAsLoaded("title") <=> same /\ r.title = r.loaded.title
         /\ AskedAsLoaded("description") <=> same /\ r.description = r.loaded.description
    BY <1>6
  <1> HIDE DEF AskedAsLoaded
  <1>15. \A field \in {"title", "description"} :
           new[field] = IF r[field] = Keep \/ AskedAsLoaded(field)
                        THEN was[field] ELSE r[field]
    BY <1>10, <1>11, <1>14
  <1> QED
    BY <1>4, <1>12, <1>13, <1>15 DEF AskedAsLoaded

\* A customization that has been saved shows the genres and authors it asked for, the text
\* it asked for, and what it left out as it was, however customizations of the same book
\* overlap with it, with each other and with new or deleted terms
\* (_apply_school_customization, resolve_book).
THEOREM CustomizationsStick == Spec => CustomizationKept
  <1>1. OfficeInv /\ CustomInv /\ [Next]_vars => CustomizationSticks
    BY Sticks DEF CustomizationSticks
  <1> QED
    BY <1>1, BothHold, PTL DEF Spec, CustomizationKept
=============================================================================
