---------------------------- MODULE TokenProofs ----------------------------
(***************************************************************************)
(* What holds of AccountSessions for any number of refresh tokens and of     *)
(* refresh and logout requests in flight, whatever the account does          *)
(* meanwhile: a token is spent once, and the sessions of an account that     *)
(* were ended stay ended.                                                  *)
(***************************************************************************)
EXTENDS AccountSessions, AccountProofs

-----------------------------------------------------------------------------
(* The invariant *)

\* An exchange between its insertion and its commit.
Inserted(x) == exchange[x].pc \in {"read", "commit"}

Shape ==
    /\ tokens = [t \in RefreshTokens |-> tokens[t]]
    /\ exchange = [x \in Exchanges |-> exchange[x]]
    /\ \A t \in RefreshTokens : "parent" \in DOMAIN tokens[t]
    /\ \A x \in Exchanges :
         /\ {"op", "pc", "jti"} \subseteq DOMAIN exchange[x]
         /\ exchange[x].pc # "idle" => exchange[x].jti \in RefreshTokens

\* The unique jti lets one exchange at a time through, and none once it is spent.
Alone ==
    \A x, y \in Exchanges :
      Inserted(x) /\ Inserted(y) /\ exchange[x].jti = exchange[y].jti => x = y

Fresh == \A x \in Exchanges : Inserted(x) => exchange[x].jti \notin revokedJtis

\* A token that bought something is revoked.
Gone ==
    \A t \in RefreshTokens :
      Successors(t) # {} \/ t \in loggedOut => t \in revokedJtis

Once ==
    \A t \in RefreshTokens :
      /\ \A m, n \in Successors(t) : m = n
      /\ t \in loggedOut => Successors(t) = {}

TokenInv == Shape /\ Alone /\ Fresh /\ Gone /\ Once

-----------------------------------------------------------------------------
(* The steps *)

\* The end of an exchange that has spent its token leaves the others theirs.
LEMMA SpentAndEnded ==
    ASSUME TokenInv, NEW x \in Exchanges, Inserted(x), ExEnd(x),
           revokedJtis' = revokedJtis \cup {exchange[x].jti}
    PROVE  /\ exchange' = [y \in Exchanges |-> exchange'[y]]
           /\ \A y \in Exchanges :
                /\ {"op", "pc", "jti"} \subseteq DOMAIN exchange'[y]
                /\ exchange'[y].pc # "idle" => exchange'[y].jti \in RefreshTokens
           /\ Alone' /\ Fresh'
<1>1. /\ exchange' = [y \in Exchanges |-> exchange'[y]]
      /\ exchange'[x] = NoExchange
      /\ \A y \in Exchanges \ {x} : exchange'[y] = exchange[y]
  BY DEF TokenInv, Shape, ExEnd
<1>2. NoExchange.pc = "idle" /\ {"op", "pc", "jti"} \subseteq DOMAIN NoExchange
  BY DEF NoExchange
<1>3. \A y \in Exchanges : Inserted(y)' => y # x /\ Inserted(y)
  BY <1>1, <1>2 DEF Inserted
<1>4. Alone'
  BY <1>1, <1>3 DEF TokenInv, Alone
<1>5. Fresh'
  BY <1>1, <1>3 DEF TokenInv, Fresh, Alone
<1> QED
  BY <1>1, <1>2, <1>4, <1>5 DEF TokenInv, Shape

\* A pair handed out for a token makes it the parent of one more, and nothing
\* else a parent.
LEMMA PairHandedOut ==
    ASSUME Shape, NEW version, NEW root, NEW parent, HandOut(version, root, parent)
    PROVE  /\ tokens' = [t \in RefreshTokens |-> tokens'[t]]
           /\ \A t \in RefreshTokens : "parent" \in DOMAIN tokens'[t]
           /\ \A t \in RefreshTokens \ {parent} : Successors(t)' \subseteq Successors(t)
           /\ Successors(parent)' \subseteq Successors(parent) \cup {Min(Unissued)}
<1> DEFINE n == Min(Unissued)
           new == [NoToken EXCEPT !.issued = TRUE, !.version = version,
                                  !.root = root, !.parent = parent]
<1>1. tokens' = [tokens EXCEPT ![n] = new]
  BY DEF HandOut
<1>2. new.parent = parent /\ "parent" \in DOMAIN new
  BY DEF NoToken
<1> HIDE DEF n, new
<1>3. /\ tokens' = [t \in RefreshTokens |-> tokens'[t]]
      /\ \A t \in RefreshTokens : tokens'[t] = IF t = n THEN new ELSE tokens[t]
  BY <1>1 DEF Shape
<1>4. \A t : Successors(t)' = {m \in RefreshTokens : tokens'[m].parent = t}
  BY DEF Successors
<1>5. \A m \in RefreshTokens : \/ tokens'[m].parent = tokens[m].parent
                               \/ m = n /\ tokens'[m].parent = parent
  BY <1>2, <1>3
<1>6. \A t \in RefreshTokens : "parent" \in DOMAIN tokens'[t]
  BY <1>2, <1>3 DEF Shape
<1>7. \A t \in RefreshTokens \ {parent} : Successors(t)' \subseteq Successors(t)
  BY <1>4, <1>5 DEF Successors
<1>8. Successors(parent)' \subseteq Successors(parent) \cup {n}
  BY <1>4, <1>5 DEF Successors
<1> QED
  BY <1>3, <1>6, <1>7, <1>8 DEF n

\* A login hands out a pair no token paid for.
LEMMA LoginHolds == TokenInv /\ Login => TokenInv'
<1> SUFFICES ASSUME TokenInv, Login PROVE TokenInv'
  OBVIOUS
<1>1. /\ HandOut(user.auth_version, user.auth_version, None)
      /\ UNCHANGED <<revokedJtis, exchange, loggedOut>>
  BY DEF Login
<1>2. None \notin RefreshTokens
  BY SessionsAssumption
<1>3. /\ tokens' = [t \in RefreshTokens |-> tokens'[t]]
      /\ \A t \in RefreshTokens : "parent" \in DOMAIN tokens'[t]
      /\ \A t \in RefreshTokens : Successors(t)' \subseteq Successors(t)
  <2>1. /\ tokens' = [t \in RefreshTokens |-> tokens'[t]]
        /\ \A t \in RefreshTokens : "parent" \in DOMAIN tokens'[t]
        /\ \A t \in RefreshTokens \ {None} : Successors(t)' \subseteq Successors(t)
    BY <1>1, PairHandedOut DEF TokenInv
  <2> QED
    BY <1>2, <2>1
<1>4. Shape'
  BY <1>1, <1>3 DEF TokenInv, Shape
<1>5. Alone' /\ Fresh'
  BY <1>1 DEF TokenInv, Alone, Fresh, Inserted
<1>6. Gone' /\ Once'
  BY <1>1, <1>3 DEF TokenInv, Gone, Once
<1> QED
  BY <1>4, <1>5, <1>6 DEF TokenInv

\* An exchange begins before its insertion.
LEMMA ExchangeHolds ==
    ASSUME TokenInv, NEW x \in Exchanges, NEW op \in {"refresh", "logout"},
           NEW t \in RefreshTokens, Exchange(x, op, t)
    PROVE  TokenInv'
<1> DEFINE new == [NoExchange EXCEPT !.op = op, !.pc = "insert", !.jti = t]
<1>1. /\ exchange' = [exchange EXCEPT ![x] = new]
      /\ UNCHANGED <<tokens, revokedJtis, loggedOut>>
  BY DEF Exchange
<1>2. new.pc = "insert" /\ new.jti = t /\ {"op", "pc", "jti"} \subseteq DOMAIN new
  BY DEF NoExchange
<1> HIDE DEF new
<1>3. /\ exchange' = [y \in Exchanges |-> exchange'[y]]
      /\ exchange'[x] = new
      /\ \A y \in Exchanges \ {x} : exchange'[y] = exchange[y]
  BY <1>1 DEF TokenInv, Shape
<1>4. \A y \in Exchanges : Inserted(y)' => y # x /\ Inserted(y)
  BY <1>2, <1>3 DEF Inserted
<1>5. Shape'
  BY <1>1, <1>2, <1>3 DEF TokenInv, Shape
<1>6. Alone' /\ Fresh'
  BY <1>1, <1>3, <1>4 DEF TokenInv, Alone, Fresh
<1>7. Gone' /\ Once'
  BY <1>1 DEF TokenInv, Gone, Once, Successors
<1> QED
  BY <1>5, <1>6, <1>7 DEF TokenInv

\* A step of an exchange that keeps its token: only an insertion that found no
\* other and no revocation brings it in.
LEMMA MovedOn ==
    ASSUME TokenInv, NEW x \in Exchanges, exchange[x].pc # "idle",
           exchange' = [y \in Exchanges |-> exchange'[y]],
           exchange'[x].jti = exchange[x].jti,
           {"op", "pc", "jti"} \subseteq DOMAIN exchange'[x],
           \A y \in Exchanges \ {x} : exchange'[y] = exchange[y],
           \/ Inserted(x)
           \/ Inserting(exchange[x].jti) = {} /\ exchange[x].jti \notin revokedJtis,
           UNCHANGED <<tokens, revokedJtis, loggedOut>>
    PROVE  TokenInv'
<1>1. Shape'
  BY DEF TokenInv, Shape
<1>2. \A y \in Exchanges \ {x} : Inserted(y)' => Inserted(y)
  BY DEF Inserted
<1>3. \A y \in Exchanges \ {x} :
        Inserted(y) => exchange[y].jti # exchange[x].jti
  BY DEF TokenInv, Alone, Inserted, Inserting
<1>4. exchange[x].jti \notin revokedJtis
  BY DEF TokenInv, Fresh
<1>5. Alone'
  BY <1>2, <1>3 DEF TokenInv, Alone
<1>6. Fresh'
  BY <1>2, <1>4 DEF TokenInv, Fresh
<1>7. Gone' /\ Once'
  BY DEF TokenInv, Gone, Once, Successors
<1> QED
  BY <1>1, <1>5, <1>6, <1>7 DEF TokenInv

\* The insertion of a jti that is not there, or its failure.
LEMMA InsertHolds ==
    ASSUME TokenInv, NEW x \in Exchanges, Insert(x)
    PROVE  TokenInv'
<1>1. /\ exchange[x].pc = "insert" /\ Inserting(exchange[x].jti) = {}
      /\ UNCHANGED <<tokens, revokedJtis, loggedOut>>
  BY DEF Insert
<1>2. CASE exchange[x].jti \in revokedJtis
  <2>1. /\ exchange' = [y \in Exchanges |-> exchange'[y]]
        /\ exchange'[x] = NoExchange
        /\ \A y \in Exchanges \ {x} : exchange'[y] = exchange[y]
    BY <1>2 DEF TokenInv, Shape, ExEnd, Insert
  <2>2. NoExchange.pc = "idle" /\ {"op", "pc", "jti"} \subseteq DOMAIN NoExchange
    BY DEF NoExchange
  <2>3. \A y \in Exchanges : Inserted(y)' => y # x /\ Inserted(y)
    BY <2>1, <2>2 DEF Inserted
  <2>4. Shape'
    BY <1>1, <2>1, <2>2 DEF TokenInv, Shape
  <2>5. Alone' /\ Fresh'
    BY <1>1, <2>1, <2>3 DEF TokenInv, Alone, Fresh
  <2>6. Gone' /\ Once'
    BY <1>1 DEF TokenInv, Gone, Once, Successors
  <2> QED
    BY <2>4, <2>5, <2>6 DEF TokenInv
<1>3. CASE exchange[x].jti \notin revokedJtis
  <2>1. PICK pc : exchange' = [exchange EXCEPT ![x].pc = pc]
    BY <1>3 DEF Insert
  <2>2. /\ exchange' = [y \in Exchanges |-> exchange'[y]]
        /\ exchange'[x] = [exchange[x] EXCEPT !.pc = pc]
        /\ \A y \in Exchanges \ {x} : exchange'[y] = exchange[y]
    BY <2>1 DEF TokenInv, Shape
  <2>3. /\ exchange'[x].jti = exchange[x].jti
        /\ {"op", "pc", "jti"} \subseteq DOMAIN exchange'[x]
    BY <2>2 DEF TokenInv, Shape
  <2> QED
    BY <1>1, <1>3, <2>2, <2>3, MovedOn
<1> QED
  BY <1>2, <1>3

\* The user is read; a refusal spends the token.
LEMMA ReadUserHolds ==
    ASSUME TokenInv, NEW x \in Exchanges, ReadUser(x)
    PROVE  TokenInv'
<1>1. exchange[x].pc = "read" /\ Inserted(x) /\ UNCHANGED <<tokens, loggedOut>>
  BY DEF ReadUser, Inserted
<1>2. CASE Accepts(tokens[exchange[x].jti].version)
  <2>1. /\ exchange' = [exchange EXCEPT ![x].pc = "commit",
                                       ![x].version = user.auth_version]
        /\ UNCHANGED revokedJtis
    BY <1>2 DEF ReadUser
  <2>2. /\ exchange' = [y \in Exchanges |-> exchange'[y]]
        /\ exchange'[x] = [exchange[x] EXCEPT !.pc = "commit",
                                             !.version = user.auth_version]
        /\ \A y \in Exchanges \ {x} : exchange'[y] = exchange[y]
    BY <2>1 DEF TokenInv, Shape
  <2>3. /\ exchange'[x].jti = exchange[x].jti
        /\ {"op", "pc", "jti"} \subseteq DOMAIN exchange'[x]
    BY <2>2 DEF TokenInv, Shape
  <2> QED
    BY <1>1, <2>1, <2>2, <2>3, MovedOn
<1>3. CASE ~Accepts(tokens[exchange[x].jti].version)
  <2>1. ExEnd(x) /\ revokedJtis' = revokedJtis \cup {exchange[x].jti}
    BY <1>3 DEF ReadUser
  <2>2. /\ Shape' /\ Alone' /\ Fresh'
    BY <1>1, <2>1, SpentAndEnded DEF TokenInv, Shape
  <2>3. Gone' /\ Once'
    BY <1>1, <2>1 DEF TokenInv, Gone, Once, Successors
  <2> QED
    BY <2>2, <2>3 DEF TokenInv
<1> QED
  BY <1>2, <1>3

\* The commit of a refresh: its token had bought nothing, and buys one pair.
LEMMA RotateHolds ==
    ASSUME TokenInv, NEW x \in Exchanges, Rotate(x)
    PROVE  TokenInv'
<1>0. PICK jti : jti = exchange[x].jti
  OBVIOUS
<1>1. /\ exchange[x].pc = "commit" /\ Inserted(x) /\ ExEnd(x)
      /\ revokedJtis' = revokedJtis \cup {jti} /\ loggedOut' = loggedOut
      /\ HandOut(exchange[x].version, tokens[jti].root, jti)
  BY <1>0 DEF Rotate, Inserted
<1>2. jti \in RefreshTokens /\ jti \notin revokedJtis
  BY <1>0, <1>1 DEF TokenInv, Shape, Fresh
<1>3. Successors(jti) = {} /\ jti \notin loggedOut
  BY <1>2 DEF TokenInv, Gone
<1>4. /\ tokens' = [t \in RefreshTokens |-> tokens'[t]]
      /\ \A t \in RefreshTokens : "parent" \in DOMAIN tokens'[t]
      /\ \A t \in RefreshTokens \ {jti} : Successors(t)' \subseteq Successors(t)
      /\ Successors(jti)' \subseteq Successors(jti) \cup {Min(Unissued)}
  BY <1>1, PairHandedOut DEF TokenInv
<1>5. Shape' /\ Alone' /\ Fresh'
  BY <1>0, <1>1, <1>4, SpentAndEnded DEF Shape
<1>6. ASSUME NEW t \in RefreshTokens
      PROVE  /\ Successors(t)' # {} \/ t \in loggedOut' => t \in revokedJtis'
             /\ \A m, n \in Successors(t)' : m = n
             /\ t \in loggedOut' => Successors(t)' = {}
  <2>1. CASE t = jti
    BY <1>1, <1>3, <1>4, <2>1
  <2>2. CASE t # jti
    BY <1>1, <1>4, <2>2 DEF TokenInv, Gone, Once
  <2> QED
    BY <2>1, <2>2
<1>7. Gone' /\ Once'
  BY <1>6 DEF Gone, Once
<1> QED
  BY <1>5, <1>7 DEF TokenInv

\* The commit of a logout: its token had bought nothing, and buys nothing.
LEMMA LogoutHolds ==
    ASSUME TokenInv, NEW x \in Exchanges, Logout(x)
    PROVE  TokenInv'
<1>1. /\ exchange[x].pc = "commit" /\ Inserted(x) /\ ExEnd(x)
      /\ revokedJtis' = revokedJtis \cup {exchange[x].jti}
      /\ loggedOut' = loggedOut \cup {exchange[x].jti} /\ tokens' = tokens
  BY DEF Logout, Inserted
<1>2. exchange[x].jti \in RefreshTokens /\ exchange[x].jti \notin revokedJtis
  BY <1>1 DEF TokenInv, Shape, Fresh
<1>3. Successors(exchange[x].jti) = {}
  BY <1>2 DEF TokenInv, Gone
<1>4. Shape' /\ Alone' /\ Fresh'
  BY <1>1, SpentAndEnded DEF TokenInv, Shape
<1>5. \A t : Successors(t)' = Successors(t)
  BY <1>1 DEF Successors
<1>6. Gone' /\ Once'
  BY <1>1, <1>3, <1>5 DEF TokenInv, Gone, Once
<1> QED
  BY <1>4, <1>6 DEF TokenInv

\* A token expires, or the account moves on.
LEMMA OthersHold ==
    ASSUME TokenInv,
           \/ \E t \in RefreshTokens : ExpireToken(t)
           \/ UNCHANGED sessionVars
    PROVE  TokenInv'
<1>1. UNCHANGED <<revokedJtis, exchange, loggedOut>>
  BY DEF ExpireToken, sessionVars
<1>2. /\ tokens' = [m \in RefreshTokens |-> tokens'[m]]
      /\ \A m \in RefreshTokens : /\ "parent" \in DOMAIN tokens'[m]
                                  /\ tokens'[m].parent = tokens[m].parent
  <2>1. CASE tokens' = tokens
    BY <2>1 DEF TokenInv, Shape
  <2>2. CASE \E t \in RefreshTokens : tokens' = [tokens EXCEPT ![t].expired = TRUE]
    <3>1. PICK t \in RefreshTokens : tokens' = [tokens EXCEPT ![t].expired = TRUE]
      BY <2>2
    <3>2. /\ tokens' = [m \in RefreshTokens |-> tokens'[m]]
          /\ tokens'[t] = [tokens[t] EXCEPT !.expired = TRUE]
          /\ \A m \in RefreshTokens \ {t} : tokens'[m] = tokens[m]
      BY <3>1 DEF TokenInv, Shape
    <3>3. "parent" \in DOMAIN tokens'[t] /\ tokens'[t].parent = tokens[t].parent
      BY <3>2 DEF TokenInv, Shape
    <3> QED
      BY <3>2, <3>3 DEF TokenInv, Shape
  <2> QED
    BY <2>1, <2>2 DEF ExpireToken, sessionVars
<1>3. \A t : Successors(t)' = Successors(t)
  BY <1>2 DEF Successors
<1>4. Shape'
  BY <1>1, <1>2 DEF TokenInv, Shape
<1>5. Alone' /\ Fresh'
  BY <1>1 DEF TokenInv, Alone, Fresh, Inserted
<1>6. Gone' /\ Once'
  BY <1>1, <1>3 DEF TokenInv, Gone, Once
<1> QED
  BY <1>4, <1>5, <1>6 DEF TokenInv

-----------------------------------------------------------------------------
(* The theorem *)

\* Every step of the account and of its sessions keeps the invariant.
LEMMA TokenStep == TokenInv /\ [SessionsNext]_allVars => TokenInv'
<1> SUFFICES ASSUME TokenInv, [SessionsNext]_allVars PROVE TokenInv'
  OBVIOUS
<1>1. ASSUME NEW x \in Exchanges, ExStep(x) PROVE TokenInv'
  BY <1>1, InsertHolds, ReadUserHolds, RotateHolds, LogoutHolds DEF ExStep
<1>2. CASE UNCHANGED allVars
  BY <1>2, OthersHold DEF allVars
<1> QED
  BY <1>1, <1>2, LoginHolds, ExchangeHolds, OthersHold DEF SessionsNext, AccountMoves

\* A service that has handed out nothing.
LEMMA TokenInit == SessionsInit => TokenInv
<1> SUFFICES ASSUME SessionsInit PROVE TokenInv
  OBVIOUS
<1>1. /\ tokens = [t \in RefreshTokens |-> NoToken]
      /\ exchange = [x \in Exchanges |-> NoExchange]
      /\ revokedJtis = {} /\ loggedOut = {}
  BY DEF SessionsInit
<1>2. /\ NoToken.parent = None /\ "parent" \in DOMAIN NoToken
      /\ NoExchange.pc = "idle" /\ {"op", "pc", "jti"} \subseteq DOMAIN NoExchange
  BY DEF NoToken, NoExchange
<1>3. \A t \in RefreshTokens : Successors(t) = {}
  BY <1>1, <1>2, SessionsAssumption DEF Successors
<1>4. Shape
  BY <1>1, <1>2 DEF Shape
<1>5. Alone /\ Fresh
  BY <1>1, <1>2 DEF Alone, Fresh, Inserted
<1>6. Gone /\ Once
  BY <1>1, <1>3 DEF Gone, Once
<1> QED
  BY <1>4, <1>5, <1>6 DEF TokenInv

\* However many requests present a refresh token at once, it buys one new pair or
\* one logout, never two and never both.
THEOREM TokenSpentOnce == SessionsSpec => []SpentOnce
<1>1. TokenInv => SpentOnce
  <2> SUFFICES ASSUME TokenInv, NEW t \in RefreshTokens
               PROVE  Cardinality(Successors(t))
                        + (IF t \in loggedOut THEN 1 ELSE 0) <= 1
    BY DEF SpentOnce
  <2>1. CASE Successors(t) = {}
    <3>1. Cardinality(Successors(t)) = 0
      BY <2>1, FS_EmptySet
    <3> QED
      BY <3>1
  <2>2. CASE Successors(t) # {}
    <3>1. PICK m \in Successors(t) : Successors(t) = {m}
      BY <2>2 DEF TokenInv, Once
    <3>2. Cardinality(Successors(t)) = 1 /\ t \notin loggedOut
      BY <2>2, <3>1, FS_Singleton DEF TokenInv, Once
    <3> QED
      BY <3>2
  <2> QED
    BY <2>1, <2>2
<1> QED
  BY <1>1, TokenInit, TokenStep, PTL DEF SessionsSpec

-----------------------------------------------------------------------------
(* What requests read of the user *)

\* A completion keeps the user locked as it read her, an issuer is alone with her,
\* and what a deactivation has read is an active reader.
Reads(p) ==
    /\ req[p].op = "complete" /\ req[p].pc # "lock" =>
           userLock = p /\ req[p].seen = user
    /\ req[p].op = "complete" /\ req[p].pc \in {"sweep", "sweeping", "finish"} =>
           /\ user.account_status = "PENDING_ACTIVATION" /\ user.is_active
           /\ req[p].found # None
    /\ Issuing(req[p].op) => req[p].seen = user
    /\ req[p].op = "regenerate" => user.account_status = "PENDING_ACTIVATION"
    /\ req[p].op = "deactivate" =>
           req[p].seen.account_status = "ACTIVE" /\ req[p].seen.is_active

ReadInv ==
    /\ userLock \in Requests \cup {None}
    /\ \A p \in Requests : Reads(p)

\* A request beside others changes the user only if none of them holds her.
LEMMA OthersRead ==
    ASSUME AccountInv, LiveInv, ReadInv, IssuersAlone,
           NEW p \in Requests, Open(p),
           \A q \in Requests \ {p} : req'[q] = req[q],
           user' = user \/ Free(userLock, p),
           userLock' \in {userLock, p} \/ userLock = p,
           userLock' = p => Free(userLock, p),
           NEW q \in Requests \ {p}
    PROVE  Reads(q)'
<1>1. /\ req'[q] = req[q] /\ q \notin {None, p} /\ Reads(q) /\ ~Issuing(req[q].op)
  BY NoIssuerBeside, AccountsAssumption DEF LiveInv, ReadInv
<1>2. userLock = q => userLock' = q /\ user' = user
  BY <1>1 DEF Free
<1> QED
  BY <1>1, <1>2 DEF Reads, Issuing

\* A request begins with the user as she is.
LEMMA BeginReads ==
    ASSUME AccountInv, ReadInv, NEW p \in Requests, Begin(p)
    PROVE  ReadInv'
<1>1. PICK row : Start(p, row) /\ Beginning(row)
  BY BeginStarts
<1>2. req' = [req EXCEPT ![p] = row] /\ UNCHANGED <<user, userLock>>
  BY <1>1 DEF Start, tables, locks
<1>3. req'[p] = row /\ \A q \in Requests \ {p} : req'[q] = req[q]
  BY <1>2 DEF AccountInv, Tables
<1>4. ASSUME NEW q \in Requests PROVE Reads(q)'
  <2>1. CASE q = p
    BY <1>1, <1>2, <1>3, <2>1 DEF Reads, Beginning
  <2>2. CASE q # p
    BY <1>2, <1>3, <2>2 DEF ReadInv, Reads
  <2> QED
    BY <2>1, <2>2
<1> QED
  BY <1>2, <1>4 DEF ReadInv

\* A request goes on with what it read; a completion reads with the lock.
LEMMA WorkingReads ==
    ASSUME AccountInv, LiveInv, ReadInv, IssuersAlone, NEW p \in Requests, Working(p)
    PROVE  ReadInv'
<1>1. /\ Open(p) /\ UNCHANGED <<tables, history>>
      /\ \A q \in Requests \ {p} : req'[q] = req[q]
      /\ End(p) \/ req'[p].op = req[p].op
      /\ req \in [Requests -> Row] /\ RowOK(req[p]) /\ Reads(p)
      /\ userLock \in Requests \cup {None} /\ p # None
  BY WorkingOn, AccountsAssumption DEF AccountInv, Tables, ReadInv
<1>2. \/ LockUser(p) /\ userLock' = p /\ Free(userLock, p)
      \/ End(p)
      \/ ~LockUser(p) /\ userLock' = userLock
  BY DEF Working, LockUser, LockUndo, LockPrevious, Find, Found, Sweep, Swept, SweepRow,
         locks
<1>3. /\ userLock' \in Requests \cup {None}
      /\ userLock' \in {userLock, p} \/ userLock = p
      /\ userLock' = p => Free(userLock, p)
  BY <1>1, <1>2 DEF End, Free
<1>4. Reads(p)'
  <2>1. CASE End(p)
    <3>1. Idle.op \notin Ops /\ ~Issuing(Idle.op)
      BY AccountsAssumption DEF Idle, Issuing, Ops
    <3> QED
      BY <2>1, <3>1, Released DEF Reads, Ops
  <2>2. CASE LockUser(p)
    <3>1. /\ req[p].op = "complete" /\ req'[p].op = "complete" /\ req'[p].pc = "find"
          /\ req'[p].seen = user /\ userLock' = p /\ user' = user
      BY <1>1, <2>2 DEF LockUser, RowOK, Path, Row, tables
    <3> QED
      BY <3>1 DEF Reads, Issuing
  <2>3. CASE ~End(p) /\ ~LockUser(p)
    <3>1. userLock' = userLock /\ user' = user /\ req'[p].op = req[p].op
      BY <1>1, <1>2, <2>3 DEF tables
    <3>2. req'[p].seen = req[p].seen /\ req[p].pc # "lock"
      <4>1. CASE LockUndo(p) \/ LockPrevious(p) \/ Find(p) \/ Sweep(p) \/ Swept(p)
        BY <1>1, <2>3, <4>1 DEF LockUndo, LockPrevious, Find, Sweep, Swept, Row
      <4>2. CASE Found(p) \/ \E i \in Invitations : SweepRow(p, i)
        BY <1>1, <4>2 DEF Found, SweepRow, Row
      <4> QED
        BY <2>3, <4>1, <4>2 DEF Working
    <3>3. ASSUME req[p].op = "complete", req'[p].pc \in {"sweep", "sweeping", "finish"}
          PROVE  /\ user.account_status = "PENDING_ACTIVATION" /\ user.is_active
                 /\ req'[p].found # None
      <4>1. CASE Found(p)
        <5>1. PICK i : i = Newest(req[p].cand)
          OBVIOUS
        <5>2. req'[p].pc = AfterFind(p, i) /\ req'[p].found = i
          BY <1>1, <3>3, <4>1, <5>1 DEF Found, Row
        <5> QED
          BY <3>3, <5>2 DEF AfterFind, Usable
      <4>2. CASE ~Found(p)
        <5>1. req[p].pc \in {"sweep", "sweeping"} /\ req'[p].found = req[p].found
          <6>1. CASE LockUndo(p) \/ LockPrevious(p) \/ Find(p)
            BY <1>1, <2>3, <3>3, <6>1 DEF LockUndo, LockPrevious, Find, Row, RowOK, Path
          <6>2. CASE Sweep(p) \/ Swept(p) \/ \E i \in Invitations : SweepRow(p, i)
            BY <1>1, <6>2 DEF Sweep, Swept, SweepRow, Row
          <6> QED
            BY <2>3, <4>2, <6>1, <6>2 DEF Working
        <5> QED
          BY <1>1, <3>3, <5>1 DEF Reads
      <4> QED
        BY <4>1, <4>2
    <3> QED
      BY <1>1, <3>1, <3>2, <3>3 DEF Reads
  <2> QED
    BY <2>1, <2>2, <2>3
<1>5. ASSUME NEW q \in Requests PROVE Reads(q)'
  <2>1. CASE q = p
    <3>1. (q = p /\ Reads(p) => Reads(q))'
      OBVIOUS
    <3> QED
      BY <1>4, <2>1, <3>1
  <2>2. CASE q # p
    BY <1>1, <1>3, <2>2, OthersRead DEF tables
  <2> QED
    BY <2>1, <2>2
<1> QED
  BY <1>3, <1>5 DEF ReadInv

\* A request ends: it had the user to itself if it changed her.
LEMMA EndingReads ==
    ASSUME AccountInv, LiveInv, ReadInv, IssuersAlone, NEW p \in Requests, Ending(p)
    PROVE  ReadInv'
<1>1. /\ Open(p) /\ End(p) /\ req'[p] = Idle
      /\ \A q \in Requests \ {p} : req'[q] = req[q]
      /\ userLock \in Requests \cup {None} /\ p # None
      /\ userLock' = IF userLock = p THEN None ELSE userLock
  BY EndingNow, Released, AccountsAssumption DEF ReadInv, End
<1>2. user' = user \/ Free(userLock, p)
  BY DEF Ending, Regenerate, Reset, UndoReset, Revoke, Complete, SetPassword,
         Deactivate, Fail, Refused, DeadlockVictim, Finishing, tables
<1>3. Idle.op \notin Ops /\ ~Issuing(Idle.op)
  BY AccountsAssumption DEF Idle, Issuing, Ops
<1>4. ASSUME NEW q \in Requests PROVE Reads(q)'
  <2>1. CASE q = p
    BY <1>1, <1>3, <2>1 DEF Reads, Ops
  <2>2. CASE q # p
    BY <1>1, <1>2, <2>2, OthersRead
  <2> QED
    BY <2>1, <2>2
<1> QED
  BY <1>1, <1>4 DEF ReadInv

-----------------------------------------------------------------------------
(* Versions of the account *)

\* Resets that no undo will reach any more: their code is not live, and no undo
\* that could still be asked for brings it back.
Lapsed(S) ==
    /\ \A u \in S : undos[u].made /\ inv[undos[u].resetInvitation].state # "live"
    /\ \A u \in S, v \in Undos :
         Pending(v) /\ undos[v].previousInvitation = undos[u].resetInvitation => v \in S

\* No version has been handed out since the resets that can be undone.
Reachable ==
    \E S \in SUBSET Undos :
        /\ Lapsed(S)
        /\ \A u \in Undos \ S : Pending(u) =>
             \A n \in issued : n <= undos[u].previous.auth_version

\* What a reset remembers of an account that nobody has deactivated since.
Remembered ==
    \A u \in Undos : undos[u].made =>
        /\ inv[undos[u].resetInvitation].state # "absent"
        /\ user.is_active =>
             /\ undos[u].previous.is_active
             /\ undos[u].previous.account_status # "DISABLED"
             /\ undos[u].previous.account_status = "ACTIVE" =>
                    undos[u].previousInvitation = None

\* An account that is not active is at a version that nobody has been given; an
\* active one has no code that could be used, and sessions that have not ended.
Current ==
    /\ ended \subseteq issued /\ issued \subseteq Nat
    /\ user.account_status = "DISABLED" => ~user.is_active
    /\ user.is_active /\ user.account_status = "PENDING_ACTIVATION" =>
         \A n \in issued : n < user.auth_version
    /\ user.is_active /\ user.account_status = "ACTIVE" =>
         /\ Live = {} /\ user.auth_version \notin ended
         /\ \A n \in issued : n <= user.auth_version

VersionInv == Current /\ Remembered /\ (user.is_active => Reachable)

\* The columns of what a write leaves.
LEMMA WrittenColumns ==
    ASSUME user \in User, NEW seen, NEW new
    PROVE  /\ Written(seen, new).account_status =
                IF new.account_status # seen.account_status
                THEN new.account_status ELSE user.account_status
           /\ Written(seen, new).is_active =
                IF new.is_active # seen.is_active THEN new.is_active ELSE user.is_active
           /\ Written(seen, new).auth_version =
                IF new.auth_version # seen.auth_version
                THEN new.auth_version ELSE user.auth_version
<1>1. {"account_status", "is_active", "auth_version"} \subseteq DOMAIN user
  BY DEF User
<1> QED
  BY <1>1 DEF Written

\* A step that leaves the user's status and version, the states of the codes and
\* the records.
LEMMA Unmoved ==
    ASSUME AccountInv, VersionInv,
           user'.account_status = user.account_status,
           user'.is_active = user.is_active,
           user'.auth_version = user.auth_version,
           \A i \in Invitations : inv'[i].state = inv[i].state,
           \A u \in Undos :
             /\ undos'[u].made = undos[u].made
             /\ undos'[u].undone = undos[u].undone
             /\ undos'[u].previous = undos[u].previous
             /\ undos'[u].previousInvitation = undos[u].previousInvitation
             /\ undos'[u].resetInvitation = undos[u].resetInvitation,
           UNCHANGED <<issued, ended>>
    PROVE  VersionInv'
<1>1. \A u \in Undos : undos[u].made => undos[u].resetInvitation \in Invitations
  BY DEF AccountInv, Records
<1>2. Live' = Live /\ \A u \in Undos : Pending(u)' <=> Pending(u)
  BY DEF Live, Pending
<1>3. Current'
  BY <1>2 DEF VersionInv, Current
<1>4. Remembered'
  <2> SUFFICES ASSUME NEW u \in Undos, undos[u].made
               PROVE  /\ inv'[undos'[u].resetInvitation].state # "absent"
                      /\ user'.is_active =>
                           /\ undos'[u].previous.is_active
                           /\ undos'[u].previous.account_status # "DISABLED"
                           /\ undos'[u].previous.account_status = "ACTIVE" =>
                                  undos'[u].previousInvitation = None
    BY DEF Remembered
  <2> QED
    BY <1>1 DEF VersionInv, Remembered
<1>5. ASSUME user.is_active PROVE Reachable'
  <2>1. PICK S \in SUBSET Undos :
          /\ Lapsed(S)
          /\ \A u \in Undos \ S : Pending(u) =>
               \A n \in issued : n <= undos[u].previous.auth_version
    BY <1>5 DEF VersionInv, Reachable
  <2>2. Lapsed(S)'
    BY <1>1, <1>2, <2>1 DEF Lapsed
  <2> QED
    BY <1>2, <2>1, <2>2 DEF Reachable
<1> QED
  BY <1>3, <1>4, <1>5 DEF VersionInv

\* Requests begin and go on, most of them end, time passes.
LEMMA QuietVersions ==
    ASSUME AccountInv, VersionInv,
           \/ \E p \in Requests :
                \/ Begin(p) \/ Working(p) \/ Fail(p) \/ SetPassword(p)
                \/ Refused(p) \/ DeadlockVictim(p)
           \/ Time
           \/ UNCHANGED vars
    PROVE  VersionInv'
<1>1. user \in User /\ inv \in [Invitations -> Invitation] /\ undos \in [Undos -> Undo]
  BY DEF AccountInv, Tables
<1>2. CASE \E p \in Requests : Begin(p) \/ Working(p) \/ Refused(p) \/ DeadlockVictim(p)
  <2>1. UNCHANGED <<tables, history>>
    BY <1>2, BeginStarts, WorkingOn DEF Start, Refused, DeadlockVictim
  <2> QED
    BY <2>1, Unmoved DEF tables, history
<1>3. ASSUME NEW p \in Requests, Fail(p) PROVE VersionInv'
  <2>1. /\ inv' = inv \/ inv' = [inv EXCEPT ![req[p].found].locked = TRUE]
        /\ UNCHANGED <<user, undos, history>>
    BY <1>3 DEF Fail
  <2>2. \A i \in Invitations : inv'[i].state = inv[i].state
    BY <1>1, <2>1 DEF Invitation
  <2> QED
    BY <2>1, <2>2, Unmoved DEF history
<1>4. ASSUME NEW p \in Requests, SetPassword(p) PROVE VersionInv'
  <2>1. PICK seen, password :
          /\ seen \in User
          /\ user' = Written(seen, [seen EXCEPT !.password = password])
    BY <1>4, AccountsAssumption
    DEF SetPassword, Finishing, AccountInv, RowOK, Ops
  <2>2. DEFINE new == [seen EXCEPT !.password = password]
  <2>3. /\ new.account_status = seen.account_status /\ new.is_active = seen.is_active
        /\ new.auth_version = seen.auth_version
    BY DEF User
  <2>4. user' = Written(seen, new)
    BY <2>1
  <2> HIDE DEF new
  <2>5. /\ user'.account_status = user.account_status
        /\ user'.is_active = user.is_active /\ user'.auth_version = user.auth_version
    BY <1>1, <2>3, <2>4, WrittenColumns
  <2> QED
    BY <1>4, <2>5, Unmoved DEF SetPassword, history
<1>5. CASE Time \/ UNCHANGED vars
  <2>1. UNCHANGED <<user, issued, ended>>
    BY <1>5 DEF Time, WindowPasses, ExpireInvitation, LockRunsOut, ExpireUndo, vars,
       history
  <2>2. \A i \in Invitations : inv'[i].state = inv[i].state
    <3>1. ASSUME NEW i \in Invitations, ExpireInvitation(i) \/ LockRunsOut(i)
          PROVE  \A j \in Invitations : inv'[j].state = inv[j].state
      BY <1>1, <3>1 DEF Invitation, ExpireInvitation, LockRunsOut
    <3> QED
      BY <1>5, <3>1 DEF Time, WindowPasses, ExpireUndo, vars
  <2>3. \A u \in Undos :
          /\ undos'[u].made = undos[u].made
          /\ undos'[u].undone = undos[u].undone
          /\ undos'[u].previous = undos[u].previous
          /\ undos'[u].previousInvitation = undos[u].previousInvitation
          /\ undos'[u].resetInvitation = undos[u].resetInvitation
    BY <1>1, <1>5 DEF Undo, Time, WindowPasses, ExpireInvitation, LockRunsOut,
       ExpireUndo, vars
  <2> QED
    BY <2>1, <2>2, <2>3, Unmoved
<1> QED
  BY <1>2, <1>3, <1>4, <1>5

\* What a step must leave of the codes and of the resets in S for these to stay lapsed.
LEMMA LapsedKept ==
    ASSUME AccountInv, NEW S \in SUBSET Undos, Lapsed(S),
           \A u \in S : inv'[undos[u].resetInvitation].state # "live",
           \A u \in Undos : undos[u].made =>
             undos'[u].made /\ undos'[u].resetInvitation = undos[u].resetInvitation,
           \A v \in Undos : Pending(v)' =>
             \/ Pending(v) /\ undos'[v].previousInvitation = undos[v].previousInvitation
             \/ \A u \in S : undos'[v].previousInvitation # undos[u].resetInvitation
    PROVE  Lapsed(S)'
<1>1. \A u \in S : /\ undos'[u].made /\ inv'[undos'[u].resetInvitation].state # "live"
                   /\ undos'[u].resetInvitation = undos[u].resetInvitation
  BY DEF Lapsed
<1>2. ASSUME NEW u \in S, NEW v \in Undos, Pending(v)',
             undos'[v].previousInvitation = undos'[u].resetInvitation
      PROVE  v \in S
  BY <1>1, <1>2 DEF Lapsed
<1> QED
  BY <1>1, <1>2 DEF Lapsed

\* A code is issued for an account that is not active, beside nobody else.
LEMMA RegenerateVersions ==
    ASSUME AccountInv, VersionInv, ReadInv, NEW p \in Requests, Regenerate(p)
    PROVE  VersionInv'
<1>1. /\ Issuing(req[p].op) /\ UNCHANGED <<user, undos, issued, ended>>
      /\ user.account_status = "PENDING_ACTIVATION"
      /\ \A u \in Undos : undos[u].made => undos[u].resetInvitation \in Invitations
  BY DEF Regenerate, Finishing, Issuing, ReadInv, Reads, history, AccountInv, Records
<1>2. PICK i \in Unmade : inv' = Issued(p, i)
  BY <1>1, KeysForIssuer DEF Regenerate
<1>3. \A j \in Invitations : inv[j].state # "absent" =>
        /\ inv'[j].state # "absent"
        /\ inv[j].state # "live" => inv'[j].state # "live"
  BY <1>2, IssuedSettles, IssuedCodes DEF Unmade, AccountInv, Tables, Holding
<1>4. Current'
  BY <1>1 DEF VersionInv, Current
<1>5. Remembered'
  BY <1>1, <1>3 DEF VersionInv, Remembered
<1>6. ASSUME user.is_active PROVE Reachable'
  <2>1. PICK S \in SUBSET Undos :
          /\ Lapsed(S)
          /\ \A u \in Undos \ S : Pending(u) =>
               \A n \in issued : n <= undos[u].previous.auth_version
    BY <1>6 DEF VersionInv, Reachable
  <2>2. Lapsed(S)'
    BY <1>1, <1>3, <2>1, LapsedKept DEF Lapsed, VersionInv, Remembered, Pending
  <2> QED
    BY <1>1, <2>1, <2>2 DEF Reachable, Pending
<1> QED
  BY <1>1, <1>4, <1>5, <1>6 DEF VersionInv

\* Staff revoke a code.
LEMMA RevokeVersions ==
    ASSUME AccountInv, HistoryInv, VersionInv, NEW p \in Requests, Revoke(p)
    PROVE  VersionInv'
<1>1. /\ UNCHANGED <<user, undos, issued, ended>>
      /\ \A u \in Undos : undos[u].made => undos[u].resetInvitation \in Invitations
      /\ inv \in [Invitations -> Invitation]
  BY DEF Revoke, AccountInv, Records, Tables
<1>2. PICK i : inv' = [inv EXCEPT ![i].state = "revoked"]
  BY DEF Revoke
<1>3. \A j \in Invitations :
        inv'[j].state = inv[j].state \/ inv'[j].state = "revoked"
  BY <1>1, <1>2, StateType
<1>4. Live' \subseteq Live
  BY <1>3 DEF Live
<1>5. Current'
  BY <1>1, <1>4 DEF VersionInv, Current
<1>6. Remembered'
  BY <1>1, <1>3 DEF VersionInv, Remembered
<1>7. ASSUME user.is_active PROVE Reachable'
  <2>1. PICK S \in SUBSET Undos :
          /\ Lapsed(S)
          /\ \A u \in Undos \ S : Pending(u) =>
               \A n \in issued : n <= undos[u].previous.auth_version
    BY <1>7 DEF VersionInv, Reachable
  <2>2. Lapsed(S)'
    BY <1>1, <1>3, <2>1, LapsedKept DEF Lapsed, Pending
  <2> QED
    BY <1>1, <2>1, <2>2 DEF Reachable, Pending
<1> QED
  BY <1>1, <1>5, <1>6, <1>7 DEF VersionInv

\* With no code live every reset has lapsed.
LEMMA NothingLive ==
    ASSUME AccountInv, UNCHANGED undos, Live' = {}
    PROVE  Reachable'
<1>1. PICK S \in SUBSET Undos : S = {u \in Undos : undos[u].made}
  OBVIOUS
<1>2. \A u \in Undos : undos[u].made => undos[u].resetInvitation \in Invitations
  BY DEF AccountInv, Records
<1>3. \A j \in Invitations : inv'[j].state # "live"
  BY DEF Live
<1>4. Lapsed(S)'
  BY <1>1, <1>2, <1>3 DEF Lapsed, Pending
<1> QED
  BY <1>1, <1>4 DEF Reachable, Pending

\* A deactivated account stays so.
LEMMA DeactivateVersions ==
    ASSUME AccountInv, VersionInv, ReadInv, NEW p \in Requests, Deactivate(p)
    PROVE  VersionInv'
<1>1. /\ req[p].seen \in User /\ req[p].seen.is_active
      /\ UNCHANGED <<inv, undos, issued>> /\ MovesOn
      /\ user \in User /\ req[p].seen.account_status = "ACTIVE"
  BY AccountsAssumption
  DEF Deactivate, Finishing, ReadInv, Reads, AccountInv, RowOK, Ops, Tables
<1> DEFINE new == [req[p].seen EXCEPT !.is_active = FALSE, !.account_status = "DISABLED",
                        !.auth_version = @ + 1]
<1>2. user' = Written(req[p].seen, new)
  BY DEF Deactivate
<1>3. new.is_active = FALSE /\ new.account_status = "DISABLED"
  BY <1>1 DEF User
<1> HIDE DEF new
<1>4. user'.is_active = FALSE /\ user'.account_status = "DISABLED"
  BY <1>1, <1>2, <1>3, WrittenColumns DEF User
<1>5. Current'
  BY <1>1, <1>4 DEF VersionInv, Current, MovesOn
<1>6. Remembered'
  BY <1>1, <1>4 DEF VersionInv, Remembered
<1> QED
  BY <1>4, <1>5, <1>6 DEF VersionInv

\* A completion opens the account at a version that nobody has been given, with the
\* only code there was.
LEMMA CompleteVersions ==
    ASSUME AccountInv, LiveInv, VersionInv, ReadInv, NEW p \in Requests, Complete(p)
    PROVE  VersionInv'
<1> DEFINE i == req[p].found
           new == [req[p].seen EXCEPT !.password = req[p].password,
                        !.account_status = "ACTIVE",
                        !.activated = TRUE, !.auth_version = @ + 1]
<1>1. /\ RowOK(req[p]) /\ Holding(p) /\ Single /\ i # None
      /\ UNCHANGED <<undos, issued>> /\ MovesOn
      /\ user \in User /\ req[p].seen = user /\ user.is_active
      /\ user.account_status = "PENDING_ACTIVATION"
      /\ user' = Written(req[p].seen, new) /\ req[p].op = "complete"
  BY DEF Complete, Finishing, ReadInv, Reads, AccountInv, Tables, LiveInv
<1>2. /\ new.is_active = user.is_active /\ new.account_status = "ACTIVE"
      /\ new.auth_version = user.auth_version + 1
  BY <1>1 DEF User
<1> HIDE DEF new
<1>3. /\ user'.is_active = TRUE /\ user'.account_status = "ACTIVE"
      /\ user'.auth_version = user.auth_version + 1
      /\ user.auth_version \in Nat
  <2>1. user.auth_version \in Nat /\ user.is_active = TRUE
    BY <1>1 DEF User
  <2>2. user.auth_version + 1 # user.auth_version
    BY <2>1
  <2> QED
    BY <1>1, <1>2, <2>1, <2>2, WrittenColumns
<1>4. /\ \A n \in issued : n \in Nat /\ n < user.auth_version
      /\ ended' = ended /\ ended \subseteq issued
  <2>1. /\ \A n \in issued : n \in Nat /\ n < user.auth_version
        /\ ended \subseteq issued
    BY <1>1 DEF VersionInv, Current
  <2> QED
    BY <1>1, <1>3, <2>1 DEF MovesOn
<1>5. Live' = {}
  <2>1. \A j \in Invitations : j = i \/ j \notin Live
    BY <1>1 DEF Holding, Single, Live, RowOK, Row
  <2>2. \A j \in Invitations : inv'[j].state = "live" => j \in Live /\ j # i
    BY <1>1, StateType DEF Complete, Live, RowOK, Row, Holding
  <2> QED
    BY <2>1, <2>2 DEF Live
<1>6. Current'
  BY <1>1, <1>3, <1>4, <1>5 DEF Current
<1>7. Remembered'
  <2>1. \A u \in Undos : undos[u].made =>
          /\ undos[u].resetInvitation \in Invitations
          /\ inv[undos[u].resetInvitation].state # "absent"
    BY DEF VersionInv, Remembered, AccountInv, Records
  <2>2. \A j \in Invitations : inv[j].state # "absent" => inv'[j].state # "absent"
    BY StateType DEF Complete
  <2> QED
    BY <1>1, <2>1, <2>2 DEF VersionInv, Remembered
<1>8. Reachable'
  BY <1>1, <1>5, NothingLive
<1> QED
  BY <1>6, <1>7, <1>8 DEF VersionInv

\* A reset goes on to a version that nobody has been given, and remembers one that
\* no later one has been given after.
LEMMA ResetVersions ==
    ASSUME AccountInv, VersionInv, ReadInv, NEW p \in Requests, Reset(p)
    PROVE  VersionInv'
<1> DEFINE record(i) == [NoUndo EXCEPT !.made = TRUE, !.previous = req[p].seen,
                           !.previousInvitation = req[p].found,
                           !.resetInvitation = i]
           V == user.auth_version
<1>1. /\ Tables /\ Records /\ RowOK(req[p]) /\ Holding(p) /\ Issuing(req[p].op)
      /\ req[p].op = "reset" /\ req[p].seen = user
      /\ UNCHANGED issued /\ MovesOn
      /\ user' = Written(req[p].seen, ResetUser(req[p].seen))
  BY DEF Reset, Finishing, Issuing, ReadInv, Reads, AccountInv
<1>2. PICK i \in Unmade, u \in UnmadeUndos :
        /\ inv' = Issued(p, i)
        /\ undos' = [undos EXCEPT ![u] = record(i)]
  BY <1>1, KeysForIssuer DEF Reset
<1>3. PICK k \in Invitations \cup {None} :
        k = req[p].found /\ (k # None => inv[k].state = "live")
  BY <1>1 DEF RowOK, Row, Holding
<1>4. /\ i \in Invitations /\ inv[i].state = "absent" /\ inv'[i].state # "absent"
      /\ u \in Undos /\ ~undos[u].made
      /\ \A j \in Invitations : inv[j].state # "absent" =>
           /\ inv'[j].state # "absent"
           /\ inv[j].state # "live" => inv'[j].state # "live"
  <2>1. inv' \in [Invitations -> Invitation] /\ Unmade' = Unmade \ {i}
    BY <1>1, <1>2, IssuedCodes
  <2> QED
    BY <1>1, <1>2, <2>1, IssuedSettles, IssuedCodes DEF Unmade, UnmadeUndos
<1>5. /\ record(i).made /\ record(i).previous = user
      /\ record(i).previousInvitation = k /\ record(i).resetInvitation = i
  BY <1>1, <1>3 DEF NoUndo
<1> HIDE DEF record
<1>6. undos'[u] = record(i) /\ \A v \in Undos \ {u} : undos'[v] = undos[v]
  BY <1>1, <1>2, <1>4 DEF Tables
<1>7. /\ user'.account_status = "PENDING_ACTIVATION" /\ user'.is_active = user.is_active
      /\ user'.auth_version = V + 1 /\ V \in Nat
  <2>1. /\ V \in Nat /\ V + 1 # V /\ user \in User
        /\ ResetUser(user).account_status = "PENDING_ACTIVATION"
        /\ ResetUser(user).is_active = user.is_active
        /\ ResetUser(user).auth_version = V + 1
    BY <1>1 DEF User, ResetUser, Tables
  <2> QED
    BY <1>1, <2>1, WrittenColumns
<1>8. user.is_active => \A n \in issued : n \in Nat /\ n <= V
  BY <1>1, <1>7 DEF VersionInv, Current, Tables, User, AccountStatus
<1>9. Current'
  <2>1. ended' \subseteq issued' /\ issued' \subseteq Nat
    BY <1>1 DEF VersionInv, Current, MovesOn
  <2>2. user.is_active => \A n \in issued' : n < V + 1
    BY <1>1, <1>7, <1>8
  <2> QED
    BY <1>7, <2>1, <2>2 DEF Current
<1>10. Remembered'
  <2> SUFFICES ASSUME NEW v \in Undos, undos'[v].made
               PROVE  /\ inv'[undos'[v].resetInvitation].state # "absent"
                      /\ user.is_active =>
                           /\ undos'[v].previous.is_active
                           /\ undos'[v].previous.account_status # "DISABLED"
                           /\ undos'[v].previous.account_status = "ACTIVE" =>
                                  undos'[v].previousInvitation = None
    BY <1>7 DEF Remembered
  <2>1. CASE v = u
    BY <1>3, <1>4, <1>5, <1>6, <2>1 DEF VersionInv, Current, Live
  <2>2. CASE v # u
    BY <1>1, <1>4, <1>6, <2>2 DEF VersionInv, Remembered, Records
  <2> QED
    BY <2>1, <2>2
<1>11. ASSUME user.is_active PROVE Reachable'
  <2>1. PICK S \in SUBSET Undos :
          /\ Lapsed(S)
          /\ \A v \in Undos \ S : Pending(v) =>
               \A n \in issued : n <= undos[v].previous.auth_version
    BY <1>11 DEF VersionInv, Reachable
  <2>2. \A v \in S : /\ undos[v].made /\ v # u
                     /\ undos[v].resetInvitation \in Invitations
                     /\ inv[undos[v].resetInvitation].state \notin {"absent", "live"}
    BY <1>1, <1>4, <2>1 DEF Lapsed, Records, VersionInv, Remembered
  <2>3. \A v \in Undos : Pending(v)' =>
          \/ Pending(v) /\ undos'[v].previousInvitation = undos[v].previousInvitation
          \/ \A w \in S : undos'[v].previousInvitation # undos[w].resetInvitation
    BY <1>3, <1>5, <1>6, <2>2, AccountsAssumption DEF Pending
  <2>4. Lapsed(S)'
    BY <1>4, <1>6, <2>1, <2>2, <2>3, LapsedKept
  <2>5. \A v \in Undos \ S : Pending(v)' =>
               \A n \in issued' : n <= undos'[v].previous.auth_version
    BY <1>1, <1>5, <1>6, <1>8, <1>11, <2>1 DEF Pending
  <2> QED
    BY <2>4, <2>5 DEF Reachable
<1> QED
  BY <1>7, <1>9, <1>10, <1>11 DEF VersionInv

\* An undo goes back to an account whose last version is still the last that anyone
\* has been given, and on to the one after it.
LEMMA UndoResetVersions ==
    ASSUME AccountInv, HistoryInv, LiveInv, VersionInv, ReadInv,
           NEW p \in Requests, UndoReset(p)
    PROVE  VersionInv'
<1> DEFINE V == user.auth_version
<1>1. /\ Tables /\ Records /\ RowOK(req[p]) /\ Holding(p) /\ Progress(p) /\ Single
      /\ req[p].op = "undo" /\ req[p].pc = "finish" /\ UNCHANGED issued /\ MovesOn
  BY DEF UndoReset, Finishing, AccountInv, HistoryInv, LiveInv
<1>2. PICK u \in Undos, i \in Invitations, k \in Invitations \cup {None} :
        /\ u = req[p].undo /\ i = req[p].found /\ i = undos[u].resetInvitation
        /\ k = undos[u].previousInvitation
        /\ undos[u].made /\ ~undos[u].undone
  <2>1. PICK u \in Undos : u = req[p].undo /\ undos[u].made
    BY <1>1 DEF RowOK, Holding
  <2>2. undos[u].resetInvitation \in Invitations
    BY <1>1, <2>1 DEF Records
  <2>3. undos[u].previousInvitation \in Invitations \cup {None}
    BY <1>1 DEF Tables, Undo
  <2> QED
    BY <1>1, <2>1, <2>2, <2>3 DEF Progress
<1>3. PICK seen \in User, previous \in User :
        /\ user' = Written(seen, RestoredUser(seen, previous))
        /\ previous = undos[u].previous
  BY <1>1, <1>2, AccountsAssumption DEF UndoReset, RowOK, Ops, Records
<1>4. /\ inv' = [j \in Invitations |->
           IF j = i THEN [inv[j] EXCEPT !.state = "revoked"]
           ELSE IF j = k THEN Reinstated(j) ELSE inv[j]]
      /\ undos' = [undos EXCEPT ![u].undone = TRUE]
  BY <1>2 DEF UndoReset
<1>5. /\ inv[i].state = "live" /\ Live \subseteq {i} /\ Pending(u) /\ i # k
  <2>1. inv[i].state = "live" /\ i # k
    BY <1>1, <1>2, AccountsAssumption DEF Holding, HistoryInv, Reverted
  <2> QED
    BY <1>1, <1>2, <2>1 DEF Single, Live, Pending
<1>6. /\ \A v \in Undos :
           /\ undos'[v].made = undos[v].made
           /\ undos'[v].previous = undos[v].previous
           /\ undos'[v].previousInvitation = undos[v].previousInvitation
           /\ undos'[v].resetInvitation = undos[v].resetInvitation
      /\ \A v \in Undos : Pending(v)' => Pending(v)
  BY <1>1, <1>4 DEF Tables, Undo, Pending
<1>7. /\ \A j \in Invitations : inv[j].state # "absent" => inv'[j].state # "absent"
      /\ \A j \in Invitations : inv'[j].state = "live" => j = k
      /\ \A j \in Invitations : j # i /\ j # k => inv'[j] = inv[j]
      /\ inv'[i].state = "revoked"
  <2>1. \A j \in Invitations : inv[j].state # "absent" => Reinstated(j).state # "absent"
    BY <1>1, StateType DEF Reinstated, Tables
  <2>2. \A j \in Invitations : j # i => inv[j].state # "live"
    BY <1>5 DEF Live
  <2> QED
    BY <1>4, <1>5, <2>1, <2>2, StateType
<1>8. /\ RestoredUser(seen, previous).account_status = previous.account_status
      /\ RestoredUser(seen, previous).is_active = seen.is_active
      /\ RestoredUser(seen, previous).auth_version = previous.auth_version + 1
      /\ V \in Nat /\ previous.auth_version \in Nat /\ user \in User
  BY <1>1 DEF RestoredUser, User, Tables
<1>9. /\ user'.account_status \in {previous.account_status, user.account_status}
      /\ user'.is_active = user.is_active
      /\ user'.auth_version \in {previous.auth_version + 1, V}
  BY <1>3, <1>8, WrittenColumns
<1>10. ASSUME user.is_active
       PROVE  /\ user.account_status = "PENDING_ACTIVATION"
              /\ \A n \in issued : n \in Nat /\ n < V
              /\ ended' = ended
              /\ previous.account_status # "DISABLED"
              /\ previous.account_status = "ACTIVE" => k = None
  <2>1. user.account_status = "PENDING_ACTIVATION"
    <3>1. user.account_status \in {"PENDING_ACTIVATION", "ACTIVE", "DISABLED"}
      BY <1>8 DEF User, AccountStatus
    <3>2. Live # {}
      BY <1>5 DEF Live
    <3> QED
      BY <1>10, <3>1, <3>2 DEF VersionInv, Current
  <2>2. \A n \in issued : n \in Nat /\ n < V
    BY <1>10, <2>1 DEF VersionInv, Current
  <2>3. ended' = ended
    BY <1>1, <1>8, <2>2 DEF MovesOn
  <2> QED
    BY <1>2, <1>3, <1>10, <2>1, <2>2, <2>3 DEF VersionInv, Remembered
<1>11. Remembered'
  BY <1>1, <1>6, <1>7, <1>9 DEF VersionInv, Remembered, Records
<1>12. PICK S \in SUBSET Undos : user.is_active =>
          /\ Lapsed(S)
          /\ \A v \in Undos \ S : Pending(v) =>
               \A n \in issued : n <= undos[v].previous.auth_version
  BY DEF VersionInv, Reachable
<1>13. user.is_active => u \notin S
  BY <1>2, <1>5, <1>12 DEF Lapsed
<1>14. ASSUME user.is_active PROVE Reachable'
  <2>1. \A v \in S : undos[v].resetInvitation \in Invitations /\ undos[v].made
    BY <1>1, <1>12, <1>14 DEF Lapsed, Records
  <2>2. \A v \in S : undos[v].resetInvitation \notin {i, k}
    BY <1>2, <1>5, <1>12, <1>13, <1>14 DEF Lapsed
  <2>3. \A v \in S : inv'[undos[v].resetInvitation].state # "live"
    BY <1>7, <2>1, <2>2
  <2>4. Lapsed(S)'
    BY <1>6, <1>12, <1>14, <2>3, LapsedKept
  <2> QED
    BY <1>1, <1>6, <1>12, <1>14, <2>4 DEF Reachable
<1>15. ASSUME user.is_active
       PROVE  \A n \in issued : n < user'.auth_version
  <2>1. \A n \in issued : n <= previous.auth_version
    BY <1>3, <1>5, <1>12, <1>13, <1>15
  <2> QED
    BY <1>8, <1>9, <1>10, <1>15, <2>1
<1>16. Current'
  <2>1. ended' \subseteq issued' /\ issued' \subseteq Nat
    BY <1>1 DEF VersionInv, Current, MovesOn
  <2>2. ASSUME user.is_active PROVE user'.account_status # "DISABLED"
    BY <1>9, <1>10, <2>2
  <2>3. ASSUME user.is_active, user'.account_status = "ACTIVE"
        PROVE  Live' = {}
    BY <1>7, <1>9, <1>10, <2>3, AccountsAssumption DEF Live
  <2>4. ASSUME user.is_active
        PROVE  /\ user'.auth_version \in Nat /\ user'.auth_version \notin ended'
               /\ \A n \in issued' : n <= user'.auth_version
    <3>1. user'.auth_version \in Nat
      BY <1>8, <1>9
    <3>2. \A n \in issued' : n \in Nat /\ n < user'.auth_version
      BY <1>1, <1>10, <1>15, <2>4
    <3> QED
      BY <2>1, <3>1, <3>2
  <2> QED
    BY <1>1, <1>9, <1>15, <2>1, <2>2, <2>3, <2>4 DEF Current
<1> QED
  BY <1>9, <1>11, <1>14, <1>16 DEF VersionInv

\* Every step of the account keeps its versions.
LEMMA VersionStep ==
    ASSUME IssuersAlone, AccountInv, HistoryInv, LiveInv, ReadInv, VersionInv, [Next]_vars
    PROVE  ReadInv' /\ VersionInv'
<1>1. ASSUME NEW p \in Requests, Step(p) PROVE Working(p) \/ Ending(p)
  BY <1>1 DEF Step, Working, Ending
<1>2. ReadInv'
  <2>1. CASE Time \/ UNCHANGED vars
    <3>1. UNCHANGED <<user, userLock, req>>
      BY <2>1 DEF Time, WindowPasses, ExpireInvitation, LockRunsOut, ExpireUndo, vars,
         locks
    <3> QED
      BY <3>1 DEF ReadInv, Reads
  <2> QED
    BY <1>1, <2>1, BeginReads, WorkingReads, EndingReads DEF Next, Ending
<1>3. VersionInv'
  <2>1. ASSUME NEW p \in Requests, Ending(p) PROVE VersionInv'
    BY <2>1, RegenerateVersions, ResetVersions, UndoResetVersions, RevokeVersions,
       CompleteVersions, DeactivateVersions, QuietVersions DEF Ending
  <2> QED
    BY <1>1, <2>1, QuietVersions DEF Next, Ending
<1> QED
  BY <1>2, <1>3

\* A login hands out the version of an active account, which no reset remembers any
\* more, and touches nothing else.
LEMMA LoginVersions ==
    ASSUME AccountInv, HistoryInv, LiveInv, ReadInv, VersionInv, Login
    PROVE  AccountInv' /\ HistoryInv' /\ LiveInv' /\ ReadInv' /\ VersionInv'
<1>1. /\ UNCHANGED <<user, inv, undos, failures, userLock, invLock, undoLock, req,
                     ended, activations, withdrawn>>
      /\ user.is_active /\ user.account_status = "ACTIVE"
      /\ issued' = issued \cup {user.auth_version}
  BY DEF Login, Accepts, tables, locks
<1>2. Live' = Live /\ Unmade' = Unmade /\ UnmadeUndos' = UnmadeUndos /\ Issuers' = Issuers
  BY <1>1 DEF Live, Unmade, UnmadeUndos, Issuers
<1>3. AccountInv'
  BY <1>1, <1>2 DEF AccountInv, Tables, Holding, Records, Spent, Keys
<1>4. HistoryInv'
  BY <1>1 DEF HistoryInv, Progress, Replaced, Reverted, Withdrawn, Retired, Settled, Pending
<1>5. LiveInv'
  BY <1>1, <1>2 DEF LiveInv, Together, Open, Sweeps, Single
<1>6. ReadInv'
  BY <1>1 DEF ReadInv, Reads
<1>7. Remembered'
  BY <1>1 DEF VersionInv, Remembered
<1>8. user.auth_version \in Nat
  BY DEF AccountInv, Tables, User
<1>9. /\ Live = {} /\ user.auth_version \notin ended
      /\ \A n \in issued : n <= user.auth_version
      /\ ended \subseteq issued /\ issued \subseteq Nat
  BY <1>1 DEF VersionInv, Current
<1>10. Current'
  <2>1. \A n \in issued' : n <= user.auth_version
    BY <1>1, <1>8, <1>9
  <2>2. ended' \subseteq issued' /\ issued' \subseteq Nat
    BY <1>1, <1>8, <1>9
  <2> QED
    BY <1>1, <1>2, <1>9, <2>1, <2>2 DEF Current
<1>11. Reachable'
  BY <1>1, <1>2, <1>9, NothingLive
<1> QED
  BY <1>3, <1>4, <1>5, <1>6, <1>7, <1>10, <1>11 DEF VersionInv

\* A service without sessions, and an account that was never reset.
LEMMA VersionInit == Init => ReadInv /\ VersionInv
<1> SUFFICES ASSUME Init PROVE ReadInv /\ VersionInv
  OBVIOUS
<1>1. Idle.op \notin Ops /\ ~Issuing(Idle.op)
  BY AccountsAssumption DEF Idle, Issuing, Ops
<1>2. ReadInv
  BY <1>1 DEF Init, ReadInv, Reads, Ops
<1>3. \A u \in Undos : ~undos[u].made
  BY DEF Init, NoUndo
<1>4. Current /\ Remembered
  BY <1>3 DEF Init, Current, Remembered
<1>5. Reachable
  <2>1. Lapsed({})
    BY DEF Lapsed
  <2> QED
    BY <1>3, <2>1 DEF Reachable, Pending
<1> QED
  BY <1>2, <1>4, <1>5 DEF VersionInv

-----------------------------------------------------------------------------
(* Versions of the tokens *)

Refreshing == {x \in Exchanges : exchange[x].op = "refresh"}

\* A jti is left for every refresh in flight.
Jtis ==
    /\ IsFiniteSet(Refreshing)
    /\ Cardinality(Refreshing) <= Cardinality(Unissued)

\* A token keeps the version of the login it goes back to, and a refresh hands out
\* the version of its token.
Rooted ==
    /\ \A t \in RefreshTokens :
         /\ {"issued", "version", "root"} \subseteq DOMAIN tokens[t]
         /\ tokens[t].issued => tokens[t].root = tokens[t].version
    /\ \A x \in Exchanges :
         /\ "version" \in DOMAIN exchange[x]
         /\ exchange[x].op # None <=> exchange[x].pc # "idle"
         /\ exchange[x].pc # "idle" =>
              /\ exchange[x].op \in {"refresh", "logout"}
              /\ tokens[exchange[x].jti].issued
         /\ exchange[x].op = "refresh" /\ exchange[x].pc = "commit" =>
              exchange[x].version = tokens[exchange[x].jti].version

RootInv == Jtis /\ Rooted

\* How many jtis and refreshes there are.
LEMMA JtiCounts ==
    ASSUME Jtis
    PROVE  /\ IsFiniteSet(Refreshing) /\ IsFiniteSet(Unissued)
           /\ Cardinality(Refreshing) \in Nat /\ Cardinality(Unissued) \in Nat
<1>1. Unissued \subseteq RefreshTokens
  BY DEF Unissued
<1> QED
  BY <1>1, SessionsAssumption, FS_Subset, FS_CardinalityType DEF Jtis

\* A pair has a jti of its own.
LEMMA JtiTaken ==
    ASSUME Shape, Jtis, Unissued # {}, NEW version, NEW root, NEW parent,
           HandOut(version, root, parent)
    PROVE  \E n \in Unissued :
             /\ tokens'[n].issued /\ tokens'[n].version = version
             /\ tokens'[n].root = root
             /\ {"issued", "version", "root"} \subseteq DOMAIN tokens'[n]
             /\ \A t \in RefreshTokens \ {n} : tokens'[t] = tokens[t]
             /\ Unissued' = Unissued \ {n}
             /\ Cardinality(Unissued') = Cardinality(Unissued) - 1
<1>1. PICK n \in Unissued : n = Min(Unissued)
  <2>1. Unissued \subseteq Nat
    BY SessionsAssumption DEF Unissued
  <2> QED
    BY <2>1, MinInSet
<1> DEFINE new == [NoToken EXCEPT !.issued = TRUE, !.version = version,
                                  !.root = root, !.parent = parent]
<1>2. tokens' = [tokens EXCEPT ![n] = new] /\ n \in RefreshTokens
  BY <1>1 DEF HandOut, Unissued
<1>3. /\ new.issued /\ new.version = version /\ new.root = root
      /\ {"issued", "version", "root"} \subseteq DOMAIN new
  BY DEF NoToken
<1> HIDE DEF new
<1>4. tokens'[n] = new /\ \A t \in RefreshTokens \ {n} : tokens'[t] = tokens[t]
  BY <1>2 DEF Shape
<1>5. Unissued' = Unissued \ {n}
  BY <1>3, <1>4 DEF Unissued
<1>6. Cardinality(Unissued') = Cardinality(Unissued) - 1
  BY <1>1, <1>5, JtiCounts, FS_RemoveElement
<1> QED
  BY <1>3, <1>4, <1>5, <1>6

\* An exchange that ends is none.
LEMMA ExchangeEnded ==
    ASSUME Shape, NEW x \in Exchanges, ExEnd(x)
    PROVE  /\ exchange'[x] = NoExchange
           /\ \A y \in Exchanges \ {x} : exchange'[y] = exchange[y]
           /\ NoExchange.op = None /\ NoExchange.pc = "idle"
           /\ "version" \in DOMAIN NoExchange
           /\ Refreshing' = Refreshing \ {x}
<1>1. /\ exchange'[x] = NoExchange
      /\ \A y \in Exchanges \ {x} : exchange'[y] = exchange[y]
  BY DEF Shape, ExEnd
<1>2. /\ NoExchange.op = None /\ NoExchange.pc = "idle"
      /\ "version" \in DOMAIN NoExchange
  BY DEF NoExchange
<1> QED
  BY <1>1, <1>2, SessionsAssumption DEF Refreshing

\* Fewer refreshes in flight need fewer jtis.
LEMMA FewerRefreshing ==
    ASSUME Jtis, Refreshing' \subseteq Refreshing, Unissued' = Unissued
    PROVE  Jtis'
<1>1. /\ IsFiniteSet(Refreshing') /\ Cardinality(Refreshing') \in Nat
      /\ Cardinality(Refreshing') <= Cardinality(Refreshing)
  BY JtiCounts, FS_Subset, FS_CardinalityType
<1> QED
  BY <1>1, JtiCounts DEF Jtis

\* An exchange that ends without a new pair.
LEMMA EndedWithout ==
    ASSUME Shape, RootInv, NEW x \in Exchanges, ExEnd(x), UNCHANGED tokens
    PROVE  RootInv'
<1>1. Jtis'
  BY ExchangeEnded, FewerRefreshing DEF RootInv, Unissued
<1>2. Rooted'
  <2>1. ASSUME NEW y \in Exchanges
        PROVE  /\ "version" \in DOMAIN exchange'[y]
               /\ exchange'[y].op # None <=> exchange'[y].pc # "idle"
               /\ exchange'[y].pc # "idle" =>
                    /\ exchange'[y].op \in {"refresh", "logout"}
                    /\ tokens[exchange'[y].jti].issued
               /\ exchange'[y].op = "refresh" /\ exchange'[y].pc = "commit" =>
                    exchange'[y].version = tokens[exchange'[y].jti].version
    BY ExchangeEnded DEF RootInv, Rooted
  <2> QED
    BY <2>1 DEF RootInv, Rooted
<1> QED
  BY <1>1, <1>2 DEF RootInv

\* An exchange that goes on with its token.
LEMMA ExchangeGoesOn ==
    ASSUME Shape, RootInv, NEW x \in Exchanges, exchange[x].pc # "idle",
           exchange'[x].op = exchange[x].op, exchange'[x].pc # "idle",
           exchange'[x].jti = exchange[x].jti, "version" \in DOMAIN exchange'[x],
           exchange'[x].op = "refresh" /\ exchange'[x].pc = "commit" =>
             exchange'[x].version = tokens[exchange[x].jti].version,
           \A y \in Exchanges \ {x} : exchange'[y] = exchange[y],
           UNCHANGED tokens
    PROVE  RootInv'
<1>1. Refreshing' = Refreshing /\ Unissued' = Unissued
  BY DEF Refreshing, Unissued
<1>2. Jtis'
  BY <1>1 DEF RootInv, Jtis
<1>3. Rooted'
  BY DEF RootInv, Rooted
<1> QED
  BY <1>2, <1>3 DEF RootInv

\* The steps of an exchange up to its commit.
LEMMA ExchangeRoots ==
    ASSUME TokenInv, RootInv, NEW x \in Exchanges,
           \/ Insert(x) \/ ReadUser(x) \/ Logout(x)
           \/ \E t \in RefreshTokens, op \in {"refresh", "logout"} : Exchange(x, op, t)
    PROVE  RootInv'
<1>1. Shape /\ Jtis /\ Rooted /\ None \notin {"refresh", "logout"}
  BY SessionsAssumption DEF TokenInv, RootInv
<1>2. CASE ExEnd(x) /\ UNCHANGED tokens
  BY <1>1, <1>2, EndedWithout
<1>3. CASE Insert(x) /\ ~ExEnd(x)
  <2>1. PICK pc \in {"read", "commit"} :
          /\ exchange' = [exchange EXCEPT ![x].pc = pc]
          /\ exchange[x].op = "refresh" => pc = "read"
          /\ exchange[x].pc = "insert" /\ UNCHANGED tokens
    BY <1>3 DEF Insert
  <2>2. /\ exchange'[x].pc = pc /\ exchange'[x].op = exchange[x].op
        /\ exchange'[x].jti = exchange[x].jti /\ "version" \in DOMAIN exchange'[x]
        /\ \A y \in Exchanges \ {x} : exchange'[y] = exchange[y]
    BY <1>1, <2>1 DEF Shape, Rooted
  <2> QED
    BY <1>1, <2>1, <2>2, ExchangeGoesOn
<1>4. CASE ReadUser(x) /\ ~ExEnd(x)
  <2>1. /\ exchange' = [exchange EXCEPT ![x].pc = "commit",
                                       ![x].version = user.auth_version]
        /\ exchange[x].pc = "read" /\ UNCHANGED tokens
        /\ user.auth_version = tokens[exchange[x].jti].version
    BY <1>4 DEF ReadUser, Accepts
  <2>2. /\ exchange'[x].pc = "commit" /\ exchange'[x].op = exchange[x].op
        /\ exchange'[x].jti = exchange[x].jti /\ "version" \in DOMAIN exchange'[x]
        /\ exchange'[x].version = user.auth_version
        /\ \A y \in Exchanges \ {x} : exchange'[y] = exchange[y]
    BY <1>1, <2>1 DEF Shape, Rooted
  <2> QED
    BY <1>1, <2>1, <2>2, ExchangeGoesOn
<1>5. ASSUME NEW t \in RefreshTokens, NEW op \in {"refresh", "logout"}, Exchange(x, op, t)
      PROVE  RootInv'
  <2>1. /\ exchange[x].pc = "idle" /\ exchange[x].op = None
        /\ op = "refresh" => JtiLeft
        /\ tokens[t].issued /\ UNCHANGED tokens
        /\ exchange' = [exchange EXCEPT ![x] =
             [NoExchange EXCEPT !.op = op, !.pc = "insert", !.jti = t]]
    BY <1>1, <1>5 DEF Exchange, Rooted
  <2>2. /\ exchange'[x].pc = "insert" /\ exchange'[x].op = op /\ exchange'[x].jti = t
        /\ "version" \in DOMAIN exchange'[x]
        /\ \A y \in Exchanges \ {x} : exchange'[y] = exchange[y]
    BY <1>1, <2>1 DEF Shape, NoExchange
  <2>3. Rooted'
    BY <1>1, <2>1, <2>2 DEF Rooted
  <2>4. Unissued' = Unissued
    BY <2>1 DEF Unissued
  <2>5. CASE op = "refresh"
    <3>1. x \notin Refreshing /\ Refreshing' = Refreshing \cup {x}
      BY <1>1, <2>1, <2>2, <2>5 DEF Refreshing
    <3>2. Cardinality(Refreshing) < Cardinality(Unissued)
      BY <2>1, <2>5 DEF JtiLeft, Refreshing
    <3>3. /\ IsFiniteSet(Refreshing \cup {x})
          /\ Cardinality(Refreshing \cup {x}) = Cardinality(Refreshing) + 1
      BY <1>1, <3>1, JtiCounts, FS_AddElement
    <3>4. Jtis'
      BY <1>1, <2>4, <3>1, <3>2, <3>3, JtiCounts DEF Jtis
    <3> QED
      BY <2>3, <3>4 DEF RootInv
  <2>6. CASE op # "refresh"
    <3>1. Refreshing' \subseteq Refreshing
      BY <2>2, <2>6 DEF Refreshing
    <3>2. Jtis'
      BY <1>1, <2>4, <3>1, FewerRefreshing
    <3> QED
      BY <2>3, <3>2 DEF RootInv
  <2> QED
    BY <2>5, <2>6
<1> QED
  BY <1>2, <1>3, <1>4, <1>5 DEF Insert, ReadUser, Logout

\* A login and a rotation hand out a pair of one version, beside the others.
LEMMA PairRoots ==
    ASSUME TokenInv, RootInv, NEW version, NEW parent,
           HandOut(version, version, parent), Unissued # {},
           \A y \in Exchanges : exchange'[y] = exchange[y] \/ exchange'[y] = NoExchange,
           \/ JtiLeft /\ Refreshing' = Refreshing
           \/ \E x \in Refreshing : Refreshing' = Refreshing \ {x}
    PROVE  RootInv'
<1>1. Shape /\ Jtis /\ Rooted
  BY DEF TokenInv, RootInv
<1>2. PICK n \in Unissued :
             /\ tokens'[n].issued /\ tokens'[n].version = version
             /\ tokens'[n].root = version
             /\ {"issued", "version", "root"} \subseteq DOMAIN tokens'[n]
             /\ \A t \in RefreshTokens \ {n} : tokens'[t] = tokens[t]
             /\ Cardinality(Unissued') = Cardinality(Unissued) - 1
  BY <1>1, JtiTaken
<1>3. Jtis'
  <2>1. CASE JtiLeft /\ Refreshing' = Refreshing
    <3>1. Cardinality(Refreshing) < Cardinality(Unissued)
      BY <2>1 DEF JtiLeft, Refreshing
    <3> QED
      BY <1>1, <1>2, <2>1, <3>1, JtiCounts DEF Jtis
  <2>2. CASE \E x \in Refreshing : Refreshing' = Refreshing \ {x}
    <3>1. /\ IsFiniteSet(Refreshing')
          /\ Cardinality(Refreshing') = Cardinality(Refreshing) - 1
      BY <1>1, <2>2, JtiCounts, FS_RemoveElement
    <3> QED
      BY <1>1, <1>2, <3>1, JtiCounts DEF Jtis
  <2> QED
    BY <2>1, <2>2
<1>4. NoExchange.op = None /\ NoExchange.pc = "idle" /\ "version" \in DOMAIN NoExchange
  BY DEF NoExchange
<1>5. \A y \in Exchanges : exchange[y].pc # "idle" =>
        tokens'[exchange[y].jti] = tokens[exchange[y].jti]
  BY <1>1, <1>2 DEF Shape, Rooted, Unissued
<1>6. Rooted'
  <2>1. ASSUME NEW y \in Exchanges
        PROVE  /\ "version" \in DOMAIN exchange'[y]
               /\ exchange'[y].op # None <=> exchange'[y].pc # "idle"
               /\ exchange'[y].pc # "idle" =>
                    /\ exchange'[y].op \in {"refresh", "logout"}
                    /\ tokens'[exchange'[y].jti].issued
               /\ exchange'[y].op = "refresh" /\ exchange'[y].pc = "commit" =>
                    exchange'[y].version = tokens'[exchange'[y].jti].version
    <3>1. CASE exchange'[y] = exchange[y]
      <4>1. exchange[y].pc # "idle" => tokens'[exchange'[y].jti] = tokens[exchange[y].jti]
        BY <1>5, <3>1
      <4> QED
        BY <1>1, <3>1, <4>1 DEF Rooted
    <3>2. CASE exchange'[y] = NoExchange
      BY <1>4, <3>2, SessionsAssumption
    <3> QED
      BY <3>1, <3>2
  <2>2. \A t \in RefreshTokens :
         /\ {"issued", "version", "root"} \subseteq DOMAIN tokens'[t]
         /\ tokens'[t].issued => tokens'[t].root = tokens'[t].version
    BY <1>1, <1>2 DEF Rooted
  <2> QED
    BY <2>1, <2>2 DEF Rooted
<1> QED
  BY <1>3, <1>6 DEF RootInv

\* The commit of a refresh hands out the version of its token.
LEMMA RotateRoots ==
    ASSUME TokenInv, RootInv, NEW x \in Exchanges, Rotate(x)
    PROVE  RootInv'
<1>1. /\ exchange[x].op = "refresh" /\ exchange[x].pc = "commit" /\ ExEnd(x)
      /\ HandOut(exchange[x].version, tokens[exchange[x].jti].root, exchange[x].jti)
      /\ Shape /\ Jtis /\ Rooted
  BY DEF Rotate, TokenInv, RootInv
<1>2. /\ exchange[x].jti \in RefreshTokens
      /\ tokens[exchange[x].jti].root = exchange[x].version
  BY <1>1 DEF Shape, Rooted
<1>3. x \in Refreshing /\ Refreshing' = Refreshing \ {x}
  BY <1>1, ExchangeEnded DEF Refreshing
<1>4. Unissued # {}
  <2>1. Cardinality(Refreshing) # 0
    BY <1>1, <1>3, JtiCounts, FS_EmptySet
  <2> QED
    BY <1>1, <2>1, JtiCounts, FS_EmptySet DEF Jtis
<1> QED
  BY <1>1, <1>2, <1>3, <1>4, ExchangeEnded, PairRoots

\* A login hands out the version of the account.
LEMMA LoginRoots ==
    ASSUME TokenInv, RootInv, Login
    PROVE  RootInv'
<1>1. /\ JtiLeft /\ HandOut(user.auth_version, user.auth_version, None)
      /\ exchange' = exchange /\ Jtis
  BY DEF Login, RootInv
<1>2. Refreshing' = Refreshing
  BY <1>1 DEF Refreshing
<1>3. Unissued # {}
  <2>1. Cardinality(Refreshing) < Cardinality(Unissued)
    BY <1>1 DEF JtiLeft, Refreshing
  <2> QED
    BY <1>1, <2>1, JtiCounts, FS_EmptySet
<1> QED
  BY <1>1, <1>2, <1>3, PairRoots

\* Tokens expire without moving on.
LEMMA ExpireRoots ==
    ASSUME TokenInv, RootInv,
           \/ \E t \in RefreshTokens : ExpireToken(t)
           \/ UNCHANGED sessionVars
    PROVE  RootInv'
<1>1. Shape /\ Jtis /\ Rooted /\ exchange' = exchange
  BY DEF TokenInv, RootInv, ExpireToken, sessionVars
<1>2. \A m \in RefreshTokens :
        /\ {"issued", "version", "root"} \subseteq DOMAIN tokens'[m]
        /\ tokens'[m].issued = tokens[m].issued
        /\ tokens'[m].version = tokens[m].version
        /\ tokens'[m].root = tokens[m].root
  <2>1. ASSUME NEW t \in RefreshTokens, ExpireToken(t)
        PROVE  \A m \in RefreshTokens :
                 /\ DOMAIN tokens'[m] = DOMAIN tokens[m]
                 /\ tokens'[m].issued = tokens[m].issued
                 /\ tokens'[m].version = tokens[m].version
                 /\ tokens'[m].root = tokens[m].root
    <3>1. /\ tokens'[t] = [tokens[t] EXCEPT !.expired = TRUE]
          /\ \A m \in RefreshTokens \ {t} : tokens'[m] = tokens[m]
      BY <1>1, <2>1 DEF ExpireToken, Shape
    <3> QED
      BY <1>1, <3>1 DEF Rooted
  <2> QED
    BY <1>1, <2>1 DEF Rooted, sessionVars
<1>3. Unissued' = Unissued /\ Refreshing' = Refreshing
  BY <1>1, <1>2 DEF Unissued, Refreshing
<1>4. Jtis'
  BY <1>1, <1>3 DEF Jtis
<1>5. Rooted'
  BY <1>1, <1>2 DEF Rooted, Shape
<1> QED
  BY <1>4, <1>5 DEF RootInv

\* Every step keeps the tokens to their versions.
LEMMA RootStep == TokenInv /\ RootInv /\ [SessionsNext]_allVars => RootInv'
<1> SUFFICES ASSUME TokenInv, RootInv, [SessionsNext]_allVars PROVE RootInv'
  OBVIOUS
<1>1. ASSUME NEW x \in Exchanges, ExStep(x) PROVE RootInv'
  BY <1>1, ExchangeRoots, RotateRoots DEF ExStep
<1>2. CASE UNCHANGED allVars
  BY <1>2, ExpireRoots DEF allVars
<1> QED
  BY <1>1, <1>2, LoginRoots, ExchangeRoots, ExpireRoots DEF SessionsNext, AccountMoves

\* No token to begin with.
LEMMA RootInit == SessionsInit => RootInv
<1> SUFFICES ASSUME SessionsInit PROVE RootInv
  OBVIOUS
<1>1. /\ NoExchange.op = None /\ NoExchange.pc = "idle"
      /\ "version" \in DOMAIN NoExchange
      /\ NoToken.issued = FALSE
      /\ {"issued", "version", "root"} \subseteq DOMAIN NoToken
  BY DEF NoExchange, NoToken
<1>2. Refreshing = {}
  BY <1>1, SessionsAssumption DEF SessionsInit, Refreshing
<1>3. IsFiniteSet(Unissued)
  BY SessionsAssumption, FS_Subset DEF Unissued
<1>4. Jtis
  BY <1>2, <1>3, FS_EmptySet, FS_CardinalityType DEF Jtis
<1>5. Rooted
  BY <1>1, SessionsAssumption DEF SessionsInit, Rooted
<1> QED
  BY <1>4, <1>5 DEF RootInv

\* While codes are issued one at a time: the sessions that a reset, a deactivation or
\* an activation ended stay ended, whatever undo brings the account back and however
\* often their tokens are exchanged.
THEOREM EndedForGood == IssuersAlone => (SessionsSpec => []EndedSessionsStayEnded)
<1> DEFINE Inv == /\ AccountInv /\ HistoryInv /\ LiveInv /\ ReadInv /\ VersionInv
                  /\ TokenInv /\ RootInv
<1>1. SUFFICES ASSUME IssuersAlone PROVE SessionsSpec => []EndedSessionsStayEnded
  OBVIOUS
<1>2. SessionsInit => Inv
  BY AccountInit, HistoryInit, LiveInit, VersionInit, TokenInit, RootInit
  DEF SessionsInit
<1>3. Inv /\ [SessionsNext]_allVars => Inv'
  <2> SUFFICES ASSUME Inv, [SessionsNext]_allVars PROVE Inv'
    OBVIOUS
  <2>1. TokenInv' /\ RootInv'
    BY TokenStep, RootStep
  <2>2. CASE Login
    BY <2>1, <2>2, LoginVersions
  <2>3. CASE [Next]_vars
    BY <1>1, <2>1, <2>3, AccountStep, HistoryStep, LiveStep, VersionStep
  <2>4. Login \/ [Next]_vars
    BY DEF SessionsNext, AccountMoves, Next, ExStep, Insert, ReadUser, Rotate, Logout,
           Exchange, ExpireToken, allVars
  <2> QED
    BY <2>2, <2>3, <2>4
<1>4. Inv => EndedSessionsStayEnded
  <2> SUFFICES ASSUME Rooted, Current, NEW t \in RefreshTokens, tokens[t].issued,
                      tokens[t].root \in ended
               PROVE  ~Accepts(tokens[t].version)
    BY DEF EndedSessionsStayEnded, VersionInv, RootInv
  <2> QED
    BY DEF Rooted, Current, Accepts
<1> HIDE DEF Inv
<1> QED
  BY <1>2, <1>3, <1>4, PTL DEF SessionsSpec

-----------------------------------------------------------------------------
(* What an undo gives back *)

\* Nobody chooses a password but with a code.
NoPasswordSet == "set_password" \notin Occurring

\* An account as an invitation finds it.
Blank(row) ==
    /\ row.password = None /\ row.account_status = "PENDING_ACTIVATION"
    /\ ~row.activated

\* A code is live for such an account only; so is one that a reset has replaced.
Invited ==
    /\ user.account_status = "PENDING_ACTIVATION" \/ Live # {} => Blank(user)
    /\ \A u \in Undos :
         /\ undos[u].made
         /\ \/ undos[u].previous.account_status = "PENDING_ACTIVATION"
            \/ undos[u].previousInvitation # None
         => Blank(undos[u].previous)

\* While a code is live, an undo has read the account as it is, and nobody is about to
\* deactivate it.
Recalls(p) ==
    /\ req[p].op # "set_password"
    /\ req[p].op = "deactivate" => Live = {}
    /\ req[p].op = "undo" /\ Live # {} => Blank(req[p].seen)

BlankInv == Invited /\ \A p \in Requests : Recalls(p)

\* A request to undo or to deactivate begins with the user as she is.
LEMMA BeginSees ==
    ASSUME AccountInv, NEW p \in Requests, Begin(p)
    PROVE  /\ req'[p].op \in Occurring /\ UNCHANGED <<user, inv, undos>>
           /\ \A q \in Requests \ {p} : req'[q] = req[q]
           /\ req'[p].op \in {"undo", "deactivate"} => req'[p].seen = user
           /\ req'[p].op = "deactivate" => user.account_status = "ACTIVE"
<1>1. req \in [Requests -> Row]
  BY DEF AccountInv, Tables
<1>2. ASSUME NEW row, Start(p, row)
      PROVE  /\ req'[p] = row /\ row.op \in Occurring /\ UNCHANGED <<user, inv, undos>>
             /\ \A q \in Requests \ {p} : req'[q] = req[q]
  BY <1>1, <1>2 DEF Start, MayStart, tables
<1>3. CASE BeginRegenerate(p)
  <2> DEFINE row == [Idle EXCEPT !.op = "regenerate", !.pc = "sweep", !.seen = user]
  <2>1. Start(p, row) /\ row.op = "regenerate"
    BY <1>3 DEF BeginRegenerate, Idle
  <2> HIDE DEF row
  <2> QED
    BY <1>2, <2>1
<1>4. CASE BeginReset(p)
  <2> DEFINE row == [Idle EXCEPT !.op = "reset", !.pc = "find", !.seen = user]
  <2>1. Start(p, row) /\ row.op = "reset"
    BY <1>4 DEF BeginReset, Idle
  <2> HIDE DEF row
  <2> QED
    BY <1>2, <2>1
<1>5. CASE BeginRevoke(p)
  <2> DEFINE row == [Idle EXCEPT !.op = "revoke", !.pc = "find", !.seen = user]
  <2>1. Start(p, row) /\ row.op = "revoke"
    BY <1>5 DEF BeginRevoke, Idle
  <2> HIDE DEF row
  <2> QED
    BY <1>2, <2>1
<1>6. CASE BeginDeactivate(p)
  <2> DEFINE row == [Idle EXCEPT !.op = "deactivate", !.pc = "finish", !.seen = user]
  <2>1. Start(p, row) /\ row.seen = user /\ user.account_status = "ACTIVE"
    BY <1>6 DEF BeginDeactivate, Idle
  <2> HIDE DEF row
  <2> QED
    BY <1>2, <2>1
<1>7. ASSUME NEW u \in Undos, BeginUndo(p, u)
      PROVE  /\ req'[p].op \in Occurring /\ UNCHANGED <<user, inv, undos>>
             /\ \A q \in Requests \ {p} : req'[q] = req[q]
             /\ req'[p].op = "undo" /\ req'[p].seen = user
  <2> DEFINE row == [Idle EXCEPT !.op = "undo", !.pc = "undo", !.seen = user, !.undo = u]
  <2>1. Start(p, row) /\ row.seen = user /\ row.op = "undo"
    BY <1>7 DEF BeginUndo, Idle
  <2> HIDE DEF row
  <2> QED
    BY <1>2, <2>1
<1>8. ASSUME NEW code \in Invitations \cup {None}, BeginValidate(p, code)
      PROVE  /\ req'[p].op \in Occurring /\ UNCHANGED <<user, inv, undos>>
             /\ \A q \in Requests \ {p} : req'[q] = req[q]
             /\ req'[p].op = "validate"
  <2> DEFINE row == [Idle EXCEPT !.op = "validate", !.pc = "fail", !.code = code,
                                 !.found = Newest(Live)]
  <2>1. Start(p, row) /\ row.op = "validate"
    BY <1>8 DEF BeginValidate, Idle
  <2> HIDE DEF row
  <2> QED
    BY <1>2, <2>1
<1>9. ASSUME NEW code \in Invitations \cup {None}, NEW password \in Passwords,
             BeginComplete(p, code, password)
      PROVE  /\ req'[p].op \in Occurring /\ UNCHANGED <<user, inv, undos>>
             /\ \A q \in Requests \ {p} : req'[q] = req[q]
             /\ req'[p].op = "complete"
  <2> DEFINE row == [Idle EXCEPT !.op = "complete", !.pc = "lock", !.code = code,
                                 !.password = password]
  <2>1. Start(p, row) /\ row.op = "complete"
    BY <1>9 DEF BeginComplete, Idle
  <2> HIDE DEF row
  <2> QED
    BY <1>2, <2>1
<1>10. ASSUME NEW password \in Passwords, BeginSetPassword(p, password)
       PROVE  /\ req'[p].op \in Occurring /\ UNCHANGED <<user, inv, undos>>
              /\ \A q \in Requests \ {p} : req'[q] = req[q]
              /\ req'[p].op = "set_password"
  <2> DEFINE row == [Idle EXCEPT !.op = "set_password", !.pc = "finish", !.seen = user,
                                 !.password = password]
  <2>1. Start(p, row) /\ row.op = "set_password"
    BY <1>10 DEF BeginSetPassword, Idle
  <2> HIDE DEF row
  <2> QED
    BY <1>2, <2>1
<1> QED
  BY <1>3, <1>4, <1>5, <1>6, <1>7, <1>8, <1>9, <1>10 DEF Begin

\* A step that gives the account no live code and leaves what requests have read.
LEMMA BlankKept ==
    ASSUME BlankInv, user' = user, Live' \subseteq Live,
           \A u \in Undos :
             /\ undos'[u].made = undos[u].made
             /\ undos'[u].previous = undos[u].previous
             /\ undos'[u].previousInvitation = undos[u].previousInvitation,
           \A q \in Requests :
             \/ req'[q].op \notin Ops
             \/ req'[q].op = req[q].op /\ req'[q].seen = req[q].seen
             \/ req'[q].op \notin {"undo", "deactivate", "set_password"}
    PROVE  BlankInv'
<1>1. Invited'
  BY DEF BlankInv, Invited, Blank
<1>2. ASSUME NEW q \in Requests PROVE Recalls(q)'
  BY DEF BlankInv, Recalls, Blank, Ops
<1> QED
  BY <1>1, <1>2 DEF BlankInv

\* A request begins.
LEMMA BeginBlank ==
    ASSUME AccountInv, BlankInv, NoPasswordSet, NEW p \in Requests, Begin(p)
    PROVE  BlankInv'
<1>1. /\ req'[p].op \in Occurring /\ UNCHANGED <<user, inv, undos>>
      /\ \A q \in Requests \ {p} : req'[q] = req[q]
      /\ req'[p].op \in {"undo", "deactivate"} => req'[p].seen = user
      /\ req'[p].op = "deactivate" => user.account_status = "ACTIVE"
  BY BeginSees
<1>2. Invited' /\ Live' = Live
  BY <1>1 DEF BlankInv, Invited, Blank, Live
<1>3. ASSUME NEW q \in Requests PROVE Recalls(q)'
  <2>1. CASE q = p
    BY <1>1, <1>2, <2>1 DEF BlankInv, Recalls, Invited, Blank, NoPasswordSet
  <2>2. CASE q # p
    BY <1>1, <1>2, <2>2 DEF BlankInv, Recalls, Blank
  <2> QED
    BY <2>1, <2>2
<1> QED
  BY <1>2, <1>3 DEF BlankInv

\* A request goes on with what it read; only a completion reads on the way.
LEMMA WorkingBlank ==
    ASSUME AccountInv, BlankInv, NEW p \in Requests, Working(p)
    PROVE  BlankInv'
<1>1. /\ UNCHANGED <<user, inv, undos>> /\ RowOK(req[p]) /\ req \in [Requests -> Row]
      /\ \A q \in Requests \ {p} : req'[q] = req[q]
      /\ End(p) \/ req'[p].op = req[p].op
  BY WorkingOn DEF tables, AccountInv, Tables
<1>2. \/ req'[p].op \notin Ops
      \/ req'[p].op = req[p].op /\ req'[p].seen = req[p].seen
      \/ req'[p].op \notin {"undo", "deactivate", "set_password"}
  <2>1. CASE End(p)
    BY <2>1, Released, AccountsAssumption DEF Idle
  <2>2. CASE LockUser(p)
    <3>1. req[p].op = "complete" /\ req'[p].op = "complete"
      BY <1>1, <2>2 DEF LockUser, RowOK, Path, Row
    <3> QED
      BY <3>1
  <2>3. CASE ~End(p) /\ ~LockUser(p)
    <3>1. req'[p].seen = req[p].seen
      <4>1. CASE LockUndo(p) \/ LockPrevious(p) \/ Find(p) \/ Sweep(p) \/ Swept(p)
        BY <1>1, <2>3, <4>1 DEF LockUndo, LockPrevious, Find, Sweep, Swept, Row
      <4>2. CASE Found(p) \/ \E i \in Invitations : SweepRow(p, i)
        BY <1>1, <4>2 DEF Found, SweepRow, Row
      <4> QED
        BY <2>3, <4>1, <4>2 DEF Working
    <3> QED
      BY <1>1, <2>3, <3>1
  <2> QED
    BY <2>1, <2>2, <2>3
<1>3. Live' = Live
  BY <1>1 DEF Live
<1>4. ASSUME NEW q \in Requests
      PROVE  \/ req'[q].op \notin Ops
             \/ req'[q].op = req[q].op /\ req'[q].seen = req[q].seen
             \/ req'[q].op \notin {"undo", "deactivate", "set_password"}
  BY <1>1, <1>2
<1> QED
  BY <1>1, <1>3, <1>4, BlankKept

\* A write of a blank account, and one by a request that has read a blank account.
LEMMA BlankWritten ==
    ASSUME user \in User, NEW seen \in User, NEW new \in User,
           \/ seen = user
           \/ Blank(seen) /\ Blank(user)
    PROVE  /\ Written(seen, new).password = new.password
           /\ Written(seen, new).account_status = new.account_status
           /\ Written(seen, new).activated = new.activated
<1>1. {"password", "account_status", "activated"} \subseteq DOMAIN user
  BY DEF User
<1>2. /\ user.activated = seen.activated /\ user.password = seen.password
      /\ user.account_status = seen.account_status
  BY DEF Blank, User
<1> QED
  BY <1>1, <1>2 DEF Written

\* The code that an undo has found is live, and the user it has read is blank.
LEMMA UndoFinds ==
    ASSUME AccountInv, HistoryInv, LiveInv, BlankInv, NEW p \in Requests, UndoReset(p)
    PROVE  \E u \in Undos, seen \in User, previous \in User :
             /\ u = req[p].undo /\ undos[u].made /\ previous = undos[u].previous
             /\ Live # {} /\ Blank(user) /\ Blank(seen)
             /\ user' = Written(seen, RestoredUser(seen, previous))
             /\ RestoredUser(seen, previous) \in User
             /\ undos' = [undos EXCEPT ![u].undone = TRUE]
             /\ Live' # {} => undos[u].previousInvitation # None
<1>1. /\ Tables /\ Records /\ RowOK(req[p]) /\ Holding(p) /\ Progress(p) /\ Single
      /\ req[p].op = "undo" /\ req[p].pc = "finish" /\ Recalls(p)
  BY DEF UndoReset, Finishing, AccountInv, HistoryInv, LiveInv, BlankInv
<1>2. PICK u \in Undos : u = req[p].undo /\ undos[u].made
  BY <1>1 DEF RowOK, Holding
<1>3. PICK i \in Invitations, k \in Invitations \cup {None} :
        i = req[p].found /\ k = undos[u].previousInvitation
  <2>1. undos[u].resetInvitation \in Invitations
    BY <1>1, <1>2 DEF Records
  <2>2. undos[u].previousInvitation \in Invitations \cup {None}
    BY <1>1 DEF Tables, Undo
  <2> QED
    BY <1>1, <1>2, <2>1, <2>2 DEF Progress
<1>4. i \in Live /\ Live \subseteq {i}
  BY <1>1, <1>3, AccountsAssumption DEF Holding, Live, Single
<1>5. PICK seen \in User, previous \in User :
        /\ seen = req[p].seen /\ previous = undos[u].previous
        /\ user' = Written(seen, RestoredUser(seen, previous))
  BY <1>1, <1>2, AccountsAssumption DEF UndoReset, RowOK, Ops, Records
<1>6. Blank(user) /\ Blank(seen)
  BY <1>1, <1>4, <1>5 DEF BlankInv, Invited, Recalls
<1>7. RestoredUser(seen, previous) \in User
  BY <1>5, UserWrites
<1>8. /\ undos' = [undos EXCEPT ![u].undone = TRUE]
      /\ inv' = [j \in Invitations |->
           IF j = i THEN [inv[j] EXCEPT !.state = "revoked"]
           ELSE IF j = k THEN Reinstated(j) ELSE inv[j]]
  BY <1>2, <1>3 DEF UndoReset
<1>9. \A j \in Invitations : inv'[j].state = "live" => j = k
  <2>1. \A j \in Invitations : j # i => inv[j].state # "live"
    BY <1>4 DEF Live
  <2> QED
    BY <1>8, <2>1, StateType
<1>10. Live' # {} => undos[u].previousInvitation # None
  BY <1>3, <1>9, AccountsAssumption DEF Live
<1>11. Live # {}
  BY <1>4
<1> WITNESS u \in Undos, seen \in User
<1> QED
  BY <1>2, <1>5, <1>6, <1>7, <1>8, <1>10, <1>11

\* What an undo writes is what the reset found.
LEMMA UndoReturns ==
    ASSUME AccountInv, HistoryInv, LiveInv, BlankInv, NEW p \in Requests, UndoReset(p)
    PROVE  LET previous == undos[req[p].undo].previous
           IN  /\ user'.password = previous.password
               /\ user'.activated = previous.activated
               /\ user'.account_status = previous.account_status
<1>1. PICK u \in Undos, seen \in User, previous \in User :
             /\ u = req[p].undo /\ previous = undos[u].previous
             /\ Blank(user) /\ Blank(seen)
             /\ user' = Written(seen, RestoredUser(seen, previous))
             /\ RestoredUser(seen, previous) \in User
  BY UndoFinds
<1>2. user \in User
  BY DEF AccountInv, Tables
<1>3. /\ RestoredUser(seen, previous).password = previous.password
      /\ RestoredUser(seen, previous).activated = previous.activated
      /\ RestoredUser(seen, previous).account_status = previous.account_status
  BY <1>1 DEF RestoredUser, User
<1> QED
  BY <1>1, <1>2, <1>3, BlankWritten

\* An undo leaves the account as the reset found it.
LEMMA UndoBlank ==
    ASSUME AccountInv, HistoryInv, LiveInv, BlankInv, NEW p \in Requests, UndoReset(p)
    PROVE  BlankInv'
<1>1. PICK u \in Undos, seen \in User, previous \in User :
             /\ u = req[p].undo /\ undos[u].made /\ previous = undos[u].previous
             /\ Live # {} /\ Blank(user) /\ Blank(seen)
             /\ user' = Written(seen, RestoredUser(seen, previous))
             /\ RestoredUser(seen, previous) \in User
             /\ undos' = [undos EXCEPT ![u].undone = TRUE]
             /\ Live' # {} => undos[u].previousInvitation # None
  BY UndoFinds
<1>2. user \in User /\ undos \in [Undos -> Undo] /\ End(p)
  BY DEF AccountInv, Tables, UndoReset
<1>3. /\ user'.password = previous.password /\ user'.activated = previous.activated
      /\ user'.account_status = previous.account_status
  BY <1>1, UndoReturns
<1>4. Invited'
  <2>1. \A v \in Undos : /\ undos'[v].made = undos[v].made
                         /\ undos'[v].previous = undos[v].previous
                         /\ undos'[v].previousInvitation = undos[v].previousInvitation
    BY <1>1, <1>2 DEF Undo
  <2>2. user'.account_status = "PENDING_ACTIVATION" \/ Live' # {} => Blank(previous)
    BY <1>1, <1>3 DEF BlankInv, Invited
  <2> QED
    BY <1>3, <2>1, <2>2 DEF BlankInv, Invited, Blank
<1>5. ASSUME NEW q \in Requests PROVE Recalls(q)'
  <2>1. Idle.op \notin Ops
    BY AccountsAssumption DEF Idle
  <2>2. req'[q] = Idle \/ req'[q] = req[q]
    BY <1>2, Released
  <2> QED
    BY <1>1, <2>1, <2>2 DEF BlankInv, Recalls, Ops, Blank
<1> QED
  BY <1>4, <1>5 DEF BlankInv

\* An issuer is alone: a new code is for an account that is blank or made so.
LEMMA IssueBlank ==
    ASSUME AccountInv, LiveInv, ReadInv, BlankInv, IssuersAlone,
           NEW p \in Requests, Regenerate(p) \/ Reset(p)
    PROVE  BlankInv'
<1>1. /\ Tables /\ RowOK(req[p]) /\ Holding(p) /\ Reads(p) /\ Invited /\ End(p)
      /\ req[p].pc = "finish" /\ req[p].op \in {"regenerate", "reset"}
  BY DEF Regenerate, Reset, Finishing, AccountInv, ReadInv, BlankInv
<1>2. ASSUME NEW q \in Requests PROVE Recalls(q)'
  <2>1. Idle.op \notin Ops
    BY AccountsAssumption DEF Idle
  <2>2. CASE q = p
    BY <1>1, <2>1, <2>2, Released DEF Recalls, Ops
  <2>3. CASE q # p
    <3>1. Open(p) /\ Issuing(req[p].op)
      BY <1>1 DEF Open, Issuing
    <3>2. ~Open(q)
      BY <2>3, <3>1 DEF LiveInv, Together, IssuersAlone
    <3>3. req'[q] = Idle
      BY <1>1, <2>3, <3>2, Released DEF Open, AccountInv, RowOK
    <3> QED
      BY <2>1, <3>3 DEF Recalls, Ops
  <2> QED
    BY <2>2, <2>3
<1>3. CASE Regenerate(p)
  <2>1. UNCHANGED <<user, undos>> /\ Blank(user)
    BY <1>1, <1>3 DEF Regenerate, Finishing, Reads, Invited
  <2> QED
    BY <1>1, <1>2, <2>1 DEF Invited, BlankInv, Blank
<1>4. CASE Reset(p)
  <2>1. PICK w \in UnmadeUndos, found \in Invitations \cup {None}, code \in Unmade :
          /\ undos' = [undos EXCEPT ![w] =
               [NoUndo EXCEPT !.made = TRUE, !.previous = user,
                  !.previousInvitation = found, !.resetInvitation = code]]
          /\ found = req[p].found
    <3>1. req[p].seen = user /\ Issuing(req[p].op)
      BY <1>1 DEF Reads, Issuing
    <3>2. Min(UnmadeUndos) \in UnmadeUndos /\ Min(Unmade) \in Unmade
      BY <3>1, KeysForIssuer
    <3>3. req[p].found \in Invitations \cup {None}
      BY <1>1 DEF RowOK, Row
    <3> QED
      BY <1>4, <3>1, <3>2, <3>3 DEF Reset
  <2>2. Blank(user')
    <3>1. PICK new \in User : new = ResetUser(user)
      BY <1>1, UserWrites DEF Tables
    <3>2. user' = Written(user, new)
      BY <1>1, <1>4, <3>1 DEF Reset, Reads, Issuing
    <3>3. Blank(new)
      BY <1>1, <3>1 DEF Tables, Blank, ResetUser, User
    <3>4. /\ user'.password = new.password /\ user'.activated = new.activated
          /\ user'.account_status = new.account_status
      BY <1>1, <3>2, BlankWritten DEF Tables
    <3> QED
      BY <3>3, <3>4 DEF Blank
  <2>3. found # None => Live # {}
    BY <1>1, <2>1 DEF Holding, Live
  <2>4. ASSUME NEW v \in Undos, undos'[v].made,
               \/ undos'[v].previous.account_status = "PENDING_ACTIVATION"
               \/ undos'[v].previousInvitation # None
        PROVE  Blank(undos'[v].previous)
    <3>1. CASE v = w
      <4>1. undos'[v].previous = user /\ undos'[v].previousInvitation = found
        BY <1>1, <2>1, <3>1 DEF Tables, NoUndo
      <4> QED
        BY <1>1, <2>3, <2>4, <4>1 DEF Invited
    <3>2. CASE v # w
      <4>1. undos'[v] = undos[v]
        BY <1>1, <2>1, <3>2 DEF Tables
      <4> QED
        BY <1>1, <2>4, <4>1 DEF Invited
    <3> QED
      BY <3>1, <3>2
  <2>5. Invited'
    BY <2>2, <2>4 DEF Invited, Blank
  <2> QED
    BY <1>2, <2>5 DEF BlankInv
<1> QED
  BY <1>3, <1>4

\* A completion leaves no live code, and a deactivation finds none.
LEMMA MoveBlank ==
    ASSUME AccountInv, LiveInv, ReadInv, BlankInv,
           NEW p \in Requests, Complete(p) \/ Deactivate(p)
    PROVE  BlankInv'
<1>1. /\ Tables /\ RowOK(req[p]) /\ Holding(p) /\ Reads(p) /\ Recalls(p) /\ Invited
      /\ Single /\ End(p) /\ undos' = undos
      /\ req[p].pc = "finish" /\ req[p].op \in {"complete", "deactivate"}
  BY DEF Complete, Deactivate, Finishing, AccountInv, ReadInv, BlankInv, LiveInv
<1>2. Live' = {} /\ user'.account_status # "PENDING_ACTIVATION"
  <2>1. CASE Complete(p)
    <3>1. PICK i \in Invitations : i = req[p].found
      BY <1>1, <2>1 DEF Complete, Finishing, Reads, RowOK, Row
    <3>2. i \in Live
      BY <1>1, <2>1, <3>1, AccountsAssumption DEF Complete, Finishing, Holding, Live
    <3>3. inv' = [j \in Invitations |->
           IF j = i THEN [inv[j] EXCEPT !.state = "used"]
           ELSE IF j \in req[p].doomed THEN [inv[j] EXCEPT !.state = "revoked"]
           ELSE inv[j]]
      BY <2>1, <3>1 DEF Complete
    <3>4. \A j \in Invitations : inv'[j].state # "live"
      BY <1>1, <3>2, <3>3, StateType DEF Single, Live
    <3>5. PICK new : /\ user' = Written(user, new)
                     /\ new.account_status = "ACTIVE"
      <4> DEFINE new == [user EXCEPT !.password = req[p].password,
                                     !.account_status = "ACTIVE",
                                     !.activated = TRUE, !.auth_version = @ + 1]
      <4>1. user' = Written(user, new)
        BY <1>1, <2>1 DEF Complete, Finishing, Reads
      <4>2. new.account_status = "ACTIVE"
        BY <1>1 DEF Tables, User
      <4> HIDE DEF new
      <4> QED
        BY <4>1, <4>2
    <3>6. user'.account_status = "ACTIVE"
      BY <1>1, <3>5, WrittenColumns DEF Tables
    <3> QED
      BY <3>4, <3>6 DEF Live
  <2>2. CASE Deactivate(p)
    <3>1. PICK seen, new :
            /\ user' = Written(seen, new) /\ seen.account_status = "ACTIVE"
            /\ new.account_status = "DISABLED"
      <4> DEFINE new == [req[p].seen EXCEPT !.is_active = FALSE,
                                            !.account_status = "DISABLED",
                                            !.auth_version = @ + 1]
      <4>1. /\ user' = Written(req[p].seen, new)
            /\ req[p].op = "deactivate" /\ req[p].seen.account_status = "ACTIVE"
        BY <1>1, <2>2 DEF Deactivate, Finishing, Reads
      <4>2. req[p].seen \in User
        BY <1>1, <4>1, AccountsAssumption DEF RowOK, Ops
      <4>3. new.account_status = "DISABLED"
        BY <4>2 DEF User
      <4> HIDE DEF new
      <4> QED
        BY <4>1, <4>3
    <3>2. user'.account_status = "DISABLED"
      BY <1>1, <3>1, WrittenColumns DEF Tables
    <3>3. Live = {} /\ inv' = inv
      BY <1>1, <2>2 DEF Deactivate, Finishing, Recalls
    <3> QED
      BY <3>2, <3>3 DEF Live
  <2> QED
    BY <2>1, <2>2
<1>3. Invited'
  BY <1>1, <1>2 DEF Invited, Blank
<1>4. ASSUME NEW q \in Requests PROVE Recalls(q)'
  <2>1. Idle.op \notin Ops
    BY AccountsAssumption DEF Idle
  <2>2. req'[q] = Idle \/ req'[q] = req[q]
    BY <1>1, Released
  <2> QED
    BY <1>2, <2>1, <2>2 DEF BlankInv, Recalls, Ops
<1> QED
  BY <1>3, <1>4 DEF BlankInv

\* Neither time nor a login touches what resets remember.
LEMMA QuietRecords ==
    ASSUME AccountInv, Time \/ Login \/ UNCHANGED vars
    PROVE  /\ UNCHANGED <<user, req>>
           /\ \A i \in Invitations : inv'[i].state = inv[i].state
           /\ \A u \in Undos :
                /\ undos'[u].made = undos[u].made
                /\ undos'[u].undone = undos[u].undone
                /\ undos'[u].previous = undos[u].previous
                /\ undos'[u].previousInvitation = undos[u].previousInvitation
<1>1. inv \in [Invitations -> Invitation] /\ undos \in [Undos -> Undo]
  BY DEF AccountInv, Tables
<1>2. ASSUME NEW i \in Invitations, ExpireInvitation(i) \/ LockRunsOut(i)
      PROVE  /\ UNCHANGED <<user, req, undos>>
             /\ \A j \in Invitations : inv'[j].state = inv[j].state
  BY <1>1, <1>2 DEF Invitation, ExpireInvitation, LockRunsOut
<1>3. ASSUME NEW w \in Undos, ExpireUndo(w)
      PROVE  /\ UNCHANGED <<user, req, inv>>
             /\ \A u \in Undos :
                  /\ undos'[u].made = undos[u].made
                  /\ undos'[u].undone = undos[u].undone
                  /\ undos'[u].previous = undos[u].previous
                  /\ undos'[u].previousInvitation = undos[u].previousInvitation
  BY <1>1, <1>3 DEF Undo, ExpireUndo
<1>4. CASE WindowPasses \/ Login \/ UNCHANGED vars
  BY <1>4 DEF WindowPasses, Login, tables, vars
<1> QED
  BY <1>2, <1>3, <1>4 DEF Time

\* The other requests end without a live code more or a user changed.
LEMMA EndingBlank ==
    ASSUME AccountInv, HistoryInv, LiveInv, ReadInv, BlankInv, IssuersAlone,
           NEW p \in Requests, Ending(p)
    PROVE  BlankInv'
<1>1. /\ End(p) /\ Tables /\ RowOK(req[p]) /\ Recalls(p) /\ Idle.op \notin Ops
      /\ req'[p] = Idle /\ \A q \in Requests \ {p} : req'[q] = req[q]
  BY EndingNow, Released, AccountsAssumption DEF AccountInv, BlankInv, Idle
<1>2. CASE Revoke(p) \/ Fail(p) \/ Refused(p) \/ DeadlockVictim(p)
  <2>1. UNCHANGED <<user, undos>>
    BY <1>2 DEF Revoke, Fail, Refused, DeadlockVictim, tables
  <2>2. Live' \subseteq Live
    <3>1. CASE Revoke(p)
      <4>1. PICK i : i = req[p].found
        OBVIOUS
      <4>2. inv' = [inv EXCEPT ![i].state = "revoked"]
        BY <3>1, <4>1 DEF Revoke
      <4>3. \A j \in Invitations :
              inv'[j].state = inv[j].state \/ inv'[j].state = "revoked"
        BY <1>1, <4>2, StateType DEF Tables
      <4> QED
        BY <4>3 DEF Live
    <3>2. CASE Fail(p) \/ Refused(p) \/ DeadlockVictim(p)
      <4>1. inv' = inv \/ inv' = [inv EXCEPT ![req[p].found].locked = TRUE]
        BY <3>2 DEF Fail, Refused, DeadlockVictim, tables
      <4>2. \A i \in Invitations : inv'[i].state = inv[i].state
        BY <1>1, <4>1 DEF Tables, Invitation
      <4> QED
        BY <4>2 DEF Live
    <3> QED
      BY <1>2, <3>1, <3>2
  <2>3. \A q \in Requests :
          \/ req'[q].op \notin Ops
          \/ req'[q].op = req[q].op /\ req'[q].seen = req[q].seen
    BY <1>1
  <2> QED
    BY <2>1, <2>2, <2>3, BlankKept
<1>3. CASE SetPassword(p)
  BY <1>1, <1>3 DEF SetPassword, Finishing, Recalls
<1> QED
  BY <1>2, <1>3, IssueBlank, UndoBlank, MoveBlank DEF Ending

\* Neither time nor a login makes a code live or changes what was read.
LEMMA QuietBlank ==
    ASSUME AccountInv, BlankInv, Time \/ Login \/ UNCHANGED vars
    PROVE  BlankInv'
<1>1. Tables
  BY DEF AccountInv
<1>2. /\ UNCHANGED <<user, req>>
      /\ \A i \in Invitations : inv'[i].state = inv[i].state
      /\ \A u \in Undos :
             /\ undos'[u].made = undos[u].made
             /\ undos'[u].undone = undos[u].undone
             /\ undos'[u].previous = undos[u].previous
             /\ undos'[u].previousInvitation = undos[u].previousInvitation
  BY QuietRecords
<1>3. Live' = Live
  BY <1>2 DEF Live
<1> QED
  BY <1>2, <1>3, BlankKept

\* Every step keeps live codes to blank accounts.
LEMMA BlankStep ==
    ASSUME AccountInv, HistoryInv, LiveInv, ReadInv, BlankInv, IssuersAlone,
           NoPasswordSet, [Next]_vars \/ Login
    PROVE  BlankInv'
<1>1. ASSUME NEW p \in Requests, Step(p) PROVE Working(p) \/ Ending(p)
  BY <1>1 DEF Step, Working, Ending
<1> QED
  BY <1>1, BeginBlank, WorkingBlank, EndingBlank, QuietBlank DEF Next, Ending

\* An account that was invited and never used.
LEMMA BlankInit == Init => BlankInv
<1> SUFFICES ASSUME Init PROVE BlankInv
  OBVIOUS
<1>1. Idle.op \notin Ops
  BY AccountsAssumption DEF Idle
<1>2. Blank(user) /\ \A u \in Undos : ~undos[u].made
  BY DEF Init, Blank, NoUndo
<1> QED
  BY <1>1, <1>2 DEF Init, BlankInv, Invited, Recalls, Ops

\* Only an undo marks a reset as undone.
LEMMA UndoMarks ==
    ASSUME AccountInv, [Next]_vars \/ Login, NEW u \in Undos,
           undos'[u].undone, ~undos[u].undone
    PROVE  \E p \in Requests : UndoReset(p) /\ req[p].undo = u
<1>1. Tables
  BY DEF AccountInv
<1>2. ~(Time \/ Login \/ UNCHANGED vars) /\ undos' # undos
  BY QuietRecords
<1>3. ASSUME NEW p \in Requests, Begin(p) \/ Working(p) PROVE FALSE
  BY <1>2, <1>3, BeginSees, WorkingOn DEF tables
<1>4. PICK p \in Requests : Ending(p)
  <2>1. ASSUME NEW p \in Requests, Step(p) PROVE Working(p) \/ Ending(p)
    BY <2>1 DEF Step, Working, Ending
  <2> QED
    BY <1>2, <1>3, <2>1 DEF Next, Ending
<1>5. Reset(p) \/ UndoReset(p)
  BY <1>2, <1>4 DEF Ending, Regenerate, Revoke, Complete, SetPassword, Deactivate, Fail,
                    Refused, DeadlockVictim, tables
<1>6. CASE Reset(p)
  <2>1. PICK w : undos' = [undos EXCEPT ![w] =
               [NoUndo EXCEPT !.made = TRUE, !.previous = req[p].seen,
                  !.previousInvitation = req[p].found, !.resetInvitation = Min(Unmade)]]
    BY <1>6 DEF Reset
  <2>2. undos'[u].undone = undos[u].undone \/ ~undos'[u].undone
    BY <1>1, <2>1 DEF Tables, NoUndo
  <2> QED
    BY <2>2
<1>7. CASE UndoReset(p)
  <2>1. PICK w : w = req[p].undo
    OBVIOUS
  <2>2. undos' = [undos EXCEPT ![w].undone = TRUE]
    BY <1>7, <2>1 DEF UndoReset
  <2>3. w = u
    BY <1>1, <2>2 DEF Tables
  <2> QED
    BY <1>7, <2>1, <2>3
<1> QED
  BY <1>5, <1>6, <1>7

\* While codes are issued one at a time and no password is set but with a code: an undo
\* gives the account back as the reset found it, though the copy of the user from which
\* it writes is older than its locks.
THEOREM UndoGivesBack ==
    IssuersAlone /\ NoPasswordSet => (SessionsSpec => UndoRestores)
<1> DEFINE Inv == /\ AccountInv /\ HistoryInv /\ LiveInv /\ ReadInv /\ VersionInv
                  /\ BlankInv
<1>1. SUFFICES ASSUME IssuersAlone, NoPasswordSet PROVE SessionsSpec => UndoRestores
  OBVIOUS
<1>2. SessionsInit => Inv
  BY AccountInit, HistoryInit, LiveInit, VersionInit, BlankInit DEF SessionsInit
<1>3. [SessionsNext]_allVars => [Next]_vars \/ Login
  BY DEF SessionsNext, AccountMoves, Next, ExStep, Insert, ReadUser, Rotate, Logout,
         Exchange, ExpireToken, allVars
<1>4. Inv /\ [SessionsNext]_allVars => Inv'
  <2> SUFFICES ASSUME Inv, [Next]_vars \/ Login PROVE Inv'
    BY <1>3
  <2>1. BlankInv'
    BY <1>1, BlankStep
  <2> QED
    BY <1>1, <2>1, LoginVersions, AccountStep, HistoryStep, LiveStep, VersionStep
<1>5. Inv /\ [SessionsNext]_allVars =>
        [\A u \in Undos : undos'[u].undone /\ ~undos[u].undone =>
           /\ user'.password = undos[u].previous.password
           /\ user'.account_status = undos[u].previous.account_status
           /\ user'.activated = undos[u].previous.activated]_vars
  <2> SUFFICES ASSUME Inv, [Next]_vars \/ Login, NEW u \in Undos,
                      undos'[u].undone, ~undos[u].undone
               PROVE  /\ user'.password = undos[u].previous.password
                      /\ user'.account_status = undos[u].previous.account_status
                      /\ user'.activated = undos[u].previous.activated
    BY <1>3
  <2>1. PICK p \in Requests : UndoReset(p) /\ req[p].undo = u
    BY UndoMarks
  <2>2. PICK previous : /\ previous = undos[u].previous
                        /\ user'.password = previous.password
                        /\ user'.activated = previous.activated
                        /\ user'.account_status = previous.account_status
    BY <2>1, UndoReturns
  <2> QED
    BY <2>2
<1> HIDE DEF Inv
<1> QED
  BY <1>2, <1>4, <1>5, PTL DEF SessionsSpec, UndoRestores

=============================================================================
