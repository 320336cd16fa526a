---------------------------- MODULE AccountSessions ----------------------------
(***************************************************************************)
(* The sessions of the account of Accounts: refresh tokens, their rotation   *)
(* and their end (src/src/routers/auth.py, src/src/security.py).            *)
(*                                                                         *)
(* A refresh token is a signed claim, <<jti, auth_version>>, that nobody     *)
(* keeps; what the database keeps is revoked_tokens, whose jti is unique.   *)
(* An insertion of a jti waits for another that has not committed yet, and  *)
(* fails when that one commits.  Access tokens carry the same claim and     *)
(* open the account under the same condition, Accepts, until they expire.   *)
(***************************************************************************)
EXTENDS Accounts

CONSTANTS
  RefreshTokens,   \* jtis, in order of issue
  Exchanges,       \* slots for refresh and logout requests in flight
  Logins           \* bound: logins

ASSUME SessionsAssumption ==
  /\ RefreshTokens \subseteq Nat \ {0} /\ IsFiniteSet(RefreshTokens)
  /\ None \notin RefreshTokens \cup Exchanges
  /\ None \notin {"refresh", "logout"}
  /\ Logins \in Nat

VARIABLES
  tokens,       \* the refresh tokens handed out
  revokedJtis,  \* rows of revoked_tokens
  exchange,     \* what each exchange is doing
  loggedOut     \* tokens a reader has given back

sessionVars == <<tokens, revokedJtis, exchange, loggedOut>>
allVars == <<vars, sessionVars>>

(* root is the version of the login a token goes back to.                  *)
NoToken == [issued |-> FALSE, version |-> 0, root |-> 0, parent |-> None,
            expired |-> FALSE]
NoExchange == [op |-> None, pc |-> "idle", jti |-> None, version |-> None]

Unissued == {t \in RefreshTokens : ~tokens[t].issued}

(* get_current_user, refresh_token_pair: who is let in with a version.     *)
Accepts(version) ==
  /\ user.is_active /\ user.account_status = "ACTIVE"
  /\ version = user.auth_version

(* create_token_pair.                                                      *)
HandOut(version, root, parent) ==
  tokens' = [tokens EXCEPT ![Min(Unissued)] =
    [NoToken EXCEPT !.issued = TRUE, !.version = version, !.root = root,
                    !.parent = parent]]

ExEnd(x) == exchange' = [exchange EXCEPT ![x] = NoExchange]

(* Bound: a pair is asked for while a jti is left for every refresh in       *)
(* flight.                                                                 *)
JtiLeft ==
  Cardinality({y \in Exchanges : exchange[y].op = "refresh"}) < Cardinality(Unissued)

(* Bound: Logins logins, so that jtis are left for refreshes in flight at     *)
(* the same time.                                                          *)
LoginLeft ==
  Cardinality({t \in RefreshTokens : tokens[t].issued /\ tokens[t].parent = None})
    < Logins

(* An insertion that has been sent and not committed.                      *)
Inserting(jti) ==
  {x \in Exchanges : exchange[x].pc \in {"read", "commit"} /\ exchange[x].jti = jti}

-----------------------------------------------------------------------------
SessionsInit ==
  /\ Init
  /\ tokens = [t \in RefreshTokens |-> NoToken]
  /\ revokedJtis = {}
  /\ exchange = [x \in Exchanges |-> NoExchange]
  /\ loggedOut = {}

(* login_for_access_token.                                                 *)
Login ==
  /\ Accepts(user.auth_version) /\ user.password # None
  /\ JtiLeft /\ LoginLeft
  /\ HandOut(user.auth_version, user.auth_version, None)
  /\ issued' = issued \cup {user.auth_version}
  /\ UNCHANGED <<tables, locks, req, ended, activations, withdrawn>>
  /\ UNCHANGED <<revokedJtis, exchange, loggedOut>>

(* refresh_token_pair and logout: the signature, the expiry and the         *)
(* revocation are checked on a first read.                                 *)
Exchange(x, op, jti) ==
  /\ exchange[x].pc = "idle"
  /\ op = "refresh" => JtiLeft
  /\ tokens[jti].issued /\ ~tokens[jti].expired
  /\ jti \notin revokedJtis
  /\ exchange' = [exchange EXCEPT ![x] =
       [NoExchange EXCEPT !.op = op, !.pc = "insert", !.jti = jti]]
  /\ UNCHANGED <<vars, tokens, revokedJtis, loggedOut>>

(* Mutant of Insert: the jti is not unique.                                *)
InsertUnchecked(x) ==
  /\ exchange[x].pc = "insert"
  /\ exchange' = [exchange EXCEPT ![x].pc =
                     IF exchange[x].op = "refresh" THEN "read" ELSE "commit"]
  /\ UNCHANGED <<vars, tokens, revokedJtis, loggedOut>>

(* The INSERT into revoked_tokens: sent before the user is read (refresh)   *)
(* or with the commit (logout); a second one fails, and so does its request. *)
Insert(x) ==
  LET jti == exchange[x].jti
  IN  /\ exchange[x].pc = "insert" /\ Inserting(jti) = {}
      /\ IF jti \in revokedJtis THEN ExEnd(x)
         ELSE exchange' = [exchange EXCEPT ![x].pc =
                IF exchange[x].op = "refresh" THEN "read" ELSE "commit"]
      /\ UNCHANGED <<vars, tokens, revokedJtis, loggedOut>>

(* Mutant of ReadUser: the version is the business of get_current_user.    *)
ReadUserWhateverVersion(x) ==
  LET jti == exchange[x].jti
  IN  /\ exchange[x].pc = "read"
      /\ IF Accepts(user.auth_version)
         THEN /\ exchange' = [exchange EXCEPT ![x].pc = "commit",
                                             ![x].version = user.auth_version]
              /\ UNCHANGED revokedJtis
         ELSE /\ revokedJtis' = revokedJtis \cup {jti}
              /\ ExEnd(x)
      /\ UNCHANGED <<vars, tokens, loggedOut>>

(* The user is read; a refused refresh commits the revocation all the same. *)
ReadUser(x) ==
  LET jti == exchange[x].jti
  IN  /\ exchange[x].pc = "read"
      /\ IF Accepts(tokens[jti].version)
         THEN /\ exchange' = [exchange EXCEPT ![x].pc = "commit",
                                             ![x].version = user.auth_version]
              /\ UNCHANGED revokedJtis
         ELSE /\ revokedJtis' = revokedJtis \cup {jti}
              /\ ExEnd(x)
      /\ UNCHANGED <<vars, tokens, loggedOut>>

(* The commit of a refresh: the old jti is revoked, a new pair handed out.  *)
Rotate(x) ==
  LET ex == exchange[x]
  IN  /\ ex.op = "refresh" /\ ex.pc = "commit"
      /\ revokedJtis' = revokedJtis \cup {ex.jti}
      /\ HandOut(ex.version, tokens[ex.jti].root, ex.jti)
      /\ ExEnd(x)
      /\ UNCHANGED <<vars, loggedOut>>

Logout(x) ==
  LET ex == exchange[x]
  IN  /\ ex.op = "logout" /\ ex.pc = "commit"
      /\ revokedJtis' = revokedJtis \cup {ex.jti}
      /\ loggedOut' = loggedOut \cup {ex.jti}
      /\ ExEnd(x)
      /\ UNCHANGED <<vars, tokens>>

ExpireToken(t) ==
  /\ tokens[t].issued /\ ~tokens[t].expired
  /\ tokens' = [tokens EXCEPT ![t].expired = TRUE]
  /\ UNCHANGED <<vars, revokedJtis, exchange, loggedOut>>

ExStep(x) == Insert(x) \/ ReadUser(x) \/ Rotate(x) \/ Logout(x)

(* Of the account itself everything but the login, which hands out a pair. *)
AccountMoves ==
  /\ \/ \E p \in Requests : Begin(p) \/ Step(p) \/ DeadlockVictim(p)
     \/ Time
  /\ UNCHANGED sessionVars

SessionsNext ==
  \/ AccountMoves
  \/ Login
  \/ \E x \in Exchanges :
       \/ ExStep(x)
       \/ \E t \in RefreshTokens, op \in {"refresh", "logout"} : Exchange(x, op, t)
  \/ \E t \in RefreshTokens : ExpireToken(t)

SessionsSpec == SessionsInit /\ [][SessionsNext]_allVars

-----------------------------------------------------------------------------
Successors(t) == {n \in RefreshTokens : tokens[n].parent = t}

(* A refresh token is good for one exchange: one new pair or one logout,     *)
(* never two and never both, however many requests present it at once       *)
(* (refresh_token_pair, logout; revoked_tokens.jti is unique).              *)
SpentOnce ==
  \A t \in RefreshTokens :
    Cardinality(Successors(t)) + (IF t \in loggedOut THEN 1 ELSE 0) <= 1

(* A session that a reset, a deactivation or an activation ended stays ended: *)
(* no token that goes back to a login of that time opens the account again, *)
(* not even one rotated while the account changed (refresh_token_pair,      *)
(* get_current_user, undo_password_reset).                                 *)
EndedSessionsStayEnded ==
  \A t \in RefreshTokens :
    tokens[t].issued /\ tokens[t].root \in ended => ~Accepts(tokens[t].version)
=============================================================================
