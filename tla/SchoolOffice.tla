---------------------------- MODULE SchoolOffice ----------------------------
(***************************************************************************)
(* The office of a school: its calendar of non-working days, the rules of    *)
(* circulation it saves, what it delegates to its librarian, and the          *)
(* accounts it registers (src/src/routers/library_calendar.py,               *)
(* circulation_policies.py, users.py and schools.py).                        *)
(*                                                                         *)
(* A request reads what is committed when it begins and writes at its        *)
(* commit; between the two another may have committed.                       *)
(***************************************************************************)
EXTENDS StaffRequests, SequencesExt

CONSTANTS
  Office,        \* the school whose calendar and rules are followed
  Spans,         \* <<first, last>>: the ranges and months of days asked for
  Answers,       \* answers of the service of national holidays
  Capabilities,  \* AdministrativeCapability
  Roles,         \* the roles that borrow, each with its rules
  Rules,         \* CirculationPolicyUpdate, less the role
  Residents,     \* accounts that were there before
  Names, Emails, Cpfs,
  LookupHash     \* cpf_lookup_digest, which may collide

ASSUME OfficeAssumption ==
  /\ Office \in Schools
  /\ Spans \subseteq Nat \X Nat /\ \A a \in Answers : a \in Seq(Nat)
  /\ Residents \cap Requests = {}
  /\ DOMAIN LookupHash = Cpfs

VARIABLES
  schools,         \* rows of schools
  nonWorkingDays,  \* school_non_working_days of the office's school
  policies,        \* its rows of circulation_policies, by role
  delegated,       \* user_administrative_capabilities of its librarian
  accounts         \* rows of users; a new one is named by its request

officeVars == <<schools, nonWorkingDays, policies, delegated, accounts>>

-----------------------------------------------------------------------------
(* Who may: has_administrative_capability.                                 *)

(* A row is <<capability, the request that inserted it>>.                  *)
Granted(capability) == \E row \in delegated : row[1] = capability

(* _can_manage: the school's administrator, or its librarian when the        *)
(* capability is delegated to her.                                         *)
MayManage(by, capability) ==
  by = "school_admin" \/ (by = "librarian" /\ Granted(capability))

Managers == {"school_admin", "librarian"}

-----------------------------------------------------------------------------
(* The calendar.                                                           *)

Weekend(d) == d % 7 >= 5

(* Mutant of WeekdaysOf: the loop stops before the last day.               *)
WeekdaysBefore(first, last) == {d \in first .. (last - 1) : ~Weekend(d)}

(* The loop from the first day to the last, weekends left out.             *)
WeekdaysOf(first, last) == {d \in first .. last : ~Weekend(d)}

(* create_non_working_day: any day, weekends too; a day that is already       *)
(* there is answered with 409.                                             *)
MarkDay(p, by, d) ==
  /\ New(p) /\ MayManage(by, "manage_library_calendar")
  /\ IF d \in nonWorkingDays
     THEN Rollback(p) /\ UNCHANGED officeVars
     ELSE /\ nonWorkingDays' = nonWorkingDays \cup {d}
          /\ Commit(p)
          /\ UNCHANGED <<schools, policies, delegated, accounts>>

(* create_non_working_range, create_non_working_month: the days that are     *)
(* there already are left out of the rows to insert.                       *)
BeginMark(p, by, first, last) ==
  /\ New(p) /\ MayManage(by, "manage_library_calendar")
  /\ Set(p, [op |-> "mark", pc |-> "save days", holds |-> {}, wants |-> None,
             first |-> first, last |-> last, seen |-> nonWorkingDays,
             todo |-> WeekdaysOf(first, last) \ nonWorkingDays,
             clashes |-> FALSE])
  /\ UNCHANGED officeVars

Repeats(answer, day) ==
  \E i, j \in DOMAIN answer : i # j /\ answer[i] = day /\ answer[j] = day

(* import_national_holidays: whatever the service names, weekends too; a     *)
(* date it names twice clashes with itself.                                *)
BeginImport(p, by, answer) ==
  LET todo == ToSet(answer) \ nonWorkingDays
  IN  /\ New(p) /\ MayManage(by, "manage_library_calendar")
      /\ Set(p, [op |-> "import", pc |-> "save days", holds |-> {},
                 wants |-> None, seen |-> nonWorkingDays, todo |-> todo,
                 clashes |-> \E d \in todo : Repeats(answer, d)])
      /\ UNCHANGED officeVars

(* All the rows or none (uq_school_non_working_day).  An import that fails   *)
(* is answered like one that had nothing to add.                           *)
SaveDays(p) ==
  LET r == req[p]
  IN  /\ r.pc = "save days"
      /\ IF r.clashes \/ r.todo \cap nonWorkingDays # {}
         THEN Rollback(p) /\ UNCHANGED officeVars
         ELSE /\ nonWorkingDays' = nonWorkingDays \cup r.todo
              /\ Commit(p)
              /\ UNCHANGED <<schools, policies, delegated, accounts>>

(* delete_non_working_day, delete_non_working_month: one statement.        *)
DeleteDays(p, by, first, last) ==
  /\ New(p) /\ MayManage(by, "manage_library_calendar")
  /\ nonWorkingDays' = nonWorkingDays \ (first .. last)
  /\ Commit(p)
  /\ UNCHANGED <<schools, policies, delegated, accounts>>

-----------------------------------------------------------------------------
(* The rules of circulation.                                               *)

(* update_circulation_policies: rules for every role are read, ...         *)
BeginPolicies(p, by, asked) ==
  /\ New(p) /\ MayManage(by, "manage_circulation_rules")
  /\ Set(p, [op |-> "policies", pc |-> "save policies", holds |-> {},
             wants |-> None, asked |-> asked, seen |-> policies])
  /\ UNCHANGED officeVars

(* ... and saved column by column: a row that was not there is inserted,     *)
(* uq_circulation_policy_school_role refusing a second one; of one that was, *)
(* the columns that differ from what was read are written.                 *)
SavePolicies(p) ==
  LET r == req[p]
      Saved(role) ==
        IF r.seen[role] = None THEN r.asked[role]
        ELSE [column \in DOMAIN r.asked[role] |->
               IF r.asked[role][column] = r.seen[role][column]
               THEN policies[role][column] ELSE r.asked[role][column]]
  IN  /\ r.pc = "save policies"
      /\ IF \E role \in Roles : r.seen[role] = None /\ policies[role] # None
         THEN Rollback(p) /\ UNCHANGED officeVars
         ELSE /\ policies' = [role \in Roles |-> Saved(role)]
              /\ Commit(p)
              /\ UNCHANGED <<schools, nonWorkingDays, delegated, accounts>>

-----------------------------------------------------------------------------
(* Delegation: update_administrative_capabilities.                         *)

BeginDelegate(p, asked) ==
  /\ New(p)
  /\ Set(p, [op |-> "delegate", pc |-> "save capabilities", holds |-> {},
             wants |-> None, asked |-> asked, seen |-> delegated])
  /\ UNCHANGED officeVars

(* The flush inserts before it deletes: a capability that is granted and      *)
(* asked for again meets its old row, and the request fails.  A row that was *)
(* deleted meanwhile is not missed.                                        *)
SaveCapabilities(p) ==
  LET r == req[p]
  IN  /\ r.pc = "save capabilities"
      /\ IF \E capability \in r.asked : Granted(capability)
         THEN Rollback(p) /\ UNCHANGED officeVars
         ELSE /\ delegated' = (delegated \ r.seen) \cup (r.asked \X {p})
              /\ Commit(p)
              /\ UNCHANGED <<schools, nonWorkingDays, policies, accounts>>

-----------------------------------------------------------------------------
(* Registration.  A username is a name and a number, 0 for the bare name.    *)

Registered == {u \in DOMAIN accounts : accounts[u] # None}

(* _cpf_conflicts, classify_cpf_candidates: of the rows with the same lookup *)
(* hash, one with the same collision guard is the same person.             *)
CpfTaken(cpf, others) ==
  \E u \in Registered \cap others :
    LookupHash[accounts[u].cpf] = LookupHash[cpf] /\ accounts[u].cpf = cpf

(* _make_unique_username: the first free number, among what is committed.  *)
FreeUsername(name) ==
  <<name, Min({n \in 0 .. Cardinality(Registered) :
                 \A u \in Registered : accounts[u].username # <<name, n>>})>>

(* Mutant of UniqueKeys: no uq_users_cpf_lookup_collision_guard.           *)
KeysWithoutCpf(account) ==
  {<<"username", account.username>>}
    \cup IF account.email = None THEN {} ELSE {<<"email", account.email>>}

(* What the unique constraints of users compare.                           *)
UniqueKeys(account) ==
  {<<"username", account.username>>, <<"cpf", account.cpf>>}
    \cup IF account.email = None THEN {} ELSE {<<"email", account.email>>}

Refused(account, others) ==
  \E u \in Registered \cap others : UniqueKeys(accounts[u]) \cap UniqueKeys(account) # {}

BeginRegister(p, account) ==
  /\ New(p) /\ account.school \in schools
  /\ ~CpfTaken(account.cpf, Registered)
  /\ Set(p, [op |-> "register", pc |-> "insert account", holds |-> {},
             wants |-> None, account |-> account])
  /\ UNCHANGED officeVars

(* create_student: no e-mail, and a username made from the name.           *)
RegisterStudent(p, s, name, cpf) ==
  BeginRegister(p, [username |-> FreeUsername(name), email |-> None,
                    cpf |-> cpf, school |-> s, invited_by |-> "staff"])

(* create_user (by a member of the school's staff) and create_school_admin   *)
(* (by a super administrator): the username and the e-mail are given.      *)
RegisterStaff(p, s, name, email, cpf, by) ==
  BeginRegister(p, [username |-> <<name, 0>>, email |-> email,
                    cpf |-> cpf, school |-> s, invited_by |-> by])

(* The flush inserts the row and waits for whoever is inserting one of its    *)
(* keys; the invitation comes next, in the same transaction (Accounts).    *)
InsertAccount(p) ==
  LET new == req[p].account
  IN  /\ At(p, "register", "insert account")
      /\ \A key \in UniqueKeys(new) : Free(p, key)
      /\ IF Refused(new, Registered)
         THEN Rollback(p)
         ELSE Set(p, [req[p] EXCEPT !.pc = "invite", !.holds = UniqueKeys(new)])
      /\ UNCHANGED officeVars

CommitAccount(p) ==
  /\ At(p, "register", "invite")
  /\ accounts' = [accounts EXCEPT ![p] = req[p].account]
  /\ Commit(p)
  /\ UNCHANGED <<schools, nonWorkingDays, policies, delegated>>

(* update_user, _apply_updates: one of the unique fields.                  *)
BeginEdit(p, u, field, value) ==
  /\ New(p) /\ u \in Registered /\ value # accounts[u][field]
  /\ field = "cpf" => ~CpfTaken(value, Registered \ {u})
  /\ Set(p, [op |-> "edit", pc |-> "save account", holds |-> {}, wants |-> None,
             user |-> u, field |-> field, value |-> value])
  /\ UNCHANGED officeVars

SaveAccount(p) ==
  LET r == req[p]
      new == [accounts[r.user] EXCEPT ![r.field] = r.value]
  IN  /\ At(p, "edit", "save account")
      /\ \A key \in UniqueKeys(new) : Free(p, key)
      /\ IF Refused(new, Registered \ {r.user})
         THEN Rollback(p) /\ UNCHANGED officeVars
         ELSE /\ accounts' = [accounts EXCEPT ![r.user] = new]
              /\ Commit(p)
              /\ UNCHANGED <<schools, nonWorkingDays, policies, delegated>>

(* create_school: the code is unique.                                      *)
CreateSchool(p, s) ==
  /\ New(p)
  /\ IF s \in schools THEN Rollback(p) ELSE Commit(p)
  /\ schools' = schools \cup {s}
  /\ UNCHANGED <<nonWorkingDays, policies, delegated, accounts>>

-----------------------------------------------------------------------------
CalendarBegin(p) ==
  \E by \in Managers :
    \/ \E span \in Spans :
         \/ MarkDay(p, by, span[1])
         \/ BeginMark(p, by, span[1], span[2])
         \/ DeleteDays(p, by, span[1], span[2])
    \/ \E answer \in Answers : BeginImport(p, by, answer)

RulesBegin(p) ==
  \/ \E by \in Managers, asked \in [Roles -> Rules] : BeginPolicies(p, by, asked)
  \/ \E asked \in SUBSET Capabilities : BeginDelegate(p, asked)

AccountsBegin(p) ==
  \/ \E s \in Schools, name \in Names, cpf \in Cpfs :
       \/ RegisterStudent(p, s, name, cpf)
       \/ \E email \in Emails, by \in {"staff", "super_admin"} :
            RegisterStaff(p, s, name, email, cpf, by)
  \/ \E u \in Registered :
       \/ \E email \in Emails \cup {None} : BeginEdit(p, u, "email", email)
       \/ \E cpf \in Cpfs : BeginEdit(p, u, "cpf", cpf)
       \/ \E name \in Names : BeginEdit(p, u, "username", <<name, 0>>)
  \/ \E s \in Schools : CreateSchool(p, s)

OfficeStep(p) ==
  \/ SaveDays(p)
  \/ SavePolicies(p) \/ SaveCapabilities(p)
  \/ InsertAccount(p) \/ CommitAccount(p) \/ SaveAccount(p)

-----------------------------------------------------------------------------
(* One person has one account, and one username and one e-mail have one        *)
(* holder, whatever registrations and edits overlap after both have looked   *)
(* for the CPF in vain (create_user, create_student, create_school_admin,    *)
(* update_user).                                                            *)
OneAccountPerPerson ==
  \A u, v \in Registered : u # v =>
    /\ accounts[u].cpf # accounts[v].cpf
    /\ accounts[u].username # accounts[v].username
    /\ accounts[u].email # None => accounts[u].email # accounts[v].email

(* A range or month that was answered with success is marked to its last      *)
(* weekday, but for the days that somebody unmarked while the request was    *)
(* under way; no weekend and no day outside it is touched, and none that     *)
(* was marked is lost (create_non_working_range, create_non_working_month). *)
RangeMarked ==
  \A p \in Requests : Succeeds(p) /\ req[p].op = "mark" =>
    LET span == {d \in req[p].first .. req[p].last : d % 7 \notin {5, 6}}
        unmarked == req[p].seen \ nonWorkingDays
    IN  /\ span \ unmarked \subseteq nonWorkingDays'
        /\ nonWorkingDays \subseteq nonWorkingDays'
        /\ nonWorkingDays' \subseteq nonWorkingDays \cup span
==============================================================================
