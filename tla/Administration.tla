--------------------------- MODULE Administration ---------------------------
(***************************************************************************)
(* The staff at work: the requests of the office and those on the catalogue, *)
(* in any order and overlapping, over one database.                          *)
(***************************************************************************)
EXTENDS Catalogue, SchoolOffice

CONSTANTS
  Earlier,           \* inserted before
  InitialBooks,      \* what earlier requests have left behind
  InitialOverrides,
  InitialPolicies,
  InitialAccounts

(* A row of book_school_overrides, named by the request that inserted it.   *)
OverrideRow ==
  [row: Requests \cup {Earlier}, title: Titles \cup {Inherit},
   description: {None, Inherit}, terms: (SUBSET Terms) \cup {Inherit}]

(* The unique constraints of users hold to begin with.                     *)
ASSUME AdministrationAssumption ==
  /\ Earlier \notin Requests \cup {None} /\ None \notin Requests
  /\ InitialOverrides \subseteq {o \in OverrideRow : o.row = Earlier} \cup {None}
  /\ None \notin OverrideRow
  /\ \A u, v \in Residents :
       u # v => UniqueKeys(InitialAccounts[u]) \cap UniqueKeys(InitialAccounts[v]) = {}

vars == <<req, catalogueVars, officeVars>>

Init ==
  /\ req = [p \in Requests |-> NewRequest]
  /\ terms \in [Terms -> {None, Earlier}]
  /\ books \in {bs \in [Books -> InitialBooks] :
                  \A b \in Books : bs[b].terms \subseteq Present}
  /\ overrides \in {os \in [Schools \X Books -> InitialOverrides] :
                      \A sb \in Schools \X Books :
                        os[sb] # None =>
                          /\ books[sb[2]].status # "absent"
                          /\ os[sb].terms = Inherit \/ os[sb].terms \subseteq Present}
  /\ shelves = [b \in Books |-> {}]
  /\ schools = {Office} \cup {a.school : a \in {InitialAccounts[u] : u \in Residents}}
  /\ nonWorkingDays = {}
  /\ policies \in [Roles -> InitialPolicies]
  /\ delegated = {}
  /\ accounts = [u \in Residents \cup Requests |->
                   IF u \in Residents THEN InitialAccounts[u] ELSE None]

(* Requests that share no table are served in the same way whether they        *)
(* overlap or not: two are in flight together only on the same tables.       *)
Area(op) ==
  CASE op \in {"create", "update", "customize"} -> "catalogue"
    [] op \in {"mark", "import"} -> "calendar"
    [] op \in {"policies", "delegate"} -> "rules"
    [] op \in {"register", "edit"} -> "accounts"

Together(area) == \A q \in InFlight : Area(req[q].op) = area

(* PostgreSQL ends a deadlock by rolling one of the two back.              *)
DeadlockVictim(p) ==
  /\ Deadlocked(p)
  /\ Rollback(p)
  /\ UNCHANGED <<catalogueVars, officeVars>>

(* delete_school.  Rules that it has saved, and invitations that one of its     *)
(* accounts sent, still refer to it: the deletion fails.  Otherwise the        *)
(* cascades take its accounts, the books they have added, with every school's *)
(* customizations and copies of these, its own customizations, its days and  *)
(* what it has delegated.  Schools with loans, which refer to it as well,     *)
(* are left out.                                                            *)
DeleteSchool(p, s) ==
  LET members == {u \in Registered : accounts[u].school = s}
      gone == {b \in Catalogued : books[b].added_by = s}
  IN  /\ New(p) /\ InFlight = {} /\ s \in schools
      /\ IF \/ s = Office /\ \E role \in Roles : policies[role] # None
            \/ \E u \in members : accounts[u].invited_by = "staff"
         THEN Rollback(p) /\ UNCHANGED <<catalogueVars, officeVars>>
         ELSE /\ schools' = schools \ {s}
              /\ accounts' = [u \in DOMAIN accounts |->
                                IF u \in members THEN None ELSE accounts[u]]
              /\ books' = [b \in Books |-> IF b \in gone THEN NoBook ELSE books[b]]
              /\ overrides' = [sb \in Schools \X Books |->
                   IF sb[1] = s \/ sb[2] \in gone THEN None ELSE overrides[sb]]
              /\ shelves' = [b \in Books |->
                               IF b \in gone THEN {} ELSE shelves[b] \ {s}]
              /\ nonWorkingDays' = IF s = Office THEN {} ELSE nonWorkingDays
              /\ delegated' = IF s = Office THEN {} ELSE delegated
              /\ Commit(p)
              /\ UNCHANGED <<terms, policies>>

CatalogueRequest(p) ==
  /\ \/ Together("catalogue") /\ CatalogueBegin(p)
     \/ CatalogueStep(p)
  /\ UNCHANGED officeVars

OfficeRequest(p) ==
  /\ \/ Together("calendar") /\ CalendarBegin(p)
     \/ Together("rules") /\ RulesBegin(p)
     \/ Together("accounts") /\ AccountsBegin(p)
     \/ OfficeStep(p)
  /\ UNCHANGED catalogueVars

Next ==
  \E p \in Requests :
    \/ CatalogueRequest(p)
    \/ OfficeRequest(p)
    \/ DeadlockVictim(p)
    \/ \E s \in Schools : DeleteSchool(p, s)

Spec == Init /\ [][Next]_vars

-----------------------------------------------------------------------------
CustomizationKept == [][CustomizationSticks]_vars
SchoolsStayIsolated == [][SchoolsIsolated]_vars
RangeStaysMarked == [][RangeMarked]_vars
==============================================================================
