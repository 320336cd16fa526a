------------------------------ MODULE LoanTerms ------------------------------
(***************************************************************************)
(* The terms of a loan: how long it lasts, when it is late, what a late     *)
(* return costs, and when a reader may borrow again.  One reader is         *)
(* followed, because every query of src/src/circulation.py is about one     *)
(* reader; the copies she takes are the business of Circulation.            *)
(*                                                                         *)
(* Time is a number of instants, Instants to the day, so that "the same     *)
(* day, but later" exists: the code compares some times as timestamps and   *)
(* others as dates.                                                        *)
(***************************************************************************)
EXTENDS Integers, FiniteSets

CONSTANTS
  LoanIds,          \* primary keys of loans
  Policies,         \* rows an administrator may save: CirculationPolicyUpdate
  DefaultPolicy,    \* DEFAULT_POLICIES[role]
  Holidays,         \* the days a school may mark as non-working
  LOAN_MIN_DAYS,    \* settings.py
  Instants,         \* instants told apart in one day
  LastDay,          \* the clock stops at the end of this day
  None

Rules ==
  [max_active_loans: Nat, loan_duration_days: Nat \ {0},
   block_new_loans_when_overdue: BOOLEAN, post_overdue_suspension_days: Nat,
   count_only_business_days: BOOLEAN,
   move_due_date_to_next_business_day: BOOLEAN,
   apply_overdue_due_date_reduction: BOOLEAN,
   overdue_due_date_reduction_days: Nat, max_overdue_reductions: Nat,
   minimum_loan_days_after_penalties: Nat \ {0},
   overdue_recovery_mode: {"on_time_returns", "elapsed_days"},
   overdue_recovery_on_time_returns: (Nat \ {0}) \cup {None},
   overdue_recovery_days: (Nat \ {0}) \cup {None}]

(* validate_recovery: the number that the mode of recovery needs, and no     *)
(* other.                                                                  *)
Policy ==
  {p \in Rules :
     IF p.overdue_recovery_mode = "on_time_returns"
     THEN p.overdue_recovery_on_time_returns # None /\ p.overdue_recovery_days = None
     ELSE p.overdue_recovery_on_time_returns = None /\ p.overdue_recovery_days # None}

ASSUME TermsAssumption ==
  /\ Policies \subseteq Policy /\ DefaultPolicy \in Policy
  /\ IsFiniteSet(LoanIds)
  /\ Holidays \subseteq Nat /\ IsFiniteSet(Holidays)
  /\ LOAN_MIN_DAYS \in Nat /\ LastDay \in Nat
  /\ Instants \in Nat \ {0}
  /\ None \notin Nat /\ None \notin Policy

VARIABLES
  now,             \* the clock, in instants
  saved,           \* the reader's row of circulation_policies, or None
  nonWorkingDays,  \* school_non_working_days of her school
  loans            \* her rows of loans

vars == <<now, saved, nonWorkingDays, loans>>

Day(t) == t \div Instants
Days(n) == n * Instants
Clock == 0 .. Days(LastDay + 1) - 1

NoLoan == [status |-> "none", borrowed_at |-> None, due_date |-> None,
           returned_at |-> None, late_days |-> 0]

Open == {l \in LoanIds : loans[l].status = "ACTIVE"}
Returned == {l \in LoanIds : loans[l].status = "RETURNED"}

(* resolve_circulation_policy: the saved row, or the virtual default. *)
policy == IF saved = None THEN DefaultPolicy ELSE saved

-----------------------------------------------------------------------------
(* Due dates.                                                              *)

Weekend(d) == d % 7 >= 5
Working(d) == ~Weekend(d) /\ d \notin nonWorkingDays

BusinessDaysOnly(p) ==
  p.count_only_business_days \/ p.move_due_date_to_next_business_day

Larger(a, b) == IF a >= b THEN a ELSE b
Smaller(a, b) == IF a <= b THEN a ELSE b

(* The days a loan lasts: the configured days less the penalty, and never  *)
(* below either minimum.                                                   *)
Duration(p, penalty) ==
  LET reduction == IF p.apply_overdue_due_date_reduction THEN penalty ELSE 0
  IN  Larger(LOAN_MIN_DAYS, Larger(p.minimum_loan_days_after_penalties,
                                   p.loan_duration_days - reduction))

(* Mutant of NextCounted: only weekends are skipped.                       *)
NextWeekday(d) == CHOOSE e \in (d + 1) .. (d + 3) :
  ~Weekend(e) /\ \A f \in (d + 1) .. (e - 1) : Weekend(f)

(* One turn of the loop that counts: on to the next day that is not        *)
(* skipped.  The marked days are finitely many, so there is one within a   *)
(* week of the last of them.                                               *)
NextCounted(d) ==
  CHOOSE e \in (d + 1) .. (d + 8 + 7 * Cardinality(nonWorkingDays)) :
    Working(e) /\ \A f \in (d + 1) .. (e - 1) : ~Working(f)

(* calculate_due_date: the instant within the day is kept.                 *)
DueDate(p, penalty, start) ==
  LET duration == Duration(p, penalty)
      counted[n \in 0 .. duration] ==
        IF n = 0 THEN Day(start) ELSE NextCounted(counted[n - 1])
  IN  IF BusinessDaysOnly(p)
      THEN Days(counted[duration]) + (start % Instants)
      ELSE start + Days(duration)

-----------------------------------------------------------------------------
(* Penalties for late returns.                                             *)

Late(l) == loans[l].late_days > 0

(* Returned loans, ORDER BY returned_at.                                   *)
ReturnOrder ==
  CHOOSE order \in [1 .. Cardinality(Returned) -> Returned] :
    \A i, j \in 1 .. Cardinality(Returned) :
      i < j => loans[order[i]].returned_at < loans[order[j]].returned_at

(* Mutant of AfterReturn: a late return leaves the run of others standing. *)
AfterReturnKeepingRun(threshold, sofar, l) ==
  IF Late(l)
  THEN [sofar EXCEPT !.count = @ + 1]
  ELSE [count |-> IF sofar.onTime + 1 >= threshold THEN 0 ELSE sofar.count,
        onTime |-> sofar.onTime + 1]

(* The loop over the returns: a late one counts, and resets the run of     *)
(* returns on time; a long enough run clears the count.                    *)
AfterReturn(threshold, sofar, l) ==
  IF Late(l)
  THEN [count |-> sofar.count + 1, onTime |-> 0]
  ELSE [count |-> IF sofar.onTime + 1 >= threshold THEN 0 ELSE sofar.count,
        onTime |-> sofar.onTime + 1]

CountedReductions(p) ==
  LET returns == Cardinality(Returned)
      after[n \in 0 .. returns] ==
        IF n = 0 THEN [count |-> 0, onTime |-> 0]
        ELSE AfterReturn(p.overdue_recovery_on_time_returns, after[n - 1], ReturnOrder[n])
  IN  IF p.overdue_recovery_mode = "elapsed_days"
      THEN Cardinality({l \in Returned :
             Late(l) /\ loans[l].returned_at >= now - Days(p.overdue_recovery_days)})
      ELSE after[returns].count

(* active_overdue_reductions: days to take off the next loan.              *)
Reductions(p) ==
  IF ~p.apply_overdue_due_date_reduction THEN 0
  ELSE Smaller(CountedReductions(p), p.max_overdue_reductions)
         * p.overdue_due_date_reduction_days

-----------------------------------------------------------------------------
(* ensure_new_loan_allowed.                                                *)

BelowLimit(p) == Cardinality(Open) < p.max_active_loans

Overdue(l) == l \in Open /\ loans[l].due_date < now

NotBlocked(p) ==
  p.block_new_loans_when_overdue => \A l \in LoanIds : ~Overdue(l)

(* Mutant of NotSuspended: any late return served releases the reader.     *)
SomeSuspensionServed(p) ==
  (\E l \in Returned : Late(l)) =>
    \E m \in Returned :
      Late(m) /\ now >= loans[m].returned_at + Days(p.post_overdue_suspension_days)

(* The suspension runs from the last of the late returns.                  *)
NotSuspended(p) ==
  \A l \in Returned : Late(l) =>
    \/ p.post_overdue_suspension_days = 0
    \/ \E m \in Returned :
         /\ Late(m) /\ loans[m].returned_at >= loans[l].returned_at
         /\ now >= loans[m].returned_at + Days(p.post_overdue_suspension_days)

MayBorrow(p) == BelowLimit(p) /\ NotBlocked(p) /\ NotSuspended(p)

-----------------------------------------------------------------------------
(* The school's rules and calendar, set before the first loan: how they are *)
(* set is the business of SchoolOffice.                                     *)
Init ==
  /\ now = 0
  /\ saved \in Policies \cup {None}
  /\ nonWorkingDays \in SUBSET Holidays
  /\ loans = [l \in LoanIds |-> NoLoan]

(* create_loan: the row, once the checks have passed.                      *)
Lend(l) ==
  /\ loans[l] = NoLoan
  /\ MayBorrow(policy)
  /\ loans' = [loans EXCEPT ![l] =
       [NoLoan EXCEPT !.status = "ACTIVE", !.borrowed_at = now,
          !.due_date = DueDate(policy, Reductions(policy), now)]]
  /\ UNCHANGED <<now, saved, nonWorkingDays>>

(* Mutant of LateDays: a loan is late from the instant it is due.          *)
LateFromTheInstant(due) == IF now > due THEN Day(now) - Day(due) + 1 ELSE 0

(* return_loan: lateness is counted in dates.  Timestamps are finer than   *)
(* the clock here, and no two returns carry the same one.                  *)
LateDays(due) == Larger(0, Day(now) - Day(due))

Return(l) ==
  /\ l \in Open
  /\ \A m \in Returned : loans[m].returned_at # now
  /\ loans' = [loans EXCEPT ![l].status = "RETURNED", ![l].returned_at = now,
                            ![l].late_days = LateDays(loans[l].due_date)]
  /\ UNCHANGED <<now, saved, nonWorkingDays>>

(* Mutant of UndoReturn: the lateness and the date of the return stay.     *)
UndoReturnStatusOnly(l) ==
  /\ l \in Returned
  /\ loans' = [loans EXCEPT ![l].status = "ACTIVE"]
  /\ UNCHANGED <<now, saved, nonWorkingDays>>

(* undo_return: the return is forgotten, lateness included.                *)
UndoReturn(l) ==
  /\ l \in Returned
  /\ loans' = [loans EXCEPT ![l].status = "ACTIVE", ![l].returned_at = None,
                            ![l].late_days = 0]
  /\ UNCHANGED <<now, saved, nonWorkingDays>>

Tick ==
  /\ now + 1 \in Clock
  /\ now' = now + 1
  /\ UNCHANGED <<saved, nonWorkingDays, loans>>

Next ==
  \/ \E l \in LoanIds : Lend(l) \/ Return(l) \/ UndoReturn(l)
  \/ Tick

Spec == Init /\ [][Next]_vars

-----------------------------------------------------------------------------
(* Types: an entered loan has its dates, only a returned one has a return. *)
TypeOK ==
  /\ now \in Clock
  /\ saved \in Policies \cup {None}
  /\ nonWorkingDays \subseteq Holidays
  /\ loans \in [LoanIds ->
       [status: {"none", "ACTIVE", "RETURNED"}, borrowed_at: Nat \cup {None},
        due_date: Nat \cup {None}, returned_at: Nat \cup {None},
        late_days: Nat]]
  /\ \A l \in LoanIds :
       /\ (loans[l].status = "none") => loans[l] = NoLoan
       /\ (loans[l].status # "none") =>
            loans[l].borrowed_at \in Nat /\ loans[l].due_date \in Nat
       /\ (loans[l].status = "RETURNED") <=> (loans[l].returned_at # None)

(* The number of days the library works after day a and up to day b.       *)
WorkingDays(a, b) == Cardinality({d \in (a + 1) .. b : Working(d)})

(* Where weekends and marked days do not count, a new loan is due on a day *)
(* the library works, and the reader has had the agreed number of such     *)
(* days; the borrowing day is not one of them (calculate_due_date).        *)
DueOnCountedDay ==
  [][\A l \in LoanIds :
       loans[l].status = "none" /\ loans'[l].status # "none"
         /\ BusinessDaysOnly(policy) =>
       LET due == Day(loans'[l].due_date)
       IN  /\ Working(due)
           /\ WorkingDays(Day(now), due) = Duration(policy, Reductions(policy))
    ]_vars

(* The late returns nothing has made up for: no run of enough returns on   *)
(* time, one after the other, came after them.                             *)
Unrecovered(threshold) ==
  {i \in 1 .. Cardinality(Returned) :
     /\ Late(ReturnOrder[i])
     /\ ~\E j \in (i + 1) .. (Cardinality(Returned) - threshold + 1) :
          \A k \in j .. (j + threshold - 1) : ~Late(ReturnOrder[k])}

(* The penalty is what the history says and no more: the late returns that *)
(* no run of returns on time has made up for, up to the cap                *)
(* (active_overdue_reductions, on_time_returns mode).                      *)
PenaltyMatchesHistory ==
  LET p == policy
  IN  p.apply_overdue_due_date_reduction
        /\ p.overdue_recovery_mode = "on_time_returns" =>
      Reductions(p) = p.overdue_due_date_reduction_days *
        Smaller(p.max_overdue_reductions,
                Cardinality(Unrecovered(p.overdue_recovery_on_time_returns)))

(* Under rules that suspend, nobody borrows during the suspension that a    *)
(* late return starts, however returns are undone and repeated             *)
(* (ensure_new_loan_allowed).                                              *)
SuspensionHonoured ==
  \A l, m \in LoanIds :
    LET back == loans[l].returned_at
    IN  /\ l \in Returned /\ Late(l)
        /\ loans[m].status # "none" /\ loans[m].borrowed_at > back
        => loans[m].borrowed_at
             >= back + Days(policy.post_overdue_suspension_days)

-----------------------------------------------------------------------------
(* What _apply_situation_filter lists as overdue: due before today.        *)
ListedOverdue == {l \in Open : loans[l].due_date < Days(Day(now))}

(* Staff see as overdue exactly the loans a return would record as late:   *)
(* the list works in instants and the return in dates (_apply_situation_   *)
(* filter, return_loan).                                                   *)
ListedOverdueIsLate ==
  \A l \in Open : l \in ListedOverdue <=> LateDays(loans[l].due_date) > 0
=============================================================================
