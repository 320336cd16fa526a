---------------------------- MODULE MCLoanTerms ----------------------------
(* Small instances of LoanTerms for TLC.  Day 0 is a Monday. *)
EXTENDS LoanTerms, TLC

CONSTANTS l1, l2, l3

\* Loans are told apart by their dates only.
LoanSymmetry == Permutations(LoanIds)

\* The default policy of a student, scaled down to the instance: the limit,
\* the duration and the recovery are smaller, the switches are those of
\* DEFAULT_POLICIES.
Plain ==
  [max_active_loans |-> 2, loan_duration_days |-> 2,
   block_new_loans_when_overdue |-> TRUE, post_overdue_suspension_days |-> 0,
   count_only_business_days |-> FALSE,
   move_due_date_to_next_business_day |-> FALSE,
   apply_overdue_due_date_reduction |-> TRUE,
   overdue_due_date_reduction_days |-> 1, max_overdue_reductions |-> 2,
   minimum_loan_days_after_penalties |-> 1,
   overdue_recovery_mode |-> "on_time_returns",
   overdue_recovery_on_time_returns |-> 2, overdue_recovery_days |-> None]

\* Only days the library works count, late readers are suspended, and may
\* borrow while a loan is overdue.
Strict == [Plain EXCEPT !.count_only_business_days = TRUE,
                        !.post_overdue_suspension_days = 2,
                        !.block_new_loans_when_overdue = FALSE]

\* Lateness is forgotten with time, and costs two days at once.
Forgetting == [Plain EXCEPT !.overdue_recovery_mode = "elapsed_days",
                            !.overdue_recovery_on_time_returns = None,
                            !.overdue_recovery_days = 2,
                            !.overdue_due_date_reduction_days = 2,
                            !.minimum_loan_days_after_penalties = 2,
                            !.loan_duration_days = 3]

StrictAndForgetting == {Strict, Forgetting}
=============================================================================
