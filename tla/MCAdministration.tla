-------------------------- MODULE MCAdministration --------------------------
EXTENDS Administration, TLC

CONSTANTS p1, p2, north, south, hobbit, fantasy, OldTitle, NewTitle,
          ann, a1, a2, resident

MCInitialBooks ==
  {NoBook,
   [status |-> "active", title |-> OldTitle, terms |-> {}, added_by |-> south],
   [status |-> "active", title |-> OldTitle, terms |-> {fantasy}, added_by |-> north]}
MCInitialOverrides ==
  {None,
   [row |-> Earlier, title |-> NewTitle, description |-> None, terms |-> {}],
   [row |-> Earlier, title |-> Inherit, description |-> Inherit, terms |-> {fantasy}]}

(* Friday to Monday, and a Wednesday before.                               *)
MCSpans == {<<2, 2>>, <<2, 7>>, <<4, 7>>}
MCAnswers == {<<4, 5>>, <<7, 7>>}

OnTime(n) == [mode |-> "on_time_returns", returns |-> n, days |-> None]
Elapsed(n) == [mode |-> "elapsed_days", returns |-> None, days |-> n]
MCRules == {OnTime(3), OnTime(5), Elapsed(30)}
MCInitialPolicies == {None, OnTime(3)}

(* The hash of two CPFs is the same.                                       *)
MCCpfs == 1 .. 3
MCLookupHash == [c \in MCCpfs |-> IF c = 3 THEN 2 ELSE c]
MCInitialAccounts ==
  [u \in Residents |-> [username |-> <<ann, 0>>, email |-> a1, cpf |-> 1,
                        school |-> south, invited_by |-> "super_admin"]]

Symmetry == Permutations({p1, p2})
==============================================================================
