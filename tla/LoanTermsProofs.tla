-------------------------- MODULE LoanTermsProofs --------------------------
(***************************************************************************)
(* What holds of LoanTerms for every history of loans of a reader, every     *)
(* policy the schema accepts, and every calendar.                          *)
(***************************************************************************)
EXTENDS LoanTerms, FiniteSetTheorems, WellFoundedInduction, TLAPS

-----------------------------------------------------------------------------
(* The least of a set of numbers *)

Less == {ss \in Nat \X Nat : ss[1] < ss[2]}

\* A set of numbers that has an element has a least one.
LEMMA LeastExists ==
    ASSUME NEW S, S \subseteq Nat, S # {}
    PROVE  \E x \in S : \A y \in S : x <= y
  <1>1. IsWellFoundedOn(Less, Nat)
    BY NatLessThanWellFounded, Zenon DEF OpToRel, Less
  <1>2. PICK x \in S : \A y \in S : <<y, x>> \notin Less
    BY <1>1, WFMin
  <1>3. ASSUME NEW y \in S
        PROVE  x <= y
    <2>1. x \in Nat /\ y \in Nat /\ ~(y < x)
      BY <1>2 DEF Less
    <2> QED
      BY <2>1
  <1> QED
    BY <1>2, <1>3

-----------------------------------------------------------------------------
(* Instants and days *)

\* Multiplication by the instants of a day keeps the order.
LEMMA DaysOrder ==
    ASSUME NEW m \in Int, NEW n \in Int
    PROVE  /\ Days(m) \in Int
           /\ m <= n => Days(m) <= Days(n)
           /\ m < n => Days(m) + Instants <= Days(n)
           /\ m \in Nat => Days(m) \in Nat
  <1>1. Instants \in Nat \ {0}
    BY TermsAssumption
  <1> QED
    BY <1>1 DEF Days

\* An instant lies in its day.
LEMMA DayBounds ==
    ASSUME NEW t \in Nat
    PROVE  /\ Day(t) \in Nat
           /\ Days(Day(t)) <= t /\ t < Days(Day(t)) + Instants
           /\ t % Instants \in Nat /\ t % Instants < Instants
           /\ t = Days(Day(t)) + (t % Instants)
  <1>1. Instants \in Nat \ {0}
    BY TermsAssumption
  <1> QED
    BY <1>1 DEF Day, Days

\* The day of an instant is the one it lies in.
LEMMA DayOf ==
    ASSUME NEW n \in Nat, NEW x \in Nat, x < Instants
    PROVE  Days(n) + x \in Nat /\ Day(Days(n) + x) = n
  <1>1. Days(n) \in Nat /\ Instants \in Nat \ {0}
    BY DaysOrder, TermsAssumption
  <1>2. PICK t : t = Days(n) + x /\ t \in Nat
    BY <1>1
  <1>3. /\ Day(t) \in Nat /\ Days(Day(t)) \in Int
        /\ Days(Day(t)) <= t /\ t < Days(Day(t)) + Instants
    BY <1>2, DayBounds, DaysOrder
  <1>4. ~(Day(t) < n)
    BY <1>1, <1>2, <1>3, DaysOrder
  <1>5. ~(n < Day(t))
    BY <1>1, <1>2, <1>3, DaysOrder
  <1> QED
    BY <1>2, <1>3, <1>4, <1>5

\* What is due before today is due on an earlier day.
LEMMA DueBefore ==
    ASSUME NEW due \in Nat, NEW t \in Nat
    PROVE  due < Days(Day(t)) <=> Day(due) < Day(t)
  <1>1. /\ Day(due) \in Nat /\ Days(Day(due)) <= due /\ due < Days(Day(due)) + Instants
        /\ Day(t) \in Nat /\ Days(Day(t)) \in Int /\ Days(Day(due)) \in Int
    BY DayBounds, DaysOrder
  <1>2. Instants \in Nat
    BY TermsAssumption
  <1>3. CASE Day(due) < Day(t)
    BY <1>1, <1>2, <1>3, DaysOrder
  <1>4. CASE Day(t) <= Day(due)
    BY <1>1, <1>2, <1>4, DaysOrder
  <1> QED
    BY <1>1, <1>3, <1>4

-----------------------------------------------------------------------------
(* Days that count *)

\* Between any day and the end of the search there is a day the library works: there
\* are more Mondays in it than days are marked.
LEMMA SomeWorkingDay ==
    ASSUME NEW d \in Nat, nonWorkingDays \subseteq Holidays
    PROVE  \E e \in (d + 1) .. (d + 8 + 7 * Cardinality(nonWorkingDays)) : Working(e)
  <1> DEFINE marked == Cardinality(nonWorkingDays)
  <1>1. IsFiniteSet(nonWorkingDays) /\ marked \in Nat
    BY TermsAssumption, FS_Subset, FS_CardinalityType
  <1>2. PICK monday \in Nat : /\ monday % 7 = 0
                              /\ d + 1 <= monday /\ monday <= d + 7
    <2>1. PICK k \in Nat, x \in 0 .. 6 : d = 7 * k + x
      <3>1. d = 7 * (d \div 7) + (d % 7) /\ d \div 7 \in Nat /\ d % 7 \in 0 .. 6
        OBVIOUS
      <3> QED
        BY <3>1
    <2>2. (7 * (k + 1)) % 7 = 0 /\ 7 * (k + 1) \in Nat
      BY <2>1
    <2> QED
      BY <2>1, <2>2
  <1> DEFINE f == [i \in 0 .. marked |-> monday + 7 * i]
  <1>3. SUFFICES ASSUME \A i \in 0 .. marked : f[i] \in nonWorkingDays
                 PROVE  FALSE
    <2>1. PICK i \in 0 .. marked : f[i] \notin nonWorkingDays
      BY <1>3
    <2>2. f[i] \in (d + 1) .. (d + 8 + 7 * marked)
      BY <1>1, <1>2, <2>1
    <2>3. f[i] % 7 = 0
      BY <1>1, <1>2, <2>1
    <2> QED
      BY <2>1, <2>2, <2>3 DEF Working, Weekend
  <1>4. IsFiniteSet(0 .. marked) /\ Cardinality(0 .. marked) = marked + 1
    BY <1>1, FS_Interval
  <1>5. f \in [0 .. marked -> nonWorkingDays]
    BY <1>3
  <1>6. PICK i \in 0 .. marked, j \in 0 .. marked : i # j /\ f[i] = f[j]
    <2> HIDE DEF f
    <2> QED
      BY <1>1, <1>4, <1>5, FS_PigeonHole
  <1> QED
    BY <1>1, <1>2, <1>6

\* The loop goes on to the next day that counts.
LEMMA NextCountedOK ==
    ASSUME NEW d \in Nat, nonWorkingDays \subseteq Holidays
    PROVE  /\ NextCounted(d) \in Nat /\ NextCounted(d) > d
           /\ Working(NextCounted(d))
           /\ \A f \in (d + 1) .. (NextCounted(d) - 1) : ~Working(f)
  <1> DEFINE window == (d + 1) .. (d + 8 + 7 * Cardinality(nonWorkingDays))
             S == {e \in window : Working(e)}
  <1>1. Cardinality(nonWorkingDays) \in Nat
    BY TermsAssumption, FS_Subset, FS_CardinalityType
  <1>2. S \subseteq Nat /\ S # {}
    BY <1>1, SomeWorkingDay
  <1>3. PICK e \in S : \A y \in S : e <= y
    BY <1>2, LeastExists
  <1>4. \A f \in (d + 1) .. (e - 1) : ~Working(f)
    BY <1>1, <1>2, <1>3
  <1>5. \E x \in window : Working(x) /\ \A f \in (d + 1) .. (x - 1) : ~Working(f)
    BY <1>3, <1>4
  <1>6. /\ NextCounted(d) \in window /\ Working(NextCounted(d))
        /\ \A f \in (d + 1) .. (NextCounted(d) - 1) : ~Working(f)
    BY <1>5 DEF NextCounted
  <1> QED
    BY <1>1, <1>6

-----------------------------------------------------------------------------
(* The loop of calculate_due_date *)

\* c is the days that the loop comes to in n turns from day a.
Counts(c, a, n) ==
  c = [i \in 0 .. n |-> IF i = 0 THEN a ELSE NextCounted(c[i - 1])]

\* The loop can be run for any number of turns.
LEMMA LoopRuns ==
    ASSUME NEW a \in Nat, NEW n \in Nat
    PROVE  \E c : Counts(c, a, n)
  <1> DEFINE S == {k \in Nat : ~\E c : Counts(c, a, k)}
  <1>1. SUFFICES ASSUME S # {}
                 PROVE  FALSE
    BY <1>1
  <1>2. PICK k \in S : \A m \in S : k <= m
    BY <1>1, LeastExists
  <1>3. k # 0
    <2>1. Counts([i \in 0 .. 0 |-> a], a, 0)
      BY DEF Counts
    <2> QED
      BY <1>2, <2>1
  <1>4. k - 1 \in Nat /\ k - 1 \notin S
    BY <1>2, <1>3
  <1>5. PICK c : Counts(c, a, k - 1)
    BY <1>4
  <1> DEFINE longer == [i \in 0 .. k |-> IF i = k THEN NextCounted(c[k - 1]) ELSE c[i]]
  <1>6. Counts(longer, a, k)
    <2>1. ASSUME NEW i \in 0 .. k
          PROVE  longer[i] = IF i = 0 THEN a ELSE NextCounted(longer[i - 1])
      <3>1. CASE i = k
        BY <1>3, <1>4, <3>1
      <3>2. CASE i # k
        <4>1. i \in 0 .. (k - 1) /\ longer[i] = c[i]
          BY <1>4, <3>2
        <4>2. i # 0 => i - 1 \in 0 .. (k - 1) /\ longer[i - 1] = c[i - 1]
          BY <1>4, <4>1
        <4>3. c[i] = IF i = 0 THEN a ELSE NextCounted(c[i - 1])
          BY <1>5, <4>1 DEF Counts
        <4> QED
          BY <4>1, <4>2, <4>3
      <3> QED
        BY <3>1, <3>2
    <2>2. longer = [i \in 0 .. k |-> longer[i]]
      OBVIOUS
    <2> HIDE DEF longer
    <2> QED
      BY <2>1, <2>2 DEF Counts
  <1> QED
    BY <1>2, <1>6

\* The due date is a day of the loop, at the instant of the loan.
LEMMA DueDateCounts ==
    ASSUME NEW p, NEW penalty, NEW start \in Nat, BusinessDaysOnly(p),
           Duration(p, penalty) \in Nat
    PROVE  \E c : /\ Counts(c, Day(start), Duration(p, penalty))
                  /\ DueDate(p, penalty, start) =
                       Days(c[Duration(p, penalty)]) + (start % Instants)
  <1> DEFINE duration == Duration(p, penalty)
             counted == CHOOSE c : c = [n \in 0 .. duration |->
                          IF n = 0 THEN Day(start) ELSE NextCounted(c[n - 1])]
  <1>1. \E c : c = [n \in 0 .. duration |->
                      IF n = 0 THEN Day(start) ELSE NextCounted(c[n - 1])]
    BY LoopRuns, DayBounds DEF Counts
  <1>2. Counts(counted, Day(start), duration)
    BY <1>1 DEF Counts
  <1>3. DueDate(p, penalty, start) = Days(counted[duration]) + (start % Instants)
    BY DEF DueDate
  <1> QED
    BY <1>2, <1>3

\* After i turns the loop is on a day the library works, the i-th since it began.
LEMMA LoopCounts ==
    ASSUME NEW a \in Nat, NEW n \in Nat, NEW c, Counts(c, a, n),
           nonWorkingDays \subseteq Holidays
    PROVE  \A i \in 0 .. n :
             /\ c[i] \in Nat /\ a <= c[i]
             /\ i > 0 => Working(c[i])
             /\ WorkingDays(a, c[i]) = i
  <1> DEFINE Days1(b) == {d \in (a + 1) .. b : Working(d)}
             Good(i) == /\ c[i] \in Nat /\ a <= c[i]
                        /\ i > 0 => Working(c[i])
                        /\ WorkingDays(a, c[i]) = i
             S == {i \in 0 .. n : ~Good(i)}
  <1>1. SUFFICES ASSUME S # {}
                 PROVE  FALSE
    BY <1>1
  <1> HIDE DEF Good
  <1>2. PICK i \in S : \A m \in S : i <= m
    <2>1. S \subseteq Nat
      OBVIOUS
    <2> HIDE DEF S
    <2> QED
      BY <1>1, <2>1, LeastExists
  <1>3. i # 0
    <2>1. c[0] = a
      BY DEF Counts
    <2>2. (a + 1) .. a = {}
      OBVIOUS
    <2>3. Days1(a) = {}
      BY <2>2
    <2>4. WorkingDays(a, a) = 0
      BY <2>3, FS_EmptySet DEF WorkingDays
    <2>5. Good(0)
      BY <2>1, <2>4 DEF Good
    <2> QED
      BY <1>2, <2>5
  <1>4. PICK j \in 0 .. n : j = i - 1 /\ j \notin S
    BY <1>2, <1>3
  <1>5. PICK b, e : b = c[j] /\ e = c[i] /\ e = NextCounted(b)
    BY <1>2, <1>3, <1>4 DEF Counts
  <1>6. /\ b \in Nat /\ a <= b /\ WorkingDays(a, b) = j
    BY <1>4, <1>5 DEF Good
  <1>7. /\ e \in Nat /\ e > b /\ Working(e)
        /\ \A f \in (b + 1) .. (e - 1) : ~Working(f)
    BY <1>5, <1>6, NextCountedOK
  <1>8. WorkingDays(a, e) = i
    <2>1. Days1(e) = Days1(b) \cup {e}
      <3>1. \A d \in Int : d \in Days1(e) => d \in Days1(b) \cup {e}
        BY <1>6, <1>7
      <3>2. Days1(b) \cup {e} \subseteq Days1(e)
        BY <1>6, <1>7
      <3> QED
        BY <3>1, <3>2
    <2>2. IsFiniteSet(Days1(b)) /\ e \notin Days1(b)
      <3>1. IsFiniteSet((a + 1) .. b)
        BY <1>6, FS_Interval
      <3>2. Days1(b) \subseteq (a + 1) .. b
        OBVIOUS
      <3> QED
        BY <1>6, <1>7, <3>1, <3>2, FS_Subset
    <2>3. Cardinality(Days1(e)) = Cardinality(Days1(b)) + 1
      <3> HIDE DEF Days1
      <3> QED
        BY <2>1, <2>2, FS_AddElement
    <2> QED
      BY <1>4, <1>6, <2>3 DEF WorkingDays
  <1>9. Good(i)
    BY <1>5, <1>6, <1>7, <1>8 DEF Good
  <1> QED
    BY <1>2, <1>9

-----------------------------------------------------------------------------
(* Due dates *)

\* A loan lasts a day at least, and a whole number of them.
LEMMA DurationOK ==
    ASSUME NEW p \in Policy, NEW penalty \in Nat
    PROVE  Duration(p, penalty) \in Nat \ {0}
  <1>1. /\ p.minimum_loan_days_after_penalties \in Nat \ {0}
        /\ p.loan_duration_days \in Nat \ {0} /\ LOAN_MIN_DAYS \in Nat
    BY TermsAssumption DEF Policy, Rules
  <1> QED
    BY <1>1 DEF Duration, Larger

\* A due date is an instant; where only working days count it lies on one, and leaves the
\* reader as many of them as the loan lasts.
LEMMA DueDateOK ==
    ASSUME NEW p \in Policy, NEW penalty \in Nat, NEW start \in Nat,
           nonWorkingDays \subseteq Holidays
    PROVE  /\ DueDate(p, penalty, start) \in Nat
           /\ BusinessDaysOnly(p) =>
                LET due == Day(DueDate(p, penalty, start))
                IN  /\ Working(due)
                    /\ WorkingDays(Day(start), due) = Duration(p, penalty)
  <1>1. Duration(p, penalty) \in Nat \ {0}
    BY DurationOK
  <1>2. CASE ~BusinessDaysOnly(p)
    <2>1. Days(Duration(p, penalty)) \in Nat
      BY <1>1, DaysOrder
    <2> QED
      BY <1>2, <2>1 DEF DueDate
  <1>3. CASE BusinessDaysOnly(p)
    <2>1. PICK c : /\ Counts(c, Day(start), Duration(p, penalty))
                   /\ DueDate(p, penalty, start) =
                        Days(c[Duration(p, penalty)]) + (start % Instants)
      BY <1>1, <1>3, DueDateCounts
    <2>2. PICK day : day = c[Duration(p, penalty)]
      OBVIOUS
    <2>3. /\ day \in Nat /\ Working(day)
          /\ WorkingDays(Day(start), day) = Duration(p, penalty)
      BY <1>1, <2>1, <2>2, LoopCounts, DayBounds
    <2>4. PICK x : x = start % Instants /\ x \in Nat /\ x < Instants
      BY DayBounds
    <2>5. DueDate(p, penalty, start) = Days(day) + x
      BY <2>1, <2>2, <2>4
    <2>6. DueDate(p, penalty, start) \in Nat /\ Day(DueDate(p, penalty, start)) = day
      BY <2>3, <2>4, <2>5, DayOf
    <2> QED
      BY <2>3, <2>6
  <1> QED
    BY <1>2, <1>3

-----------------------------------------------------------------------------
(* The loop of active_overdue_reductions *)

NoReturns == [count |-> 0, onTime |-> 0]

\* after is what the loop has counted after each of the first n returns.
Follows(after, threshold, n) ==
  after = [i \in 0 .. n |->
             IF i = 0 THEN NoReturns
             ELSE AfterReturn(threshold, after[i - 1], ReturnOrder[i])]

\* The loop can be run over any number of returns.
LEMMA ReturnsRun ==
    ASSUME NEW threshold, NEW n \in Nat
    PROVE  \E after : Follows(after, threshold, n)
  <1> DEFINE S == {k \in Nat : ~\E after : Follows(after, threshold, k)}
  <1>1. SUFFICES ASSUME S # {}
                 PROVE  FALSE
    BY <1>1
  <1>2. PICK k \in S : \A m \in S : k <= m
    BY <1>1, LeastExists
  <1>3. k # 0
    <2>1. Follows([i \in 0 .. 0 |-> NoReturns], threshold, 0)
      BY DEF Follows
    <2> QED
      BY <1>2, <2>1
  <1>4. k - 1 \in Nat /\ k - 1 \notin S
    BY <1>2, <1>3
  <1>5. PICK after : Follows(after, threshold, k - 1)
    BY <1>4
  <1> DEFINE longer == [i \in 0 .. k |->
               IF i = k THEN AfterReturn(threshold, after[k - 1], ReturnOrder[k])
                        ELSE after[i]]
  <1>6. Follows(longer, threshold, k)
    <2>1. ASSUME NEW i \in 0 .. k
          PROVE  longer[i] = IF i = 0 THEN NoReturns
                             ELSE AfterReturn(threshold, longer[i - 1], ReturnOrder[i])
      <3>1. CASE i = k
        BY <1>3, <1>4, <3>1
      <3>2. CASE i # k
        <4>1. i \in 0 .. (k - 1) /\ longer[i] = after[i]
          BY <1>4, <3>2
        <4>2. i # 0 => i - 1 \in 0 .. (k - 1) /\ longer[i - 1] = after[i - 1]
          BY <1>4, <4>1
        <4>3. after[i] = IF i = 0 THEN NoReturns
                         ELSE AfterReturn(threshold, after[i - 1], ReturnOrder[i])
          BY <1>5, <4>1 DEF Follows
        <4> QED
          BY <4>1, <4>2, <4>3
      <3> QED
        BY <3>1, <3>2
    <2>2. longer = [i \in 0 .. k |-> longer[i]]
      OBVIOUS
    <2> HIDE DEF longer
    <2> QED
      BY <2>1, <2>2 DEF Follows
  <1> QED
    BY <1>2, <1>6

\* The reductions that are counted are those at the end of the loop.
LEMMA CountedAfter ==
    ASSUME NEW p, p.overdue_recovery_mode = "on_time_returns",
           Cardinality(Returned) \in Nat
    PROVE  \E after :
             /\ Follows(after, p.overdue_recovery_on_time_returns, Cardinality(Returned))
             /\ CountedReductions(p) = after[Cardinality(Returned)].count
  <1> DEFINE threshold == p.overdue_recovery_on_time_returns
             returns == Cardinality(Returned)
             counted == CHOOSE after : after = [n \in 0 .. returns |->
                          IF n = 0 THEN [count |-> 0, onTime |-> 0]
                          ELSE AfterReturn(threshold, after[n - 1], ReturnOrder[n])]
  <1>1. \E after : after = [n \in 0 .. returns |->
                      IF n = 0 THEN [count |-> 0, onTime |-> 0]
                      ELSE AfterReturn(threshold, after[n - 1], ReturnOrder[n])]
    BY ReturnsRun DEF Follows, NoReturns
  <1>2. Follows(counted, threshold, returns)
    BY <1>1 DEF Follows, NoReturns
  <1>3. CountedReductions(p) = counted[returns].count
    BY DEF CountedReductions
  <1> QED
    BY <1>2, <1>3

\* The late returns among the first n that no run of returns on time has made up for.
UnrecoveredOf(threshold, n) ==
  {i \in 1 .. n :
     /\ Late(ReturnOrder[i])
     /\ ~\E j \in (i + 1) .. (n - threshold + 1) :
          \A k \in j .. (j + threshold - 1) : ~Late(ReturnOrder[k])}

\* A late return adds itself.
LEMMA LateAdds ==
    ASSUME NEW threshold \in Nat \ {0}, NEW n \in Nat \ {0}, Late(ReturnOrder[n])
    PROVE  UnrecoveredOf(threshold, n) = UnrecoveredOf(threshold, n - 1) \cup {n}
  <1>1. n \in UnrecoveredOf(threshold, n)
    BY DEF UnrecoveredOf
  <1>2. ASSUME NEW i \in 1 .. (n - 1)
        PROVE  i \in UnrecoveredOf(threshold, n) <=> i \in UnrecoveredOf(threshold, n - 1)
    <2>1. ASSUME NEW j \in (i + 1) .. (n - threshold + 1),
                 \A k \in j .. (j + threshold - 1) : ~Late(ReturnOrder[k])
          PROVE  j \in (i + 1) .. ((n - 1) - threshold + 1)
      <3>1. n \notin j .. (j + threshold - 1)
        BY <2>1
      <3> QED
        BY <3>1
    <2>2. (i + 1) .. ((n - 1) - threshold + 1) \subseteq (i + 1) .. (n - threshold + 1)
      OBVIOUS
    <2>3. (\E j \in (i + 1) .. (n - threshold + 1) :
             \A k \in j .. (j + threshold - 1) : ~Late(ReturnOrder[k]))
          <=> (\E j \in (i + 1) .. ((n - 1) - threshold + 1) :
                 \A k \in j .. (j + threshold - 1) : ~Late(ReturnOrder[k]))
      BY <2>1, <2>2
    <2>4. i \in 1 .. n
      OBVIOUS
    <2> QED
      BY <2>3, <2>4 DEF UnrecoveredOf
  <1>3. /\ UnrecoveredOf(threshold, n) \subseteq 1 .. n
        /\ UnrecoveredOf(threshold, n - 1) \subseteq 1 .. (n - 1)
    BY DEF UnrecoveredOf
  <1> QED
    BY <1>1, <1>2, <1>3

\* A return on time that completes a run leaves none.
LEMMA RunClears ==
    ASSUME NEW threshold \in Nat \ {0}, NEW n \in Nat \ {0}, NEW run \in Nat,
           threshold <= run, \A k \in (n - run + 1) .. n : ~Late(ReturnOrder[k])
    PROVE  UnrecoveredOf(threshold, n) = {}
  <1> SUFFICES ASSUME NEW i \in 1 .. n, Late(ReturnOrder[i])
               PROVE  \E j \in (i + 1) .. (n - threshold + 1) :
                        \A k \in j .. (j + threshold - 1) : ~Late(ReturnOrder[k])
    BY DEF UnrecoveredOf
  <1>1. i \notin (n - run + 1) .. n
    OBVIOUS
  <1>2. n - threshold + 1 \in (i + 1) .. (n - threshold + 1)
    BY <1>1
  <1>3. \A k \in (n - threshold + 1) .. ((n - threshold + 1) + threshold - 1) :
          ~Late(ReturnOrder[k])
    OBVIOUS
  <1> QED
    BY <1>2, <1>3

\* One that does not complete a run changes nothing.
LEMMA RunGoesOn ==
    ASSUME NEW threshold \in Nat \ {0}, NEW n \in Nat \ {0}, NEW run \in Nat,
           run < threshold, run <= n, ~Late(ReturnOrder[n]),
           run < n => Late(ReturnOrder[n - run])
    PROVE  UnrecoveredOf(threshold, n) = UnrecoveredOf(threshold, n - 1)
  <1>1. ASSUME NEW i \in 1 .. (n - 1)
        PROVE  i \in UnrecoveredOf(threshold, n) <=> i \in UnrecoveredOf(threshold, n - 1)
    <2>1. ASSUME NEW j \in (i + 1) .. (n - threshold + 1),
                 \A k \in j .. (j + threshold - 1) : ~Late(ReturnOrder[k])
          PROVE  j \in (i + 1) .. ((n - 1) - threshold + 1)
      <3>1. run < n
        OBVIOUS
      <3>2. n - run \notin j .. (j + threshold - 1)
        BY <2>1, <3>1
      <3> QED
        BY <3>1, <3>2
    <2>2. (i + 1) .. ((n - 1) - threshold + 1) \subseteq (i + 1) .. (n - threshold + 1)
      OBVIOUS
    <2> QED
      BY <2>1, <2>2 DEF UnrecoveredOf
  <1>2. /\ UnrecoveredOf(threshold, n) \subseteq 1 .. n
        /\ UnrecoveredOf(threshold, n - 1) \subseteq 1 .. (n - 1)
        /\ n \notin UnrecoveredOf(threshold, n)
    BY DEF UnrecoveredOf
  <1> QED
    BY <1>1, <1>2

\* After every return the loop has the run of returns on time that ends with it, and has
\* counted the late ones that are not made up for.
LEMMA LoopIsHistory ==
    ASSUME NEW threshold \in Nat \ {0}, NEW n \in Nat, NEW after,
           Follows(after, threshold, n)
    PROVE  /\ after[n].count \in Nat
           /\ after[n].count = Cardinality(UnrecoveredOf(threshold, n))
  <1> DEFINE Good(i) ==
               /\ after[i].count \in Nat /\ after[i].onTime \in 0 .. i
               /\ \A k \in (i - after[i].onTime + 1) .. i : ~Late(ReturnOrder[k])
               /\ after[i].onTime < i => Late(ReturnOrder[i - after[i].onTime])
               /\ after[i].count = Cardinality(UnrecoveredOf(threshold, i))
             S == {i \in 0 .. n : ~Good(i)}
  <1>1. SUFFICES S = {}
    BY <1>1
  <1>2. SUFFICES ASSUME S # {}
                 PROVE  FALSE
    BY <1>2
  <1> HIDE DEF Good
  <1>3. PICK i \in S : \A m \in S : i <= m
    <2>1. S \subseteq Nat
      OBVIOUS
    <2> HIDE DEF S
    <2> QED
      BY <1>2, <2>1, LeastExists
  <1>4. i # 0
    <2>1. after[0].count = 0 /\ after[0].onTime = 0
      BY DEF Follows, NoReturns
    <2>2. UnrecoveredOf(threshold, 0) = {}
      BY DEF UnrecoveredOf
    <2>3. Cardinality(UnrecoveredOf(threshold, 0)) = 0
      BY <2>2, FS_EmptySet
    <2>4. PICK first : first = after[0]
      OBVIOUS
    <2>5. /\ first.count \in Nat /\ first.onTime \in 0 .. 0
          /\ \A k \in (0 - first.onTime + 1) .. 0 : ~Late(ReturnOrder[k])
          /\ ~(first.onTime < 0)
          /\ first.count = Cardinality(UnrecoveredOf(threshold, 0))
      BY <2>1, <2>3, <2>4
    <2>6. Good(0)
      BY <2>4, <2>5 DEF Good
    <2> QED
      BY <1>3, <2>6
  <1>5. PICK m \in 0 .. n : m = i - 1 /\ m \notin S
    BY <1>3, <1>4
  <1>6. PICK before : before = after[m]
    OBVIOUS
  <1>7. after[i] = AfterReturn(threshold, before, ReturnOrder[i])
    BY <1>3, <1>4, <1>5, <1>6 DEF Follows
  <1>8. /\ before.count \in Nat /\ before.onTime \in 0 .. m
        /\ \A k \in (m - before.onTime + 1) .. m : ~Late(ReturnOrder[k])
        /\ before.onTime < m => Late(ReturnOrder[m - before.onTime])
        /\ before.count = Cardinality(UnrecoveredOf(threshold, m))
    BY <1>5, <1>6 DEF Good
  <1>9. i \in Nat \ {0} /\ i - 1 = m
    BY <1>3, <1>4, <1>5
  <1>10. CASE Late(ReturnOrder[i])
    <2>1. after[i].count = before.count + 1 /\ after[i].onTime = 0
      BY <1>7, <1>10 DEF AfterReturn
    <2>2. UnrecoveredOf(threshold, i) = UnrecoveredOf(threshold, m) \cup {i}
      BY <1>9, <1>10, LateAdds
    <2>3. IsFiniteSet(UnrecoveredOf(threshold, m)) /\ i \notin UnrecoveredOf(threshold, m)
      <3>1. UnrecoveredOf(threshold, m) \subseteq 1 .. m
        BY DEF UnrecoveredOf
      <3>2. IsFiniteSet(1 .. m)
        BY FS_Interval
      <3> QED
        BY <1>9, <3>1, <3>2, FS_Subset
    <2>4. Cardinality(UnrecoveredOf(threshold, i)) = before.count + 1
      BY <1>8, <2>2, <2>3, FS_AddElement
    <2>5. Good(i)
      BY <1>8, <1>9, <1>10, <2>1, <2>4 DEF Good
    <2> QED
      BY <1>3, <2>5
  <1>11. CASE ~Late(ReturnOrder[i])
    <2>1. PICK run : run = before.onTime + 1
      OBVIOUS
    <2>2. /\ after[i].onTime = run
          /\ after[i].count = IF run >= threshold THEN 0 ELSE before.count
      BY <1>7, <1>11, <2>1 DEF AfterReturn
    <2>3. /\ run \in Nat /\ run <= i
          /\ \A k \in (i - run + 1) .. i : ~Late(ReturnOrder[k])
          /\ run < i => Late(ReturnOrder[i - run])
      <3>1. run \in Nat /\ run <= i /\ i - run = m - before.onTime
        BY <1>8, <1>9, <2>1
      <3>2. \A k \in (i - run + 1) .. i : k = i \/ k \in (m - before.onTime + 1) .. m
        BY <1>8, <1>9, <2>1
      <3>3. \A k \in (i - run + 1) .. i : ~Late(ReturnOrder[k])
        BY <1>8, <1>11, <3>2
      <3>4. run < i => Late(ReturnOrder[i - run])
        BY <1>8, <1>9, <2>1, <3>1
      <3> QED
        BY <3>1, <3>3, <3>4
    <2>4. CASE run >= threshold
      <3>1. UnrecoveredOf(threshold, i) = {}
        BY <1>9, <2>3, <2>4, RunClears
      <3>2. Good(i)
        BY <2>2, <2>3, <2>4, <3>1, FS_EmptySet DEF Good
      <3> QED
        BY <1>3, <3>2
    <2>5. CASE ~(run >= threshold)
      <3>1. UnrecoveredOf(threshold, i) = UnrecoveredOf(threshold, m)
        BY <1>9, <1>11, <2>3, <2>5, RunGoesOn
      <3>2. Good(i)
        BY <1>8, <2>2, <2>3, <2>5, <3>1 DEF Good
      <3> QED
        BY <1>3, <3>2
    <2> QED
      BY <2>4, <2>5
  <1> QED
    BY <1>10, <1>11

-----------------------------------------------------------------------------
(* Penalties *)

\* The policy in force is one that the schema accepts.
LEMMA PolicyOK == TypeOK => policy \in Policy
  BY TermsAssumption DEF TypeOK, policy

\* There are finitely many returns.
LEMMA ReturnsFinite ==
    /\ IsFiniteSet(Returned) /\ Cardinality(Returned) \in Nat
    /\ \A S \in SUBSET Returned : Cardinality(S) \in Nat
  <1>1. Returned \subseteq LoanIds
    BY DEF Returned
  <1> QED
    BY <1>1, TermsAssumption, FS_Subset, FS_CardinalityType

\* The penalty is a number of days.
LEMMA ReductionsOK ==
    ASSUME NEW p \in Policy
    PROVE  Reductions(p) \in Nat
  <1>1. CountedReductions(p) \in Nat
    <2>1. CASE p.overdue_recovery_mode = "elapsed_days"
      BY <2>1, ReturnsFinite DEF CountedReductions
    <2>2. CASE p.overdue_recovery_mode = "on_time_returns"
      <3>1. PICK after :
              /\ Follows(after, p.overdue_recovery_on_time_returns, Cardinality(Returned))
              /\ CountedReductions(p) = after[Cardinality(Returned)].count
        BY <2>2, ReturnsFinite, CountedAfter
      <3>2. p.overdue_recovery_on_time_returns \in Nat \ {0}
        BY <2>2 DEF Policy, Rules
      <3> QED
        BY <3>1, <3>2, ReturnsFinite, LoopIsHistory
    <2>3. p.overdue_recovery_mode \in {"on_time_returns", "elapsed_days"}
      BY DEF Policy, Rules
    <2> QED
      BY <2>1, <2>2, <2>3
  <1>2. p.max_overdue_reductions \in Nat /\ p.overdue_due_date_reduction_days \in Nat
    BY DEF Policy, Rules
  <1> QED
    BY <1>1, <1>2 DEF Reductions, Smaller

\* The penalty is what the history of returns says.
LEMMA PenaltyIsHistory == TypeOK => PenaltyMatchesHistory
  <1> SUFFICES ASSUME TypeOK, NEW p, p = policy, p.apply_overdue_due_date_reduction,
                      p.overdue_recovery_mode = "on_time_returns"
               PROVE  Reductions(p) = p.overdue_due_date_reduction_days *
                        Smaller(p.max_overdue_reductions,
                          Cardinality(Unrecovered(p.overdue_recovery_on_time_returns)))
    BY DEF PenaltyMatchesHistory
  <1>1. /\ p.max_overdue_reductions \in Nat /\ p.overdue_due_date_reduction_days \in Nat
        /\ p.overdue_recovery_on_time_returns \in Nat \ {0}
    BY PolicyOK DEF Policy, Rules
  <1>2. PICK after :
          /\ Follows(after, p.overdue_recovery_on_time_returns, Cardinality(Returned))
          /\ CountedReductions(p) = after[Cardinality(Returned)].count
    BY ReturnsFinite, CountedAfter
  <1>3. PICK threshold : threshold = p.overdue_recovery_on_time_returns
    OBVIOUS
  <1>4. Unrecovered(threshold) = UnrecoveredOf(threshold, Cardinality(Returned))
    BY DEF Unrecovered, UnrecoveredOf
  <1>5. PICK count \in Nat : /\ count = CountedReductions(p)
                             /\ count = Cardinality(Unrecovered(threshold))
    BY <1>1, <1>2, <1>3, <1>4, ReturnsFinite, LoopIsHistory
  <1>6. Smaller(count, p.max_overdue_reductions) = Smaller(p.max_overdue_reductions, count)
    BY <1>1, <1>5 DEF Smaller
  <1>7. Smaller(p.max_overdue_reductions, count) \in Nat
    BY <1>1, <1>5 DEF Smaller
  <1> QED
    BY <1>1, <1>3, <1>5, <1>6, <1>7 DEF Reductions

-----------------------------------------------------------------------------
(* The invariant *)

\* Nothing is entered with a date to come, and no two returns at the same time.
Dates ==
    /\ \A l \in LoanIds :
         /\ loans[l].status # "none" => loans[l].borrowed_at <= now
         /\ l \in Returned => loans[l].returned_at <= now
    /\ \A l, m \in Returned :
         l # m => loans[l].returned_at # loans[m].returned_at

TermsInv == TypeOK /\ Dates /\ SuspensionHonoured

\* Before the first loan.
LEMMA TermsInit == Init => TermsInv
  <1> SUFFICES ASSUME Init
               PROVE  TermsInv
    OBVIOUS
  <1>1. \A l \in LoanIds : loans[l] = NoLoan /\ loans[l].status = "none" /\ l \notin Returned
    BY DEF Init, NoLoan, Returned
  <1>2. now \in Clock
    <2>1. Days(LastDay + 1) > 0 /\ Days(LastDay + 1) \in Int
      BY TermsAssumption DEF Days
    <2> QED
      BY <2>1 DEF Init, Clock
  <1>3. TypeOK
    BY <1>1, <1>2 DEF TypeOK, Init, NoLoan
  <1>4. Dates
    BY <1>1 DEF Dates, Returned
  <1>5. SuspensionHonoured
    BY <1>1 DEF SuspensionHonoured
  <1> QED
    BY <1>3, <1>4, <1>5 DEF TermsInv

\* The clock shows an instant.
LEMMA ClockOK == TypeOK => now \in Nat /\ nonWorkingDays \subseteq Holidays
  <1>1. Days(LastDay + 1) \in Int
    BY DaysOrder, TermsAssumption
  <1> QED
    BY <1>1 DEF TypeOK, Clock

\* A loan is entered with its due date, once no suspension of the reader runs.
LEMMA LendKeeps ==
    ASSUME TermsInv, NEW l \in LoanIds, Lend(l)
    PROVE  TermsInv'
  <1>1. PICK due \in Nat :
          /\ loans' = [loans EXCEPT ![l] =
               [NoLoan EXCEPT !.status = "ACTIVE", !.borrowed_at = now, !.due_date = due]]
          /\ UNCHANGED <<now, saved, nonWorkingDays>>
    <2>1. DueDate(policy, Reductions(policy), now) \in Nat
      BY ClockOK, PolicyOK, ReductionsOK, DueDateOK DEF TermsInv
    <2> QED
      BY <2>1 DEF Lend
  <1>2. PICK row : /\ row = [NoLoan EXCEPT !.status = "ACTIVE", !.borrowed_at = now,
                                           !.due_date = due]
                   /\ loans' = [loans EXCEPT ![l] = row]
    BY <1>1
  <1>3. /\ row = [status |-> "ACTIVE", borrowed_at |-> now, due_date |-> due,
                  returned_at |-> None, late_days |-> 0]
    BY <1>2 DEF NoLoan
  <1>4. loans[l].status = "none" /\ l \notin Returned /\ now \in Nat
    BY ClockOK DEF NoLoan, Lend, Returned, TermsInv
  <1>5. /\ row.status = "ACTIVE" /\ row.borrowed_at = now /\ row.due_date = due
        /\ row.returned_at = None
        /\ loans'[l] = row /\ \A m \in LoanIds \ {l} : loans'[m] = loans[m]
    BY <1>2, <1>3, <1>4 DEF TermsInv, TypeOK
  <1>6. Returned' = Returned
    BY <1>3, <1>4, <1>5 DEF Returned
  <1>7. TypeOK'
    BY <1>1, <1>2, <1>3, <1>4, <1>5 DEF TermsInv, TypeOK
  <1>8. Dates'
    BY <1>1, <1>3, <1>4, <1>5, <1>6 DEF TermsInv, Dates
  <1>9. SuspensionHonoured'
    <2>1. policy' = policy
      BY <1>1 DEF policy
    <2>2. PICK days \in Nat : /\ days = policy.post_overdue_suspension_days
                              /\ Days(days) \in Nat
      BY PolicyOK, DaysOrder DEF TermsInv, Policy, Rules
    <2>3. ASSUME NEW k \in Returned, Late(k)
          PROVE  now >= loans[k].returned_at + Days(days) \/ days = 0
      <3>1. \/ days = 0
            \/ \E m \in Returned : /\ Late(m) /\ loans[m].returned_at >= loans[k].returned_at
                                   /\ now >= loans[m].returned_at + Days(days)
        BY <2>2, <2>3 DEF Lend, MayBorrow, NotSuspended
      <3>2. \A m \in Returned : loans[m].returned_at \in Nat
        BY DEF TermsInv, TypeOK, Returned
      <3> QED
        BY <1>4, <2>2, <2>3, <3>1, <3>2
    <2>4. Days(0) = 0
      BY TermsAssumption DEF Days
    <2>5. ASSUME NEW k \in Returned, Late(k), now > loans[k].returned_at
          PROVE  now >= loans[k].returned_at + Days(days)
      BY <1>4, <2>2, <2>3, <2>4, <2>5 DEF TermsInv, TypeOK, Returned
    <2>6. \A k \in Returned : Late(k)' => Late(k) /\ loans'[k] = loans[k]
      BY <1>3, <1>4, <1>5, <1>6 DEF Late, Returned
    <2> QED
      BY <1>3, <1>4, <1>5, <1>6, <2>1, <2>2, <2>5, <2>6
         DEF TermsInv, SuspensionHonoured, Returned
  <1> QED
    BY <1>7, <1>8, <1>9 DEF TermsInv

\* A return is the latest there is: no loan has been borrowed since.
LEMMA ReturnKeeps ==
    ASSUME TermsInv, NEW l \in LoanIds, Return(l)
    PROVE  TermsInv'
  <1>1. now \in Nat /\ UNCHANGED <<now, saved, nonWorkingDays>>
    BY ClockOK DEF TermsInv, Return
  <1>2. /\ loans[l].status = "ACTIVE" /\ loans[l].due_date \in Nat
        /\ loans[l].borrowed_at \in Nat
    BY DEF TermsInv, TypeOK, Return, Open
  <1>3. PICK late \in Nat :
          loans' = [loans EXCEPT ![l] =
                      [@ EXCEPT !.status = "RETURNED", !.returned_at = now,
                                !.late_days = late]]
    <2>1. LateDays(loans[l].due_date) \in Nat
      BY <1>1, <1>2, DayBounds DEF LateDays, Larger
    <2> QED
      BY <2>1 DEF Return, TermsInv, TypeOK
  <1>4. /\ loans'[l] = [loans[l] EXCEPT !.status = "RETURNED", !.returned_at = now,
                                        !.late_days = late]
        /\ \A m \in LoanIds \ {l} : loans'[m] = loans[m]
    BY <1>3 DEF TermsInv, TypeOK
  <1>5. /\ loans'[l].status = "RETURNED" /\ loans'[l].returned_at = now
        /\ loans'[l].late_days = late /\ loans'[l].borrowed_at = loans[l].borrowed_at
        /\ loans'[l].due_date = loans[l].due_date
    BY <1>4 DEF TermsInv, TypeOK
  <1>6. Returned' = Returned \cup {l}
    BY <1>4, <1>5 DEF Returned
  <1>7. TypeOK'
    BY <1>1, <1>2, <1>3, <1>4, <1>5, TermsAssumption DEF TermsInv, TypeOK
  <1>8. Dates'
    <2>1. \A m \in Returned : /\ m \in LoanIds \ {l} /\ loans[m].returned_at # now
                              /\ loans'[m].returned_at = loans[m].returned_at
      BY <1>2, <1>4 DEF Return, Returned
    <2>2. \A m \in LoanIds : loans'[m].status # "none" => loans'[m].borrowed_at <= now
      BY <1>2, <1>4, <1>5 DEF TermsInv, Dates
    <2>3. \A m \in Returned' : loans'[m].returned_at <= now
      BY <1>1, <1>5, <1>6, <2>1 DEF TermsInv, Dates
    <2>4. \A k, m \in Returned' : k # m => loans'[k].returned_at # loans'[m].returned_at
      BY <1>5, <1>6, <2>1 DEF TermsInv, Dates
    <2> QED
      BY <1>1, <2>2, <2>3, <2>4 DEF Dates
  <1>9. SuspensionHonoured'
    <2>1. policy' = policy
      BY <1>1 DEF policy
    <2>2. \A m \in LoanIds : /\ loans'[m].borrowed_at = loans[m].borrowed_at
                             /\ loans'[m].status # "none" <=> loans[m].status # "none"
      BY <1>2, <1>4, <1>5
    <2>3. \A m \in LoanIds : loans[m].status # "none" =>
            loans[m].borrowed_at \in Nat /\ loans[m].borrowed_at <= now
      BY DEF TermsInv, TypeOK, Dates
    <2>4. \A k \in Returned : /\ k \in LoanIds \ {l} /\ loans'[k] = loans[k]
                              /\ Late(k)' => Late(k)
      BY <1>2, <1>4 DEF Late, Returned
    <2> DEFINE Waited(m, back) ==
                 loans[m].status # "none" /\ loans[m].borrowed_at > back =>
                   loans[m].borrowed_at >= back + Days(policy.post_overdue_suspension_days)
    <2>5. \A k \in Returned, m \in LoanIds : Late(k)' => Waited(m, loans'[k].returned_at)
      BY <2>4 DEF TermsInv, SuspensionHonoured
    <2>6. \A m \in LoanIds : Waited(m, now)
      BY <1>1, <2>3
    <2>7. \A k \in Returned', m \in LoanIds :
            Late(k)' => Waited(m, loans'[k].returned_at)
      BY <1>5, <1>6, <2>5, <2>6
    <2> QED
      BY <2>1, <2>2, <2>7 DEF SuspensionHonoured, Returned, Days
  <1> QED
    BY <1>7, <1>8, <1>9 DEF TermsInv

\* A return that is undone leaves nothing.
LEMMA UndoKeeps ==
    ASSUME TermsInv, NEW l \in LoanIds, UndoReturn(l)
    PROVE  TermsInv'
  <1>1. loans[l].status = "RETURNED" /\ UNCHANGED <<now, saved, nonWorkingDays>>
    BY DEF UndoReturn, Returned
  <1>2. /\ loans'[l] = [loans[l] EXCEPT !.status = "ACTIVE", !.returned_at = None,
                                        !.late_days = 0]
        /\ \A m \in LoanIds \ {l} : loans'[m] = loans[m]
        /\ loans' = [loans EXCEPT ![l] = loans'[l]]
    BY DEF UndoReturn, TermsInv, TypeOK
  <1>3. /\ loans'[l].status = "ACTIVE" /\ loans'[l].returned_at = None
        /\ loans'[l].late_days = 0 /\ loans'[l].borrowed_at = loans[l].borrowed_at
        /\ loans'[l].due_date = loans[l].due_date
    BY <1>2 DEF TermsInv, TypeOK
  <1>4. Returned' = Returned \ {l}
    BY <1>2, <1>3 DEF Returned
  <1>5. TypeOK'
    <2>1. PICK row : row = [loans[l] EXCEPT !.status = "ACTIVE", !.returned_at = None,
                                            !.late_days = 0]
      OBVIOUS
    <2>2. row = [status |-> "ACTIVE", borrowed_at |-> loans[l].borrowed_at,
                 due_date |-> loans[l].due_date, returned_at |-> None, late_days |-> 0]
      BY <2>1 DEF TermsInv, TypeOK
    <2>3. loans[l].borrowed_at \in Nat /\ loans[l].due_date \in Nat
      BY <1>1 DEF TermsInv, TypeOK
    <2>4. row = loans'[l]
      BY <1>2, <2>1
    <2> HIDE <2>1
    <2>5. row \in [status: {"none", "ACTIVE", "RETURNED"}, borrowed_at: Nat \cup {None},
                   due_date: Nat \cup {None}, returned_at: Nat \cup {None},
                   late_days: Nat]
      BY <2>2, <2>3
    <2>6. loans' = [loans EXCEPT ![l] = row]
      BY <1>2, <2>4
    <2> QED
      BY <1>1, <1>3, <2>3, <2>4, <2>5, <2>6 DEF TermsInv, TypeOK
  <1>6. Dates'
    <2>1. \A m \in LoanIds : loans'[m].status # "none" => loans'[m].borrowed_at <= now
      BY <1>1, <1>2, <1>3 DEF TermsInv, Dates
    <2>2. \A m \in Returned' : m \in Returned /\ m \in LoanIds /\ loans'[m] = loans[m]
      BY <1>2, <1>4 DEF Returned
    <2> QED
      BY <1>1, <2>1, <2>2 DEF TermsInv, Dates
  <1>7. SuspensionHonoured'
    <2>1. policy' = policy
      BY <1>1 DEF policy
    <2>2. \A m \in LoanIds : /\ loans'[m].borrowed_at = loans[m].borrowed_at
                             /\ loans'[m].status # "none" <=> loans[m].status # "none"
      BY <1>1, <1>2, <1>3
    <2>3. \A k \in Returned' : /\ loans'[k] = loans[k] /\ k \in Returned
                               /\ Late(k)' => Late(k)
      BY <1>2, <1>4 DEF Late, Returned
    <2> QED
      BY <1>4, <2>1, <2>2, <2>3 DEF TermsInv, SuspensionHonoured, Returned
  <1> QED
    BY <1>5, <1>6, <1>7 DEF TermsInv

\* Time goes by.
LEMMA TickKeeps ==
    ASSUME TermsInv, Tick
    PROVE  TermsInv'
  <1>1. /\ now \in Nat /\ now' = now + 1 /\ now' \in Clock
        /\ loans' = loans /\ saved' = saved /\ nonWorkingDays' = nonWorkingDays
    BY ClockOK DEF TermsInv, Tick, Clock, Days
  <1>2. TypeOK'
    BY <1>1 DEF TermsInv, TypeOK, Clock, Days
  <1>3. Returned' = Returned /\ Returned \subseteq LoanIds /\ policy' = policy
    BY <1>1 DEF Returned, policy
  <1>4. Dates'
    BY <1>1, <1>3 DEF TermsInv, Dates, TypeOK, Returned
  <1>5. SuspensionHonoured'
    BY <1>1, <1>3 DEF TermsInv, SuspensionHonoured, Late
  <1> QED
    BY <1>2, <1>4, <1>5 DEF TermsInv

\* Every step, or none.
LEMMA TermsKept == TermsInv /\ [Next]_vars => TermsInv'
  <1> SUFFICES ASSUME TermsInv, [Next]_vars
               PROVE  TermsInv'
    OBVIOUS
  <1>1. CASE Next
    BY <1>1, LendKeeps, ReturnKeeps, UndoKeeps, TickKeeps DEF Next
  <1>2. CASE UNCHANGED vars
    BY <1>2 DEF vars, TermsInv, TypeOK, Dates, SuspensionHonoured, Returned, Late, policy,
                Clock, Days
  <1> QED
    BY <1>1, <1>2

-----------------------------------------------------------------------------
(* Theorems *)

\* An entered loan has its dates, and only a returned one has a return, whatever is
\* returned, undone and returned again (create_loan, return_loan, undo_return).
THEOREM TermsTyped == Spec => []TypeOK
  <1>1. TermsInv => TypeOK
    BY DEF TermsInv
  <1> QED
    BY <1>1, TermsInit, TermsKept, PTL DEF Spec

\* Under rules that suspend, nobody borrows during the suspension that a late return
\* starts, however returns are undone and repeated (ensure_new_loan_allowed).
THEOREM SuspensionsHold == Spec => []SuspensionHonoured
  <1>1. TermsInv => SuspensionHonoured
    BY DEF TermsInv
  <1> QED
    BY <1>1, TermsInit, TermsKept, PTL DEF Spec

\* Staff see as overdue exactly the loans that a return would record as late, on every
\* instant of every day (_apply_situation_filter, return_loan).
THEOREM OverdueIsLate == Spec => []ListedOverdueIsLate
  <1>1. ASSUME TypeOK, NEW l \in Open
        PROVE  l \in ListedOverdue <=> LateDays(loans[l].due_date) > 0
    <2>1. PICK due \in Nat : due = loans[l].due_date
      BY <1>1 DEF TypeOK, Open
    <2>2. now \in Nat /\ Day(now) \in Nat /\ Day(due) \in Nat
      BY <1>1, ClockOK, DayBounds
    <2>3. l \in ListedOverdue <=> Day(due) < Day(now)
      BY <2>1, <2>2, DueBefore DEF ListedOverdue
    <2>4. LateDays(due) > 0 <=> Day(due) < Day(now)
      BY <2>2 DEF LateDays, Larger
    <2> QED
      BY <2>1, <2>3, <2>4
  <1>2. TypeOK => ListedOverdueIsLate
    BY <1>1 DEF ListedOverdueIsLate
  <1> QED
    BY <1>2, TermsTyped, PTL

\* The penalty is the late returns that no run of returns on time has made up for, up to
\* the cap: the counters of the loop say as much of any history
\* (active_overdue_reductions).
THEOREM PenaltiesMatch == Spec => []PenaltyMatchesHistory
  BY PenaltyIsHistory, TermsTyped, PTL

\* Where weekends and marked days do not count, a new loan is due on a day the library
\* works, and the reader has had the agreed number of such days, for any calendar
\* (calculate_due_date).
THEOREM DueWhenOpen == Spec => DueOnCountedDay
  <1> DEFINE Lent(l) ==
        loans[l].status = "none" /\ loans'[l].status # "none" /\ BusinessDaysOnly(policy) =>
          LET due == Day(loans'[l].due_date)
          IN  /\ Working(due)
              /\ WorkingDays(Day(now), due) = Duration(policy, Reductions(policy))
  <1>1. ASSUME TypeOK, [Next]_vars, NEW l \in LoanIds
        PROVE  Lent(l)
    <2> SUFFICES ASSUME loans[l].status = "none", loans'[l].status # "none",
                        BusinessDaysOnly(policy)
                 PROVE  Lent(l)
      OBVIOUS
    <2>1. Lend(l)
      <3>1. loans'[l] # loans[l]
        OBVIOUS
      <3>2. \A m \in LoanIds : Lend(m) => m = l
        BY <1>1, <3>1 DEF Lend, TypeOK
      <3>3. \A m \in LoanIds : ~Return(m) /\ ~UndoReturn(m)
        BY <1>1, <3>1 DEF Return, UndoReturn, Open, Returned, TypeOK
      <3> QED
        BY <1>1, <3>1, <3>2, <3>3 DEF Next, vars, Tick
    <2>2. loans'[l].due_date = DueDate(policy, Reductions(policy), now)
      BY <1>1, <2>1 DEF Lend, NoLoan, TypeOK
    <2> QED
      BY <1>1, <2>2, ClockOK, PolicyOK, ReductionsOK, DueDateOK
  <1>2. TypeOK /\ [Next]_vars => \A l \in LoanIds : Lent(l)
    BY <1>1
  <1> QED
    BY <1>2, TermsTyped, PTL DEF Spec, DueOnCountedDay

-----------------------------------------------------------------------------
(* The order of the returns *)

\* order lists S by the numbers that at gives.
Sorts(order, S, at) ==
    /\ order \in [1 .. Cardinality(S) -> S]
    /\ \A i, j \in 1 .. Cardinality(S) : i < j => at[order[i]] < at[order[j]]

\* Things that have happened at different times can be listed by time.
LEMMA Sortable ==
    ASSUME NEW S, IsFiniteSet(S), NEW at \in [S -> Nat],
           \A x, y \in S : x # y => at[x] # at[y]
    PROVE  \E order : Sorts(order, S, at)
  <1> DEFINE K == {k \in Nat : \E T \in SUBSET S :
                     Cardinality(T) = k /\ ~\E order : Sorts(order, T, at)}
  <1>1. SUFFICES ASSUME ~\E order : Sorts(order, S, at)
                 PROVE  FALSE
    OBVIOUS
  <1>2. PICK k \in K : \A m \in K : k <= m
    <2>1. Cardinality(S) \in K
      BY <1>1, FS_CardinalityType
    <2>2. K \subseteq Nat
      OBVIOUS
    <2> HIDE DEF K
    <2> QED
      BY <2>1, <2>2, LeastExists
  <1>3. PICK T \in SUBSET S : Cardinality(T) = k /\ ~\E order : Sorts(order, T, at)
    BY <1>2
  <1>4. IsFiniteSet(T)
    BY FS_Subset
  <1>5. T # {}
    <2>1. Sorts([i \in 1 .. 0 |-> 0], {}, at)
      BY FS_EmptySet DEF Sorts
    <2> QED
      BY <1>3, <2>1
  <1>6. PICK x \in T : \A y \in T : at[x] <= at[y]
    <2> DEFINE times == {at[y] : y \in T}
    <2>1. times \subseteq Nat /\ times # {}
      BY <1>5
    <2> HIDE DEF times
    <2>2. PICK t \in times : \A u \in times : t <= u
      BY <2>1, LeastExists
    <2> QED
      BY <2>2 DEF times
  <1>7. k # 0 /\ Cardinality(T \ {x}) = k - 1 /\ k - 1 \in Nat
    <2>1. Cardinality(T) = k /\ Cardinality(T) \in Nat
      BY <1>3, <1>4, FS_CardinalityType
    <2>2. Cardinality(T) # 0
      BY <1>4, <1>5, FS_EmptySet
    <2>3. Cardinality(T \ {x}) = Cardinality(T) - 1
      BY <1>4, FS_RemoveElement
    <2> QED
      BY <2>1, <2>2, <2>3
  <1>8. PICK rest : Sorts(rest, T \ {x}, at)
    <2>1. k - 1 \notin K
      BY <1>2, <1>7
    <2> QED
      BY <1>7, <2>1
  <1> DEFINE order == [i \in 1 .. k |-> IF i = 1 THEN x ELSE rest[i - 1]]
  <1>9. \A i \in 1 .. k : i # 1 => /\ i - 1 \in 1 .. (k - 1)
                                   /\ order[i] = rest[i - 1]
                                   /\ rest[i - 1] \in T \ {x}
    <2>1. rest \in [1 .. (k - 1) -> T \ {x}]
      BY <1>7, <1>8 DEF Sorts
    <2> SUFFICES ASSUME NEW i \in 1 .. k, i # 1
                 PROVE  /\ i - 1 \in 1 .. (k - 1)
                        /\ order[i] = rest[i - 1]
                        /\ rest[i - 1] \in T \ {x}
      OBVIOUS
    <2>2. i - 1 \in 1 .. (k - 1)
      BY <1>7
    <2> QED
      BY <2>1, <2>2
  <1>10. order \in [1 .. k -> T] /\ order[1] = x
    BY <1>7, <1>9
  <1>11. ASSUME NEW i \in 1 .. k, NEW j \in 1 .. k, i < j
         PROVE  at[order[i]] < at[order[j]]
    <2>1. order[j] = rest[j - 1] /\ rest[j - 1] \in T \ {x} /\ j - 1 \in 1 .. (k - 1)
      BY <1>9, <1>11
    <2>2. CASE i = 1
      <3>1. at[x] <= at[rest[j - 1]] /\ at[x] # at[rest[j - 1]]
        BY <1>6, <2>1
      <3>2. at[x] \in Nat /\ at[rest[j - 1]] \in Nat
        BY <2>1
      <3> QED
        BY <1>10, <2>1, <2>2, <3>1, <3>2
    <2>3. CASE i # 1
      <3>1. order[i] = rest[i - 1] /\ i - 1 \in 1 .. (k - 1) /\ i - 1 < j - 1
        BY <1>9, <1>11, <2>3
      <3>2. at[rest[i - 1]] < at[rest[j - 1]]
        BY <1>7, <1>8, <2>1, <3>1 DEF Sorts
      <3> QED
        BY <2>1, <3>1, <3>2
    <2> QED
      BY <2>2, <2>3
  <1> HIDE DEF order
  <1>12. Sorts(order, T, at)
    BY <1>3, <1>10, <1>11 DEF Sorts
  <1> QED
    BY <1>3, <1>12

\* The history that the loop of active_overdue_reductions goes through is there, whatever
\* has been returned, and in the order of the returns: none is late, undone or at the same
\* time without a place in it (ORDER BY returned_at).
THEOREM ReturnsInOrder ==
    Spec => [](/\ ReturnOrder \in [1 .. Cardinality(Returned) -> Returned]
               /\ \A i, j \in 1 .. Cardinality(Returned) :
                    i < j => loans[ReturnOrder[i]].returned_at
                               < loans[ReturnOrder[j]].returned_at)
  <1> DEFINE at == [l \in Returned |-> loans[l].returned_at]
             InOrder(order) ==
               /\ order \in [1 .. Cardinality(Returned) -> Returned]
               /\ \A i, j \in 1 .. Cardinality(Returned) :
                    i < j => loans[order[i]].returned_at < loans[order[j]].returned_at
  <1>1. ASSUME TermsInv
        PROVE  InOrder(ReturnOrder)
    <2>1. at \in [Returned -> Nat]
      BY <1>1 DEF TermsInv, TypeOK, Returned
    <2>2. \A l, m \in Returned : l # m => at[l] # at[m]
      BY <1>1 DEF TermsInv, Dates
    <2>3. PICK order : Sorts(order, Returned, at)
      <3> HIDE DEF at
      <3> QED
        BY <2>1, <2>2, ReturnsFinite, Sortable
    <2>4. InOrder(order)
      BY <2>3 DEF Sorts
    <2> QED
      BY <2>4 DEF ReturnOrder
  <1> QED
    BY <1>1, TermsInit, TermsKept, PTL DEF Spec
=============================================================================
