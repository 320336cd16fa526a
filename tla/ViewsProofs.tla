---------------------------- MODULE ViewsProofs ----------------------------
(***************************************************************************)
(* What the pages of the catalogue show, whatever the tables hold.          *)
(***************************************************************************)
EXTENDS CatalogueViews, SequenceTheorems, FiniteSetTheorems, WellFoundedInduction,
        TLAPS

-----------------------------------------------------------------------------
(* Loops.                                                                  *)

\* Smaller, as a relation.
Less == {ss \in Nat \X Nat : ss[1] < ss[2]}

\* What holds at first and is kept by each turn holds after every turn.
LEMMA EveryTurn ==
    ASSUME NEW N \in Nat, NEW S, 0 \in S,
           \A n \in 1 .. N : n - 1 \in S => n \in S
    PROVE  \A n \in 0 .. N : n \in S
<1> DEFINE bad == (0 .. N) \ S
<1>1. SUFFICES ASSUME bad # {} PROVE FALSE
  OBVIOUS
<1>2. bad \subseteq Nat
  OBVIOUS
<1>3. IsWellFoundedOn(Less, Nat)
  BY NatLessThanWellFounded, Zenon DEF OpToRel, Less
<1> HIDE DEF bad
<1>4. PICK n \in bad : \A m \in bad : <<m, n>> \notin Less
  BY <1>1, <1>2, <1>3, WFMin
<1> USE DEF bad
<1>5. n \in 1 .. N /\ n - 1 \in 0 .. N /\ n - 1 < n
  OBVIOUS
<1>6. <<n - 1, n>> \in Less
  BY <1>5 DEF Less
<1>7. n - 1 \notin bad
  BY <1>4, <1>6
<1> QED
  BY <1>5, <1>7

\* A loop of N turns, each of which leads from a state in X to one; and a run of it.
Loop(turn, N, X) == N \in Nat /\ turn \in [1 .. N -> [X -> X]]
Run(f, start, turn, N, X) ==
    /\ f \in [0 .. N -> X] /\ f[0] = start
    /\ \A n \in 1 .. N : f[n] = turn[n][f[n - 1]]

\* A loop can be run.
LEMMA LoopRuns ==
    ASSUME NEW X, NEW N, NEW start \in X, NEW turn, Loop(turn, N, X)
    PROVE  \E f : Run(f, start, turn, N, X)
<1> USE DEF Loop
<1> DEFINE Runs(f, m) == f[0] = start /\ \A n \in 1 .. m : f[n] = turn[n][f[n - 1]]
           S == {m \in 0 .. N : \E f \in [0 .. m -> X] : Runs(f, m)}
<1>1. 0 \in S
  <2>1. PICK f : f = [n \in 0 .. 0 |-> start]
    OBVIOUS
  <2>2. f \in [0 .. 0 -> X] /\ Runs(f, 0)
    BY <2>1
  <2> QED
    BY <2>2
<1>2. ASSUME NEW m \in 1 .. N, m - 1 \in S
      PROVE  m \in S
  <2>1. PICK f \in [0 .. (m - 1) -> X] : Runs(f, m - 1)
    BY <1>2
  <2>2. turn[m] \in [X -> X] /\ f[m - 1] \in X
    OBVIOUS
  <2> DEFINE g == [n \in 0 .. m |-> IF n = m THEN turn[m][f[m - 1]] ELSE f[n]]
  <2>3. \A n \in 0 .. m : n # m => n \in 0 .. (m - 1) /\ f[n] \in X
    OBVIOUS
  <2>4. g \in [0 .. m -> X]
    BY <2>2, <2>3
  <2>5. ASSUME NEW n \in 1 .. m
        PROVE  g[n] = turn[n][g[n - 1]]
    <3>1. n - 1 \in 0 .. m /\ n - 1 # m
      OBVIOUS
    <3>2. g[n - 1] = f[n - 1]
      BY <3>1
    <3>3. CASE n = m
      BY <3>2, <3>3
    <3>4. CASE n # m
      BY <2>1, <2>3, <3>2, <3>4
    <3> QED
      BY <3>3, <3>4
  <2>6. Runs(g, m)
    BY <2>1, <2>3, <2>5
  <2> HIDE DEF g
  <2>7. m \in 0 .. N
    OBVIOUS
  <2> HIDE DEF Runs
  <2> QED
    BY <2>4, <2>6, <2>7
<1> HIDE DEF S
<1>3. \A m \in 1 .. N : m - 1 \in S => m \in S
  BY <1>2
<1>4. \A m \in 0 .. N : m \in S
  BY <1>1, <1>3, EveryTurn
<1>5. N \in S
  BY <1>4
<1> QED
  BY <1>5 DEF S, Run

-----------------------------------------------------------------------------
(* What is kept of a sequence.                                             *)

\* k is what the first n elements of s have in S: its places are at e.
Chosen(e, k, s, S, n) ==
    /\ e \in [1 .. Len(k) -> 1 .. n]
    /\ \A i, j \in 1 .. Len(k) : i < j => e[i] < e[j]
    /\ \A j \in 1 .. Len(k) : k[j] = s[e[j]] /\ s[e[j]] \in S
    /\ \A i \in 1 .. n : s[i] \in S => \E j \in 1 .. Len(k) : e[j] = i

\* One more element is kept.
LEMMA ChosenMore ==
    ASSUME NEW T, NEW s \in Seq(T), NEW S, NEW k \in Seq(T), NEW n \in 1 .. Len(s),
           s[n] \in S, NEW e, Chosen(e, k, s, S, n - 1)
    PROVE  \E f : Chosen(f, Append(k, s[n]), s, S, n)
<1>1. PICK l \in Nat : l = Len(k)
  OBVIOUS
<1>2. PICK m : m = Append(k, s[n])
  OBVIOUS
<1>3. /\ m \in Seq(T) /\ Len(m) = l + 1 /\ m[l + 1] = s[n]
      /\ \A j \in 1 .. l : m[j] = k[j]
  BY <1>1, <1>2, AppendProperties
<1>4. /\ e \in [1 .. l -> 1 .. (n - 1)]
      /\ \A i, j \in 1 .. l : i < j => e[i] < e[j]
      /\ \A j \in 1 .. l : k[j] = s[e[j]] /\ s[e[j]] \in S
      /\ \A i \in 1 .. (n - 1) : s[i] \in S => \E j \in 1 .. l : e[j] = i
  BY <1>1 DEF Chosen
<1> DEFINE f == [j \in 1 .. (l + 1) |-> IF j = l + 1 THEN n ELSE e[j]]
<1>5. /\ f[l + 1] = n
      /\ \A j \in 1 .. l : f[j] = e[j] /\ e[j] \in 1 .. n /\ e[j] < n
  BY <1>4
<1>6. f \in [1 .. (l + 1) -> 1 .. n]
  <2>1. ASSUME NEW j \in 1 .. (l + 1) PROVE f[j] \in 1 .. n
    <3>1. j = l + 1 \/ j \in 1 .. l
      OBVIOUS
    <3> HIDE DEF f
    <3> QED
      BY <1>5, <3>1
  <2> QED
    BY <2>1
<1> HIDE DEF f
<1>7. \A i, j \in 1 .. (l + 1) : i < j => f[i] < f[j]
  <2> SUFFICES ASSUME NEW i \in 1 .. (l + 1), NEW j \in 1 .. (l + 1), i < j
               PROVE  f[i] < f[j]
    OBVIOUS
  <2>1. i \in 1 .. l
    OBVIOUS
  <2>2. CASE j = l + 1
    BY <1>5, <2>1, <2>2
  <2>3. CASE j \in 1 .. l
    BY <1>4, <1>5, <2>1, <2>3
  <2> QED
    BY <2>2, <2>3
<1>8. \A j \in 1 .. (l + 1) : m[j] = s[f[j]] /\ s[f[j]] \in S
  <2> TAKE j \in 1 .. (l + 1)
  <2>1. CASE j = l + 1
    BY <1>3, <1>5, <2>1
  <2>2. CASE j \in 1 .. l
    BY <1>3, <1>4, <1>5, <2>2
  <2> QED
    BY <2>1, <2>2
<1>9. \A i \in 1 .. n : s[i] \in S => \E j \in 1 .. (l + 1) : f[j] = i
  <2> SUFFICES ASSUME NEW i \in 1 .. n, s[i] \in S
               PROVE  \E j \in 1 .. (l + 1) : f[j] = i
    OBVIOUS
  <2>1. CASE i = n
    BY <1>5, <2>1
  <2>2. CASE i \in 1 .. (n - 1)
    <3>1. PICK j \in 1 .. l : e[j] = i
      BY <1>4, <2>2
    <3> QED
      BY <1>5, <3>1
  <2> QED
    BY <2>1, <2>2
<1>10. Chosen(f, m, s, S, n)
  BY <1>3, <1>6, <1>7, <1>8, <1>9 DEF Chosen
<1> QED
  BY <1>2, <1>10

\* What is kept stays in order, and is all that is in the set.
LEMMA KeepChooses ==
    ASSUME NEW T, NEW s \in Seq(T), NEW S
    PROVE  /\ Keep(s, S) \in Seq(T)
           /\ \E e : Chosen(e, Keep(s, S), s, S, Len(s))
<1> DEFINE N == Len(s)
           X == Seq(T)
           turn == [n \in 1 .. N |-> [k \in X |-> IF s[n] \in S THEN Append(k, s[n]) ELSE k]]
           kept[n \in 0 .. N] ==
             IF n = 0 THEN <<>>
             ELSE IF s[n] \in S THEN Append(kept[n - 1], s[n]) ELSE kept[n - 1]
<1>1. N \in Nat /\ <<>> \in X /\ \A n \in 1 .. N : s[n] \in T
  OBVIOUS
<1>2. turn \in [1 .. N -> [X -> X]]
  <2>1. \A n \in 1 .. N, k \in X : (IF s[n] \in S THEN Append(k, s[n]) ELSE k) \in X
    BY <1>1, AppendProperties
  <2> QED
    BY <2>1
<1>3. \E f : f = [n \in 0 .. N |-> IF n = 0 THEN <<>>
                     ELSE IF s[n] \in S THEN Append(f[n - 1], s[n]) ELSE f[n - 1]]
  <2>1. PICK f \in [0 .. N -> X] :
          f[0] = <<>> /\ \A n \in 1 .. N : f[n] = turn[n][f[n - 1]]
    <3> HIDE DEF turn, X, N
    <3>1. Loop(turn, N, X)
      BY <1>1, <1>2 DEF Loop
    <3>2. PICK f : Run(f, <<>>, turn, N, X)
      BY <1>1, <3>1, LoopRuns
    <3> QED
      BY <3>2 DEF Run
  <2>2. \A n \in 1 .. N : f[n - 1] \in X
    OBVIOUS
  <2>3. \A n \in 1 .. N :
          f[n] = IF s[n] \in S THEN Append(f[n - 1], s[n]) ELSE f[n - 1]
    BY <2>1, <2>2
  <2> HIDE DEF turn
  <2>4. f = [n \in 0 .. N |-> IF n = 0 THEN <<>>
                ELSE IF s[n] \in S THEN Append(f[n - 1], s[n]) ELSE f[n - 1]]
    <3>1. f = [n \in 0 .. N |-> f[n]]
      OBVIOUS
    <3>2. \A n \in 0 .. N : n = 0 \/ n \in 1 .. N
      OBVIOUS
    <3>3. \A n \in 0 .. N : f[n] = IF n = 0 THEN <<>>
                ELSE IF s[n] \in S THEN Append(f[n - 1], s[n]) ELSE f[n - 1]
      BY <2>1, <2>3, <3>2
    <3> QED
      BY <3>1, <3>3
  <2> QED
    BY <2>4
<1>4. kept = [n \in 0 .. N |-> IF n = 0 THEN <<>>
                 ELSE IF s[n] \in S THEN Append(kept[n - 1], s[n]) ELSE kept[n - 1]]
  BY <1>3
<1>5. /\ kept[0] = <<>>
      /\ \A n \in 1 .. N : kept[n] = IF s[n] \in S THEN Append(kept[n - 1], s[n])
                                                  ELSE kept[n - 1]
  <2> HIDE DEF kept
  <2>1. 0 \in 0 .. N /\ \A n \in 1 .. N : n \in 0 .. N /\ n # 0
    BY <1>1
  <2> QED
    BY <1>4, <2>1
<1>6. Keep(s, S) = kept[N]
  BY DEF Keep
<1> HIDE DEF kept, N
<1> DEFINE Good(n) == kept[n] \in X /\ \E e : Chosen(e, kept[n], s, S, n)
           good == {n \in 0 .. N : Good(n)}
<1>7. Good(0)
  <2>1. Chosen(<<>>, <<>>, s, S, 0)
    BY DEF Chosen
  <2> QED
    BY <1>1, <1>5, <2>1
<1>8. ASSUME NEW n \in 1 .. N, Good(n - 1)
      PROVE  Good(n)
  <2>1. PICK k \in X : k = kept[n - 1]
    BY <1>8
  <2>2. PICK e : Chosen(e, k, s, S, n - 1)
    BY <1>8, <2>1
  <2>3. kept[n] = IF s[n] \in S THEN Append(k, s[n]) ELSE k
    BY <1>5, <2>1
  <2>4. CASE s[n] \in S
    <3>1. Append(k, s[n]) \in X
      BY <1>1, AppendProperties
    <3>2. \E f : Chosen(f, Append(k, s[n]), s, S, n)
      BY <2>2, <2>4, ChosenMore DEF N
    <3> QED
      BY <2>3, <2>4, <3>1, <3>2
  <2>5. CASE s[n] \notin S
    <3>1. Len(k) \in Nat /\ n \in Nat /\ \A i \in 1 .. n : i = n \/ i \in 1 .. (n - 1)
      BY <1>1
    <3>2. e \in [1 .. Len(k) -> 1 .. n]
      BY <2>2, <3>1 DEF Chosen
    <3>3. Chosen(e, k, s, S, n)
      BY <2>2, <2>5, <3>1, <3>2 DEF Chosen
    <3> QED
      BY <2>3, <2>5, <3>3
  <2> QED
    BY <2>4, <2>5
<1> HIDE DEF Good
<1>9. 0 \in good /\ \A n \in 1 .. N : n - 1 \in good => n \in good
  BY <1>1, <1>7, <1>8
<1> HIDE DEF good
<1>10. \A n \in 0 .. N : n \in good
  BY <1>1, <1>9, EveryTurn
<1>11. N \in good
  BY <1>1, <1>10
<1> QED
  BY <1>6, <1>11 DEF Good, good, N

\* Sequences in which nothing is repeated.
Once(S) == {s \in Seq(S) : IsInjective(s)}

\* The elements of a sequence.
LEMMA RangeIs ==
    ASSUME NEW T, NEW s \in Seq(T)
    PROVE  /\ Range(s) = {s[i] : i \in 1 .. Len(s)} /\ Range(s) \subseteq T
           /\ Len(s) \in Nat /\ DOMAIN s = 1 .. Len(s)
           /\ \A i \in 1 .. Len(s) : s[i] \in T /\ s[i] \in Range(s)
           /\ s = <<>> <=> Len(s) = 0
  BY DEF Range

\* How many the first numbers are.
LEMMA UpTo ==
    ASSUME NEW n \in Nat
    PROVE  IsFiniteSet(1 .. n) /\ Cardinality(1 .. n) = n
<1>1. IsFiniteSet(1 .. n) /\ Cardinality(1 .. n) = IF 1 > n THEN 0 ELSE n - 1 + 1
  BY FS_Interval
<1> QED
  BY <1>1

\* What is kept is what is in the set; nothing is repeated that was not.
LEMMA KeepIs ==
    ASSUME NEW T, NEW s \in Seq(T), NEW S
    PROVE  /\ Keep(s, S) \in Seq(T)
           /\ Range(Keep(s, S)) = Range(s) \cap S
           /\ IsInjective(s) => IsInjective(Keep(s, S))
           /\ Len(Keep(s, S)) <= Len(s)
<1>1. PICK k \in Seq(T), l \in Nat : k = Keep(s, S) /\ l = Len(k)
  BY KeepChooses
<1>2. PICK e : Chosen(e, k, s, S, Len(s))
  BY <1>1, KeepChooses
<1>3. /\ e \in [1 .. l -> 1 .. Len(s)]
      /\ \A i, j \in 1 .. l : i < j => e[i] < e[j]
      /\ \A j \in 1 .. l : k[j] = s[e[j]] /\ s[e[j]] \in S
      /\ \A i \in 1 .. Len(s) : s[i] \in S => \E j \in 1 .. l : e[j] = i
  BY <1>1, <1>2 DEF Chosen
<1>4. Range(k) = Range(s) \cap S
  <2>1. Range(k) = {k[j] : j \in 1 .. l} /\ Range(s) = {s[i] : i \in 1 .. Len(s)}
    BY <1>1, RangeIs
  <2>2. \A j \in 1 .. l : k[j] \in Range(s) /\ k[j] \in S
    <3> TAKE j \in 1 .. l
    <3>1. e[j] \in 1 .. Len(s) /\ k[j] = s[e[j]] /\ s[e[j]] \in S
      BY <1>3
    <3> QED
      BY <2>1, <3>1
  <2>3. \A x \in Range(s) \cap S : x \in Range(k)
    <3> SUFFICES ASSUME NEW i \in 1 .. Len(s), s[i] \in S
                 PROVE  s[i] \in Range(k)
      BY <2>1
    <3>1. PICK j \in 1 .. l : e[j] = i
      BY <1>3
    <3> QED
      BY <1>3, <2>1, <3>1
  <2> QED
    BY <2>1, <2>2, <2>3
<1>5. \A i, j \in 1 .. l : i # j => e[i] # e[j]
  <2> SUFFICES ASSUME NEW i \in 1 .. l, NEW j \in 1 .. l, i # j
               PROVE  e[i] # e[j]
    OBVIOUS
  <2>1. e[i] \in Int /\ e[j] \in Int
    BY <1>3, RangeIs
  <2>2. i < j \/ j < i
    OBVIOUS
  <2> QED
    BY <1>3, <2>1, <2>2
<1>6. ASSUME IsInjective(s) PROVE IsInjective(k)
  <2>1. DOMAIN k = 1 .. l /\ DOMAIN s = 1 .. Len(s)
    BY <1>1, RangeIs
  <2>2. \A i, j \in 1 .. l : k[i] = k[j] => i = j
    BY <1>3, <1>5, <1>6, <2>1 DEF IsInjective
  <2> QED
    BY <2>1, <2>2 DEF IsInjective
<1>7. l <= Len(s)
  <2>1. e \in Injection(1 .. l, 1 .. Len(s))
    BY <1>3, <1>5 DEF Injection, IsInjective
  <2>2. Len(s) \in Nat
    BY RangeIs
  <2>3. /\ IsFiniteSet(1 .. Len(s)) /\ Cardinality(1 .. Len(s)) = Len(s)
        /\ Cardinality(1 .. l) = l
    BY <2>2, UpTo
  <2>4. Cardinality(1 .. l) <= Cardinality(1 .. Len(s))
    BY <2>1, <2>3, FS_Injection
  <2> QED
    BY <2>3, <2>4
<1> QED
  BY <1>1, <1>4, <1>6, <1>7

\* What is left when a set is taken out.
LEMMA DropIs ==
    ASSUME NEW T, NEW s \in Seq(T), NEW S
    PROVE  /\ Drop(s, S) \in Seq(T)
           /\ Range(Drop(s, S)) = Range(s) \ S
           /\ IsInjective(s) => IsInjective(Drop(s, S))
           /\ Len(Drop(s, S)) <= Len(s)
<1>1. Drop(s, S) = Keep(s, Range(s) \ S)
  BY DEF Drop
<1> QED
  BY <1>1, KeepIs

\* A beginning.
LEMMA FirstIs ==
    ASSUME NEW T, NEW s \in Seq(T), NEW n \in Int
    PROVE  /\ First(n, s) \in Seq(T)
           /\ Range(First(n, s)) \subseteq Range(s)
           /\ IsInjective(s) => IsInjective(First(n, s))
           /\ Len(First(n, s)) = IF n < 0 THEN 0 ELSE IF n <= Len(s) THEN n ELSE Len(s)
           /\ \A i \in 1 .. Len(First(n, s)) : i \in 1 .. Len(s) /\ First(n, s)[i] = s[i]
<1>1. PICK m \in Int : m = IF n <= Len(s) THEN n ELSE Len(s)
  BY RangeIs
<1>2. Len(s) \in Nat /\ m <= Len(s) /\ \A i \in 1 .. m : i \in 1 .. Len(s) /\ s[i] \in T
  BY <1>1, RangeIs
<1>3. PICK f : f = First(n, s)
  OBVIOUS
<1>4. /\ f \in Seq(T) /\ Len(f) = IF 1 <= m THEN m ELSE 0
      /\ \A i \in 1 .. m : f[i] = s[i]
  <2>1. f = SubSeq(s, 1, m)
    BY <1>1, <1>3 DEF First
  <2>2. /\ SubSeq(s, 1, m) \in Seq(T)
        /\ Len(SubSeq(s, 1, m)) = IF 1 <= m THEN m - 1 + 1 ELSE 0
        /\ \A i \in 1 .. m - 1 + 1 : SubSeq(s, 1, m)[i] = s[1 + i - 1]
    BY <1>2, SubSeqProperties
  <2> QED
    BY <2>1, <2>2
<1>5. \A i \in 1 .. Len(f) : i \in 1 .. Len(s) /\ f[i] = s[i]
  BY <1>2, <1>4
<1>6. Range(f) \subseteq Range(s)
  BY <1>4, <1>5, RangeIs
<1>7. IsInjective(s) => IsInjective(f)
  <2>1. DOMAIN f = 1 .. Len(f) /\ DOMAIN s = 1 .. Len(s)
    BY <1>4, RangeIs
  <2> QED
    BY <1>5, <2>1 DEF IsInjective
<1>8. Len(f) = IF n < 0 THEN 0 ELSE IF n <= Len(s) THEN n ELSE Len(s)
  BY <1>1, <1>2, <1>4
<1> QED
  BY <1>3, <1>4, <1>5, <1>6, <1>7, <1>8

\* A part.
LEMMA SubSeqIs ==
    ASSUME NEW T, NEW s \in Seq(T), NEW m \in Nat \ {0}, NEW n \in Int, n <= Len(s)
    PROVE  /\ SubSeq(s, m, n) \in Seq(T)
           /\ Len(SubSeq(s, m, n)) = IF m <= n THEN n - m + 1 ELSE 0
           /\ \A i \in 1 .. n - m + 1 : SubSeq(s, m, n)[i] = s[m + i - 1]
<1>1. Len(s) \in Nat /\ \A i \in m .. n : i \in 1 .. Len(s) /\ s[i] \in T
  BY RangeIs
<1> QED
  BY <1>1, SubSeqProperties

\* One after the other.
LEMMA CatIs ==
    ASSUME NEW T, NEW s \in Seq(T), NEW t \in Seq(T)
    PROVE  /\ s \o t \in Seq(T)
           /\ Range(s \o t) = Range(s) \cup Range(t)
           /\ Len(s \o t) = Len(s) + Len(t)
           /\ \A i \in 1 .. Len(s) : (s \o t)[i] = s[i]
           /\ \A i \in 1 .. Len(t) : (s \o t)[Len(s) + i] = t[i]
           /\ IsInjective(s) /\ IsInjective(t) /\ Range(s) \cap Range(t) = {}
                => IsInjective(s \o t)
<1>1. PICK m \in Nat, n \in Nat : m = Len(s) /\ n = Len(t)
  BY RangeIs
<1>2. PICK c : c = s \o t
  OBVIOUS
<1>3. /\ c \in Seq(T) /\ Len(c) = m + n
      /\ \A i \in 1 .. m + n : c[i] = IF i <= m THEN s[i] ELSE t[i - m]
  BY <1>1, <1>2, ConcatProperties
<1>4. \A i \in 1 .. m : c[i] = s[i] /\ s[i] \in Range(s)
  BY <1>1, <1>3, RangeIs
<1>5. \A i \in 1 .. n : c[m + i] = t[i] /\ t[i] \in Range(t)
  <2> TAKE i \in 1 .. n
  <2>1. m + i \in 1 .. m + n /\ ~(m + i <= m) /\ (m + i) - m = i
    OBVIOUS
  <2>2. c[m + i] = t[i]
    BY <1>3, <2>1
  <2> QED
    BY <1>1, <2>2, RangeIs
<1>6. \A i \in 1 .. m + n : i \in 1 .. m \/ (i - m \in 1 .. n /\ i = m + (i - m))
  OBVIOUS
<1>7. Range(c) = Range(s) \cup Range(t)
  <2>1. /\ Range(c) = {c[i] : i \in 1 .. m + n}
        /\ Range(s) = {s[i] : i \in 1 .. m} /\ Range(t) = {t[i] : i \in 1 .. n}
    <3>1. Range(s) = {s[i] : i \in 1 .. m} /\ Range(t) = {t[i] : i \in 1 .. n}
      BY <1>1, RangeIs
    <3>2. Range(c) = {c[i] : i \in 1 .. m + n}
      BY <1>3, RangeIs
    <3> QED
      BY <3>1, <3>2
  <2>2. \A i \in 1 .. m + n : c[i] \in Range(s) \cup Range(t)
    <3> TAKE i \in 1 .. m + n
    <3>1. CASE i \in 1 .. m
      BY <1>4, <3>1
    <3>2. CASE i - m \in 1 .. n /\ i = m + (i - m)
      BY <1>5, <3>2
    <3> QED
      BY <1>6, <3>1, <3>2
  <2>3. \A i \in 1 .. m : s[i] \in Range(c)
    <3> TAKE i \in 1 .. m
    <3>1. i \in 1 .. m + n
      OBVIOUS
    <3> QED
      BY <1>4, <2>1, <3>1
  <2>4. \A i \in 1 .. n : t[i] \in Range(c)
    <3> TAKE i \in 1 .. n
    <3>1. m + i \in 1 .. m + n /\ c[m + i] = t[i]
      BY <1>5
    <3> QED
      BY <2>1, <3>1
  <2> QED
    BY <2>1, <2>2, <2>3, <2>4
<1>8. ASSUME IsInjective(s), IsInjective(t), Range(s) \cap Range(t) = {}
      PROVE  IsInjective(c)
  <2>1. DOMAIN c = 1 .. m + n /\ DOMAIN s = 1 .. m /\ DOMAIN t = 1 .. n
    BY <1>1, <1>3, RangeIs
  <2>2. /\ \A i, j \in 1 .. m : s[i] = s[j] => i = j
        /\ \A i, j \in 1 .. n : t[i] = t[j] => i = j
    BY <1>8, <2>1 DEF IsInjective
  <2> SUFFICES ASSUME NEW i \in 1 .. m + n, NEW j \in 1 .. m + n, c[i] = c[j]
               PROVE  i = j
    BY <2>1 DEF IsInjective
  <2>3. CASE i \in 1 .. m /\ j \in 1 .. m
    BY <1>4, <2>2, <2>3
  <2>4. CASE i - m \in 1 .. n /\ j - m \in 1 .. n
    <3>1. PICK a \in 1 .. n : a = i - m
      BY <2>4
    <3>2. PICK b \in 1 .. n : b = j - m
      BY <2>4
    <3>3. i = m + a /\ j = m + b
      BY <3>1, <3>2
    <3>4. t[a] = t[b]
      BY <1>5, <3>3
    <3> QED
      BY <2>2, <3>3, <3>4
  <2>5. CASE i \in 1 .. m /\ j - m \in 1 .. n
    BY <1>4, <1>5, <1>6, <1>8, <2>5
  <2>6. CASE i - m \in 1 .. n /\ j \in 1 .. m
    BY <1>4, <1>5, <1>6, <1>8, <2>6
  <2> QED
    BY <1>6, <2>3, <2>4, <2>5, <2>6
<1> QED
  BY <1>2, <1>1, <1>3, <1>4, <1>5, <1>7, <1>8

\* Backwards.
LEMMA ReverseIs ==
    ASSUME NEW T, NEW s \in Seq(T)
    PROVE  /\ Reverse(s) \in Seq(T) /\ Range(Reverse(s)) = Range(s)
           /\ IsInjective(s) => IsInjective(Reverse(s))
<1>1. PICK n \in Nat : n = Len(s)
  BY RangeIs
<1>2. PICK r : r = [i \in 1 .. n |-> s[(n - i) + 1]]
  OBVIOUS
<1>3. \A i \in 1 .. n : (n - i) + 1 \in 1 .. n /\ (n - ((n - i) + 1)) + 1 = i
  OBVIOUS
<1>4. /\ r \in [1 .. n -> T] /\ DOMAIN r = 1 .. n
      /\ \A i \in 1 .. n : r[i] = s[(n - i) + 1]
  <2>1. \A i \in 1 .. n : s[(n - i) + 1] \in T
    BY <1>1, <1>3, RangeIs
  <2> QED
    BY <1>2, <2>1
<1>5. r = Reverse(s) /\ r \in Seq(T) /\ Len(r) = n
  BY <1>1, <1>2, <1>4 DEF Reverse
<1>6. Range(r) = Range(s)
  <2>1. Range(r) = {r[i] : i \in 1 .. n} /\ Range(s) = {s[i] : i \in 1 .. n}
    BY <1>1, <1>5, RangeIs
  <2>2. \A i \in 1 .. n : r[i] \in Range(s)
    BY <1>3, <1>4, <2>1
  <2>3. \A i \in 1 .. n : s[i] = r[(n - i) + 1]
    <3> TAKE i \in 1 .. n
    <3>1. PICK j \in 1 .. n : j = (n - i) + 1 /\ (n - j) + 1 = i
      BY <1>3
    <3> QED
      BY <1>4, <3>1
  <2>4. \A i \in 1 .. n : s[i] \in Range(r)
    BY <1>3, <2>1, <2>3
  <2> QED
    BY <2>1, <2>2, <2>4
<1>7. ASSUME IsInjective(s) PROVE IsInjective(r)
  <2>1. \A i, j \in 1 .. n : s[i] = s[j] => i = j
    BY <1>1, <1>7, RangeIs DEF IsInjective
  <2> SUFFICES ASSUME NEW i \in 1 .. n, NEW j \in 1 .. n, r[i] = r[j]
               PROVE  i = j
    BY <1>4 DEF IsInjective
  <2>2. (n - i) + 1 = (n - j) + 1
    BY <1>3, <1>4, <2>1
  <2> QED
    BY <2>2
<1> QED
  BY <1>5, <1>6, <1>7

\* Books in the order of their numbers.
LEMMA InOrder ==
    ASSUME NEW S
    PROVE  /\ OldestFirst(S) \in Once(Books) /\ Range(OldestFirst(S)) = S \cap Books
           /\ NewestFirst(S) \in Once(Books) /\ Range(NewestFirst(S)) = S \cap Books
<1>1. PICK s : s = [i \in 1 .. Newest |-> i]
  OBVIOUS
<1>2. Newest \in Nat
  BY ViewsAssumption DEF ViewsAssumption
<1>3. s \in Seq(Books) /\ Range(s) = Books /\ IsInjective(s)
  <2>1. DOMAIN s = 1 .. Newest /\ \A i \in 1 .. Newest : s[i] = i
    BY <1>1
  <2>2. s \in [1 .. Newest -> Books]
    BY <1>1 DEF Books
  <2>3. s \in Seq(Books)
    BY <1>2, <2>2
  <2> QED
    BY <2>1, <2>3 DEF Range, IsInjective, Books
<1>4. OldestFirst(S) = Keep(s, S)
  BY <1>1 DEF OldestFirst
<1>5. OldestFirst(S) \in Once(Books) /\ Range(OldestFirst(S)) = S \cap Books
  BY <1>3, <1>4, KeepIs DEF Once
<1>6. NewestFirst(S) = Reverse(OldestFirst(S)) /\ OldestFirst(S) \in Seq(Books)
  BY <1>5 DEF NewestFirst, Once
<1> QED
  BY <1>5, <1>6, ReverseIs DEF Once

\* A sequence without repetitions is as long as it has elements.
LEMMA OnceLen ==
    ASSUME NEW T, NEW s \in Once(T)
    PROVE  IsFiniteSet(Range(s)) /\ Cardinality(Range(s)) = Len(s)
<1>1. s \in Seq(T) /\ IsInjective(s)
  BY DEF Once
<1>2. PICK n \in Nat : n = Len(s)
  BY <1>1, RangeIs
<1>3. DOMAIN s = 1 .. n /\ Range(s) = {s[i] : i \in 1 .. n}
  BY <1>1, <1>2, RangeIs
<1>4. s \in [1 .. n -> Range(s)]
  BY <1>1, <1>3
<1>5. s \in Surjection(1 .. n, Range(s))
  BY <1>3, <1>4 DEF Surjection
<1>6. s \in Injection(1 .. n, Range(s))
  BY <1>1, <1>3, <1>4 DEF Injection, IsInjective
<1>7. IsFiniteSet(1 .. n) /\ Cardinality(1 .. n) = n
  BY UpTo
<1>8. IsFiniteSet(Range(s)) /\ Cardinality(Range(s)) = Cardinality(1 .. n)
  BY <1>5, <1>6, <1>7, FS_Surjection
<1> QED
  BY <1>2, <1>7, <1>8

\* One more.
LEMMA AppendIs ==
    ASSUME NEW T, NEW s \in Seq(T), NEW x \in T
    PROVE  /\ Append(s, x) \in Seq(T)
           /\ Range(Append(s, x)) = Range(s) \cup {x}
           /\ Len(Append(s, x)) = Len(s) + 1
           /\ \A i \in 1 .. Len(s) : Append(s, x)[i] = s[i]
           /\ Append(s, x)[Len(s) + 1] = x
           /\ IsInjective(s) /\ x \notin Range(s) => IsInjective(Append(s, x))
<1>1. PICK t : t = <<x>>
  OBVIOUS
<1>2. t \in Seq(T) /\ Len(t) = 1 /\ t[1] = x /\ DOMAIN t = {1}
  BY <1>1
<1>3. Range(t) = {x} /\ IsInjective(t)
  BY <1>2 DEF Range, IsInjective
<1>4. Append(s, x) = s \o t
  BY <1>1, AppendIsConcat
<1>5. 1 \in 1 .. Len(t)
  BY <1>2
<1> QED
  BY <1>2, <1>3, <1>4, <1>5, CatIs

\* A turn of the sort puts one more element in its place.
Insert(s, A, x) == Append(Keep(s, A), x) \o Drop(s, A)

\* One more element, somewhere.
LEMMA Inserted ==
    ASSUME NEW T, NEW s \in Seq(T), NEW x \in T, NEW A
    PROVE  /\ Insert(s, A, x) \in Seq(T) /\ Range(Insert(s, A, x)) = Range(s) \cup {x}
           /\ IsInjective(s) /\ x \notin Range(s) => IsInjective(Insert(s, A, x))
<1>1. /\ Keep(s, A) \in Seq(T) /\ Range(Keep(s, A)) = Range(s) \cap A
      /\ IsInjective(s) => IsInjective(Keep(s, A))
  BY KeepIs
<1>2. /\ Drop(s, A) \in Seq(T) /\ Range(Drop(s, A)) = Range(s) \ A
      /\ IsInjective(s) => IsInjective(Drop(s, A))
  BY DropIs
<1>3. PICK a : a = Append(Keep(s, A), x)
  OBVIOUS
<1>4. /\ a \in Seq(T) /\ Range(a) = (Range(s) \cap A) \cup {x}
      /\ IsInjective(s) /\ x \notin Range(s) => IsInjective(a)
  BY <1>1, <1>3, AppendIs
<1>5. Insert(s, A, x) = a \o Drop(s, A)
  BY <1>3 DEF Insert
<1>6. Insert(s, A, x) \in Seq(T) /\ Range(Insert(s, A, x)) = Range(s) \cup {x}
  BY <1>2, <1>4, <1>5, CatIs
<1>7. ASSUME IsInjective(s), x \notin Range(s) PROVE IsInjective(Insert(s, A, x))
  <2>1. Range(a) \cap Range(Drop(s, A)) = {}
    BY <1>2, <1>4, <1>7
  <2> QED
    BY <1>2, <1>4, <1>5, <1>7, <2>1, CatIs
<1> QED
  BY <1>6, <1>7

\* To sort is to reorder, whatever the weights.
LEMMA SortedIs ==
    ASSUME NEW T, NEW s \in Seq(T), NEW weight
    PROVE  /\ Sorted(s, weight) \in Seq(T) /\ Range(Sorted(s, weight)) = Range(s)
           /\ IsInjective(s) => IsInjective(Sorted(s, weight))
<1> DEFINE N == Len(s)
           X == Seq(T)
           Ahead(k, n) == {b \in Range(k) : weight[b] >= weight[s[n]]}
           Turn(k, n) == Insert(k, Ahead(k, n), s[n])
           turn == [n \in 1 .. N |-> [k \in X |-> Turn(k, n)]]
           sorted[n \in 0 .. N] == IF n = 0 THEN <<>> ELSE Turn(sorted[n - 1], n)
<1>1. N \in Nat /\ <<>> \in X /\ \A n \in 1 .. N : s[n] \in T
  BY RangeIs
<1>2. ASSUME NEW n \in 1 .. N, NEW k \in X
      PROVE  /\ Turn(k, n) \in X /\ Range(Turn(k, n)) = Range(k) \cup {s[n]}
             /\ IsInjective(k) /\ s[n] \notin Range(k) => IsInjective(Turn(k, n))
  <2>1. s[n] \in T
    BY <1>1
  <2> HIDE DEF Ahead
  <2> QED
    BY <2>1, Inserted
<1>3. Sorted(s, weight) = sorted[N]
  BY DEF Sorted, Insert
<1> HIDE DEF Turn
<1>4. \E f : f = [n \in 0 .. N |-> IF n = 0 THEN <<>> ELSE Turn(f[n - 1], n)]
  <2>1. turn \in [1 .. N -> [X -> X]]
    BY <1>2
  <2>2. PICK f \in [0 .. N -> X] :
          f[0] = <<>> /\ \A n \in 1 .. N : f[n] = turn[n][f[n - 1]]
    <3> HIDE DEF turn, X, N
    <3>1. Loop(turn, N, X)
      BY <1>1, <2>1 DEF Loop
    <3>2. PICK f : Run(f, <<>>, turn, N, X)
      BY <1>1, <3>1, LoopRuns
    <3> QED
      BY <3>2 DEF Run
  <2>3. \A n \in 1 .. N : f[n - 1] \in X
    BY <1>1
  <2>4. \A n \in 1 .. N : f[n] = Turn(f[n - 1], n)
    BY <2>2, <2>3
  <2> HIDE DEF turn
  <2>5. f = [n \in 0 .. N |-> f[n]]
    OBVIOUS
  <2>6. \A n \in 0 .. N : n = 0 \/ n \in 1 .. N
    BY <1>1
  <2>7. \A n \in 0 .. N : f[n] = IF n = 0 THEN <<>> ELSE Turn(f[n - 1], n)
    BY <2>2, <2>4, <2>6
  <2>8. f = [n \in 0 .. N |-> IF n = 0 THEN <<>> ELSE Turn(f[n - 1], n)]
    BY <2>5, <2>7
  <2> QED
    BY <2>8
<1>5. sorted = [n \in 0 .. N |-> IF n = 0 THEN <<>> ELSE Turn(sorted[n - 1], n)]
  BY <1>4
<1>6. sorted[0] = <<>> /\ \A n \in 1 .. N : sorted[n] = Turn(sorted[n - 1], n)
  <2> HIDE DEF sorted
  <2>1. 0 \in 0 .. N /\ \A n \in 1 .. N : n \in 0 .. N /\ n # 0
    BY <1>1
  <2> QED
    BY <1>5, <2>1
<1> HIDE DEF sorted, N
<1> DEFINE Good(n) == /\ sorted[n] \in X /\ Range(sorted[n]) = {s[i] : i \in 1 .. n}
                      /\ IsInjective(s) => IsInjective(sorted[n])
           good == {n \in 0 .. N : Good(n)}
<1>7. Good(0)
  BY <1>1, <1>6 DEF Range, IsInjective
<1>8. ASSUME NEW n \in 1 .. N, Good(n - 1)
      PROVE  Good(n)
  <2>1. PICK k \in X : k = sorted[n - 1]
    BY <1>8
  <2>2. n \in Nat /\ sorted[n] = Turn(k, n) /\ Range(k) = {s[i] : i \in 1 .. (n - 1)}
    <3>1. n \in Nat
      BY <1>1
    <3>2. sorted[n] = Turn(k, n)
      BY <1>6, <2>1
    <3>3. Range(k) = {s[i] : i \in 1 .. (n - 1)}
      BY <1>8, <2>1
    <3> QED
      BY <3>1, <3>2, <3>3
  <2>3. {s[i] : i \in 1 .. (n - 1)} \cup {s[n]} = {s[i] : i \in 1 .. n}
    <3>1. \A i : i \in 1 .. n <=> i \in 1 .. (n - 1) \/ i = n
      BY <1>1, <2>2
    <3> QED
      BY <3>1
  <2>4. ASSUME IsInjective(s) PROVE s[n] \notin {s[i] : i \in 1 .. (n - 1)}
    <3>1. \A i \in 1 .. (n - 1) : i \in 1 .. N /\ i # n
      BY <1>1, <2>2
    <3>2. DOMAIN s = 1 .. N
      BY RangeIs DEF N
    <3> QED
      BY <2>4, <3>1, <3>2 DEF IsInjective
  <2> HIDE DEF X
  <2> QED
    BY <1>2, <1>8, <2>1, <2>2, <2>3, <2>4
<1> HIDE DEF Good
<1>9. 0 \in good /\ \A n \in 1 .. N : n - 1 \in good => n \in good
  BY <1>1, <1>7, <1>8
<1> HIDE DEF good
<1>10. \A n \in 0 .. N : n \in good
  BY <1>1, <1>9, EveryTurn
<1>11. N \in good
  BY <1>1, <1>10
<1>12. Good(N)
  BY <1>11 DEF good
<1>13. Range(s) = {s[i] : i \in 1 .. N}
  BY RangeIs DEF N
<1> QED
  BY <1>3, <1>12, <1>13 DEF Good

\* A set of naturals has a least one.
LEMMA Least ==
    ASSUME NEW S, S \subseteq Nat, S # {}
    PROVE  \E n \in S : \A m \in S : n <= m
<1>1. IsWellFoundedOn(Less, Nat)
  BY NatLessThanWellFounded, Zenon DEF OpToRel, Less
<1>2. PICK n \in S : \A m \in S : <<m, n>> \notin Less
  BY <1>1, WFMin
<1>3. ASSUME NEW m \in S PROVE n <= m
  <2>1. m \in Nat /\ n \in Nat /\ <<m, n>> \notin Less
    BY <1>2
  <2>2. ~(m < n)
    BY <2>1 DEF Less
  <2> QED
    BY <2>1, <2>2
<1> QED
  BY <1>3

\* Min is that one.
LEMMA MinIs ==
    ASSUME NEW S, S \subseteq Nat, S # {}
    PROVE  Min(S) \in S /\ \A m \in S : Min(S) <= m
<1>1. \E n \in S : \A m \in S : n =< m
  BY Least
<1> QED
  BY <1>1 DEF Min

\* The smaller of two.
LEMMA MinOfTwo ==
    ASSUME NEW m \in Nat, NEW n \in Nat
    PROVE  Min({m, n}) = IF m <= n THEN m ELSE n
<1>1. Min({m, n}) \in {m, n} /\ \A k \in {m, n} : Min({m, n}) <= k
  BY MinIs
<1> QED
  BY <1>1

\* Each element once, where it is first.
LEMMA DistinctIs ==
    ASSUME NEW T, NEW s \in Seq(T)
    PROVE  Distinct(s) \in Once(T) /\ Range(Distinct(s)) = Range(s)
<1>1. PICK N \in Nat : N = Len(s)
  BY RangeIs
<1>2. DOMAIN s = 1 .. N /\ Range(s) = {s[i] : i \in 1 .. N} /\ \A i \in 1 .. N : s[i] \in T
  BY <1>1, RangeIs
<1>3. PICK first : first = {i \in 1 .. N : \A j \in 1 .. (i - 1) : s[j] # s[i]}
  OBVIOUS
<1>4. PICK all : all = [i \in 1 .. N |-> i]
  OBVIOUS
<1>5. PICK kept : kept = Keep(all, first)
  OBVIOUS
<1>6. Distinct(s) = [i \in DOMAIN kept |-> s[kept[i]]]
  BY <1>2, <1>3, <1>4, <1>5 DEF Distinct
<1>7. all \in Seq(1 .. N) /\ Range(all) = 1 .. N /\ IsInjective(all)
  <2>1. DOMAIN all = 1 .. N /\ \A i \in 1 .. N : all[i] = i
    BY <1>4
  <2>2. all \in [1 .. N -> 1 .. N]
    BY <1>4
  <2>3. all \in Seq(1 .. N)
    BY <2>2
  <2> QED
    BY <2>1, <2>3 DEF Range, IsInjective
<1>8. kept \in Seq(1 .. N) /\ Range(kept) = first /\ IsInjective(kept)
  <2>1. kept \in Seq(1 .. N) /\ Range(kept) = Range(all) \cap first /\ IsInjective(kept)
    BY <1>5, <1>7, KeepIs
  <2> QED
    BY <1>3, <1>7, <2>1
<1>9. PICK m \in Nat : m = Len(kept)
  BY <1>8, RangeIs
<1>10. /\ DOMAIN kept = 1 .. m /\ \A i \in 1 .. m : kept[i] \in first
       /\ \A k \in first : \E i \in 1 .. m : kept[i] = k
       /\ \A i, j \in 1 .. m : kept[i] = kept[j] => i = j
  <2>1. DOMAIN kept = 1 .. m
    BY <1>8, <1>9, RangeIs
  <2> QED
    BY <1>8, <2>1 DEF Range, IsInjective
<1>11. PICK d : d = Distinct(s)
  OBVIOUS
<1>12. d = [i \in 1 .. m |-> s[kept[i]]]
  BY <1>6, <1>10, <1>11
<1>13. DOMAIN d = 1 .. m /\ \A i \in 1 .. m : d[i] = s[kept[i]] /\ kept[i] \in 1 .. N
  BY <1>3, <1>10, <1>12
<1>14. d \in Seq(T)
  <2>1. \A i \in 1 .. m : s[kept[i]] \in T
    BY <1>2, <1>13
  <2>2. d \in [1 .. m -> T]
    BY <1>12, <2>1
  <2> QED
    BY <2>2
<1>15. \A i, j \in first : s[i] = s[j] => i = j
  <2> SUFFICES ASSUME NEW i \in first, NEW j \in first, s[i] = s[j] PROVE i = j
    OBVIOUS
  <2>1. i \in 1 .. N /\ j \in 1 .. N
    BY <1>3
  <2>2. /\ \A k \in 1 .. (i - 1) : s[k] # s[i]
        /\ \A k \in 1 .. (j - 1) : s[k] # s[j]
    BY <1>3
  <2>3. j \notin 1 .. (i - 1) /\ i \notin 1 .. (j - 1)
    BY <2>2
  <2> QED
    BY <2>1, <2>3
<1>16. IsInjective(d)
  <2> SUFFICES ASSUME NEW i \in 1 .. m, NEW j \in 1 .. m, d[i] = d[j] PROVE i = j
    BY <1>13 DEF IsInjective
  <2>1. kept[i] = kept[j]
    BY <1>10, <1>13, <1>15
  <2> QED
    BY <1>10, <2>1
<1>17. \A i \in 1 .. N : \E k \in first : s[k] = s[i]
  <2> TAKE i \in 1 .. N
  <2> DEFINE S == {k \in 1 .. N : s[k] = s[i]}
  <2>1. S \subseteq Nat /\ i \in S
    OBVIOUS
  <2> HIDE DEF S
  <2>2. PICK k \in S : \A l \in S : k <= l
    BY <2>1, Least
  <2> USE DEF S
  <2>3. k \in 1 .. N /\ s[k] = s[i]
    OBVIOUS
  <2>4. ASSUME NEW j \in 1 .. (k - 1), s[j] = s[k] PROVE FALSE
    <3>1. j \in 1 .. N /\ ~(k <= j)
      BY <2>3
    <3> QED
      BY <2>2, <2>3, <2>4, <3>1
  <2>5. k \in first
    BY <1>3, <2>3, <2>4
  <2> QED
    BY <2>3, <2>5
<1>18. Range(d) = Range(s)
  <2>1. Range(d) = {d[i] : i \in 1 .. m}
    BY <1>13 DEF Range
  <2>2. \A i \in 1 .. m : d[i] \in Range(s)
    BY <1>2, <1>13
  <2>3. \A i \in 1 .. N : s[i] \in Range(d)
    <3> TAKE i \in 1 .. N
    <3>1. PICK k \in first : s[k] = s[i]
      BY <1>17
    <3>2. PICK j \in 1 .. m : kept[j] = k
      BY <1>10
    <3>3. d[j] = s[i]
      BY <1>13, <3>1, <3>2
    <3> QED
      BY <2>1, <3>3
  <2> QED
    BY <1>2, <2>1, <2>2, <2>3
<1> QED
  BY <1>11, <1>14, <1>16, <1>18 DEF Once

-----------------------------------------------------------------------------
(* What the rankings, the layers and the sections are made of.             *)

\* The numbers the pages are made with.
LEMMA NumbersAre ==
    /\ Newest \in Nat /\ Minimum \in Nat \ {0} /\ SectionSize \in Nat \ {0}
    /\ GuestSections \in Nat \ {0} /\ ReaderSections \in Nat \ {0}
    /\ HomeLimit \in Nat \ {0} /\ GenreLimit \in Nat \ {0} /\ RelatedBelow \in Nat \ {0}
    /\ \A limit \in RecommendationLimits : limit \in Nat \ {0}
    /\ Minimum <= SectionSize
  BY ViewsAssumption DEF ViewsAssumption

\* Books with a copy to take come first, and none is lost.
LEMMA AvailableFirstIs ==
    ASSUME NEW v, NEW T, NEW s \in Seq(T)
    PROVE  /\ AvailableFirst(v, s) \in Seq(T)
           /\ Range(AvailableFirst(v, s)) = Range(s)
           /\ IsInjective(s) => IsInjective(AvailableFirst(v, s))
<1>1. PICK there : there = {b \in Range(s) : AvailableCopies(b, v.school) > 0}
  OBVIOUS
<1>2. AvailableFirst(v, s) = Keep(s, there) \o Drop(s, there)
  BY <1>1 DEF AvailableFirst
<1>3. PICK k \in Seq(T) : /\ k = Keep(s, there) /\ Range(k) = Range(s) \cap there
                          /\ IsInjective(s) => IsInjective(k)
  BY KeepIs
<1>4. PICK d \in Seq(T) : /\ d = Drop(s, there) /\ Range(d) = Range(s) \ there
                          /\ IsInjective(s) => IsInjective(d)
  BY DropIs
<1>5. AvailableFirst(v, s) = k \o d /\ Range(k) \cap Range(d) = {}
      /\ Range(k) \cup Range(d) = Range(s)
  BY <1>2, <1>3, <1>4
<1>6. /\ k \o d \in Seq(T) /\ Range(k \o d) = Range(k) \cup Range(d)
      /\ IsInjective(k) /\ IsInjective(d) => IsInjective(k \o d)
  BY <1>5, CatIs
<1> QED
  BY <1>3, <1>4, <1>5, <1>6

\* A ranking names the books it weighs, each once.
LEMMA RankedIs ==
    ASSUME NEW weight
    PROVE  /\ Ranked(weight) \in Once(Books)
           /\ Range(Ranked(weight)) = DOMAIN weight \cap Books
           /\ RankedNewest(weight) \in Once(Books)
           /\ Range(RankedNewest(weight)) = DOMAIN weight \cap Books
<1>1. PICK S : S = DOMAIN weight
  OBVIOUS
<1>2. PICK s \in Seq(Books) : s = OldestFirst(S) /\ IsInjective(s) /\ Range(s) = S \cap Books
  BY InOrder DEF Once
<1>3. PICK t \in Seq(Books) : t = NewestFirst(S) /\ IsInjective(t) /\ Range(t) = S \cap Books
  BY InOrder DEF Once
<1>4. Ranked(weight) = Sorted(s, weight) /\ RankedNewest(weight) = Sorted(t, weight)
  BY <1>1, <1>2, <1>3 DEF Ranked, RankedNewest
<1>5. Sorted(s, weight) \in Seq(Books) /\ Range(Sorted(s, weight)) = S \cap Books
      /\ IsInjective(Sorted(s, weight))
  BY <1>2, SortedIs
<1>6. Sorted(t, weight) \in Seq(Books) /\ Range(Sorted(t, weight)) = S \cap Books
      /\ IsInjective(Sorted(t, weight))
  BY <1>3, SortedIs
<1> QED
  BY <1>1, <1>4, <1>5, <1>6 DEF Once

\* A ranking names each book that was lent, once.
LEMMA MostLentIs ==
    ASSUME NEW rows
    PROVE  /\ MostLent(rows) \in Once(Books)
           /\ Range(MostLent(rows)) \subseteq {LentBook(l) : l \in rows}
<1>1. PICK weight : weight = [b \in {LentBook(l) : l \in rows} |-> TimesLent(b, rows)]
  OBVIOUS
<1>2. MostLent(rows) = Ranked(weight)
  BY <1>1 DEF MostLent
<1>3. DOMAIN weight = {LentBook(l) : l \in rows}
  BY <1>1
<1> QED
  BY <1>2, <1>3, RankedIs

\* What is kept, dropped or cut of a sequence without repetitions has none either.
LEMMA OnceKept ==
    ASSUME NEW T, NEW s \in Once(T), NEW S, NEW n \in Int
    PROVE  /\ Keep(s, S) \in Once(T) /\ Range(Keep(s, S)) = Range(s) \cap S
           /\ Drop(s, S) \in Once(T) /\ Range(Drop(s, S)) = Range(s) \ S
           /\ First(n, s) \in Once(T) /\ Range(First(n, s)) \subseteq Range(s)
<1>1. s \in Seq(T) /\ IsInjective(s)
  BY DEF Once
<1>2. Keep(s, S) \in Once(T) /\ Range(Keep(s, S)) = Range(s) \cap S
  BY <1>1, KeepIs DEF Once
<1>3. Drop(s, S) \in Once(T) /\ Range(Drop(s, S)) = Range(s) \ S
  BY <1>1, DropIs DEF Once
<1>4. First(n, s) \in Once(T) /\ Range(First(n, s)) \subseteq Range(s)
  BY <1>1, FirstIs DEF Once
<1> QED
  BY <1>2, <1>3, <1>4

\* Two sequences that share nothing.
LEMMA OnceCat ==
    ASSUME NEW T, NEW s \in Once(T), NEW t \in Once(T), Range(s) \cap Range(t) = {}
    PROVE  s \o t \in Once(T) /\ Range(s \o t) = Range(s) \cup Range(t)
<1>1. s \in Seq(T) /\ IsInjective(s) /\ t \in Seq(T) /\ IsInjective(t)
  BY DEF Once
<1> QED
  BY <1>1, CatIs DEF Once

-----------------------------------------------------------------------------
(* The sections of a page.                                                 *)

\* The kinds of section that are not rankings, and what may be offered to a page.
PlainKinds ==
  {"popular", "new", "shuffled", "genre", "recommended", "recently-read", "because-you-read",
   "because-you-like", "popular-in-genre", "popular-genre", "discovery"}
Offer == [kind : PlainKinds \cup RankingKinds, books : Seq(Books), minimum : Nat]

\* What a page shows of an offer, and a page that was added to.
Shows(t, o) ==
    /\ t \in Offer /\ t.kind = o.kind /\ t.minimum = o.minimum
    /\ Range(t.books) \subseteq Range(o.books)
    /\ IsInjective(t.books) /\ Len(t.books) \in t.minimum .. SectionSize
Grown(q, p, o, most) ==
    q = p \/ (Len(p) < most /\ \E t : Shows(t, o) /\ q = Append(p, t))

\* No plain section is a ranking.
LEMMA KindsApart == PlainKinds \cap RankingKinds = {}
  BY DEF PlainKinds, RankingKinds

\* The books a section takes: each once, and enough if there are enough.
LEMMA TakenIs ==
    ASSUME NEW s \in Seq(Books)
    PROVE  /\ First(SectionSize, Distinct(s)) \in Once(Books)
           /\ Range(First(SectionSize, Distinct(s))) \subseteq Range(s)
           /\ Len(First(SectionSize, Distinct(s))) \in 0 .. SectionSize
           /\ Cardinality(Range(s)) >= Minimum
                => Len(First(SectionSize, Distinct(s))) >= Minimum
<1>1. PICK d \in Once(Books) : d = Distinct(s) /\ Range(d) = Range(s)
  BY DistinctIs
<1>2. d \in Seq(Books) /\ SectionSize \in Nat /\ Minimum \in Nat /\ Minimum <= SectionSize
  BY NumbersAre DEF Once
<1>3. Len(d) \in Nat /\ Cardinality(Range(s)) = Len(d)
  BY <1>1, <1>2, OnceLen, RangeIs
<1>4. First(SectionSize, d) \in Once(Books) /\ Range(First(SectionSize, d)) \subseteq Range(d)
  BY <1>1, <1>2, OnceKept
<1>5. Len(First(SectionSize, d)) = IF SectionSize <= Len(d) THEN SectionSize ELSE Len(d)
  BY <1>2, FirstIs
<1> QED
  BY <1>1, <1>2, <1>3, <1>4, <1>5

\* A section is added, or left out.
LEMMA PublishedGrows ==
    ASSUME NEW p \in Seq(Offer), NEW o \in Offer, NEW most \in Nat, NEW books \in Once(Books),
           Range(books) \subseteq Range(o.books), Len(books) \in 0 .. SectionSize
    PROVE  /\ Published(p, o, books, most) \in Seq(Offer)
           /\ Grown(Published(p, o, books, most), p, o, most)
           /\ p = <<>> /\ most > 0 /\ Len(books) >= o.minimum
                => Published(p, o, books, most) # <<>>
<1>1. PICK t : t = [o EXCEPT !.books = books]
  OBVIOUS
<1>2. books \in Seq(Books) /\ IsInjective(books)
  BY DEF Once
<1>3. /\ t \in Offer /\ t.kind = o.kind /\ t.minimum = o.minimum /\ t.books = books
      /\ o.minimum \in Nat
  BY <1>1, <1>2 DEF Offer
<1>4. SectionSize \in Nat /\ Len(p) \in Nat /\ Len(books) \in Nat
  BY <1>2, NumbersAre, RangeIs
<1>5. Append(p, t) \in Seq(Offer) /\ Append(p, t) # <<>>
  BY <1>3, AppendProperties
<1>6. CASE Len(p) >= most \/ Len(books) < o.minimum
  <2>1. Published(p, o, books, most) = p
    BY <1>6 DEF Published
  <2>2. p = <<>> => Len(p) = 0
    OBVIOUS
  <2> QED
    BY <1>3, <1>4, <1>6, <2>1, <2>2 DEF Grown
<1>7. CASE ~(Len(p) >= most \/ Len(books) < o.minimum)
  <2>1. Published(p, o, books, most) = Append(p, t)
    BY <1>1, <1>7 DEF Published
  <2>2. Len(p) < most /\ Len(books) \in o.minimum .. SectionSize
    BY <1>3, <1>4, <1>7
  <2>3. Shows(t, o)
    BY <1>2, <1>3, <2>2 DEF Shows
  <2> QED
    BY <1>5, <2>1, <2>2, <2>3 DEF Grown
<1> QED
  BY <1>6, <1>7

\* On an empty page nothing is shown yet.
LEMMA NothingShown == ShownOn(<<>>) = {}
  BY DEF ShownOn

\* add_public adds what the page can show of the offer.
LEMMA AddPublicGrows ==
    ASSUME NEW p \in Seq(Offer), NEW o \in Offer
    PROVE  /\ AddPublic(p, o) \in Seq(Offer) /\ Grown(AddPublic(p, o), p, o, GuestSections)
           /\ p = <<>> /\ o.minimum = Minimum /\ Cardinality(Range(o.books)) >= Minimum
                => AddPublic(p, o) # <<>>
<1>1. PICK shown : shown = ShownOn(p)
  OBVIOUS
<1>2. PICK offered \in Seq(Books) : offered = o.books
  BY DEF Offer
<1>3. PICK unseen \in Seq(Books) :
        unseen = Drop(offered, shown) /\ Range(unseen) = Range(offered) \ shown
  BY DropIs
<1>4. PICK s \in Seq(Books) : s = IF Len(unseen) < Minimum THEN offered ELSE unseen
  OBVIOUS
<1>5. PICK books : books = First(SectionSize, Distinct(s))
  OBVIOUS
<1>6. AddPublic(p, o) = Published(p, o, books, GuestSections)
  BY <1>1, <1>2, <1>3, <1>4, <1>5 DEF AddPublic
<1>7. /\ books \in Once(Books) /\ Range(books) \subseteq Range(s)
      /\ Len(books) \in 0 .. SectionSize
      /\ Cardinality(Range(s)) >= Minimum => Len(books) >= Minimum
  BY <1>5, TakenIs
<1>8. Range(s) \subseteq Range(offered) /\ (shown = {} => Range(s) = Range(offered))
  BY <1>3, <1>4
<1>9. Range(books) \subseteq Range(o.books) /\ GuestSections \in Nat /\ GuestSections > 0
  BY <1>2, <1>7, <1>8, NumbersAre
<1>10. /\ AddPublic(p, o) \in Seq(Offer) /\ Grown(AddPublic(p, o), p, o, GuestSections)
       /\ p = <<>> /\ Len(books) >= o.minimum => AddPublic(p, o) # <<>>
  BY <1>6, <1>7, <1>9, PublishedGrows
<1>11. ASSUME p = <<>>, o.minimum = Minimum, Cardinality(Range(o.books)) >= Minimum
       PROVE  Len(books) >= o.minimum
  BY <1>1, <1>2, <1>7, <1>8, <1>11, NothingShown
<1> QED
  BY <1>10, <1>11

\* add_carousel likewise.
LEMMA AddCarouselGrows ==
    ASSUME NEW v, NEW p \in Seq(Offer), NEW o \in Offer
    PROVE  /\ AddCarousel(v, p, o) \in Seq(Offer)
           /\ Grown(AddCarousel(v, p, o), p, o, ReaderSections)
           /\ p = <<>> /\ o.minimum = Minimum /\ Cardinality(Range(o.books)) >= Minimum
                => AddCarousel(v, p, o) # <<>>
<1>1. PICK shown : shown = ShownOn(p)
  OBVIOUS
<1>2. PICK offered \in Seq(Books) :
        /\ offered = IF o.kind \in RankingKinds THEN o.books ELSE AvailableFirst(v, o.books)
        /\ Range(offered) = Range(o.books)
  <2>1. o.books \in Seq(Books)
    BY DEF Offer
  <2> QED
    BY <2>1, AvailableFirstIs
<1>3. PICK unseen \in Seq(Books) :
        unseen = Drop(offered, shown) /\ Range(unseen) = Range(offered) \ shown
  BY DropIs
<1>4. PICK seen \in Seq(Books) :
        seen = Keep(offered, shown) /\ Range(seen) = Range(offered) \cap shown
  BY KeepIs
<1>5. PICK s : s = IF Len(unseen) >= Minimum THEN unseen ELSE unseen \o seen
  OBVIOUS
<1>6. PICK books : books = First(SectionSize, Distinct(s))
  OBVIOUS
<1>7. AddCarousel(v, p, o) = Published(p, o, books, ReaderSections)
  BY <1>1, <1>2, <1>3, <1>4, <1>5, <1>6 DEF AddCarousel
<1>8. /\ s \in Seq(Books) /\ Range(s) \subseteq Range(offered)
      /\ shown = {} => Range(s) = Range(offered)
  <2>1. unseen \o seen \in Seq(Books) /\ Range(unseen \o seen) = Range(unseen) \cup Range(seen)
    BY CatIs
  <2> QED
    BY <1>3, <1>4, <1>5, <2>1
<1>9. /\ books \in Once(Books) /\ Range(books) \subseteq Range(s)
      /\ Len(books) \in 0 .. SectionSize
      /\ Cardinality(Range(s)) >= Minimum => Len(books) >= Minimum
  BY <1>6, <1>8, TakenIs
<1>10. Range(books) \subseteq Range(o.books) /\ ReaderSections \in Nat /\ ReaderSections > 0
  BY <1>2, <1>8, <1>9, NumbersAre
<1>11. /\ AddCarousel(v, p, o) \in Seq(Offer)
       /\ Grown(AddCarousel(v, p, o), p, o, ReaderSections)
       /\ p = <<>> /\ Len(books) >= o.minimum => AddCarousel(v, p, o) # <<>>
  BY <1>7, <1>9, <1>10, PublishedGrows
<1>12. ASSUME p = <<>>, o.minimum = Minimum, Cardinality(Range(o.books)) >= Minimum
       PROVE  Len(books) >= o.minimum
  BY <1>1, <1>2, <1>8, <1>9, <1>12, NothingShown
<1> QED
  BY <1>11, <1>12

\* A page to which each offer may add a section, when at most one offer is a ranking;
\* and such a page.
PageLoop(f, offers, most) ==
    /\ offers \in Seq(Offer) /\ most \in Nat /\ f[0] = <<>>
    /\ \A n \in 1 .. Len(offers) :
         f[n - 1] \in Seq(Offer) => f[n] \in Seq(Offer) /\ Grown(f[n], f[n - 1], offers[n], most)
OneRanking(s) ==
    \A i, j \in 1 .. Len(s) : s[i].kind \in RankingKinds /\ s[j].kind \in RankingKinds => i = j
PageOf(p, offers, n, most) ==
    /\ p \in Seq(Offer) /\ Len(p) <= most /\ OneRanking(p)
    /\ \A i \in 1 .. Len(p) : \E m \in 1 .. n : Shows(p[i], offers[m])

\* A page shows only what was offered, and keeps what it shows.
LEMMA PageGrows ==
    ASSUME NEW f, NEW offers, NEW most, PageLoop(f, offers, most), OneRanking(offers)
    PROVE  /\ PageOf(f[Len(offers)], offers, Len(offers), most)
           /\ \A m \in 1 .. Len(offers) : f[m] # <<>> => f[Len(offers)] # <<>>
<1>1. PICK N \in Nat : N = Len(offers)
  BY RangeIs DEF PageLoop
<1>2. /\ offers \in Seq(Offer) /\ most \in Nat /\ f[0] = <<>>
      /\ \A n \in 1 .. N : f[n - 1] \in Seq(Offer)
                             => f[n] \in Seq(Offer) /\ Grown(f[n], f[n - 1], offers[n], most)
      /\ \A i, j \in 1 .. N :
           offers[i].kind \in RankingKinds /\ offers[j].kind \in RankingKinds => i = j
  BY <1>1 DEF PageLoop, OneRanking
<1> DEFINE good == {n \in 0 .. N : PageOf(f[n], offers, n, most)}
<1>3. 0 \in good
  <2>1. PageOf(<<>>, offers, 0, most)
    BY <1>2 DEF PageOf, OneRanking
  <2> QED
    BY <1>2, <2>1
<1>4. ASSUME NEW n \in 1 .. N, n - 1 \in good
      PROVE  n \in good
  <2>1. PICK p \in Seq(Offer) : p = f[n - 1] /\ PageOf(p, offers, n - 1, most)
    BY <1>4 DEF PageOf
  <2>2. Grown(f[n], p, offers[n], most)
    BY <1>2, <2>1
  <2>3. PICK l \in Nat : l = Len(p)
    BY RangeIs
  <2>4. /\ l <= most
        /\ \A i, j \in 1 .. l : p[i].kind \in RankingKinds /\ p[j].kind \in RankingKinds => i = j
        /\ \A i \in 1 .. l : \E m \in 1 .. (n - 1) : Shows(p[i], offers[m])
    BY <2>1, <2>3 DEF PageOf, OneRanking
  <2>5. \A m \in 1 .. (n - 1) : m \in 1 .. n /\ m \in 1 .. N /\ m # n
    OBVIOUS
  <2>6. CASE f[n] = p
    <3>1. ASSUME NEW i \in 1 .. l PROVE \E m \in 1 .. n : Shows(p[i], offers[m])
      <4>1. PICK m \in 1 .. (n - 1) : Shows(p[i], offers[m])
        BY <2>4
      <4> QED
        BY <2>5, <4>1
    <3>2. PageOf(p, offers, n, most)
      BY <2>1, <2>3, <3>1 DEF PageOf
    <3> QED
      BY <2>6, <3>2
  <2>7. ASSUME NEW t, Shows(t, offers[n]), f[n] = Append(p, t), l < most
        PROVE  n \in good
    <3>1. t \in Offer /\ t.kind = offers[n].kind
      BY <2>7 DEF Shows
    <3>2. PICK q \in Seq(Offer) :
            /\ q = Append(p, t) /\ Len(q) = l + 1 /\ q[l + 1] = t
            /\ \A i \in 1 .. l : q[i] = p[i]
      <4>1. PICK q : q = Append(p, t)
        OBVIOUS
      <4>2. /\ q \in Seq(Offer) /\ Len(q) = l + 1 /\ q[l + 1] = t
            /\ \A i \in 1 .. l : q[i] = p[i]
        BY <2>3, <3>1, <4>1, AppendProperties
      <4> QED
        BY <4>1, <4>2
    <3>3. \A i \in 1 .. (l + 1) : i \in 1 .. l \/ i = l + 1
      OBVIOUS
    <3>4. \A i \in 1 .. (l + 1) : \E m \in 1 .. n : Shows(q[i], offers[m])
      <4> SUFFICES ASSUME NEW i \in 1 .. (l + 1)
                   PROVE  \E m \in 1 .. n : Shows(q[i], offers[m])
        OBVIOUS
      <4>1. CASE i \in 1 .. l
        <5>1. PICK m \in 1 .. (n - 1) : Shows(p[i], offers[m])
          BY <2>4, <4>1
        <5> QED
          BY <2>5, <3>2, <4>1, <5>1
      <4>2. CASE i = l + 1
        BY <2>7, <3>2, <4>2
      <4> QED
        BY <3>3, <4>1, <4>2
    <3>5. ASSUME NEW i \in 1 .. l, p[i].kind \in RankingKinds, t.kind \in RankingKinds
          PROVE  FALSE
      <4>1. PICK m \in 1 .. (n - 1) : Shows(p[i], offers[m])
        BY <2>4
      <4>2. offers[m].kind \in RankingKinds /\ offers[n].kind \in RankingKinds
        BY <3>1, <3>5, <4>1 DEF Shows
      <4> QED
        BY <1>2, <2>5, <4>2
    <3>6. OneRanking(q)
      <4> SUFFICES ASSUME NEW i \in 1 .. (l + 1), NEW j \in 1 .. (l + 1),
                          q[i].kind \in RankingKinds, q[j].kind \in RankingKinds
                   PROVE  i = j
        BY <3>2 DEF OneRanking
      <4>1. CASE i \in 1 .. l /\ j \in 1 .. l
        BY <2>4, <3>2, <4>1
      <4>2. CASE i \in 1 .. l /\ j = l + 1
        BY <3>2, <3>5, <4>2
      <4>3. CASE i = l + 1 /\ j \in 1 .. l
        BY <3>2, <3>5, <4>3
      <4> QED
        BY <3>3, <4>1, <4>2, <4>3
    <3>7. PageOf(q, offers, n, most)
      <4>1. Len(q) = l + 1 /\ l + 1 <= most
        BY <1>2, <2>7, <3>2
      <4> QED
        BY <3>4, <3>6, <4>1 DEF PageOf
    <3>8. f[n] = q /\ n \in 0 .. N
      BY <2>7, <3>2
    <3> QED
      BY <3>7, <3>8
  <2> QED
    BY <2>2, <2>3, <2>6, <2>7 DEF Grown
<1> HIDE DEF good
<1>5. \A n \in 1 .. N : n - 1 \in good => n \in good
  BY <1>4
<1>6. \A n \in 0 .. N : n \in good
  BY <1>3, <1>5, EveryTurn
<1>7. N \in good
  BY <1>6
<1>8. ASSUME NEW m \in 1 .. N, f[m] # <<>>
      PROVE  f[N] # <<>>
  <2> DEFINE kept == {n \in 0 .. N : n < m \/ f[n] # <<>>}
  <2>1. 0 \in kept
    OBVIOUS
  <2>2. ASSUME NEW n \in 1 .. N, n - 1 \in kept
        PROVE  n \in kept
    <3>1. n < m \/ n = m \/ f[n - 1] # <<>>
      BY <2>2
    <3>2. ASSUME f[n - 1] # <<>> PROVE f[n] # <<>>
      <4>1. n - 1 \in good
        BY <1>6
      <4>2. f[n - 1] \in Seq(Offer)
        BY <4>1 DEF good, PageOf
      <4>3. Grown(f[n], f[n - 1], offers[n], most)
        BY <1>2, <4>2
      <4>4. \A t \in Offer : Append(f[n - 1], t) # <<>>
        BY <4>2, AppendProperties
      <4> QED
        BY <3>2, <4>3, <4>4 DEF Grown, Shows
    <3> QED
      BY <1>8, <3>1, <3>2
  <2> HIDE DEF kept
  <2>3. \A n \in 1 .. N : n - 1 \in kept => n \in kept
    BY <2>2
  <2>4. \A n \in 0 .. N : n \in kept
    BY <2>1, <2>3, EveryTurn
  <2>5. N \in kept
    BY <2>4
  <2> QED
    BY <2>5 DEF kept
<1> QED
  BY <1>1, <1>7, <1>8 DEF good

\* What is kept is shorter when something is not kept, and one when one is.
LEMMA KeepShorter ==
    ASSUME NEW T, NEW s \in Seq(T), NEW S, NEW R \in 1 .. Len(s), s[R] \notin S
    PROVE  Len(Keep(s, S)) < Len(s)
<1>1. PICK k \in Seq(T), l \in Nat : k = Keep(s, S) /\ l = Len(k)
  BY KeepChooses
<1>2. PICK e : Chosen(e, k, s, S, Len(s))
  BY <1>1, KeepChooses
<1>3. /\ e \in [1 .. l -> 1 .. Len(s)] /\ Len(s) \in Nat
      /\ \A i, j \in 1 .. l : i < j => e[i] < e[j]
      /\ \A j \in 1 .. l : s[e[j]] \in S
  BY <1>1, <1>2, RangeIs DEF Chosen
<1>4. \A j \in 1 .. l : e[j] \in (1 .. Len(s)) \ {R}
  BY <1>3
<1>5. \A i, j \in 1 .. l : e[i] = e[j] => i = j
  <2> SUFFICES ASSUME NEW i \in 1 .. l, NEW j \in 1 .. l, i # j
               PROVE  e[i] # e[j]
    OBVIOUS
  <2>1. e[i] \in Int /\ e[j] \in Int
    BY <1>3
  <2>2. i < j \/ j < i
    OBVIOUS
  <2> QED
    BY <1>3, <2>1, <2>2
<1>6. e \in Injection(1 .. l, (1 .. Len(s)) \ {R})
  <2>1. e \in [1 .. l -> (1 .. Len(s)) \ {R}] /\ DOMAIN e = 1 .. l
    BY <1>3, <1>4
  <2> QED
    BY <1>5, <2>1 DEF Injection, IsInjective
<1>7. /\ IsFiniteSet((1 .. Len(s)) \ {R})
      /\ Cardinality((1 .. Len(s)) \ {R}) = Len(s) - 1
  <2>1. IsFiniteSet(1 .. Len(s)) /\ Cardinality(1 .. Len(s)) = Len(s)
    BY <1>3, UpTo
  <2> QED
    BY <2>1, FS_RemoveElement
<1>8. Cardinality(1 .. l) <= Len(s) - 1
  BY <1>6, <1>7, FS_Injection
<1>9. Cardinality(1 .. l) = l
  BY UpTo
<1> QED
  BY <1>1, <1>3, <1>8, <1>9

\* One element is kept if one is in the set.
LEMMA KeepOne ==
    ASSUME NEW T, NEW s \in Seq(T), NEW S, NEW R \in 1 .. Len(s),
           \A i \in 1 .. Len(s) : s[i] \in S <=> i = R
    PROVE  Len(Keep(s, S)) = 1
<1>1. PICK k \in Seq(T), l \in Nat : k = Keep(s, S) /\ l = Len(k)
  BY KeepChooses
<1>2. PICK e : Chosen(e, k, s, S, Len(s))
  BY <1>1, KeepChooses
<1>3. /\ e \in [1 .. l -> 1 .. Len(s)] /\ Len(s) \in Nat
      /\ \A i, j \in 1 .. l : i < j => e[i] < e[j]
      /\ \A j \in 1 .. l : s[e[j]] \in S
      /\ \A i \in 1 .. Len(s) : s[i] \in S => \E j \in 1 .. l : e[j] = i
  BY <1>1, <1>2, RangeIs DEF Chosen
<1>4. \A j \in 1 .. l : e[j] = R
  BY <1>3
<1>5. l < 2
  <2> SUFFICES ASSUME l >= 2 PROVE FALSE
    OBVIOUS
  <2>1. 1 \in 1 .. l /\ 2 \in 1 .. l
    OBVIOUS
  <2>2. e[1] < e[2] /\ e[1] = R /\ e[2] = R /\ R \in Int
    BY <1>3, <1>4, <2>1
  <2> QED
    BY <2>2
<1>6. \E j \in 1 .. l : e[j] = R
  BY <1>3
<1> QED
  BY <1>1, <1>5, <1>6

\* With one ranking at most, the page keeps its sections; the ranking is fifth or last.
Fifth(q) ==
    \A i \in 1 .. Len(q) :
      q[i].kind \in RankingKinds =>
        /\ i = Min({5, Len(q)})
        /\ \A j \in 1 .. Len(q) : j # i => q[j].kind \notin RankingKinds

\* Moving the ranking loses no section, and puts it fifth or last.
LEMMA FifthIs ==
    ASSUME NEW p \in Seq(Offer), OneRanking(p)
    PROVE  /\ RankingFifth(p) \in Seq(Offer) /\ Len(RankingFifth(p)) <= Len(p)
           /\ Range(RankingFifth(p)) \subseteq Range(p) /\ Fifth(RankingFifth(p))
           /\ p # <<>> => RankingFifth(p) # <<>>
<1>1. PICK N \in Nat : N = Len(p)
  BY RangeIs
<1>2. PICK rankings : rankings = {section \in Range(p) : section.kind \in RankingKinds}
  OBVIOUS
<1>3. PICK others \in Seq(Offer) :
        others = Drop(p, rankings) /\ Range(others) = Range(p) \ rankings
  BY DropIs
<1>4. PICK kept \in Seq(Offer) :
        kept = Keep(p, rankings) /\ Range(kept) = Range(p) \cap rankings
  BY KeepIs
<1>5. PICK l \in Nat, c \in Nat : l = Len(others) /\ c = Len(kept)
  BY RangeIs
<1>6. PICK m \in Nat : m = Min({4, l})
  BY MinOfTwo
<1>7. m <= l /\ m <= 4 /\ (m = l \/ m = 4)
  <2>1. Min({4, l}) = IF 4 <= l THEN 4 ELSE l
    BY MinOfTwo
  <2> QED
    BY <1>6, <2>1
<1>8. PICK a \in Seq(Offer) : /\ a = First(m, others) /\ Len(a) = m
                              /\ \A i \in 1 .. m : a[i] = others[i]
  <2>1. PICK a : a = First(m, others)
    OBVIOUS
  <2>2. a \in Seq(Offer) /\ Len(a) = m /\ \A i \in 1 .. Len(a) : a[i] = others[i]
    BY <1>5, <1>7, <2>1, FirstIs
  <2> QED
    BY <2>1, <2>2
<1>9. PICK b \in Seq(Offer) : /\ b = SubSeq(others, m + 1, l) /\ Len(b) = l - m
                              /\ \A i \in 1 .. (l - m) : b[i] = others[m + i]
  <2>1. PICK b : b = SubSeq(others, m + 1, l)
    OBVIOUS
  <2>2. m + 1 \in Nat \ {0} /\ l <= Len(others)
    BY <1>5
  <2>3. /\ SubSeq(others, m + 1, l) \in Seq(Offer)
        /\ Len(SubSeq(others, m + 1, l)) = IF m + 1 <= l THEN l - (m + 1) + 1 ELSE 0
        /\ \A i \in 1 .. l - (m + 1) + 1 : SubSeq(others, m + 1, l)[i] = others[m + 1 + i - 1]
    BY <2>2, SubSeqIs
  <2>4. Len(b) = l - m /\ b \in Seq(Offer)
    BY <1>7, <2>1, <2>3
  <2>5. ASSUME NEW i \in 1 .. (l - m) PROVE b[i] = others[m + i]
    <3>1. i \in 1 .. l - (m + 1) + 1 /\ m + 1 + i - 1 = m + i
      BY <1>7
    <3> QED
      BY <2>1, <2>3, <3>1
  <2> QED
    BY <2>1, <2>4, <2>5
<1>10. PICK q : q = RankingFifth(p)
  OBVIOUS
<1>11. q = (a \o kept) \o b
  BY <1>2, <1>3, <1>4, <1>5, <1>6, <1>8, <1>9, <1>10 DEF RankingFifth
<1>12. PICK d \in Seq(Offer) : /\ d = a \o kept /\ Len(d) = m + c
                               /\ \A i \in 1 .. m : d[i] = others[i]
                               /\ \A i \in 1 .. c : d[m + i] = kept[i]
  <2>1. PICK d : d = a \o kept
    OBVIOUS
  <2>2. /\ a \o kept \in Seq(Offer) /\ Len(a \o kept) = Len(a) + Len(kept)
        /\ \A i \in 1 .. Len(a) : (a \o kept)[i] = a[i]
        /\ \A i \in 1 .. Len(kept) : (a \o kept)[Len(a) + i] = kept[i]
    BY CatIs
  <2>3. /\ d \in Seq(Offer) /\ Len(d) = m + c
        /\ \A i \in 1 .. m : d[i] = a[i]
        /\ \A i \in 1 .. c : d[m + i] = kept[i]
    BY <1>5, <1>8, <2>1, <2>2
  <2>4. \A i \in 1 .. m : d[i] = others[i]
    BY <1>8, <2>3
  <2> QED
    BY <2>1, <2>3, <2>4
<1>13. /\ q \in Seq(Offer) /\ Len(q) = l + c
       /\ \A i \in 1 .. m : q[i] = others[i]
       /\ \A i \in 1 .. c : q[m + i] = kept[i]
       /\ \A i \in 1 .. (l - m) : q[m + c + i] = others[m + i]
  <2>1. /\ d \o b \in Seq(Offer) /\ Len(d \o b) = Len(d) + Len(b)
        /\ \A i \in 1 .. Len(d) : (d \o b)[i] = d[i]
        /\ \A i \in 1 .. Len(b) : (d \o b)[Len(d) + i] = b[i]
    BY CatIs
  <2>2. /\ q \in Seq(Offer) /\ Len(q) = m + c + (l - m)
        /\ \A i \in 1 .. m + c : q[i] = d[i]
        /\ \A i \in 1 .. (l - m) : q[m + c + i] = b[i]
    BY <1>9, <1>11, <1>12, <2>1
  <2>3. \A i \in 1 .. m : q[i] = others[i]
    <3>1. \A i \in 1 .. m : i \in 1 .. m + c
      OBVIOUS
    <3> QED
      BY <1>12, <2>2, <3>1
  <2>4. \A i \in 1 .. c : q[m + i] = kept[i]
    <3>1. \A i \in 1 .. c : m + i \in 1 .. m + c
      OBVIOUS
    <3> QED
      BY <1>12, <2>2, <3>1
  <2>5. \A i \in 1 .. (l - m) : q[m + c + i] = others[m + i]
    BY <1>9, <2>2
  <2>6. m + c + (l - m) = l + c
    OBVIOUS
  <2> QED
    BY <2>2, <2>3, <2>4, <2>5, <2>6
<1>14. \A i \in 1 .. l + c : \/ i \in 1 .. m
                             \/ \E j \in 1 .. c : i = m + j
                             \/ \E j \in 1 .. (l - m) : i = m + c + j
  <2> TAKE i \in 1 .. l + c
  <2>1. PICK j \in Int, k \in Int : j = i - m /\ k = i - (m + c)
    OBVIOUS
  <2>2. i = m + j /\ i = m + c + k
    BY <2>1
  <2>3. i \in 1 .. m \/ j \in 1 .. c \/ k \in 1 .. (l - m)
    BY <1>7, <2>1
  <2> QED
    BY <2>2, <2>3
<1>15. /\ \A i \in 1 .. l : others[i] \in Range(p) /\ others[i].kind \notin RankingKinds
       /\ \A i \in 1 .. c : kept[i] \in Range(p)
  <2>1. /\ \A i \in 1 .. l : others[i] \in Range(others)
        /\ \A i \in 1 .. c : kept[i] \in Range(kept)
    BY <1>5, RangeIs
  <2> QED
    BY <1>2, <1>3, <1>4, <2>1
<1>16. Range(q) \subseteq Range(p)
  <2>1. Range(q) = {q[i] : i \in 1 .. l + c}
    BY <1>13, RangeIs
  <2>2. ASSUME NEW i \in 1 .. l + c PROVE q[i] \in Range(p)
    <3>1. CASE i \in 1 .. m
      BY <1>7, <1>13, <1>15, <3>1
    <3>2. CASE \E j \in 1 .. c : i = m + j
      BY <1>13, <1>15, <3>2
    <3>3. ASSUME NEW j \in 1 .. (l - m), i = m + c + j PROVE q[i] \in Range(p)
      <4>1. m + j \in 1 .. l
        BY <1>7
      <4> QED
        BY <1>13, <1>15, <3>3, <4>1
    <3> QED
      BY <1>14, <3>1, <3>2, <3>3
  <2> QED
    BY <2>1, <2>2
<1>17. Range(p) = {p[i] : i \in 1 .. N} /\ \A i \in 1 .. N : p[i] \in Range(p)
  BY <1>1, RangeIs
<1>18. l + c <= N /\ c <= 1
  <2>1. CASE \A i \in 1 .. N : p[i].kind \notin RankingKinds
    <3>1. Range(kept) = {}
      BY <1>2, <1>4, <1>17, <2>1
    <3>2. c = 0
      BY <1>4, <1>5, <3>1, RangeIs
    <3>3. l <= N
      BY <1>1, <1>3, <1>5, DropIs
    <3> QED
      BY <3>2, <3>3
  <2>2. ASSUME NEW R \in 1 .. N, p[R].kind \in RankingKinds
        PROVE  l + c <= N /\ c <= 1
    <3>1. \A i \in 1 .. N : p[i] \in rankings <=> i = R
      BY <1>1, <1>2, <1>17, <2>2 DEF OneRanking
    <3>2. c = 1
      BY <1>1, <1>4, <1>5, <3>1, KeepOne
    <3>3. p[R] \notin Range(p) \ rankings
      BY <3>1
    <3>4. l < N
      BY <1>1, <1>3, <1>5, <3>3, KeepShorter DEF Drop
    <3> QED
      BY <3>2, <3>4
  <2> QED
    BY <2>1, <2>2
<1>19. ASSUME NEW i \in 1 .. l + c, q[i].kind \in RankingKinds
       PROVE  i = m + 1 /\ c = 1
  <2>1. ASSUME i \in 1 .. m PROVE FALSE
    <3>1. q[i] = others[i] /\ i \in 1 .. l
      BY <1>7, <1>13, <2>1
    <3> QED
      BY <1>15, <1>19, <3>1
  <2>2. ASSUME NEW j \in 1 .. (l - m), i = m + c + j PROVE FALSE
    <3>1. m + j \in 1 .. l
      BY <1>7
    <3> QED
      BY <1>13, <1>15, <1>19, <2>2, <3>1
  <2>3. PICK j \in 1 .. c : i = m + j
    BY <1>14, <2>1, <2>2
  <2> QED
    BY <1>18, <2>3
<1>20. Fifth(q)
  <2> SUFFICES ASSUME NEW i \in 1 .. l + c, q[i].kind \in RankingKinds
               PROVE  /\ i = Min({5, l + c})
                      /\ \A j \in 1 .. l + c : j # i => q[j].kind \notin RankingKinds
    BY <1>13 DEF Fifth
  <2>1. i = m + 1 /\ c = 1 /\ \A j \in 1 .. l + c : q[j].kind \in RankingKinds => j = m + 1
    BY <1>19
  <2>2. PICK k \in Nat : k = l + 1
    OBVIOUS
  <2>3. Min({5, k}) = IF 5 <= k THEN 5 ELSE k
    BY MinOfTwo
  <2>4. l + c = k /\ i = IF 5 <= k THEN 5 ELSE k
    BY <1>7, <2>1, <2>2
  <2> QED
    BY <2>1, <2>3, <2>4
<1>21. ASSUME p # <<>> PROVE q # <<>>
  <2>1. 1 \in 1 .. N
    BY <1>1, <1>21, RangeIs
  <2>2. p[1] \in Range(others) \/ p[1] \in Range(kept)
    BY <1>3, <1>4, <1>17, <2>1
  <2>3. l > 0 \/ c > 0
    BY <1>3, <1>4, <1>5, <2>2, RangeIs
  <2> QED
    BY <1>13, <2>3, RangeIs
<1> QED
  BY <1>1, <1>10, <1>13, <1>16, <1>18, <1>20, <1>21

-----------------------------------------------------------------------------
(* Recommendations.                                                        *)

\* All but one.
LEMMA RemoveAtIs ==
    ASSUME NEW T, NEW s \in Once(T), NEW i \in 1 .. Len(s)
    PROVE  /\ RemoveAt(s, i) \in Once(T) /\ Range(RemoveAt(s, i)) = Range(s) \ {s[i]}
           /\ Len(RemoveAt(s, i)) = Len(s) - 1
<1>1. s \in Seq(T) /\ \A j, k \in 1 .. Len(s) : s[j] = s[k] => j = k
  BY RangeIs DEF Once, IsInjective
<1>2. PICK n \in Nat : n = Len(s)
  BY <1>1, RangeIs
<1>3. Range(s) = {s[j] : j \in 1 .. n} /\ i \in 1 .. n
  BY <1>1, <1>2, RangeIs
<1>4. PICK a : a = SubSeq(s, 1, i - 1)
  OBVIOUS
<1>5. PICK b : b = SubSeq(s, i + 1, n)
  OBVIOUS
<1>6. a \in Seq(T) /\ Len(a) = i - 1 /\ \A j \in 1 .. (i - 1) : a[j] = s[j]
  <2>1. 1 \in Nat \ {0} /\ i - 1 \in Int /\ i - 1 <= Len(s)
    BY <1>2, <1>3
  <2>2. /\ SubSeq(s, 1, i - 1) \in Seq(T)
        /\ Len(SubSeq(s, 1, i - 1)) = IF 1 <= i - 1 THEN i - 1 - 1 + 1 ELSE 0
        /\ \A j \in 1 .. i - 1 - 1 + 1 : SubSeq(s, 1, i - 1)[j] = s[1 + j - 1]
    BY <1>1, <2>1, SubSeqIs
  <2> QED
    BY <1>3, <1>4, <2>2
<1>7. b \in Seq(T) /\ Len(b) = n - i /\ \A j \in 1 .. (n - i) : b[j] = s[i + j]
  <2>1. i + 1 \in Nat \ {0} /\ n \in Int /\ n <= Len(s)
    BY <1>2, <1>3
  <2>2. /\ SubSeq(s, i + 1, n) \in Seq(T)
        /\ Len(SubSeq(s, i + 1, n)) = IF i + 1 <= n THEN n - (i + 1) + 1 ELSE 0
        /\ \A j \in 1 .. n - (i + 1) + 1 : SubSeq(s, i + 1, n)[j] = s[i + 1 + j - 1]
    BY <1>1, <2>1, SubSeqIs
  <2>3. b \in Seq(T) /\ Len(b) = n - i
    BY <1>3, <1>5, <2>2
  <2>4. ASSUME NEW j \in 1 .. (n - i) PROVE b[j] = s[i + j]
    <3>1. j \in 1 .. n - (i + 1) + 1 /\ i + 1 + j - 1 = i + j
      BY <1>3
    <3> QED
      BY <1>5, <2>2, <3>1
  <2> QED
    BY <2>3, <2>4
<1>8. Range(a) = {s[j] : j \in 1 .. (i - 1)}
  <2>1. Range(a) = {a[j] : j \in 1 .. (i - 1)}
    BY <1>6, RangeIs
  <2> QED
    BY <1>6, <2>1
<1>9. Range(b) = {s[j] : j \in (i + 1) .. n}
  <2>1. Range(b) = {b[j] : j \in 1 .. (n - i)}
    BY <1>7, RangeIs
  <2>2. ASSUME NEW k \in (i + 1) .. n PROVE s[k] \in Range(b)
    <3>1. PICK j \in Int : j = k - i
      BY <1>3
    <3>2. j \in 1 .. (n - i) /\ k = i + j
      BY <1>3, <3>1
    <3>3. b[j] = s[k]
      BY <1>7, <3>2
    <3> QED
      BY <2>1, <3>2, <3>3
  <2>3. ASSUME NEW j \in 1 .. (n - i) PROVE b[j] \in {s[k] : k \in (i + 1) .. n}
    <3>1. i + j \in (i + 1) .. n
      BY <1>3
    <3> QED
      BY <1>7, <3>1
  <2> QED
    BY <2>1, <2>2, <2>3
<1>10. IsInjective(a)
  <2>1. DOMAIN a = 1 .. (i - 1) /\ \A j \in 1 .. (i - 1) : j \in 1 .. n
    BY <1>3, <1>6, RangeIs
  <2> QED
    BY <1>1, <1>2, <1>6, <2>1 DEF IsInjective
<1>11. IsInjective(b)
  <2>1. DOMAIN b = 1 .. (n - i)
    BY <1>7, RangeIs
  <2> SUFFICES ASSUME NEW j \in 1 .. (n - i), NEW k \in 1 .. (n - i), b[j] = b[k]
               PROVE  j = k
    BY <2>1 DEF IsInjective
  <2>2. i + j \in 1 .. n /\ i + k \in 1 .. n /\ s[i + j] = s[i + k]
    BY <1>3, <1>7
  <2>3. i + j = i + k
    BY <1>1, <1>2, <2>2
  <2> QED
    BY <1>3, <2>3
<1>12. Range(a) \cap Range(b) = {} /\ Range(a) \cup Range(b) = Range(s) \ {s[i]}
  <2>1. \A j \in 1 .. n : j \in 1 .. (i - 1) \/ j = i \/ j \in (i + 1) .. n
    BY <1>3
  <2>2. /\ \A j \in 1 .. (i - 1) : j \in 1 .. n /\ j # i
        /\ \A j \in (i + 1) .. n : j \in 1 .. n /\ j # i
        /\ \A j \in 1 .. (i - 1), k \in (i + 1) .. n : j # k
    BY <1>3
  <2>3. \A x \in Range(a) \cup Range(b) : x \in Range(s) /\ x # s[i]
    BY <1>1, <1>2, <1>3, <1>8, <1>9, <2>2
  <2>4. \A x \in Range(s) : x # s[i] => x \in Range(a) \cup Range(b)
    BY <1>3, <1>8, <1>9, <2>1
  <2>5. \A x \in Range(a) : x \notin Range(b)
    BY <1>1, <1>2, <1>8, <1>9, <2>2
  <2> QED
    BY <2>3, <2>4, <2>5
<1>13. RemoveAt(s, i) = a \o b
  BY <1>2, <1>4, <1>5 DEF RemoveAt
<1>14. a \o b \in Seq(T) /\ Len(a \o b) = Len(a) + Len(b)
  BY <1>6, <1>7, CatIs
<1>15. a \o b \in Once(T) /\ Range(a \o b) = Range(a) \cup Range(b)
  BY <1>6, <1>7, <1>10, <1>11, <1>12, OnceCat DEF Once
<1> QED
  BY <1>2, <1>3, <1>6, <1>7, <1>12, <1>13, <1>14, <1>15

\* The choice of _diversify_books, and one turn of its loop.
Picked(done, rest) ==
    LET fit == {i \in DOMAIN rest : ~TooMany(done, rest[i])}
    IN  IF fit = {} THEN 1 ELSE Min(fit)
Moved(x) ==
    [done |-> Append(x.done, x.rest[Picked(x.done, x.rest)]),
     rest |-> RemoveAt(x.rest, Picked(x.done, x.rest))]

\* Three books of one author in a row: then so is what follows, and all in R.
Varied(done, R) ==
    \A i \in 3 .. Len(done) :
      /\ AuthorOf[done[i]] # None
      /\ AuthorOf[done[i - 1]] = AuthorOf[done[i]] /\ AuthorOf[done[i - 2]] = AuthorOf[done[i]]
      => /\ \A j \in i .. Len(done) : AuthorOf[done[j]] = AuthorOf[done[i]]
         /\ \A b \in R : AuthorOf[b] = AuthorOf[done[i]]

\* The book that is picked is one of the rest, a third of its author only if all are.
LEMMA PickedIs ==
    ASSUME NEW done, NEW rest \in Seq(Books), rest # <<>>
    PROVE  /\ Picked(done, rest) \in 1 .. Len(rest)
           /\ TooMany(done, rest[Picked(done, rest)])
                => \A k \in 1 .. Len(rest) : TooMany(done, rest[k])
<1>1. PICK fit : fit = {i \in 1 .. Len(rest) : ~TooMany(done, rest[i])}
  OBVIOUS
<1>2. Len(rest) \in Nat /\ 1 \in 1 .. Len(rest) /\ DOMAIN rest = 1 .. Len(rest)
  BY RangeIs
<1>3. Picked(done, rest) = IF fit = {} THEN 1 ELSE Min(fit)
  BY <1>1, <1>2 DEF Picked
<1>4. CASE fit = {}
  BY <1>1, <1>2, <1>3, <1>4
<1>5. CASE fit # {}
  <2>1. fit \subseteq Nat
    BY <1>1
  <2>2. Min(fit) \in fit
    BY <1>5, <2>1, MinIs
  <2> QED
    BY <1>1, <1>3, <1>5, <2>2
<1> QED
  BY <1>4, <1>5

\* Picking it keeps the books varied.
LEMMA VariedMore ==
    ASSUME NEW done \in Seq(Books), NEW rest \in Seq(Books), rest # <<>>,
           Varied(done, Range(rest))
    PROVE  Varied(Append(done, rest[Picked(done, rest)]), Range(rest))
<1>1. PICK k \in 1 .. Len(rest) :
        /\ k = Picked(done, rest)
        /\ TooMany(done, rest[k]) => \A l \in 1 .. Len(rest) : TooMany(done, rest[l])
  BY PickedIs
<1>2. PICK b \in Books : b = rest[k] /\ b \in Range(rest)
  BY <1>1, RangeIs
<1>3. PICK n \in Nat : n = Len(done)
  BY RangeIs
<1>4. PICK d : d = Append(done, b)
  OBVIOUS
<1>5. d \in Seq(Books) /\ Len(d) = n + 1 /\ d[n + 1] = b /\ \A i \in 1 .. n : d[i] = done[i]
  BY <1>3, <1>4, AppendProperties
<1>6. \A x \in Range(rest) : \E l \in 1 .. Len(rest) : x = rest[l]
  BY RangeIs
<1> SUFFICES Varied(d, Range(rest))
  BY <1>1, <1>2, <1>4
<1> SUFFICES ASSUME NEW i \in 3 .. n + 1, AuthorOf[d[i]] # None,
                    AuthorOf[d[i - 1]] = AuthorOf[d[i]], AuthorOf[d[i - 2]] = AuthorOf[d[i]]
             PROVE  /\ \A j \in i .. n + 1 : AuthorOf[d[j]] = AuthorOf[d[i]]
                    /\ \A x \in Range(rest) : AuthorOf[x] = AuthorOf[d[i]]
  BY <1>5 DEF Varied
<1>7. CASE i <= n
  <2>1. i \in 3 .. n /\ i \in 1 .. n /\ i - 1 \in 1 .. n /\ i - 2 \in 1 .. n
    BY <1>7
  <2>2. d[i] = done[i] /\ d[i - 1] = done[i - 1] /\ d[i - 2] = done[i - 2]
    BY <1>5, <2>1
  <2>3. /\ \A j \in i .. n : AuthorOf[done[j]] = AuthorOf[done[i]]
        /\ \A x \in Range(rest) : AuthorOf[x] = AuthorOf[done[i]]
    BY <1>3, <2>1, <2>2 DEF Varied
  <2>4. ASSUME NEW j \in i .. n + 1 PROVE AuthorOf[d[j]] = AuthorOf[d[i]]
    <3>1. j = n + 1 \/ (j \in i .. n /\ j \in 1 .. n)
      OBVIOUS
    <3>2. CASE j = n + 1
      BY <1>2, <1>5, <2>2, <2>3, <3>2
    <3>3. CASE j \in i .. n /\ j \in 1 .. n
      BY <1>5, <2>2, <2>3, <3>3
    <3> QED
      BY <3>1, <3>2, <3>3
  <2> QED
    BY <2>2, <2>3, <2>4
<1>8. CASE i = n + 1
  <2>1. n >= 2 /\ n \in 1 .. n /\ n - 1 \in 1 .. n /\ i - 1 = n /\ i - 2 = n - 1
    BY <1>8
  <2>2. d[i] = b /\ d[i - 1] = done[n] /\ d[i - 2] = done[n - 1]
    BY <1>5, <1>8, <2>1
  <2>3. \A j \in (n - 1) .. n : j = n - 1 \/ j = n
    OBVIOUS
  <2>4. TooMany(done, b)
    BY <1>3, <2>1, <2>2, <2>3 DEF TooMany
  <2>5. \A l \in 1 .. Len(rest) : TooMany(done, rest[l])
    BY <1>1, <1>2, <2>4
  <2>6. n \in (Len(done) - 1) .. Len(done)
    BY <1>3
  <2>7. \A l \in 1 .. Len(rest) : AuthorOf[done[n]] = AuthorOf[rest[l]]
    BY <2>5, <2>6 DEF TooMany
  <2>8. \A x \in Range(rest) : AuthorOf[x] = AuthorOf[d[i]]
    BY <1>6, <2>2, <2>7
  <2>9. \A j \in i .. n + 1 : j = i
    BY <1>8
  <2> QED
    BY <2>8, <2>9
<1> QED
  BY <1>7, <1>8

\* What the loop keeps: its books, each once, and varied.
Halfway(x, s, n) ==
    /\ x.done \in Once(Books) /\ x.rest \in Once(Books)
    /\ Range(x.done) \cap Range(x.rest) = {}
    /\ Range(x.done) \cup Range(x.rest) = Range(s)
    /\ Len(x.done) = n /\ Len(x.rest) = Len(s) - n
    /\ Varied(x.done, Range(x.rest))

\* So does a turn of the loop.
LEMMA MovedIs ==
    ASSUME NEW s \in Once(Books), NEW n \in 1 .. Len(s), NEW x, Halfway(x, s, n - 1)
    PROVE  Halfway(Moved(x), s, n)
<1>1. PICK done \in Once(Books), rest \in Once(Books) : done = x.done /\ rest = x.rest
  BY DEF Halfway
<1>2. done \in Seq(Books) /\ IsInjective(done) /\ rest \in Seq(Books) /\ s \in Seq(Books)
  BY DEF Once
<1>3. /\ Range(done) \cap Range(rest) = {} /\ Range(done) \cup Range(rest) = Range(s)
      /\ Len(done) = n - 1 /\ Len(rest) = Len(s) - (n - 1)
      /\ Varied(done, Range(rest))
  BY <1>1 DEF Halfway
<1>4. Len(s) \in Nat
  BY <1>2, RangeIs
<1>5. rest # <<>>
  BY <1>2, <1>3, <1>4
<1>6. PICK i \in 1 .. Len(rest) : i = Picked(done, rest)
  BY <1>2, <1>5, PickedIs
<1>7. PICK b \in Books : b = rest[i] /\ b \in Range(rest)
  BY <1>2, RangeIs
<1>8. PICK d : d = Append(done, b)
  OBVIOUS
<1>9. PICK r : r = RemoveAt(rest, i)
  OBVIOUS
<1>10. /\ d \in Seq(Books) /\ IsInjective(d) /\ Range(d) = Range(done) \cup {b}
       /\ Len(d) = n - 1 + 1
  BY <1>2, <1>3, <1>7, <1>8, AppendIs
<1>11. r \in Once(Books) /\ Range(r) = Range(rest) \ {b} /\ Len(r) = Len(s) - (n - 1) - 1
  BY <1>3, <1>7, <1>9, RemoveAtIs
<1>12. Varied(d, Range(rest))
  BY <1>2, <1>3, <1>5, <1>6, <1>7, <1>8, VariedMore
<1>13. Varied(d, Range(r))
  BY <1>11, <1>12 DEF Varied
<1>14. Moved(x) = [done |-> d, rest |-> r]
  BY <1>1, <1>6, <1>7, <1>8, <1>9 DEF Moved
<1>15. Moved(x).done = d /\ Moved(x).rest = r
  BY <1>14
<1>16. Range(d) \cap Range(r) = {} /\ Range(d) \cup Range(r) = Range(s)
  BY <1>3, <1>7, <1>10, <1>11
<1>17. Len(d) = n /\ Len(r) = Len(s) - n
  BY <1>4, <1>10, <1>11
<1> QED
  BY <1>10, <1>11, <1>13, <1>15, <1>16, <1>17 DEF Halfway, Once

\* All its books, each once; three in a row of one author only where no other is left.
LEMMA DiversifiedIs ==
    ASSUME NEW s \in Once(Books)
    PROVE  /\ Diversified(s) \in Once(Books) /\ Range(Diversified(s)) = Range(s)
           /\ Len(Diversified(s)) = Len(s) /\ Varied(Diversified(s), {})
<1> DEFINE N == Len(s)
           X == [done : Seq(Books), rest : Seq(Books)]
           start == [done |-> <<>>, rest |-> s]
           turn == [n \in 1 .. N |-> [x \in X |->
                      IF Halfway(x, s, n - 1) THEN Moved(x) ELSE x]]
           after[n \in 0 .. N] == IF n = 0 THEN start ELSE Moved(after[n - 1])
<1>1. s \in Seq(Books) /\ IsInjective(s) /\ N \in Nat
  BY RangeIs DEF Once
<1>2. start \in X /\ Halfway(start, s, 0)
  <2>1. start.done = <<>> /\ start.rest = s /\ start \in X
    BY <1>1
  <2>2. <<>> \in Once(Books) /\ Range(<<>>) = {} /\ Len(<<>>) = 0
    BY DEF Once, IsInjective, Range
  <2>3. Varied(<<>>, Range(s))
    BY <2>2 DEF Varied
  <2> HIDE DEF start
  <2> QED
    BY <1>1, <2>1, <2>2, <2>3 DEF Halfway
<1>3. ASSUME NEW n \in 1 .. N, NEW x \in X, Halfway(x, s, n - 1)
      PROVE  Moved(x) \in X /\ Halfway(Moved(x), s, n)
  <2>1. Halfway(Moved(x), s, n)
    BY <1>3, MovedIs
  <2>2. Moved(x).done \in Seq(Books) /\ Moved(x).rest \in Seq(Books)
    BY <2>1 DEF Halfway, Once
  <2>3. PICK d, r : Moved(x) = [done |-> d, rest |-> r]
    BY DEF Moved
  <2>4. Moved(x).done = d /\ Moved(x).rest = r
    BY <2>3
  <2> QED
    BY <2>1, <2>2, <2>3, <2>4
<1>4. Diversified(s) = after[N].done
  BY DEF Diversified, Moved, Picked
<1> HIDE DEF start, N, X
<1>5. \E f : f = [n \in 0 .. N |-> IF n = 0 THEN start ELSE Moved(f[n - 1])]
  <2>1. turn \in [1 .. N -> [X -> X]]
    <3>1. \A n \in 1 .. N, x \in X : (IF Halfway(x, s, n - 1) THEN Moved(x) ELSE x) \in X
      BY <1>3
    <3> QED
      BY <3>1
  <2>2. PICK f \in [0 .. N -> X] :
          f[0] = start /\ \A n \in 1 .. N : f[n] = turn[n][f[n - 1]]
    <3> HIDE DEF turn
    <3>1. Loop(turn, N, X)
      BY <1>1, <2>1 DEF Loop
    <3>2. PICK f : Run(f, start, turn, N, X)
      BY <1>1, <1>2, <3>1, LoopRuns
    <3> QED
      BY <3>2 DEF Run
  <2>3. \A n \in 1 .. N : f[n - 1] \in X
    BY <1>1
  <2>4. \A n \in 1 .. N :
          f[n] = IF Halfway(f[n - 1], s, n - 1) THEN Moved(f[n - 1]) ELSE f[n - 1]
    BY <2>2, <2>3
  <2> HIDE DEF turn
  <2> DEFINE good == {n \in 0 .. N : Halfway(f[n], s, n)}
  <2>5. 0 \in good
    BY <1>1, <1>2, <2>2
  <2>6. ASSUME NEW n \in 1 .. N, n - 1 \in good PROVE n \in good
    <3>1. Halfway(f[n - 1], s, n - 1)
      BY <2>6
    <3>2. Halfway(Moved(f[n - 1]), s, n)
      BY <1>3, <2>3, <3>1
    <3> QED
      BY <1>1, <2>4, <3>1, <3>2
  <2> HIDE DEF good
  <2>7. \A n \in 1 .. N : n - 1 \in good => n \in good
    BY <2>6
  <2>8. \A n \in 0 .. N : n \in good
    BY <1>1, <2>5, <2>7, EveryTurn
  <2>9. \A n \in 1 .. N : f[n] = Moved(f[n - 1])
    <3> TAKE n \in 1 .. N
    <3>1. n - 1 \in good
      BY <1>1, <2>8
    <3> QED
      BY <2>4, <3>1 DEF good
  <2>10. f = [n \in 0 .. N |-> f[n]]
    OBVIOUS
  <2>11. \A n \in 0 .. N : n = 0 \/ n \in 1 .. N
    BY <1>1
  <2>12. \A n \in 0 .. N : f[n] = IF n = 0 THEN start ELSE Moved(f[n - 1])
    BY <2>2, <2>9, <2>11
  <2>13. f = [n \in 0 .. N |-> IF n = 0 THEN start ELSE Moved(f[n - 1])]
    BY <2>10, <2>12
  <2> QED
    BY <2>13
<1>6. after = [n \in 0 .. N |-> IF n = 0 THEN start ELSE Moved(after[n - 1])]
  BY <1>5
<1>7. after[0] = start /\ \A n \in 1 .. N : after[n] = Moved(after[n - 1])
  <2> HIDE DEF after
  <2>1. 0 \in 0 .. N /\ \A n \in 1 .. N : n \in 0 .. N /\ n # 0
    BY <1>1
  <2> QED
    BY <1>6, <2>1
<1> HIDE DEF after
<1> DEFINE good == {n \in 0 .. N : Halfway(after[n], s, n)}
<1>8. 0 \in good
  BY <1>1, <1>2, <1>7
<1>9. ASSUME NEW n \in 1 .. N, n - 1 \in good PROVE n \in good
  <2>1. Halfway(after[n - 1], s, n - 1)
    BY <1>9
  <2>2. Halfway(Moved(after[n - 1]), s, n)
    BY <2>1, MovedIs DEF N
  <2> QED
    BY <1>1, <1>7, <2>2
<1> HIDE DEF good
<1>10. \A n \in 1 .. N : n - 1 \in good => n \in good
  BY <1>9
<1>11. \A n \in 0 .. N : n \in good
  BY <1>1, <1>8, <1>10, EveryTurn
<1>12. N \in good
  BY <1>1, <1>11
<1>13. Halfway(after[N], s, N)
  BY <1>12 DEF good
<1>14. PICK d \in Once(Books), r \in Once(Books) : d = after[N].done /\ r = after[N].rest
  BY <1>13 DEF Halfway
<1>15. /\ Range(d) \cup Range(r) = Range(s) /\ Len(d) = N /\ Len(r) = Len(s) - N
       /\ Varied(d, Range(r))
  BY <1>13, <1>14 DEF Halfway
<1>16. Range(r) = {}
  <2>1. r \in Seq(Books) /\ Len(r) = N - N
    BY <1>15 DEF Once, N
  <2>2. Len(r) = 0
    BY <1>1, <2>1
  <2>3. Range(r) = {r[i] : i \in 1 .. Len(r)}
    BY <2>1, RangeIs
  <2> QED
    BY <2>2, <2>3
<1> QED
  BY <1>4, <1>14, <1>15, <1>16 DEF N

\* Lists of books, each once, without the book they are recommended for.
Without(target) == {s \in Once(Books) : target \notin Range(s)}

\* Completing a list repeats nothing.
LEMMA AppendUntilIs ==
    ASSUME NEW target, NEW s \in Without(target), NEW t \in Without(target), NEW n \in Int
    PROVE  AppendUntil(s, t, n) \in Without(target)
<1>1. /\ s \in Once(Books) /\ t \in Once(Books)
      /\ target \notin Range(s) /\ target \notin Range(t)
  BY DEF Without
<1>2. Len(s) \in Nat
  BY <1>1, RangeIs DEF Once
<1>3. PICK new \in Once(Books) : new = Drop(t, Range(s)) /\ Range(new) = Range(t) \ Range(s)
  BY <1>1, OnceKept
<1>4. PICK missing \in Int : missing = IF n > Len(s) THEN n - Len(s) ELSE 1
  BY <1>2
<1>5. PICK f \in Once(Books) : f = First(missing, new) /\ Range(f) \subseteq Range(new)
  BY OnceKept
<1>6. AppendUntil(s, t, n) = s \o f
  BY <1>3, <1>4, <1>5 DEF AppendUntil
<1>7. Range(s) \cap Range(f) = {} /\ target \notin Range(s) \cup Range(f)
  BY <1>1, <1>3, <1>5
<1>8. s \o f \in Once(Books) /\ Range(s \o f) = Range(s) \cup Range(f)
  BY <1>1, <1>7, OnceCat
<1> QED
  BY <1>6, <1>7, <1>8 DEF Without

\* The newest of a set of books, and those newest ranked.
LEMMA NewestWithout ==
    ASSUME NEW target, NEW S, target \notin S, NEW n \in Int
    PROVE  /\ First(n, NewestFirst(S)) \in Without(target)
           /\ \A weight : DOMAIN weight \subseteq Range(First(n, NewestFirst(S)))
                => RankedNewest(weight) \in Without(target)
<1>1. NewestFirst(S) \in Once(Books) /\ Range(NewestFirst(S)) = S \cap Books
  BY InOrder
<1>2. PICK f \in Once(Books) : /\ f = First(n, NewestFirst(S))
                               /\ Range(f) \subseteq Range(NewestFirst(S))
  BY <1>1, OnceKept
<1>3. target \notin Range(f)
  BY <1>1, <1>2
<1>4. ASSUME NEW weight, DOMAIN weight \subseteq Range(f)
      PROVE  RankedNewest(weight) \in Without(target)
  <2>1. /\ RankedNewest(weight) \in Once(Books)
        /\ Range(RankedNewest(weight)) = DOMAIN weight \cap Books
    BY RankedIs
  <2> QED
    BY <1>3, <1>4, <2>1 DEF Without
<1> QED
  BY <1>2, <1>3, <1>4 DEF Without

\* A ranking of loans of other books.
LEMMA MostLentWithout ==
    ASSUME NEW target, NEW rows, \A l \in rows : LentBook(l) # target, NEW n \in Int
    PROVE  First(n, MostLent(rows)) \in Without(target)
<1>1. /\ MostLent(rows) \in Once(Books)
      /\ Range(MostLent(rows)) \subseteq {LentBook(l) : l \in rows}
  BY MostLentIs
<1>2. /\ First(n, MostLent(rows)) \in Once(Books)
      /\ Range(First(n, MostLent(rows))) \subseteq Range(MostLent(rows))
  BY <1>1, OnceKept
<1>3. target \notin {LentBook(l) : l \in rows}
  OBVIOUS
<1> QED
  BY <1>1, <1>2, <1>3 DEF Without

\* The three layers never name the book they are for.
LEMMA AffinityIs ==
    ASSUME NEW v, NEW target, NEW quota \in Int
    PROVE  Affinity(v, target, quota) \in Without(target)
<1>1. PICK similar : similar = {l \in SimilarLoans(v.user) : LentBook(l) # target}
  OBVIOUS
<1>2. PICK borrowed \in Without(target) : borrowed = First(2 * quota, MostLent(similar))
  <2>1. 2 * quota \in Int /\ \A l \in similar : LentBook(l) # target
    BY <1>1
  <2>2. First(2 * quota, MostLent(similar)) \in Without(target)
    BY <2>1, MostLentWithout
  <2> QED
    BY <2>2
<1>3. Len(borrowed) \in Nat
  BY RangeIs DEF Without, Once
<1>4. PICK own : own = {b \in Visible(v) \ {target} : Akin(b, History(v.user))}
  OBVIOUS
<1>5. target \notin own
  BY <1>4
<1>6. PICK n \in Int : n = 2 * (quota - Len(borrowed))
  BY <1>3
<1>7. PICK newest : newest = First(n, NewestFirst(own))
  OBVIOUS
<1>8. PICK weight : weight = [b \in Range(newest) |-> Taste(v.user, b)]
  OBVIOUS
<1>9. RankedNewest(weight) \in Without(target)
  <2>1. DOMAIN weight \subseteq Range(First(n, NewestFirst(own)))
    BY <1>7, <1>8
  <2> QED
    BY <1>5, <2>1, NewestWithout
<1>10. Affinity(v, target, quota) =
         IF Len(borrowed) >= quota THEN borrowed
         ELSE AppendUntil(borrowed, RankedNewest(weight), quota)
  BY <1>1, <1>2, <1>4, <1>6, <1>7, <1>8 DEF Affinity
<1>11. AppendUntil(borrowed, RankedNewest(weight), quota) \in Without(target)
  BY <1>9, AppendUntilIs
<1> QED
  BY <1>10, <1>11

\* The second layer.
LEMMA ContextIs ==
    ASSUME NEW v, NEW target, NEW quota \in Int
    PROVE  Context(v, target, quota) \in Without(target)
<1>1. PICK newest : newest = First(3 * quota, NewestFirst(AkinVisible(v, target)))
  OBVIOUS
<1>2. PICK weight : weight = [b \in Range(newest) |-> Likeness(b, target)]
  OBVIOUS
<1>3. Context(v, target, quota) = RankedNewest(weight)
  BY <1>1, <1>2 DEF Context
<1>4. target \notin AkinVisible(v, target) /\ 3 * quota \in Int
  BY DEF AkinVisible
<1>5. DOMAIN weight \subseteq Range(First(3 * quota, NewestFirst(AkinVisible(v, target))))
  BY <1>1, <1>2
<1> QED
  BY <1>3, <1>4, <1>5, NewestWithout

\* The third layer.
LEMMA TrendsIs ==
    ASSUME NEW v, NEW target, NEW quota \in Int
    PROVE  Trends(v, target, quota) \in Without(target)
<1>1. PICK lent : lent = MostLent({l \in Lent : loans[l].age = 0})
  OBVIOUS
<1>2. lent \in Once(Books)
  BY <1>1, MostLentIs
<1>3. 3 * quota \in Int
  OBVIOUS
<1>4. PICK f \in Once(Books) : f = First(3 * quota, lent)
  BY <1>2, <1>3, OnceKept
<1>5. Trends(v, target, quota) = Keep(f, Visible(v) \ {target})
  BY <1>1, <1>4 DEF Trends
<1>6. /\ Keep(f, Visible(v) \ {target}) \in Once(Books)
      /\ Range(Keep(f, Visible(v) \ {target})) = Range(f) \cap (Visible(v) \ {target})
  BY OnceKept
<1> QED
  BY <1>5, <1>6 DEF Without

\* What is recommended to an account and to a guest.
LEMMA AccountRecommendationsAre ==
    ASSUME NEW v, NEW target, NEW limit \in Nat \ {0}
    PROVE  /\ AccountRecommendations(v, target, limit) \in Without(target)
           /\ Len(AccountRecommendations(v, target, limit)) <= limit
           /\ Varied(AccountRecommendations(v, target, limit), {})
<1>1. limit \in Nat
  BY NumbersAre
<1>2. PICK affinity \in Int, context \in Int :
        affinity = limit \div 2 /\ context = (limit * 3) \div 10
  BY <1>1
<1>3. PICK own \in Without(target) : own = Affinity(v, target, affinity)
  BY AffinityIs
<1>4. PICK akin \in Without(target) :
        akin = AppendUntil(own, Context(v, target, context), affinity + context)
  <2>1. Context(v, target, context) \in Without(target)
    BY ContextIs
  <2>2. affinity + context \in Int
    OBVIOUS
  <2> QED
    BY <2>1, <2>2, AppendUntilIs
<1>5. PICK all \in Without(target) :
        all = AppendUntil(akin, Trends(v, target, limit - affinity - context), limit)
  <2>1. limit - affinity - context \in Int /\ limit \in Int
    BY <1>1
  <2>2. Trends(v, target, limit - affinity - context) \in Without(target)
    BY <2>1, TrendsIs
  <2> QED
    BY <2>1, <2>2, AppendUntilIs
<1>6. all \in Once(Books) /\ target \notin Range(all) /\ Len(all) \in Nat
  BY RangeIs DEF Without, Once
<1>7. PICK more : more = AkinVisible(v, target) \ Range(all)
  OBVIOUS
<1>8. PICK f \in Without(target) :
        f = First(limit - Len(all), NewestFirst(more)) /\ Range(f) \cap Range(all) = {}
  <2>1. target \notin more /\ limit - Len(all) \in Int
    BY <1>1, <1>6, <1>7 DEF AkinVisible
  <2>2. First(limit - Len(all), NewestFirst(more)) \in Without(target)
    BY <2>1, NewestWithout
  <2>3. NewestFirst(more) \in Once(Books) /\ Range(NewestFirst(more)) = more \cap Books
    BY InOrder
  <2>4. Range(First(limit - Len(all), NewestFirst(more))) \subseteq Range(NewestFirst(more))
    BY <2>1, <2>3, OnceKept
  <2>5. Range(First(limit - Len(all), NewestFirst(more))) \cap Range(all) = {}
    BY <1>7, <2>3, <2>4
  <2> QED
    BY <2>2, <2>5
<1>9. PICK s \in Without(target) : s = IF Len(all) < limit THEN all \o f ELSE all
  <2>1. f \in Once(Books) /\ target \notin Range(f)
    BY DEF Without
  <2>2. all \o f \in Once(Books) /\ Range(all \o f) = Range(all) \cup Range(f)
    BY <1>6, <1>8, <2>1, OnceCat
  <2>3. all \o f \in Without(target)
    BY <1>6, <2>1, <2>2 DEF Without
  <2> QED
    BY <2>3
<1>10. PICK cut \in Without(target) : cut = First(limit, s) /\ Len(cut) <= limit
  <2>1. s \in Once(Books) /\ target \notin Range(s) /\ limit \in Int
    BY <1>1 DEF Without
  <2>2. /\ First(limit, s) \in Once(Books)
        /\ Range(First(limit, s)) \subseteq Range(s)
    BY <2>1, OnceKept
  <2>3. s \in Seq(Books) /\ Len(s) \in Nat
    BY <2>1, RangeIs DEF Once
  <2>4. Len(First(limit, s)) = IF limit < 0 THEN 0 ELSE IF limit <= Len(s) THEN limit ELSE Len(s)
    BY <2>1, <2>3, FirstIs
  <2>5. Len(First(limit, s)) <= limit
    BY <1>1, <2>3, <2>4
  <2> QED
    BY <2>1, <2>2, <2>5 DEF Without
<1>11. AccountRecommendations(v, target, limit) = Diversified(cut)
  BY <1>2, <1>3, <1>4, <1>5, <1>7, <1>8, <1>9, <1>10 DEF AccountRecommendations, Completed
<1>12. cut \in Once(Books) /\ target \notin Range(cut)
  BY DEF Without
<1>13. /\ Diversified(cut) \in Once(Books) /\ Range(Diversified(cut)) = Range(cut)
       /\ Len(Diversified(cut)) = Len(cut) /\ Varied(Diversified(cut), {})
  BY <1>12, DiversifiedIs
<1> QED
  BY <1>10, <1>11, <1>12, <1>13 DEF Without

\* What a guest is recommended is in her sight.
LEMMA GuestRecommendationsAre ==
    ASSUME NEW v, NEW target, NEW limit \in RecommendationLimits
    PROVE  /\ GuestRecommendations(v, target, limit) \in Without(target)
           /\ Range(GuestRecommendations(v, target, limit)) \subseteq Visible(v)
           /\ Len(GuestRecommendations(v, target, limit)) <= limit
<1>1. limit \in Nat /\ limit \in Int
  BY NumbersAre
<1>2. PICK s \in Once(Books) : /\ s = OldestFirst(AkinVisible(v, target))
                               /\ Range(s) = AkinVisible(v, target) \cap Books
  BY InOrder
<1>3. GuestRecommendations(v, target, limit) = First(limit, s)
  BY <1>2 DEF GuestRecommendations
<1>4. First(limit, s) \in Once(Books) /\ Range(First(limit, s)) \subseteq Range(s)
  BY <1>1, <1>2, OnceKept
<1>5. AkinVisible(v, target) \subseteq Visible(v) \ {target}
  BY DEF AkinVisible
<1>6. s \in Seq(Books) /\ Len(s) \in Nat
  BY RangeIs DEF Once
<1>7. Len(First(limit, s)) = IF limit < 0 THEN 0 ELSE IF limit <= Len(s) THEN limit ELSE Len(s)
  BY <1>1, <1>6, FirstIs
<1>8. Len(First(limit, s)) <= limit
  BY <1>1, <1>6, <1>7
<1>9. target \notin Range(First(limit, s)) /\ Range(First(limit, s)) \subseteq Visible(v)
  BY <1>2, <1>4, <1>5
<1> QED
  BY <1>3, <1>4, <1>8, <1>9 DEF Without

\* The roles of those who look.
LEMMA RolesAre ==
    /\ \A v \in Guests : v.role = "guest"
    /\ \A v \in Staff : v.role \in {"super_admin", "librarian"}
    /\ \A v \in Students : v.role = "reader"
    /\ \A v \in Accounts : v.role # "guest"
  BY DEF Guests, Staff, Students, Accounts, Guest, SuperAdmin, Librarian, Reader, Viewer

\* Whatever the tables hold, recommendations never repeat a book, nor name the one they
\* are for, and stay diverse: get_recommendations and _diversify_books of
\* src/src/routers/books.py.
THEOREM RecommendationsVary == Spec => []RecommendationsDiverse
<1>1. RecommendationsDiverse
  <2> SUFFICES ASSUME NEW v \in Guests \cup Accounts, NEW target \in Catalogued,
                      NEW limit \in RecommendationLimits,
                      NEW s, s = Recommendations(v, target, limit)
               PROVE  /\ IsInjective(s) /\ target \notin Range(s) /\ Len(s) <= limit
                      /\ v \in Accounts =>
                           \A i \in 3 .. Len(s) :
                             SameAuthor(s, i) /\ SameAuthor(s, i - 1) =>
                               \A j \in i .. Len(s) : SameAuthor(s, j)
    BY DEF RecommendationsDiverse
  <2>1. limit \in Nat \ {0}
    BY NumbersAre
  <2>2. IsInjective(s) /\ target \notin Range(s) /\ Len(s) <= limit
    <3>1. s \in Without(target) /\ Len(s) <= limit
      BY <2>1, AccountRecommendationsAre, GuestRecommendationsAre DEF Recommendations
    <3> QED
      BY <3>1 DEF Without, Once
  <2>3. ASSUME v \in Accounts PROVE s \in Seq(Books) /\ Varied(s, {})
    <3>1. s = AccountRecommendations(v, target, limit)
      BY <2>3, RolesAre DEF Recommendations
    <3> QED
      BY <2>1, <3>1, AccountRecommendationsAre DEF Without, Once
  <2>4. ASSUME v \in Accounts, NEW i \in 3 .. Len(s), SameAuthor(s, i), SameAuthor(s, i - 1),
               NEW j \in i .. Len(s)
        PROVE  SameAuthor(s, j)
    <3>1. Varied(s, {}) /\ Len(s) \in Nat
      BY <2>3, <2>4, RangeIs
    <3>2. /\ AuthorOf[s[i]] # None /\ AuthorOf[s[i - 1]] = AuthorOf[s[i]]
          /\ AuthorOf[s[i - 2]] = AuthorOf[s[i]]
      <4>1. i - 1 - 1 = i - 2
        OBVIOUS
      <4> QED
        BY <2>4, <4>1 DEF SameAuthor
    <3>3. \A k \in i .. Len(s) : AuthorOf[s[k]] = AuthorOf[s[i]]
      BY <3>1, <3>2 DEF Varied
    <3>4. j = i \/ j - 1 \in i .. Len(s)
      BY <3>1
    <3>5. AuthorOf[s[j - 1]] = AuthorOf[s[i]]
      BY <3>2, <3>3, <3>4
    <3> QED
      BY <3>2, <3>3, <3>5 DEF SameAuthor
  <2> QED
    BY <2>2, <2>4
<1> QED
  BY <1>1, PTL

-----------------------------------------------------------------------------
(* The lists.                                                              *)

\* What is kept begins with the first that is in the set.
LEMMA KeepHead ==
    ASSUME NEW T, NEW s \in Seq(T), NEW S
    PROVE  /\ Keep(s, S) = <<>> <=> \A i \in 1 .. Len(s) : s[i] \notin S
           /\ \A i \in 1 .. Len(s) :
                s[i] \in S /\ (\A h \in 1 .. (i - 1) : s[h] \notin S)
                  => Head(Keep(s, S)) = s[i]
<1>1. PICK k \in Seq(T), l \in Nat : k = Keep(s, S) /\ l = Len(k)
  BY KeepChooses
<1>2. PICK e : Chosen(e, k, s, S, Len(s))
  BY <1>1, KeepChooses
<1>3. /\ e \in [1 .. l -> 1 .. Len(s)] /\ Len(s) \in Nat
      /\ \A i, j \in 1 .. l : i < j => e[i] < e[j]
      /\ \A j \in 1 .. l : k[j] = s[e[j]] /\ s[e[j]] \in S
      /\ \A i \in 1 .. Len(s) : s[i] \in S => \E j \in 1 .. l : e[j] = i
  BY <1>1, <1>2, RangeIs DEF Chosen
<1>4. k = <<>> <=> l = 0
  BY <1>1, RangeIs
<1>5. l = 0 <=> \A i \in 1 .. Len(s) : s[i] \notin S
  <2>1. ASSUME l = 0, NEW i \in 1 .. Len(s), s[i] \in S PROVE FALSE
    BY <1>3, <2>1
  <2>2. ASSUME l # 0 PROVE \E i \in 1 .. Len(s) : s[i] \in S
    <3>1. 1 \in 1 .. l
      BY <2>2
    <3>2. e[1] \in 1 .. Len(s) /\ s[e[1]] \in S
      BY <1>3, <3>1
    <3> QED
      BY <3>2
  <2> QED
    BY <2>1, <2>2
<1>6. ASSUME NEW i \in 1 .. Len(s), s[i] \in S, \A h \in 1 .. (i - 1) : s[h] \notin S
      PROVE  Head(k) = s[i]
  <2>1. PICK j \in 1 .. l : e[j] = i
    BY <1>3, <1>6
  <2>2. 1 \in 1 .. l /\ e[1] \in 1 .. Len(s) /\ s[e[1]] \in S /\ k[1] = s[e[1]]
    BY <1>3
  <2>3. e[1] <= i
    <3>1. 1 = j \/ 1 < j
      OBVIOUS
    <3> QED
      BY <1>3, <2>1, <2>2, <3>1
  <2>4. e[1] \notin 1 .. (i - 1)
    BY <1>6, <2>2
  <2>5. e[1] = i
    BY <2>2, <2>3, <2>4
  <2>6. Head(k) = k[1]
    BY <1>1, <1>4, <2>2
  <2> QED
    BY <2>2, <2>5, <2>6
<1> QED
  BY <1>1, <1>4, <1>5, <1>6

\* Where copies are looked for: in a school, or everywhere.
Place == Schools \cup {None}

\* The copies of a book are copies.
LEMMA CopiesOfIs ==
    ASSUME NEW b \in Books, NEW school \in Place
    PROVE  CopiesOf(b, school) \subseteq Copies
<1>1. MayHold[b] = [place \in Schools \cup {None} |->
                      {c \in Copies : BookOf[c] = b /\ place \in {None, SchoolOf[c]}}]
  BY DEF MayHold
<1>2. MayHold[b][school] = {c \in Copies : BookOf[c] = b /\ school \in {None, SchoolOf[c]}}
  BY <1>1 DEF Place
<1> QED
  BY <1>2 DEF CopiesOf

\* A state is counted when a copy is in it.
LEMMA CountedIs ==
    ASSUME NEW b \in Books, NEW school \in Place, NEW state
    PROVE  Counted(b, school, state) > 0 <=> state \in {copies[c] : c \in CopiesOf(b, school)}
<1>1. PICK S : S = {c \in CopiesOf(b, school) : copies[c] = state}
  OBVIOUS
<1>2. S \subseteq Copies /\ IsFiniteSet(Copies)
  BY <1>1, CopiesOfIs, ViewsAssumption DEF ViewsAssumption
<1>3. IsFiniteSet(S)
  BY <1>2, FS_Subset
<1>4. Cardinality(S) \in Nat /\ (Cardinality(S) = 0 <=> S = {})
  BY <1>3, FS_CardinalityType, FS_EmptySet
<1>5. Counted(b, school, state) = Cardinality(S)
  BY <1>1 DEF Counted
<1>6. S # {} <=> state \in {copies[c] : c \in CopiesOf(b, school)}
  BY <1>1
<1> QED
  BY <1>4, <1>5, <1>6

\* Both ways to derive the state of a book agree.
LEMMA DerivationsAgree ==
    ASSUME NEW b \in Books, NEW school \in Place
    PROVE  DerivedState(b, school) = DerivedStateExpr(b, school)
<1>1. PICK present : present = {copies[c] : c \in CopiesOf(b, school)}
  OBVIOUS
<1>2. PICK s \in Seq(States) : s = Priority /\ Len(s) = 4
  <2>1. Priority \in Seq(States) /\ Len(Priority) = 4
    BY DEF Priority, States
  <2> QED
    BY <2>1
<1>3. s[1] = "AVAILABLE" /\ s[2] = "RESERVED" /\ s[3] = "BORROWED" /\ s[4] = "LOST"
  BY <1>2 DEF Priority
<1>4. PICK found : found = Keep(s, present)
  OBVIOUS
<1>5. DerivedState(b, school) = IF found = <<>> THEN "ARCHIVED" ELSE Head(found)
  BY <1>1, <1>2, <1>4 DEF DerivedState
<1>6. /\ found = <<>> <=> \A i \in 1 .. 4 : s[i] \notin present
      /\ \A i \in 1 .. 4 : s[i] \in present /\ (\A h \in 1 .. (i - 1) : s[h] \notin present)
                           => Head(found) = s[i]
  BY <1>2, <1>4, KeepHead
<1>7. \A state : Counted(b, school, state) > 0 <=> state \in present
  BY <1>1, CountedIs
<1>8. CASE "AVAILABLE" \in present
  <2>1. found # <<>> /\ Head(found) = "AVAILABLE"
    BY <1>3, <1>6, <1>8
  <2> QED
    BY <1>5, <1>7, <1>8, <2>1 DEF DerivedStateExpr
<1>9. CASE "AVAILABLE" \notin present /\ "RESERVED" \in present
  <2>1. found # <<>> /\ Head(found) = "RESERVED"
    <3>1. \A h \in 1 .. (2 - 1) : h = 1
      OBVIOUS
    <3> QED
      BY <1>3, <1>6, <1>9, <3>1
  <2> QED
    BY <1>5, <1>7, <1>9, <2>1 DEF DerivedStateExpr
<1>10. CASE /\ "AVAILABLE" \notin present /\ "RESERVED" \notin present
            /\ "BORROWED" \in present
  <2>1. found # <<>> /\ Head(found) = "BORROWED"
    <3>1. \A h \in 1 .. (3 - 1) : h = 1 \/ h = 2
      OBVIOUS
    <3> QED
      BY <1>3, <1>6, <1>10, <3>1
  <2> QED
    BY <1>5, <1>7, <1>10, <2>1 DEF DerivedStateExpr
<1>11. CASE /\ "AVAILABLE" \notin present /\ "RESERVED" \notin present
            /\ "BORROWED" \notin present /\ "LOST" \in present
  <2>1. found # <<>> /\ Head(found) = "LOST"
    <3>1. \A h \in 1 .. (4 - 1) : h = 1 \/ h = 2 \/ h = 3
      OBVIOUS
    <3> QED
      BY <1>3, <1>6, <1>11, <3>1
  <2> QED
    BY <1>5, <1>7, <1>11, <2>1 DEF DerivedStateExpr
<1>12. CASE /\ "AVAILABLE" \notin present /\ "RESERVED" \notin present
            /\ "BORROWED" \notin present /\ "LOST" \notin present
  <2>1. \A i \in 1 .. 4 : i = 1 \/ i = 2 \/ i = 3 \/ i = 4
    OBVIOUS
  <2>2. found = <<>>
    BY <1>3, <1>6, <1>12, <2>1
  <2> QED
    BY <1>5, <1>7, <1>12, <2>2 DEF DerivedStateExpr
<1> QED
  BY <1>8, <1>9, <1>10, <1>11, <1>12

\* The rows of a page, after o others; and the first m rows.
PageAfter(rows, o, size) == First(size, SubSeq(rows, o + 1, Len(rows)))
FirstRows(rows, m) == SubSeq(rows, 1, IF m <= Len(rows) THEN m ELSE Len(rows))

\* A page that is not beyond the last is full, or has the rows that are left.
LEMMA PageAfterIs ==
    ASSUME NEW rows \in Seq(Books), NEW o \in Nat, o < Len(rows), NEW size \in Nat \ {0}
    PROVE  /\ PageAfter(rows, o, size) \in Seq(Books)
           /\ Len(PageAfter(rows, o, size)) =
                IF o + size <= Len(rows) THEN size ELSE Len(rows) - o
           /\ \A i \in 1 .. Len(PageAfter(rows, o, size)) :
                PageAfter(rows, o, size)[i] = rows[o + i]
<1>1. PICK L \in Nat : L = Len(rows)
  BY RangeIs
<1>2. PICK m \in Nat \ {0} : m = o + 1 /\ m <= L
  BY <1>1
<1>3. PICK t : t = SubSeq(rows, m, L)
  OBVIOUS
<1>4. t \in Seq(Books) /\ Len(t) = L - m + 1 /\ \A i \in 1 .. L - m + 1 : t[i] = rows[m + i - 1]
  <2>1. /\ SubSeq(rows, m, L) \in Seq(Books)
        /\ Len(SubSeq(rows, m, L)) = IF m <= L THEN L - m + 1 ELSE 0
        /\ \A i \in 1 .. L - m + 1 : SubSeq(rows, m, L)[i] = rows[m + i - 1]
    BY <1>1, SubSeqIs
  <2> QED
    BY <1>2, <1>3, <2>1
<1>5. PageAfter(rows, o, size) = First(size, t)
  BY <1>1, <1>2, <1>3 DEF PageAfter
<1>6. PICK f : f = First(size, t)
  OBVIOUS
<1>7. /\ f \in Seq(Books) /\ Len(f) = IF size <= Len(t) THEN size ELSE Len(t)
      /\ \A i \in 1 .. Len(f) : i \in 1 .. Len(t) /\ f[i] = t[i]
  <2>1. size \in Int /\ ~(size < 0)
    OBVIOUS
  <2>2. t \in Seq(Books)
    BY <1>4
  <2>3. /\ First(size, t) \in Seq(Books)
        /\ Len(First(size, t)) =
             IF size < 0 THEN 0 ELSE IF size <= Len(t) THEN size ELSE Len(t)
        /\ \A i \in 1 .. Len(First(size, t)) : i \in 1 .. Len(t) /\ First(size, t)[i] = t[i]
    BY <2>1, <2>2, FirstIs
  <2> QED
    BY <1>6, <2>1, <2>3
<1>8. Len(f) = IF o + size <= L THEN size ELSE L - o
  <2>1. Len(t) = L - o
    BY <1>1, <1>2, <1>4
  <2>2. size <= L - o <=> o + size <= L
    OBVIOUS
  <2> QED
    BY <1>7, <2>1, <2>2
<1>9. ASSUME NEW i \in 1 .. Len(f) PROVE f[i] = rows[o + i]
  <2>1. i \in 1 .. L - m + 1 /\ f[i] = t[i]
    BY <1>4, <1>7
  <2>2. m + i - 1 = o + i
    BY <1>2
  <2> QED
    BY <1>4, <2>1, <2>2
<1> QED
  BY <1>1, <1>5, <1>6, <1>7, <1>8, <1>9

\* The page after follows.
LEMMA NextPage ==
    ASSUME NEW rows \in Seq(Books), NEW o \in Nat, o < Len(rows), NEW size \in Nat \ {0}
    PROVE  /\ FirstRows(rows, o + size) \in Seq(Books)
           /\ o = 0 => PageAfter(rows, o, size) = FirstRows(rows, o + size)
           /\ o > 0 => FirstRows(rows, o) \o PageAfter(rows, o, size) = FirstRows(rows, o + size)
<1>1. PICK L \in Nat : L = Len(rows)
  BY RangeIs
<1>2. PICK m \in Nat : m = (IF o + size <= L THEN o + size ELSE L) /\ m <= L
  BY <1>1
<1>3. PICK u : u = FirstRows(rows, o + size)
  OBVIOUS
<1>4. u \in Seq(Books) /\ Len(u) = m /\ \A i \in 1 .. m : u[i] = rows[i]
  <2>1. /\ SubSeq(rows, 1, m) \in Seq(Books)
        /\ Len(SubSeq(rows, 1, m)) = IF 1 <= m THEN m - 1 + 1 ELSE 0
        /\ \A i \in 1 .. m - 1 + 1 : SubSeq(rows, 1, m)[i] = rows[1 + i - 1]
    BY <1>1, <1>2, SubSeqIs
  <2>2. u = SubSeq(rows, 1, m)
    BY <1>1, <1>2, <1>3 DEF FirstRows
  <2> QED
    BY <1>2, <2>1, <2>2
<1>5. PICK p \in Seq(Books) :
        /\ p = PageAfter(rows, o, size) /\ Len(p) = m - o
        /\ \A i \in 1 .. Len(p) : p[i] = rows[o + i]
  <2>1. PICK p : p = PageAfter(rows, o, size)
    OBVIOUS
  <2>2. /\ p \in Seq(Books) /\ Len(p) = IF o + size <= L THEN size ELSE L - o
        /\ \A i \in 1 .. Len(p) : p[i] = rows[o + i]
    BY <1>1, <2>1, PageAfterIs
  <2>3. Len(p) = m - o
    BY <1>1, <1>2, <2>2
  <2> QED
    BY <2>1, <2>2, <2>3
<1>6. CASE o = 0
  <2>1. Len(p) = m /\ \A i \in 1 .. m : p[i] = u[i]
    BY <1>4, <1>5, <1>6
  <2>2. p = u
    BY <1>4, <2>1, SeqEqual
  <2> QED
    BY <1>3, <1>4, <1>5, <1>6, <2>2
<1>7. CASE o > 0
  <2>1. PICK k \in Nat : k = o /\ k <= L
    BY <1>1
  <2>2. PICK t : t = FirstRows(rows, o)
    OBVIOUS
  <2>3. t \in Seq(Books) /\ Len(t) = k /\ \A i \in 1 .. k : t[i] = rows[i]
    <3>1. /\ SubSeq(rows, 1, k) \in Seq(Books)
          /\ Len(SubSeq(rows, 1, k)) = IF 1 <= k THEN k - 1 + 1 ELSE 0
          /\ \A i \in 1 .. k - 1 + 1 : SubSeq(rows, 1, k)[i] = rows[1 + i - 1]
      BY <1>1, <2>1, SubSeqIs
    <3>2. t = SubSeq(rows, 1, k)
      BY <1>1, <2>1, <2>2 DEF FirstRows
    <3> QED
      BY <2>1, <3>1, <3>2
  <2>4. PICK c : c = t \o p
    OBVIOUS
  <2>5. /\ t \o p \in Seq(Books) /\ Len(t \o p) = Len(t) + Len(p)
        /\ \A i \in 1 .. Len(t) : (t \o p)[i] = t[i]
        /\ \A i \in 1 .. Len(p) : (t \o p)[Len(t) + i] = p[i]
    <3>1. t \in Seq(Books)
      BY <2>3
    <3> QED
      BY <3>1, CatIs
  <2>6. /\ c \in Seq(Books) /\ Len(c) = m
        /\ \A i \in 1 .. k : c[i] = t[i]
        /\ \A i \in 1 .. Len(p) : c[k + i] = p[i]
    <3>1. Len(t) = k /\ k + Len(p) = m /\ c = t \o p
      BY <1>2, <1>5, <2>1, <2>3, <2>4
    <3> QED
      BY <2>5, <3>1
  <2>7. ASSUME NEW i \in 1 .. m PROVE c[i] = u[i]
    <3>1. CASE i <= k
      <4>1. i \in 1 .. k
        BY <2>1, <3>1
      <4> QED
        BY <1>4, <2>3, <2>6, <4>1
    <3>2. CASE i > k
      <4>1. PICK j \in Int : j = i - k
        BY <2>1
      <4>2. j \in 1 .. Len(p) /\ i = k + j
        BY <1>2, <1>5, <2>1, <3>2, <4>1
      <4>3. c[i] = p[j] /\ p[j] = rows[k + j]
        BY <1>5, <2>1, <2>6, <4>2
      <4> QED
        BY <1>4, <4>2, <4>3
    <3> QED
      BY <2>1, <3>1, <3>2
  <2>8. c = u
    BY <1>4, <2>6, <2>7, SeqEqual
  <2>9. FirstRows(rows, o) \o PageAfter(rows, o, size) = FirstRows(rows, o + size)
    BY <1>3, <1>5, <2>2, <2>4, <2>8
  <2>10. FirstRows(rows, o + size) \in Seq(Books) /\ o # 0
    BY <1>3, <1>4, <1>7
  <2> QED
    BY <2>9, <2>10
<1> QED
  BY <1>6, <1>7

\* How many pages there are, and that none begins beyond the rows.
LEMMA PagesAre ==
    ASSUME NEW L \in Nat, NEW size \in Nat \ {0}, NEW N,
           N = IF L = 0 THEN 0 ELSE (L + size - 1) \div size
    PROVE  /\ N \in Nat /\ (N = 0 <=> L = 0) /\ L <= N * size
           /\ \A n \in 1 .. N : /\ n \in Nat \ {0} /\ (n - 1) * size \in Nat
                               /\ (n - 1) * size < L /\ (n - 1) * size + size = n * size
<1>1. CASE L = 0
  BY <1>1
<1>2. CASE L # 0
  <2>1. PICK t \in Nat : t = L + size - 1
    OBVIOUS
  <2>2. N = t \div size /\ N \in Int
    BY <1>2, <2>1
  <2>3. N * size <= t /\ t < N * size + size
    BY <2>2
  <2>4. N > 0
    <3>1. CASE N <= 0
      <4>1. N * size <= 0
        BY <2>2, <3>1
      <4> QED
        BY <1>2, <2>1, <2>3, <4>1
    <3> QED
      BY <2>2, <3>1
  <2>5. L <= N * size
    BY <2>1, <2>2, <2>3
  <2>6. ASSUME NEW n \in 1 .. N
        PROVE  /\ n \in Nat \ {0} /\ (n - 1) * size \in Nat
               /\ (n - 1) * size < L /\ (n - 1) * size + size = n * size
    <3>1. n \in Nat \ {0} /\ n <= N
      BY <2>2
    <3>2. (n - 1) * size \in Nat /\ (n - 1) * size + size = n * size
      BY <3>1
    <3>3. n * size <= N * size
      BY <2>2, <3>1
    <3> QED
      BY <2>1, <2>2, <2>3, <3>1, <3>2, <3>3
  <2> QED
    BY <1>2, <2>2, <2>4, <2>5, <2>6
<1> QED
  BY <1>1, <1>2

\* A function on 1 .. n is a sequence of length n.
LEMMA FunctionIsSequence ==
    ASSUME NEW S, NEW n \in Nat, NEW f \in [1 .. n -> S]
    PROVE  f \in Seq(S) /\ Len(f) = n
  OBVIOUS

\* The pages one after the other are the rows.
LEMMA FlattenPages ==
    ASSUME NEW rows \in Seq(Books), NEW size \in Nat \ {0}, NEW N, N = Pages(Len(rows), size)
    PROVE  FlattenSeq([n \in 1 .. N |-> PageAfter(rows, (n - 1) * size, size)]) = rows
<1>1. PICK L \in Nat : L = Len(rows)
  BY RangeIs
<1>2. N = IF L = 0 THEN 0 ELSE (L + size - 1) \div size
  BY <1>1 DEF Pages
<1>3. /\ N \in Nat /\ (N = 0 <=> L = 0) /\ L <= N * size
      /\ \A n \in 1 .. N : /\ n \in Nat \ {0} /\ (n - 1) * size \in Nat
                          /\ (n - 1) * size < L /\ (n - 1) * size + size = n * size
  BY <1>1, <1>2, PagesAre
<1>4. PICK pages : pages = [n \in 1 .. N |-> PageAfter(rows, (n - 1) * size, size)]
  OBVIOUS
<1>5. Len(pages) = N /\ \A n \in 1 .. N : pages[n] = PageAfter(rows, (n - 1) * size, size)
  <2>1. N \in Nat
    BY <1>3
  <2>2. PICK p : p = [n \in 1 .. N |-> PageAfter(rows, (n - 1) * size, size)]
    OBVIOUS
  <2>3. DOMAIN p = 1 .. N /\ \A n \in 1 .. N : p[n] = PageAfter(rows, (n - 1) * size, size)
    BY <2>2
  <2>4. p \in [1 .. N -> {p[n] : n \in 1 .. N}]
    BY <2>2
  <2>5. Len(p) = N
    BY <2>1, <2>4, FunctionIsSequence
  <2> QED
    BY <1>4, <2>2, <2>3, <2>5
<1>6. CASE L = 0
  <2>1. rows = <<>>
    BY <1>1, <1>6, RangeIs
  <2>2. pages = <<>>
    BY <1>3, <1>4, <1>6
  <2> QED
    BY <1>3, <1>4, <1>5, <1>6, <2>1, <2>2 DEF FlattenSeq
<1>7. CASE L # 0
  <2> DEFINE flatten[i \in 1 .. Len(pages)] ==
               IF i = 1 THEN pages[i] ELSE flatten[i - 1] \o pages[i]
  <2>1. FlattenSeq(pages) = flatten[N]
    BY <1>3, <1>5, <1>7 DEF FlattenSeq
  <2>2. PICK h : h = [n \in 1 .. N |-> FirstRows(rows, n * size)]
    OBVIOUS
  <2>3. ASSUME NEW i \in 1 .. N
        PROVE  h[i] = IF i = 1 THEN pages[i] ELSE h[i - 1] \o pages[i]
    <3>1. PICK o \in Nat : o = (i - 1) * size /\ o < L /\ o + size = i * size
      BY <1>3
    <3>2. /\ o = 0 => PageAfter(rows, o, size) = FirstRows(rows, o + size)
          /\ o > 0 => FirstRows(rows, o) \o PageAfter(rows, o, size) = FirstRows(rows, o + size)
      BY <1>1, <3>1, NextPage
    <3>3. h[i] = FirstRows(rows, o + size) /\ pages[i] = PageAfter(rows, o, size)
      BY <1>5, <2>2, <3>1
    <3>4. CASE i = 1
      <4>1. o = 0
        BY <3>1, <3>4
      <4> QED
        BY <3>2, <3>3, <3>4, <4>1
    <3>5. CASE i # 1
      <4>1. i - 1 \in 1 .. N
        BY <1>3, <3>5
      <4>2. o > 0
        BY <1>3, <3>1, <4>1
      <4>3. h[i - 1] = FirstRows(rows, o)
        BY <2>2, <3>1, <4>1
      <4> QED
        BY <3>2, <3>3, <3>5, <4>2, <4>3
    <3> QED
      BY <3>4, <3>5
  <2>4. h = [i \in 1 .. Len(pages) |-> IF i = 1 THEN pages[i] ELSE h[i - 1] \o pages[i]]
    <3>1. h = [i \in DOMAIN h |-> h[i]] /\ DOMAIN h = 1 .. N
      BY <2>2
    <3>2. h = [i \in 1 .. N |-> IF i = 1 THEN pages[i] ELSE h[i - 1] \o pages[i]]
      BY <2>3, <3>1
    <3> QED
      BY <1>5, <3>2
  <2>5. flatten = [i \in 1 .. Len(pages) |->
                     IF i = 1 THEN pages[i] ELSE flatten[i - 1] \o pages[i]]
    BY <2>4
  <2> HIDE DEF flatten
  <2>6. \A i \in 1 .. N :
          flatten[i] = IF i = 1 THEN pages[i] ELSE flatten[i - 1] \o pages[i]
    BY <1>5, <2>5
  <2> DEFINE same == {n \in 0 .. N : n = 0 \/ flatten[n] = h[n]}
  <2>7. 0 \in same
    BY <1>3
  <2>8. ASSUME NEW n \in 1 .. N, n - 1 \in same
        PROVE  n \in same
    <3>1. n = 1 \/ flatten[n - 1] = h[n - 1]
      BY <2>8
    <3>2. flatten[n] = h[n]
      BY <2>3, <2>6, <3>1
    <3> QED
      BY <3>2
  <2> HIDE DEF same
  <2>9. \A n \in 0 .. N : n \in same
    BY <1>3, <2>7, <2>8, EveryTurn
  <2>10. flatten[N] = h[N] /\ N \in 1 .. N
    <3>1. N \in same /\ N # 0
      BY <1>3, <1>7, <2>9
    <3> QED
      BY <1>3, <3>1 DEF same
  <2>11. h[N] = SubSeq(rows, 1, Len(rows))
    <3>1. (IF N * size <= Len(rows) THEN N * size ELSE Len(rows)) = Len(rows)
      <4>1. PICK k \in Int : k = N * size /\ L <= k
        BY <1>3
      <4> QED
        BY <1>1, <4>1
    <3> QED
      BY <2>2, <2>10, <3>1 DEF FirstRows
  <2>12. SubSeq(rows, 1, Len(rows)) = rows
    BY SubSeqFull
  <2> QED
    BY <1>4, <2>1, <2>10, <2>11, <2>12
<1> QED
  BY <1>6, <1>7

\* What is listed by its state is what may be seen and shows that state.
LEMMA ListedIs ==
    ASSUME NEW v \in Guests \cup Staff, NEW state \in States
    PROVE  Listed(v, [NoFilter EXCEPT !.state = state])
             = {b \in Visible(v) : DerivedState(b, v.school) = state}
<1>1. v.school \in Place /\ v.role # "reader"
  BY DEF Guests, Staff, Guest, SuperAdmin, Librarian, Viewer, Place
<1>2. PICK filter : filter = [NoFilter EXCEPT !.state = state]
  OBVIOUS
<1>3. filter.active = TRUE /\ filter.q = Books /\ filter.state = state
  BY <1>2 DEF NoFilter
<1>4. state # None /\ None # "active"
  BY ViewsAssumption DEF ViewsAssumption
<1>5. Visible(v) = {b \in Catalogued : shelf[b] = "active" /\ InScope(v, b)}
  BY <1>4 DEF Visible, Active, Catalogued
<1>6. ASSUME NEW b \in Catalogued
      PROVE  /\ b \in Books
             /\ filter.state \in {None, DerivedStateExpr(b, v.school)}
                  <=> DerivedState(b, v.school) = state
  <2>1. b \in Books
    BY DEF Catalogued
  <2>2. DerivedState(b, v.school) = DerivedStateExpr(b, v.school)
    BY <1>1, <2>1, DerivationsAgree
  <2> QED
    BY <1>3, <1>4, <2>1, <2>2
<1>7. Listed(v, filter) =
        {b \in Catalogued :
           /\ (shelf[b] = "active") = TRUE
           /\ InScope(v, b)
           /\ b \in Books \/ WordMatches(v, b, filter.word)
           /\ filter.state \in {None, DerivedStateExpr(b, v.school)}}
  BY <1>1, <1>3 DEF Listed
<1> QED
  BY <1>2, <1>5, <1>6, <1>7

\* For everyone but a reader, the pages of the lists filtered by a state divide what she
\* may see: list_books and _derived_states of src/src/routers/books.py, paginated_response
\* of src/src/utils/pagination.py, Book.derived_state_expr of src/src/models.py.
THEOREM ListsPartition == Spec => []PagesPartition
<1>1. PagesPartition
  <2> SUFFICES ASSUME NEW v \in Guests \cup Staff, NEW state \in States,
                      NEW size \in 1 .. Newest,
                      NEW filter, filter = [NoFilter EXCEPT !.state = state],
                      NEW N, N = Pages(Cardinality(Listed(v, filter)), size)
               PROVE  FlattenSeq([n \in 1 .. N |-> Page(v, filter, n, size)])
                        = OldestFirst({b \in Visible(v) : DerivedState(b, v.school) = state})
    BY DEF PagesPartition
  <2>1. Listed(v, filter) = {b \in Visible(v) : DerivedState(b, v.school) = state}
    BY ListedIs
  <2>2. PICK rows : rows = OldestFirst(Listed(v, filter))
    OBVIOUS
  <2>3. rows \in Once(Books) /\ Range(rows) = Listed(v, filter)
    <3>1. Listed(v, filter) \subseteq Books
      BY <2>1 DEF Visible, Active
    <3> QED
      BY <2>2, <3>1, InOrder
  <2>4. rows \in Seq(Books) /\ Cardinality(Listed(v, filter)) = Len(rows)
    BY <2>3, OnceLen DEF Once
  <2>5. [n \in 1 .. N |-> Page(v, filter, n, size)]
          = [n \in 1 .. N |-> PageAfter(rows, (n - 1) * size, size)]
    BY <2>2 DEF Page, PageAfter
  <2>6. FlattenSeq([n \in 1 .. N |-> PageAfter(rows, (n - 1) * size, size)]) = rows
    <3>1. size \in Nat \ {0}
      BY NumbersAre
    <3> QED
      BY <2>4, <3>1, FlattenPages
  <2> QED
    BY <2>1, <2>2, <2>5, <2>6
<1> QED
  BY <1>1, PTL

-----------------------------------------------------------------------------
(* The home pages.                                                         *)

\* A page made of offers is useful, and shows nothing that was not offered.
LEMMA HomeIs ==
    ASSUME NEW f, NEW offers, NEW most, PageLoop(f, offers, most), OneRanking(offers),
           NEW q, q = RankingFifth(f[Len(offers)])
    PROVE  /\ Useful(q, most)
           /\ \A i \in DOMAIN q : \E m \in 1 .. Len(offers) : Shows(q[i], offers[m])
           /\ \A m \in 1 .. Len(offers) : (f[m - 1] = <<>> => f[m] # <<>>) => q # <<>>
<1>1. PICK N \in Nat : N = Len(offers)
  BY RangeIs DEF PageLoop
<1>2. PICK p : p = f[N]
  OBVIOUS
<1>3. /\ p \in Seq(Offer) /\ Len(p) <= most /\ OneRanking(p) /\ most \in Nat
      /\ \A i \in 1 .. Len(p) : \E m \in 1 .. N : Shows(p[i], offers[m])
  BY <1>1, <1>2, PageGrows DEF PageOf, PageLoop
<1>4. /\ q \in Seq(Offer) /\ Len(q) <= Len(p) /\ Range(q) \subseteq Range(p) /\ Fifth(q)
      /\ p # <<>> => q # <<>>
  BY <1>1, <1>2, <1>3, FifthIs
<1>5. DOMAIN q = 1 .. Len(q) /\ Len(q) \in Nat /\ Len(p) \in Nat
  BY <1>3, <1>4, RangeIs
<1>6. ASSUME NEW i \in 1 .. Len(q)
      PROVE  \E m \in 1 .. N : Shows(q[i], offers[m])
  <2>1. q[i] \in Range(p)
    BY <1>4, RangeIs
  <2>2. PICK j \in 1 .. Len(p) : p[j] = q[i]
    BY <1>3, <2>1, RangeIs
  <2> QED
    BY <1>3, <2>2
<1>7. Useful(q, most)
  <2>1. Len(q) <= most
    BY <1>3, <1>4, <1>5
  <2>2. ASSUME NEW i \in 1 .. Len(q)
        PROVE  IsInjective(q[i].books) /\ Len(q[i].books) \in q[i].minimum .. SectionSize
    BY <1>6 DEF Shows
  <2> QED
    BY <1>4, <1>5, <2>1, <2>2 DEF Useful, Fifth
<1>8. ASSUME NEW m \in 1 .. N, f[m - 1] = <<>> => f[m] # <<>>
      PROVE  q # <<>>
  <2>1. CASE f[m] # <<>>
    <3>1. p # <<>>
      BY <1>1, <1>2, <2>1, PageGrows
    <3> QED
      BY <1>4, <3>1
  <2>2. CASE f[m - 1] # <<>>
    <3>1. f[0] = <<>>
      BY DEF PageLoop
    <3>2. m - 1 \in 1 .. N
      BY <2>2, <3>1
    <3>3. p # <<>>
      BY <1>1, <1>2, <2>2, <3>2, PageGrows
    <3> QED
      BY <1>4, <3>3
  <2> QED
    BY <1>8, <2>1, <2>2
<1> QED
  BY <1>1, <1>5, <1>6, <1>7, <1>8

\* What a guest's home page is made of.
LEMMA GuestHomeIs ==
    ASSUME NEW v, NEW shuffled, NEW picked, NEW offers,
           offers = GuestOffers(v, shuffled, picked),
           offers \in Seq(Offer), OneRanking(offers), NEW q, q = GuestHome(v, shuffled, picked)
    PROVE  /\ Useful(q, GuestSections)
           /\ \A i \in DOMAIN q : \E m \in 1 .. Len(offers) : Shows(q[i], offers[m])
           /\ \A m \in 1 .. Len(offers) :
                offers[m].minimum = Minimum /\ Cardinality(Range(offers[m].books)) >= Minimum
                  => q # <<>>
<1> DEFINE N == Len(offers)
           X == Seq(Offer)
           turn == [n \in 1 .. N |-> [p \in X |-> AddPublic(p, offers[n])]]
           page[n \in 0 .. N] == IF n = 0 THEN <<>> ELSE AddPublic(page[n - 1], offers[n])
<1>1. N \in Nat /\ <<>> \in X /\ \A n \in 1 .. N : offers[n] \in Offer
  OBVIOUS
<1>2. turn \in [1 .. N -> [X -> X]]
  <2>1. \A n \in 1 .. N, p \in X : AddPublic(p, offers[n]) \in X
    BY <1>1, AddPublicGrows
  <2> QED
    BY <2>1
<1>3. \E f : f = [n \in 0 .. N |-> IF n = 0 THEN <<>> ELSE AddPublic(f[n - 1], offers[n])]
  <2>1. PICK f \in [0 .. N -> X] :
          f[0] = <<>> /\ \A n \in 1 .. N : f[n] = turn[n][f[n - 1]]
    <3> HIDE DEF turn, X, N
    <3>1. Loop(turn, N, X)
      BY <1>1, <1>2 DEF Loop
    <3>2. PICK f : Run(f, <<>>, turn, N, X)
      BY <1>1, <3>1, LoopRuns
    <3> QED
      BY <3>2 DEF Run
  <2>2. \A n \in 1 .. N : f[n - 1] \in X
    OBVIOUS
  <2>3. \A n \in 1 .. N : f[n] = AddPublic(f[n - 1], offers[n])
    BY <2>1, <2>2
  <2> HIDE DEF turn
  <2>4. f = [n \in 0 .. N |-> IF n = 0 THEN <<>> ELSE AddPublic(f[n - 1], offers[n])]
    <3>1. f = [n \in 0 .. N |-> f[n]]
      OBVIOUS
    <3>2. \A n \in 0 .. N : n = 0 \/ n \in 1 .. N
      OBVIOUS
    <3>3. \A n \in 0 .. N : f[n] = IF n = 0 THEN <<>> ELSE AddPublic(f[n - 1], offers[n])
      BY <2>1, <2>3, <3>2
    <3> QED
      BY <3>1, <3>3
  <2> QED
    BY <2>4
<1>4. page = [n \in 0 .. N |-> IF n = 0 THEN <<>> ELSE AddPublic(page[n - 1], offers[n])]
  BY <1>3
<1>5. q = RankingFifth(page[N])
  BY DEF GuestHome, GuestPage
<1> HIDE DEF page
<1>6. page[0] = <<>> /\ \A n \in 1 .. N : page[n] = AddPublic(page[n - 1], offers[n])
  <2>1. 0 \in 0 .. N /\ \A n \in 1 .. N : n \in 0 .. N /\ n # 0
    BY <1>1
  <2> QED
    BY <1>4, <2>1
<1>7. PageLoop(page, offers, GuestSections)
  <2>1. GuestSections \in Nat
    BY NumbersAre
  <2>2. ASSUME NEW n \in 1 .. N, page[n - 1] \in Seq(Offer)
        PROVE  page[n] \in Seq(Offer) /\ Grown(page[n], page[n - 1], offers[n], GuestSections)
    BY <1>1, <1>6, <2>2, AddPublicGrows
  <2> QED
    BY <1>6, <2>1, <2>2 DEF PageLoop
<1>8. /\ Useful(q, GuestSections)
      /\ \A i \in DOMAIN q : \E m \in 1 .. N : Shows(q[i], offers[m])
      /\ \A m \in 1 .. N : (page[m - 1] = <<>> => page[m] # <<>>) => q # <<>>
  BY <1>5, <1>7, HomeIs, ZenonT(40)
<1>9. ASSUME NEW m \in 1 .. N, offers[m].minimum = Minimum,
             Cardinality(Range(offers[m].books)) >= Minimum, page[m - 1] = <<>>
      PROVE  page[m] # <<>>
  <2>1. AddPublic(<<>>, offers[m]) # <<>>
    BY <1>1, <1>9, AddPublicGrows
  <2> QED
    BY <1>6, <1>9, <2>1
<1> QED
  BY <1>8, <1>9

\* What a reader's home page is made of.
LEMMA ReaderHomeIs ==
    ASSUME NEW v, NEW offers, offers = ReaderOffers(v),
           offers \in Seq(Offer), OneRanking(offers), NEW q, q = ReaderHome(v)
    PROVE  /\ Useful(q, ReaderSections)
           /\ \A i \in DOMAIN q : \E m \in 1 .. Len(offers) : Shows(q[i], offers[m])
           /\ \A m \in 1 .. Len(offers) :
                offers[m].minimum = Minimum /\ Cardinality(Range(offers[m].books)) >= Minimum
                  => q # <<>>
<1> DEFINE N == Len(offers)
           X == Seq(Offer)
           turn == [n \in 1 .. N |-> [p \in X |-> AddCarousel(v, p, offers[n])]]
           page[n \in 0 .. N] == IF n = 0 THEN <<>> ELSE AddCarousel(v, page[n - 1], offers[n])
<1>1. N \in Nat /\ <<>> \in X /\ \A n \in 1 .. N : offers[n] \in Offer
  OBVIOUS
<1>2. turn \in [1 .. N -> [X -> X]]
  <2>1. \A n \in 1 .. N, p \in X : AddCarousel(v, p, offers[n]) \in X
    BY <1>1, AddCarouselGrows
  <2> QED
    BY <2>1
<1>3. \E f : f = [n \in 0 .. N |-> IF n = 0 THEN <<>> ELSE AddCarousel(v, f[n - 1], offers[n])]
  <2>1. PICK f \in [0 .. N -> X] :
          f[0] = <<>> /\ \A n \in 1 .. N : f[n] = turn[n][f[n - 1]]
    <3> HIDE DEF turn, X, N
    <3>1. Loop(turn, N, X)
      BY <1>1, <1>2 DEF Loop
    <3>2. PICK f : Run(f, <<>>, turn, N, X)
      BY <1>1, <3>1, LoopRuns
    <3> QED
      BY <3>2 DEF Run
  <2>2. \A n \in 1 .. N : f[n - 1] \in X
    OBVIOUS
  <2>3. \A n \in 1 .. N : f[n] = AddCarousel(v, f[n - 1], offers[n])
    BY <2>1, <2>2
  <2> HIDE DEF turn
  <2>4. f = [n \in 0 .. N |-> IF n = 0 THEN <<>> ELSE AddCarousel(v, f[n - 1], offers[n])]
    <3>1. f = [n \in 0 .. N |-> f[n]]
      OBVIOUS
    <3>2. \A n \in 0 .. N : n = 0 \/ n \in 1 .. N
      OBVIOUS
    <3>3. \A n \in 0 .. N : f[n] = IF n = 0 THEN <<>> ELSE AddCarousel(v, f[n - 1], offers[n])
      BY <2>1, <2>3, <3>2
    <3> QED
      BY <3>1, <3>3
  <2> QED
    BY <2>4
<1>4. page = [n \in 0 .. N |-> IF n = 0 THEN <<>> ELSE AddCarousel(v, page[n - 1], offers[n])]
  BY <1>3
<1>5. q = RankingFifth(page[N])
  BY DEF ReaderHome, ReaderPage
<1> HIDE DEF page
<1>6. page[0] = <<>> /\ \A n \in 1 .. N : page[n] = AddCarousel(v, page[n - 1], offers[n])
  <2>1. 0 \in 0 .. N /\ \A n \in 1 .. N : n \in 0 .. N /\ n # 0
    BY <1>1
  <2> QED
    BY <1>4, <2>1
<1>7. PageLoop(page, offers, ReaderSections)
  <2>1. ReaderSections \in Nat
    BY NumbersAre
  <2>2. ASSUME NEW n \in 1 .. N, page[n - 1] \in Seq(Offer)
        PROVE  page[n] \in Seq(Offer) /\ Grown(page[n], page[n - 1], offers[n], ReaderSections)
    BY <1>1, <1>6, <2>2, AddCarouselGrows
  <2> QED
    BY <1>6, <2>1, <2>2 DEF PageLoop
<1>8. /\ Useful(q, ReaderSections)
      /\ \A i \in DOMAIN q : \E m \in 1 .. N : Shows(q[i], offers[m])
      /\ \A m \in 1 .. N : (page[m - 1] = <<>> => page[m] # <<>>) => q # <<>>
  BY <1>5, <1>7, HomeIs, ZenonT(40)
<1>9. ASSUME NEW m \in 1 .. N, offers[m].minimum = Minimum,
             Cardinality(Range(offers[m].books)) >= Minimum, page[m - 1] = <<>>
      PROVE  page[m] # <<>>
  <2>1. AddCarousel(v, <<>>, offers[m]) # <<>>
    BY <1>1, <1>9, AddCarouselGrows
  <2> QED
    BY <1>6, <1>9, <2>1
<1> QED
  BY <1>8, <1>9

\* Offers of books in a set.
OffersOf(S) == {o \in Offer : Range(o.books) \subseteq S}

\* A section offers its books.
LEMMA SectionIs ==
    ASSUME NEW kind \in PlainKinds, NEW books \in Seq(Books)
    PROVE  /\ Section(kind, books) \in OffersOf(Range(books))
           /\ Section(kind, books).kind = kind /\ Section(kind, books).books = books
           /\ Section(kind, books).minimum = Minimum
           /\ Section(kind, books).kind \notin RankingKinds
<1>1. Minimum \in Nat
  BY NumbersAre
<1>2. kind \notin RankingKinds
  BY KindsApart
<1> QED
  BY <1>1, <1>2 DEF Section, Offer, OffersOf

\* A ranking offers its books.
LEMMA RankingIs ==
    ASSUME NEW kind \in RankingKinds, NEW books \in Seq(Books), NEW minimum \in Nat
    PROVE  /\ Ranking(kind, books, minimum) \in OffersOf(Range(books))
           /\ Ranking(kind, books, minimum).kind = kind
           /\ Ranking(kind, books, minimum).books = books
  BY DEF Ranking, Offer, OffersOf

\* What may be seen is some of the catalogue.
LEMMA VisibleIs ==
    ASSUME NEW v
    PROVE  /\ Visible(v) \subseteq Books /\ IsFiniteSet(Visible(v))
           /\ NewestFirst(Visible(v)) \in Once(Books)
           /\ Range(NewestFirst(Visible(v))) = Visible(v)
<1>1. Visible(v) \subseteq Books
  BY DEF Visible, Active
<1>2. IsFiniteSet(Books)
  BY NumbersAre, UpTo DEF Books
<1> QED
  BY <1>1, <1>2, FS_Subset, InOrder

\* What a guest is offered: books of her school, one ranking, and what is new.
LEMMA GuestOffersAre ==
    ASSUME NEW v, NEW shuffled \in Seq(Books), Range(shuffled) \subseteq Visible(v),
           NEW picked, NEW k \in Nat, DOMAIN picked = 1 .. k,
           NEW offers, offers = GuestOffers(v, shuffled, picked)
    PROVE  /\ offers \in Seq(OffersOf(Visible(v))) /\ OneRanking(offers)
           /\ Len(offers) >= 2 /\ offers[2] = Section("new", NewestFirst(Visible(v)))
<1>1. PICK T : T = OffersOf(Visible(v))
  OBVIOUS
<1>2. PICK new : new = NewestFirst(Visible(v))
  OBVIOUS
<1>3. new \in Seq(Books) /\ Range(new) = Visible(v)
  BY <1>2, VisibleIs DEF Once
<1>4. PICK all : all = GuestPayload(v)
  OBVIOUS
<1>5. all \in Seq(Books) /\ Range(all) = Visible(v)
  BY <1>2, <1>3, <1>4, AvailableFirstIs DEF GuestPayload
<1>6. PICK popular : popular = Keep(MostLent(ReturnedLoans(v.school, 4)), Visible(v))
  OBVIOUS
<1>7. popular \in Seq(Books) /\ Range(popular) \subseteq Visible(v)
  <2>1. MostLent(ReturnedLoans(v.school, 4)) \in Once(Books)
    BY MostLentIs
  <2> QED
    BY <1>6, <2>1, OnceKept DEF Once
<1>8. PICK quarter :
        quarter = Keep(First(SectionSize, MostLent(ReturnedLoans(v.school, 1))), Visible(v))
  OBVIOUS
<1>9. quarter \in Seq(Books) /\ Range(quarter) \subseteq Visible(v)
  <2>1. MostLent(ReturnedLoans(v.school, 1)) \in Once(Books) /\ SectionSize \in Int
    BY MostLentIs, NumbersAre
  <2>2. First(SectionSize, MostLent(ReturnedLoans(v.school, 1))) \in Once(Books)
    BY <2>1, OnceKept
  <2> QED
    BY <1>8, <2>2, OnceKept DEF Once
<1>10. PICK pa : pa = popular \o all
  OBVIOUS
<1>11. pa \in Seq(Books) /\ Range(pa) \subseteq Visible(v)
  <2>1. popular \o all \in Seq(Books) /\ Range(popular \o all) = Range(popular) \cup Range(all)
    BY <1>5, <1>7, CatIs
  <2> QED
    BY <1>5, <1>7, <1>10, <2>1
<1>12. PICK qp : qp = quarter \o popular
  OBVIOUS
<1>13. qp \in Seq(Books) /\ Range(qp) \subseteq Visible(v)
  <2>1. /\ quarter \o popular \in Seq(Books)
        /\ Range(quarter \o popular) = Range(quarter) \cup Range(popular)
    BY <1>7, <1>9, CatIs
  <2> QED
    BY <1>7, <1>9, <1>12, <2>1
<1>14. PICK qpa : qpa = qp \o all
  OBVIOUS
<1>15. qpa \in Seq(Books) /\ Range(qpa) \subseteq Visible(v)
  <2>1. qp \o all \in Seq(Books) /\ Range(qp \o all) = Range(qp) \cup Range(all)
    BY <1>5, <1>13, CatIs
  <2> QED
    BY <1>5, <1>13, <1>14, <2>1
<1>16. PICK genre : genre =
         [i \in 1 .. k |->
            Section("genre", First(SectionSize, NewestFirst(WithGenre(Visible(v), picked[i]))))]
  OBVIOUS
<1>17. PICK four : four = <<Section("popular", pa), Section("new", new),
                            Ranking("quarter", qpa, Minimum), Section("shuffled", shuffled)>>
  OBVIOUS
<1>18. offers = four \o genre
  BY <1>2, <1>4, <1>6, <1>8, <1>10, <1>12, <1>14, <1>16, <1>17 DEF GuestOffers
<1>19. /\ four[1] \in T /\ four[2] \in T /\ four[3] \in T /\ four[4] \in T
       /\ four[1].kind \notin RankingKinds /\ four[2].kind \notin RankingKinds
       /\ four[4].kind \notin RankingKinds
  <2>1. /\ "popular" \in PlainKinds /\ "new" \in PlainKinds /\ "shuffled" \in PlainKinds
        /\ "quarter" \in RankingKinds /\ Minimum \in Nat
    BY NumbersAre DEF PlainKinds, RankingKinds
  <2>2. four[1] \in T /\ four[1].kind \notin RankingKinds
    BY <1>1, <1>11, <1>17, <2>1, SectionIs DEF OffersOf
  <2>3. four[2] \in T /\ four[2].kind \notin RankingKinds
    BY <1>1, <1>3, <1>17, <2>1, SectionIs DEF OffersOf
  <2>4. four[3] \in T
    BY <1>1, <1>15, <1>17, <2>1, RankingIs DEF OffersOf
  <2>5. four[4] \in T /\ four[4].kind \notin RankingKinds
    BY <1>1, <1>17, <2>1, SectionIs DEF OffersOf
  <2> QED
    BY <2>2, <2>3, <2>4, <2>5
<1>20. four \in Seq(T) /\ Len(four) = 4
  BY <1>17, <1>19
<1>21. ASSUME NEW i \in 1 .. k
       PROVE  genre[i] \in T /\ genre[i].kind \notin RankingKinds
  <2>1. PICK s : s = First(SectionSize, NewestFirst(WithGenre(Visible(v), picked[i])))
    OBVIOUS
  <2>2. s \in Seq(Books) /\ Range(s) \subseteq Visible(v)
    <3>1. PICK n : n = NewestFirst(WithGenre(Visible(v), picked[i]))
      OBVIOUS
    <3>2. n \in Once(Books) /\ Range(n) \subseteq Visible(v) /\ SectionSize \in Int
      BY <3>1, InOrder, NumbersAre DEF WithGenre
    <3> QED
      BY <2>1, <3>1, <3>2, OnceKept DEF Once
  <2>3. "genre" \in PlainKinds /\ genre[i] = Section("genre", s)
    BY <1>16, <2>1 DEF PlainKinds
  <2> QED
    BY <1>1, <2>2, <2>3, SectionIs DEF OffersOf
<1>22. genre \in Seq(T) /\ Len(genre) = k
  <2>1. genre \in [1 .. k -> T]
    BY <1>16, <1>21
  <2> QED
    BY <2>1
<1>23. /\ offers \in Seq(T) /\ Len(offers) = 4 + k
       /\ \A i \in 1 .. 4 : offers[i] = four[i]
       /\ \A i \in 1 .. k : offers[4 + i] = genre[i]
  <2>1. /\ four \o genre \in Seq(T) /\ Len(four \o genre) = Len(four) + Len(genre)
        /\ \A i \in 1 .. Len(four) : (four \o genre)[i] = four[i]
        /\ \A i \in 1 .. Len(genre) : (four \o genre)[Len(four) + i] = genre[i]
    <3>1. four \in Seq(T) /\ genre \in Seq(T)
      BY <1>20, <1>22
    <3> QED
      BY <3>1, CatIs
  <2> QED
    BY <1>18, <1>20, <1>22, <2>1
<1>24. ASSUME NEW i \in 1 .. Len(offers), offers[i].kind \in RankingKinds
       PROVE  i = 3
  <2>1. CASE i \in 1 .. 4
    <3>1. offers[i] = four[i] /\ (i = 1 \/ i = 2 \/ i = 3 \/ i = 4)
      BY <1>23, <2>1
    <3> QED
      BY <1>19, <1>24, <3>1
  <2>2. CASE i > 4
    <3>1. PICK j \in 1 .. k : i = 4 + j
      BY <1>23, <2>2
    <3> QED
      BY <1>21, <1>23, <1>24, <3>1
  <2> QED
    BY <2>1, <2>2
<1>25. OneRanking(offers)
  BY <1>24 DEF OneRanking
<1>26. Len(offers) >= 2 /\ offers[2] = Section("new", new)
  BY <1>17, <1>23
<1> QED
  BY <1>1, <1>2, <1>23, <1>25, <1>26

\* The orders that a shuffle or a sample may give.
LEMMA ShufflesAre ==
    ASSUME NEW v
    PROVE  /\ \A s \in Shuffles(v) \cup {GuestPayload(v)} :
                s \in Seq(Books) /\ Range(s) \subseteq Visible(v)
           /\ \A picked \in Samples(v) : \E k \in Nat : DOMAIN picked = 1 .. k
<1>1. Cardinality(Visible(v)) \in Nat
  BY VisibleIs, FS_CardinalityType
<1>2. ASSUME NEW s \in Shuffles(v)
      PROVE  s \in Seq(Books) /\ Range(s) \subseteq Visible(v)
  <2>1. s \in [1 .. Cardinality(Visible(v)) -> Visible(v)]
    BY DEF Shuffles, SetToSeqs
  <2>2. s \in Seq(Visible(v))
    BY <1>1, <2>1
  <2>3. s \in Seq(Books)
    BY <1>1, <2>1, VisibleIs
  <2> QED
    BY <2>2, <2>3, RangeIs
<1>3. GuestPayload(v) \in Seq(Books) /\ Range(GuestPayload(v)) \subseteq Visible(v)
  <2>1. /\ NewestFirst(Visible(v)) \in Seq(Books)
        /\ Range(NewestFirst(Visible(v))) = Visible(v)
    BY VisibleIs DEF Once
  <2> QED
    BY <2>1, AvailableFirstIs DEF GuestPayload
<1>4. ASSUME NEW picked \in Samples(v)
      PROVE  \E k \in Nat : DOMAIN picked = 1 .. k
  <2>1. PICK some \in SUBSET EligibleGenres(v) : picked \in SetToSeqs(some)
    BY DEF Samples, kSubset
  <2>2. some \subseteq Books
    BY <2>1, ViewsAssumption DEF EligibleGenres, ViewsAssumption
  <2>3. IsFiniteSet(Books)
    BY NumbersAre, UpTo DEF Books
  <2>4. Cardinality(some) \in Nat
    BY <2>2, <2>3, FS_Subset, FS_CardinalityType
  <2>5. DOMAIN picked = 1 .. Cardinality(some)
    BY <2>1 DEF SetToSeqs
  <2> QED
    BY <2>4, <2>5
<1> QED
  BY <1>2, <1>3, <1>4

\* A guest's home page, whatever the shuffle and the sample.
LEMMA GuestPagesAre ==
    ASSUME NEW v, NEW shuffled \in Shuffles(v) \cup {GuestPayload(v)}, NEW picked \in Samples(v),
           NEW q, q = GuestHome(v, shuffled, picked)
    PROVE  /\ Useful(q, GuestSections)
           /\ BooksOn(q, {}) \subseteq Visible(v)
           /\ Cardinality(Visible(v)) >= Minimum => q # <<>>
<1>1. PICK offers : offers = GuestOffers(v, shuffled, picked)
  OBVIOUS
<1>2. PICK k \in Nat : DOMAIN picked = 1 .. k
  BY ShufflesAre
<1>3. /\ offers \in Seq(OffersOf(Visible(v))) /\ OneRanking(offers)
      /\ Len(offers) >= 2 /\ offers[2] = Section("new", NewestFirst(Visible(v)))
  BY <1>1, <1>2, ShufflesAre, GuestOffersAre
<1>4. PICK N \in Nat : N = Len(offers)
  BY <1>3, RangeIs
<1>5. /\ offers \in Seq(Offer)
      /\ \A m \in 1 .. N : Range(offers[m].books) \subseteq Visible(v)
  <2>1. OffersOf(Visible(v)) \subseteq Offer
    BY DEF OffersOf
  <2>2. \A m \in 1 .. N : offers[m] \in OffersOf(Visible(v))
    BY <1>3, <1>4, RangeIs
  <2> QED
    BY <1>3, <2>1, <2>2 DEF OffersOf
<1>6. /\ Useful(q, GuestSections)
      /\ \A i \in DOMAIN q : \E m \in 1 .. N : Shows(q[i], offers[m])
      /\ \A m \in 1 .. N :
           offers[m].minimum = Minimum /\ Cardinality(Range(offers[m].books)) >= Minimum
             => q # <<>>
  BY <1>1, <1>3, <1>4, <1>5, GuestHomeIs
<1>7. BooksOn(q, {}) \subseteq Visible(v)
  <2>1. \A i \in DOMAIN q : Range(q[i].books) \subseteq Visible(v)
    BY <1>5, <1>6 DEF Shows
  <2> QED
    BY <2>1 DEF BooksOn
<1>8. offers[2].minimum = Minimum /\ Range(offers[2].books) = Visible(v) /\ 2 \in 1 .. N
  <2>1. "new" \in PlainKinds
    BY DEF PlainKinds
  <2>2. NewestFirst(Visible(v)) \in Seq(Books) /\ Range(NewestFirst(Visible(v))) = Visible(v)
    BY VisibleIs DEF Once
  <2>3. offers[2].minimum = Minimum /\ offers[2].books = NewestFirst(Visible(v))
    BY <1>3, <2>1, <2>2, SectionIs
  <2> QED
    BY <1>3, <1>4, <2>2, <2>3
<1> QED
  BY <1>6, <1>7, <1>8

-----------------------------------------------------------------------------
(* What a reader is offered.                                               *)

\* Sections that show what other readers borrowed, or what she has read.
Personal == {"recommended", "recently-read", "because-you-read"}
OffersTo(v) == {o \in Offer : o.kind \notin Personal => Range(o.books) \subseteq Visible(v)}
PlainTo(v) == {o \in OffersTo(v) : o.kind \notin RankingKinds}

\* A section that is not a ranking.
LEMMA PlainSection ==
    ASSUME NEW v, NEW kind \in PlainKinds, NEW books \in Seq(Books),
           kind \notin Personal => Range(books) \subseteq Visible(v)
    PROVE  Section(kind, books) \in PlainTo(v)
<1>1. /\ Section(kind, books) \in Offer /\ Section(kind, books).kind = kind
      /\ Section(kind, books).books = books /\ Section(kind, books).kind \notin RankingKinds
  BY SectionIs DEF OffersOf
<1> QED
  BY <1>1 DEF PlainTo, OffersTo

\* The kinds of section on a reader's page.
LEMMA KindsOfReader ==
    /\ Personal \subseteq PlainKinds
    /\ {"because-you-like", "popular-in-genre", "popular-genre", "new", "discovery"}
         \subseteq PlainKinds \ Personal
    /\ {"semester", "year"} \subseteq RankingKinds /\ RankingKinds \cap Personal = {}
  BY DEF Personal, PlainKinds, RankingKinds

\* What is new: the newest books she may see, and as many as the limit lets.
LEMMA NewBooksAre ==
    ASSUME NEW v
    PROVE  /\ NewBooks(v) \in Seq(Books) /\ Range(NewBooks(v)) \subseteq Visible(v)
           /\ Min({HomeLimit, Cardinality(Visible(v))}) >= Minimum
                => Cardinality(Range(NewBooks(v))) >= Minimum
<1>1. PICK s : s = NewestFirst(Visible(v))
  OBVIOUS
<1>2. s \in Once(Books) /\ Range(s) = Visible(v)
  BY <1>1, VisibleIs
<1>3. PICK l \in Nat : l = Len(s) /\ l = Cardinality(Visible(v))
  BY <1>2, OnceLen, RangeIs DEF Once
<1>4. HomeLimit \in Int /\ HomeLimit \in Nat /\ ~(HomeLimit < 0)
  <2>1. HomeLimit \in Nat
    BY NumbersAre
  <2> QED
    BY <2>1
<1>5. PICK f : f = First(HomeLimit, s)
  OBVIOUS
<1>6. f \in Once(Books) /\ Range(f) \subseteq Visible(v)
  BY <1>2, <1>4, <1>5, OnceKept
<1>7. Len(f) = IF HomeLimit <= l THEN HomeLimit ELSE l
  <2>1. s \in Seq(Books)
    BY <1>2 DEF Once
  <2>2. Len(First(HomeLimit, s)) =
          IF HomeLimit < 0 THEN 0 ELSE IF HomeLimit <= Len(s) THEN HomeLimit ELSE Len(s)
    BY <1>4, <2>1, FirstIs
  <2> QED
    BY <1>3, <1>4, <1>5, <2>2
<1>8. Min({HomeLimit, l}) = IF HomeLimit <= l THEN HomeLimit ELSE l
  BY <1>3, <1>4, MinOfTwo
<1>9. NewBooks(v) = AvailableFirst(v, f)
  BY <1>1, <1>5 DEF NewBooks
<1>10. NewBooks(v) \in Seq(Books) /\ Range(NewBooks(v)) = Range(f)
  BY <1>6, <1>9, AvailableFirstIs DEF Once
<1>11. Cardinality(Range(f)) = Len(f)
  BY <1>6, OnceLen
<1> QED
  BY <1>3, <1>6, <1>7, <1>8, <1>10, <1>11

\* The sections made of recommendations and of what was read.
LEMMA RecommendedIs ==
    ASSUME NEW v, v.role # "guest"
    PROVE  /\ Recommended(v) \in Seq(Books)
           /\ RecentlyRead(v) \in Seq(Books) /\ BecauseYouRead(v) \in Seq(Books)
<1>1. HomeLimit \in Nat \ {0} /\ HomeLimit \in Int
  BY NumbersAre
<1>2. ASSUME NEW target
      PROVE  Recommendations(v, target, HomeLimit) \in Seq(Books)
  <2>1. Recommendations(v, target, HomeLimit) = AccountRecommendations(v, target, HomeLimit)
    BY DEF Recommendations
  <2>2. AccountRecommendations(v, target, HomeLimit) \in Without(target)
    BY <1>1, AccountRecommendationsAre
  <2> QED
    BY <2>1, <2>2 DEF Without, Once
<1>3. Recommended(v) \in Seq(Books)
  <2>1. PICK given : given = Recommendations(v, LentBook(Max(LoansOf(v.user))), HomeLimit)
    OBVIOUS
  <2>2. PICK own : own = IF LoansOf(v.user) = {} THEN <<>> ELSE given
    OBVIOUS
  <2>3. given \in Seq(Books) /\ <<>> \in Seq(Books)
    BY <1>2, <2>1
  <2>4. own \in Seq(Books)
    BY <2>2, <2>3
  <2>5. Recommended(v) = IF own = <<>> THEN NewBooks(v) ELSE own
    BY <2>1, <2>2 DEF Recommended, OrElse
  <2> QED
    BY <2>4, <2>5, NewBooksAre
<1>4. RecentlyRead(v) \in Seq(Books)
  <2>1. PICK weight : RecentlyRead(v) = First(HomeLimit, Ranked(weight))
    BY DEF RecentlyRead
  <2>2. Ranked(weight) \in Once(Books)
    BY RankedIs
  <2> QED
    BY <1>1, <2>1, <2>2, OnceKept DEF Once
<1>5. BecauseYouRead(v) \in Seq(Books)
  BY <1>2, DropIs DEF BecauseYouRead
<1> QED
  BY <1>3, <1>4, <1>5

\* A pair of sections.
LEMMA PairIs ==
    ASSUME NEW T, NEW a \in T, NEW b \in T
    PROVE  <<a, b>> \in Seq(T) /\ <<a>> \in Seq(T) /\ <<>> \in Seq(T)
  OBVIOUS

\* What she read last, and what that recommends.
LEMMA PersonalSectionsAre ==
    ASSUME NEW v, v.role # "guest"
    PROVE  PersonalSections(v) \in Seq(PlainTo(v))
<1>1. PICK read \in Seq(Books) : read = RecentlyRead(v)
  BY RecommendedIs
<1>2. PICK because \in Seq(Books) : because = BecauseYouRead(v)
  BY RecommendedIs
<1>3. /\ "recently-read" \in PlainKinds \cap Personal
      /\ "because-you-read" \in PlainKinds \cap Personal
  BY KindsOfReader DEF Personal
<1>4. PICK s \in PlainTo(v) : s = Section("recently-read", read)
  BY <1>3, PlainSection
<1>5. PICK t \in PlainTo(v) : t = Section("because-you-read", because)
  BY <1>3, PlainSection
<1>6. PICK r : r = [s EXCEPT !.minimum = 1]
  OBVIOUS
<1>7. r \in PlainTo(v)
  <2>1. /\ s \in [kind : PlainKinds \cup RankingKinds, books : Seq(Books), minimum : Nat]
        /\ s.kind \notin RankingKinds
        /\ s.kind \notin Personal => Range(s.books) \subseteq Visible(v)
    BY <1>4 DEF PlainTo, OffersTo, Offer
  <2>2. /\ r \in [kind : PlainKinds \cup RankingKinds, books : Seq(Books), minimum : Nat]
        /\ r.kind = s.kind /\ r.books = s.books
    BY <1>6, <2>1
  <2> QED
    BY <2>1, <2>2 DEF PlainTo, OffersTo, Offer
<1>8. PersonalSections(v) = IF read = <<>> THEN <<>> ELSE <<r, t>>
  BY <1>1, <1>2, <1>4, <1>5, <1>6 DEF PersonalSections
<1> QED
  BY <1>5, <1>7, <1>8, PairIs

\* The newest books of a genre that she may see.
LEMMA NewOfGenreIs ==
    ASSUME NEW v, NEW g
    PROVE  NewOfGenre(v, g) \in Seq(Books) /\ Range(NewOfGenre(v, g)) \subseteq Visible(v)
<1>1. PICK S : S = WithGenre(Visible(v), g)
  OBVIOUS
<1>2. S \subseteq Visible(v)
  BY <1>1 DEF WithGenre
<1>3. NewestFirst(S) \in Once(Books) /\ Range(NewestFirst(S)) = S \cap Books
  BY InOrder
<1>4. GenreLimit \in Int
  BY NumbersAre
<1>5. /\ First(GenreLimit, NewestFirst(S)) \in Once(Books)
      /\ Range(First(GenreLimit, NewestFirst(S))) \subseteq Range(NewestFirst(S))
  BY <1>3, <1>4, OnceKept
<1>6. NewOfGenre(v, g) = First(GenreLimit, NewestFirst(S))
  BY <1>1 DEF NewOfGenre
<1> QED
  BY <1>2, <1>3, <1>5, <1>6 DEF Once

\* A genre with its completion.
LEMMA BooksOfGenreAre ==
    ASSUME NEW v, NEW g
    PROVE  BooksOfGenre(v, g) \in Seq(Books) /\ Range(BooksOfGenre(v, g)) \subseteq Visible(v)
<1>1. PICK books : books = NewOfGenre(v, g)
  OBVIOUS
<1>2. books \in Seq(Books) /\ Range(books) \subseteq Visible(v) /\ Len(books) \in Nat
  BY <1>1, NewOfGenreIs, RangeIs
<1>3. PICK related : related =
        {b \in Visible(v) \ Range(books) :
           AuthorOf[b] \in {AuthorOf[c] : c \in WithGenre(Catalogued, g)} \ {None}}
  OBVIOUS
<1>4. PICK n \in Int : n = GenreLimit - Len(books)
  BY <1>2, NumbersAre
<1>5. PICK f : f = First(n, NewestFirst(related))
  OBVIOUS
<1>6. f \in Seq(Books) /\ Range(f) \subseteq Visible(v)
  <2>1. NewestFirst(related) \in Once(Books) /\ Range(NewestFirst(related)) \subseteq Visible(v)
    BY <1>3, InOrder
  <2> QED
    BY <1>5, <2>1, OnceKept DEF Once
<1>7. PICK more : more = IF Len(books) < RelatedBelow THEN f ELSE <<>>
  OBVIOUS
<1>8. more \in Seq(Books) /\ Range(more) \subseteq Visible(v)
  <2>1. <<>> \in Seq(Books) /\ Range(<<>>) = {}
    BY DEF Range
  <2> QED
    BY <1>6, <1>7, <2>1
<1>9. PICK all : all = books \o more
  OBVIOUS
<1>10. all \in Seq(Books) /\ Range(all) \subseteq Visible(v)
  <2>1. /\ books \o more \in Seq(Books)
        /\ Range(books \o more) = Range(books) \cup Range(more)
    BY <1>2, <1>8, CatIs
  <2> QED
    BY <1>2, <1>8, <1>9, <2>1
<1>11. BooksOfGenre(v, g) = AvailableFirst(v, all)
  BY <1>1, <1>3, <1>4, <1>5, <1>7, <1>9 DEF BooksOfGenre
<1> QED
  BY <1>10, <1>11, AvailableFirstIs

\* What was lent of a genre.
LEMMA PopularInGenreIs ==
    ASSUME NEW v, NEW g
    PROVE  PopularInGenre(v, g) \in Seq(Books) /\ Range(PopularInGenre(v, g)) \subseteq Visible(v)
<1>1. PICK lent : lent = {l \in ReturnedLoans(None, 1) : g \in GenresOf[LentBook(l)]}
  OBVIOUS
<1>2. PICK kept : kept = Keep(First(GenreLimit, MostLent(lent)), Visible(v))
  OBVIOUS
<1>3. kept \in Seq(Books) /\ Range(kept) \subseteq Visible(v)
  <2>1. MostLent(lent) \in Once(Books) /\ GenreLimit \in Int
    BY MostLentIs, NumbersAre
  <2>2. First(GenreLimit, MostLent(lent)) \in Once(Books)
    BY <2>1, OnceKept
  <2> QED
    BY <1>2, <2>2, OnceKept DEF Once
<1>4. PopularInGenre(v, g) = IF lent = {} THEN BooksOfGenre(v, g) ELSE kept
  BY <1>1, <1>2 DEF PopularInGenre
<1> QED
  BY <1>3, <1>4, BooksOfGenreAre

\* Two sections for each genre of her history.
LEMMA GenreSectionsAre ==
    ASSUME NEW v
    PROVE  GenreSections(v) \in Seq(PlainTo(v))
<1>1. PICK genres : genres = GenresOfHistory(v)
  OBVIOUS
<1>2. Len(genres) \in Nat
  <2>1. PICK weight : genres = First(3, Ranked(weight))
    BY <1>1 DEF GenresOfHistory
  <2>2. PICK three \in Int : three = 3
    OBVIOUS
  <2>3. Ranked(weight) \in Once(Books)
    BY RankedIs
  <2>4. First(three, Ranked(weight)) \in Once(Books)
    BY <2>3, OnceKept
  <2> QED
    BY <2>1, <2>2, <2>4, RangeIs DEF Once
<1>3. PICK N \in Nat : N = 2 * Len(genres)
  BY <1>2
<1>4. PICK s : s = [i \in 1 .. N |->
                      IF i % 2 = 1
                      THEN Section("because-you-like", BooksOfGenre(v, genres[(i + 1) \div 2]))
                      ELSE Section("popular-in-genre", PopularInGenre(v, genres[(i + 1) \div 2]))]
  OBVIOUS
<1>5. GenreSections(v) = s
  BY <1>1, <1>3, <1>4 DEF GenreSections
<1>6. ASSUME NEW g
      PROVE  /\ Section("because-you-like", BooksOfGenre(v, g)) \in PlainTo(v)
             /\ Section("popular-in-genre", PopularInGenre(v, g)) \in PlainTo(v)
  <2>1. "because-you-like" \in PlainKinds /\ "popular-in-genre" \in PlainKinds
    BY KindsOfReader
  <2> QED
    BY <2>1, BooksOfGenreAre, PopularInGenreIs, PlainSection
<1>7. s \in [1 .. N -> PlainTo(v)]
  BY <1>4, <1>6
<1> QED
  BY <1>5, <1>7

\* Two for a reader without genres.
LEMMA SeedSectionsAre ==
    ASSUME NEW v
    PROVE  SeedSections(v) \in Seq(PlainTo(v))
<1>1. PICK lent : lent = GenresByLoans(ReturnedLoans(None, 4))
  OBVIOUS
<1>2. PICK books : books = NewOfGenre(v, Head(lent))
  OBVIOUS
<1>3. books \in Seq(Books) /\ Range(books) \subseteq Visible(v)
  BY <1>2, NewOfGenreIs
<1>4. "because-you-like" \in PlainKinds /\ "popular-in-genre" \in PlainKinds
  BY KindsOfReader
<1>5. PICK s \in PlainTo(v) : s = Section("because-you-like", books)
  BY <1>3, <1>4, PlainSection
<1>6. PICK t \in PlainTo(v) : t = Section("popular-in-genre", books)
  BY <1>3, <1>4, PlainSection
<1>7. SeedSections(v) = IF GenresOfHistory(v) # <<>> \/ lent = <<>> THEN <<>> ELSE <<s, t>>
  BY <1>1, <1>2, <1>5, <1>6 DEF SeedSections
<1> QED
  BY <1>5, <1>6, <1>7, PairIs

\* Two for a reader without a history.
LEMMA PopularGenresAre ==
    ASSUME NEW v
    PROVE  PopularGenres(v) \in Seq(PlainTo(v))
<1>1. PICK lent : lent = First(2, GenresByLoans(ReturnedLoans(None, 4)))
  OBVIOUS
<1>2. Len(lent) \in Nat /\ DOMAIN lent = 1 .. Len(lent)
  <2>1. PICK weight : GenresByLoans(ReturnedLoans(None, 4)) = Ranked(weight)
    BY DEF GenresByLoans
  <2>2. PICK two \in Int : two = 2
    OBVIOUS
  <2>3. Ranked(weight) \in Once(Books)
    BY RankedIs
  <2>4. First(two, Ranked(weight)) \in Once(Books)
    BY <2>3, OnceKept
  <2> QED
    BY <1>1, <2>1, <2>2, <2>4, RangeIs DEF Once
<1>3. PICK s : s = [i \in DOMAIN lent |-> Section("popular-genre", NewOfGenre(v, lent[i]))]
  OBVIOUS
<1>4. ASSUME NEW i \in DOMAIN lent
      PROVE  s[i] \in PlainTo(v)
  <2>1. "popular-genre" \in PlainKinds
    BY KindsOfReader
  <2>2. Section("popular-genre", NewOfGenre(v, lent[i])) \in PlainTo(v)
    BY <2>1, NewOfGenreIs, PlainSection
  <2> QED
    BY <1>3, <2>2
<1>5. s \in [DOMAIN lent -> PlainTo(v)]
  BY <1>3, <1>4
<1>6. s \in Seq(PlainTo(v)) /\ <<>> \in Seq(PlainTo(v))
  BY <1>2, <1>5
<1>7. PopularGenres(v) = IF History(v.user) # {} THEN <<>> ELSE s
  BY <1>1, <1>3 DEF PopularGenres
<1> QED
  BY <1>6, <1>7

\* One ranking, of books she may see.
LEMMA RankingSectionsAre ==
    ASSUME NEW v
    PROVE  RankingSections(v) \in Seq(OffersTo(v)) /\ Len(RankingSections(v)) = 1
<1>1. PICK kind \in RankingKinds, popular \in Seq(Books) :
        RankingSections(v) =
          <<Ranking(kind, IF popular = <<>> THEN NewBooks(v) ELSE Keep(popular, Visible(v)), 1)>>
  <2>1. PICK half : half = First(HomeLimit, MostLent(ReturnedLoans(v.school, 2)))
    OBVIOUS
  <2>2. PICK whole : whole = First(HomeLimit, MostLent(ReturnedLoans(v.school, 3)))
    OBVIOUS
  <2>3. half \in Seq(Books) /\ whole \in Seq(Books)
    <3>1. /\ MostLent(ReturnedLoans(v.school, 2)) \in Once(Books)
          /\ MostLent(ReturnedLoans(v.school, 3)) \in Once(Books)
          /\ HomeLimit \in Int
      BY MostLentIs, NumbersAre
    <3> QED
      BY <2>1, <2>2, <3>1, OnceKept DEF Once
  <2>4. PICK kind : kind = IF Len(half) < Minimum THEN "year" ELSE "semester"
    OBVIOUS
  <2>5. PICK popular : popular = IF Len(half) < Minimum THEN whole ELSE half
    OBVIOUS
  <2>6. RankingSections(v) =
          <<Ranking(kind, IF popular = <<>> THEN NewBooks(v) ELSE Keep(popular, Visible(v)), 1)>>
    BY <2>1, <2>2, <2>4, <2>5 DEF RankingSections
  <2>7. kind \in RankingKinds /\ popular \in Seq(Books)
    BY <2>3, <2>4, <2>5, KindsOfReader
  <2> QED
    BY <2>6, <2>7
<1>2. PICK books : books = IF popular = <<>> THEN NewBooks(v) ELSE Keep(popular, Visible(v))
  OBVIOUS
<1>3. books \in Seq(Books) /\ Range(books) \subseteq Visible(v)
  <2>1. Keep(popular, Visible(v)) \in Seq(Books)
    BY KeepIs
  <2>2. Range(Keep(popular, Visible(v))) \subseteq Visible(v)
    BY KeepIs
  <2> QED
    BY <1>2, <2>1, <2>2, NewBooksAre
<1>4. PICK one \in Nat : one = 1
  OBVIOUS
<1>5. Ranking(kind, books, one) \in OffersOf(Range(books))
  BY <1>3, RankingIs
<1>6. Ranking(kind, books, 1) \in OffersTo(v)
  BY <1>3, <1>4, <1>5 DEF OffersOf, OffersTo
<1> QED
  BY <1>1, <1>2, <1>6, PairIs

\* Where the ranking is, if there is one.
RankedAt(s, R) == \A i \in 1 .. Len(s) : s[i].kind \in RankingKinds => i = R

\* Sections that are not rankings may follow.
LEMMA PlainAfter ==
    ASSUME NEW v, NEW s \in Seq(OffersTo(v)), NEW R, RankedAt(s, R),
           NEW t \in Seq(PlainTo(v)), NEW u, u = s \o t
    PROVE  u \in Seq(OffersTo(v)) /\ RankedAt(u, R)
<1>1. PlainTo(v) \subseteq OffersTo(v) /\ \A o \in PlainTo(v) : o.kind \notin RankingKinds
  BY DEF PlainTo
<1>2. t \in Seq(OffersTo(v))
  BY <1>1
<1>3. /\ s \o t \in Seq(OffersTo(v)) /\ Len(s \o t) = Len(s) + Len(t)
      /\ \A i \in 1 .. Len(s) : (s \o t)[i] = s[i]
      /\ \A i \in 1 .. Len(t) : (s \o t)[Len(s) + i] = t[i]
  BY <1>2, CatIs
<1>4. Len(s) \in Nat /\ Len(t) \in Nat /\ \A i \in 1 .. Len(t) : t[i] \in PlainTo(v)
  BY RangeIs
<1>5. PICK k \in Nat, l \in Nat : k = Len(s) /\ l = Len(t)
  BY <1>4
<1>6. ASSUME NEW i \in 1 .. (k + l), u[i].kind \in RankingKinds
      PROVE  i = R
  <2>1. CASE i \in 1 .. k
    <3>1. u[i] = s[i]
      BY <1>3, <1>5, <2>1
    <3> QED
      BY <1>5, <1>6, <2>1, <3>1 DEF RankedAt
  <2>2. CASE i > k
    <3>1. PICK j \in 1 .. l : i = k + j
      <4>1. i - k \in 1 .. l /\ i = k + (i - k)
        BY <2>2
      <4> QED
        BY <4>1
    <3>2. u[i] = t[j] /\ t[j] \in PlainTo(v)
      BY <1>3, <1>4, <1>5, <3>1
    <3> QED
      BY <1>1, <1>6, <3>2
  <2> QED
    BY <2>1, <2>2
<1>7. u \in Seq(OffersTo(v)) /\ Len(u) = k + l
  BY <1>3, <1>5
<1> QED
  BY <1>6, <1>7 DEF RankedAt

\* Plain sections one after the other.
LEMMA PlainCat ==
    ASSUME NEW v, NEW s \in Seq(PlainTo(v)), NEW t \in Seq(PlainTo(v))
    PROVE  s \o t \in Seq(PlainTo(v))
  BY CatIs

\* What a reader is offered: one ranking, and what is new.
LEMMA ReaderOffersAre ==
    ASSUME NEW v, v.role # "guest", NEW offers, offers = ReaderOffers(v)
    PROVE  /\ offers \in Seq(OffersTo(v)) /\ OneRanking(offers)
           /\ \E m \in 1 .. Len(offers) : offers[m] = Section("new", NewBooks(v))
<1>1. PICK first : first = <<Section("recommended", Recommended(v))>>
  OBVIOUS
<1>2. first \in Seq(PlainTo(v))
  <2>1. "recommended" \in PlainKinds /\ "recommended" \in Personal
    BY KindsOfReader DEF Personal
  <2>2. Section("recommended", Recommended(v)) \in PlainTo(v)
    BY <2>1, RecommendedIs, PlainSection
  <2> QED
    BY <1>1, <2>2, PairIs
<1>3. PICK last : last = <<Section("new", NewBooks(v)), Section("discovery", NewBooks(v))>>
  OBVIOUS
<1>4. last \in Seq(PlainTo(v))
  <2>1. "new" \in PlainKinds /\ "discovery" \in PlainKinds
    BY KindsOfReader
  <2>2. /\ Section("new", NewBooks(v)) \in PlainTo(v)
        /\ Section("discovery", NewBooks(v)) \in PlainTo(v)
    BY <2>1, NewBooksAre, PlainSection
  <2> QED
    BY <1>3, <2>2, PairIs
<1>5. PICK x : x = first \o PersonalSections(v) \o GenreSections(v) \o SeedSections(v)
  OBVIOUS
<1>6. x \in Seq(PlainTo(v))
  <2>1. first \o PersonalSections(v) \in Seq(PlainTo(v))
    BY <1>2, PersonalSectionsAre, PlainCat
  <2>2. (first \o PersonalSections(v)) \o GenreSections(v) \in Seq(PlainTo(v))
    BY <2>1, GenreSectionsAre, PlainCat
  <2>3. ((first \o PersonalSections(v)) \o GenreSections(v)) \o SeedSections(v)
          \in Seq(PlainTo(v))
    BY <2>2, SeedSectionsAre, PlainCat
  <2> QED
    BY <1>5, <2>3
<1>7. PICK k \in Nat : k = Len(x)
  BY <1>6, RangeIs
<1>8. PICK w : w = x \o RankingSections(v)
  OBVIOUS
<1>9. w \in Seq(OffersTo(v)) /\ RankedAt(w, k + 1)
  <2>1. x \in Seq(OffersTo(v)) /\ \A i \in 1 .. k : x[i].kind \notin RankingKinds
    <3>1. PlainTo(v) \subseteq OffersTo(v) /\ \A o \in PlainTo(v) : o.kind \notin RankingKinds
      BY DEF PlainTo
    <3>2. \A i \in 1 .. k : x[i] \in PlainTo(v)
      BY <1>6, <1>7, RangeIs
    <3>3. x \in Seq(OffersTo(v))
      BY <1>6, <3>1
    <3> QED
      BY <3>1, <3>2, <3>3
  <2>2. RankingSections(v) \in Seq(OffersTo(v)) /\ Len(RankingSections(v)) = 1
    BY RankingSectionsAre
  <2>3. /\ x \o RankingSections(v) \in Seq(OffersTo(v))
        /\ Len(x \o RankingSections(v)) = Len(x) + Len(RankingSections(v))
        /\ \A i \in 1 .. Len(x) : (x \o RankingSections(v))[i] = x[i]
    <3>1. x \in Seq(OffersTo(v)) /\ RankingSections(v) \in Seq(OffersTo(v))
      BY <2>1, <2>2
    <3> QED
      BY <3>1, CatIs
  <2>4. /\ w \in Seq(OffersTo(v)) /\ Len(w) = k + 1
        /\ \A i \in 1 .. k : w[i].kind \notin RankingKinds
    BY <1>7, <1>8, <2>1, <2>2, <2>3
  <2>5. \A i \in 1 .. (k + 1) : i = k + 1 \/ i \in 1 .. k
    OBVIOUS
  <2> QED
    BY <2>4, <2>5 DEF RankedAt
<1>10. PICK y : y = w \o PopularGenres(v)
  OBVIOUS
<1>11. y \in Seq(OffersTo(v)) /\ RankedAt(y, k + 1)
  BY <1>9, <1>10, PopularGenresAre, PlainAfter
<1>12. offers = y \o last
  BY <1>1, <1>3, <1>5, <1>8, <1>10 DEF ReaderOffers
<1>13. offers \in Seq(OffersTo(v)) /\ RankedAt(offers, k + 1)
  BY <1>4, <1>11, <1>12, PlainAfter
<1>14. OneRanking(offers)
  BY <1>13 DEF RankedAt, OneRanking
<1>15. \E m \in 1 .. Len(offers) : offers[m] = Section("new", NewBooks(v))
  <2>1. PICK l \in Nat : l = Len(y)
    BY <1>11, RangeIs
  <2>2. PICK o : o = Section("new", NewBooks(v))
    OBVIOUS
  <2>3. Len(last) = 2 /\ last[1] = o
    BY <1>3, <2>2
  <2>4. last \in Seq(OffersTo(v))
    <3>1. PlainTo(v) \subseteq OffersTo(v)
      BY DEF PlainTo
    <3> QED
      BY <1>4, <3>1
  <2>5. /\ Len(y \o last) = Len(y) + Len(last)
        /\ \A i \in 1 .. Len(last) : (y \o last)[Len(y) + i] = last[i]
    <3>1. y \in Seq(OffersTo(v)) /\ last \in Seq(OffersTo(v))
      BY <1>11, <2>4
    <3> QED
      BY <3>1, CatIs
  <2>6. 1 \in 1 .. Len(last)
    BY <2>3
  <2>7. Len(offers) = l + 2 /\ offers[l + 1] = o
    BY <1>12, <2>1, <2>3, <2>5, <2>6
  <2>8. l + 1 \in 1 .. Len(offers)
    BY <2>7
  <2> QED
    BY <2>2, <2>7, <2>8
<1> QED
  BY <1>13, <1>14, <1>15

\* A reader's home page.
LEMMA ReaderPageIs ==
    ASSUME NEW v, v.role # "guest", NEW q, q = ReaderHome(v)
    PROVE  /\ Useful(q, ReaderSections)
           /\ BooksOn(q, Personal) \subseteq Visible(v)
           /\ Min({HomeLimit, Cardinality(Visible(v))}) >= Minimum => q # <<>>
<1>1. PICK offers : offers = ReaderOffers(v)
  OBVIOUS
<1>2. /\ offers \in Seq(OffersTo(v)) /\ OneRanking(offers)
      /\ \E m \in 1 .. Len(offers) : offers[m] = Section("new", NewBooks(v))
  BY <1>1, ReaderOffersAre
<1>3. PICK N \in Nat : N = Len(offers)
  BY <1>2, RangeIs
<1>4. PICK new \in 1 .. N : offers[new] = Section("new", NewBooks(v))
  BY <1>2, <1>3
<1>5. /\ offers \in Seq(Offer)
      /\ \A m \in 1 .. N : offers[m].kind \notin Personal
                             => Range(offers[m].books) \subseteq Visible(v)
  <2>1. OffersTo(v) \subseteq Offer
    BY DEF OffersTo
  <2>2. \A m \in 1 .. N : offers[m] \in OffersTo(v)
    BY <1>2, <1>3, RangeIs
  <2> QED
    BY <1>2, <2>1, <2>2 DEF OffersTo
<1>6. /\ Useful(q, ReaderSections)
      /\ \A i \in DOMAIN q : \E m \in 1 .. N : Shows(q[i], offers[m])
      /\ \A m \in 1 .. N :
           offers[m].minimum = Minimum /\ Cardinality(Range(offers[m].books)) >= Minimum
             => q # <<>>
  BY <1>1, <1>2, <1>3, <1>5, ReaderHomeIs
<1>7. BooksOn(q, Personal) \subseteq Visible(v)
  <2>1. \A i \in DOMAIN q : q[i].kind \notin Personal => Range(q[i].books) \subseteq Visible(v)
    BY <1>5, <1>6 DEF Shows
  <2> QED
    BY <2>1 DEF BooksOn
<1>8. offers[new].minimum = Minimum /\ offers[new].books = NewBooks(v)
  <2>1. "new" \in PlainKinds /\ NewBooks(v) \in Seq(Books)
    BY KindsOfReader, NewBooksAre
  <2> QED
    BY <1>4, <2>1, SectionIs
<1>9. Min({HomeLimit, Cardinality(Visible(v))}) >= Minimum
        => Cardinality(Range(offers[new].books)) >= Minimum
  BY <1>8, NewBooksAre
<1> QED
  BY <1>6, <1>7, <1>8, <1>9

-----------------------------------------------------------------------------
(* The pages.                                                              *)

\* Whatever the shuffle, the sample and the history, the sections of the home pages are
\* useful: get_student_home of src/src/routers/books.py, with its add_public, add_carousel
\* and the ranking that is put fifth.
THEOREM SectionsKeptUseful == Spec => []SectionsUseful
<1>1. SectionsUseful
  <2>1. ASSUME NEW g \in Guests, NEW page \in GuestHomes(g)
        PROVE  /\ Useful(page, GuestSections)
               /\ Cardinality(Visible(g)) >= Minimum => page # <<>>
    <3>1. PICK picked \in Samples(g), shuffled \in Shuffles(g) :
            page = GuestHome(g, shuffled, picked)
      BY <2>1 DEF GuestHomes
    <3> QED
      BY <3>1, GuestPagesAre
  <2>2. ASSUME NEW v \in Students
        PROVE  /\ Useful(ReaderHome(v), ReaderSections)
               /\ Min({HomeLimit, Cardinality(Visible(v))}) >= Minimum => ReaderHome(v) # <<>>
    <3>1. v.role # "guest"
      BY RolesAre DEF Accounts
    <3> QED
      BY <3>1, ReaderPageIs
  <2> QED
    BY <2>1, <2>2 DEF SectionsUseful
<1> QED
  BY <1>1, PTL

\* What is in the scope of the lists opens.
LEMMA ScopeOpens ==
    ASSUME NEW v
    PROVE  /\ \A b \in Catalogued : InScope(v, b) => Opens(v, b)
           /\ \A b \in Visible(v) : Opens(v, b)
<1>1. \A b \in Catalogued : InScope(v, b) => Opens(v, b)
  BY DEF InScope, Opens
<1>2. Active \subseteq Catalogued
  BY ViewsAssumption DEF ViewsAssumption, Active, Catalogued
<1> QED
  BY <1>1, <1>2 DEF Visible

\* Whoever is shown a book may open it: list_books, get_student_home, get_recommendations and
\* suggest_books of src/src/routers/books.py each write out the scope of get_book anew.
THEOREM ShownOpens == Spec => []PagesOpen
<1>1. PagesOpen
  <2>1. ASSUME NEW v, NEW filter, NEW b \in Listed(v, filter)
        PROVE  Opens(v, b)
    <3>1. b \in Catalogued /\ InScope(v, b)
      BY DEF Listed
    <3> QED
      BY <3>1, ScopeOpens
  <2>2. ASSUME NEW g \in Guests, NEW picked \in Samples(g),
               NEW b \in BooksOn(GuestHome(g, GuestPayload(g), picked), {})
        PROVE  Opens(g, b)
    <3>1. GuestPayload(g) \in Shuffles(g) \cup {GuestPayload(g)}
      OBVIOUS
    <3>2. BooksOn(GuestHome(g, GuestPayload(g), picked), {}) \subseteq Visible(g)
      BY <3>1, GuestPagesAre
    <3> QED
      BY <3>2, ScopeOpens
  <2>3. ASSUME NEW g \in Guests, NEW target, NEW limit \in RecommendationLimits,
               NEW b \in Range(Recommendations(g, target, limit))
        PROVE  Opens(g, b)
    <3>1. Recommendations(g, target, limit) = GuestRecommendations(g, target, limit)
      BY RolesAre DEF Recommendations
    <3>2. Range(GuestRecommendations(g, target, limit)) \subseteq Visible(g)
      BY GuestRecommendationsAre
    <3> QED
      BY <3>1, <3>2, ScopeOpens
  <2>4. ASSUME NEW v \in Accounts, NEW b \in Range(Suggested(v, Books, 10))
        PROVE  Opens(v, b)
    <3>1. PICK S : S = {c \in Active \cap Books :
                          v.role = "super_admin" \/ InSchool(c, v.school) \/ Orphan(c)}
      OBVIOUS
    <3>2. Suggested(v, Books, 10) = First(10, OldestFirst(S))
      BY <3>1 DEF Suggested
    <3>3. b \in S
      <4>1. PICK ten \in Int : ten = 10
        OBVIOUS
      <4>2. OldestFirst(S) \in Once(Books) /\ Range(OldestFirst(S)) \subseteq S
        BY InOrder
      <4>3. Range(First(ten, OldestFirst(S))) \subseteq Range(OldestFirst(S))
        BY <4>2, OnceKept
      <4> QED
        BY <2>4, <3>2, <4>1, <4>2, <4>3
    <3>4. b \in Visible(v)
      BY <2>4, <3>1, <3>3, RolesAre DEF Visible, InScope
    <3> QED
      BY <3>4, ScopeOpens
  <2>5. ASSUME NEW v \in Students,
               NEW b \in BooksOn(ReaderHome(v), {"recommended", "recently-read",
                                                "because-you-read"})
        PROVE  Opens(v, b)
    <3>1. v.role # "guest"
      BY RolesAre DEF Accounts
    <3>2. BooksOn(ReaderHome(v), Personal) \subseteq Visible(v)
      BY <3>1, ReaderPageIs
    <3> QED
      BY <2>5, <3>2, ScopeOpens DEF Personal
  <2> QED
    BY <2>1, <2>2, <2>3, <2>4, <2>5 DEF PagesOpen
<1> QED
  BY <1>1, PTL
=============================================================================
