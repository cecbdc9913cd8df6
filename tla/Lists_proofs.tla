---------------------------- MODULE Lists_proofs ----------------------------
(***************************************************************************)
(* That a sorted list is sorted and has all there is, and that what is     *)
(* selected of a list is what is in the set, in its order.                 *)
(***************************************************************************)
EXTENDS Lists, FiniteSetTheorems, FunctionTheorems, WellFoundedInduction, TLAPS

\* An image is no larger than what it is of, and finite if that is.
LEMMA ImageFinite ==
    ASSUME NEW S, IsFiniteSet(S), NEW f, DOMAIN f = S
    PROVE  IsFiniteSet({f[x] : x \in S}) /\ Cardinality({f[x] : x \in S}) <= Cardinality(S)
<1> DEFINE T == {f[x] : x \in S}
           g == [x \in S |-> f[x]]
<1>1. g \in [S -> T] /\ \A t \in T : \E x \in S : g[x] = t
  OBVIOUS
<1>2. g \in Surjection(S, T)
  BY <1>1, Fun_IsSurj
<1> QED
  BY <1>2, FS_Surjection

\* Numbers from 1 to n that are all different, one for each member of S, are
\* all of 1 to n when S has n members.
LEMMA AllTaken ==
    ASSUME NEW S, IsFiniteSet(S), NEW f \in [S -> 1..Cardinality(S)],
           \A x, y \in S : f[x] = f[y] => x = y
    PROVE  \A k \in 1..Cardinality(S) : \E x \in S : f[x] = k
<1> DEFINE T == 1..Cardinality(S)
<1>1. Cardinality(S) \in Nat
  BY FS_CardinalityType
<1>2. IsFiniteSet(T) /\ Cardinality(T) = Cardinality(S)
  BY <1>1, FS_Interval
<1>3. f \in Injection(S, T)
  BY Fun_IsInj
<1>4. f \in Surjection(S, T)
  BY <1>2, <1>3, FS_Injection
<1> QED
  BY <1>4, Fun_SurjectionProperties

-----------------------------------------------------------------------------
(* Sorting.  `before` is the order, that has for each element those before *)
(* it.                                                                     *)

Orders(before, S) ==
    /\ before \in [S -> SUBSET S]
    /\ \A x \in S : x \notin before[x]
    /\ \A x, y \in S : x # y => x \in before[y] \/ y \in before[x]
    /\ \A x, y \in S : x \in before[y] => before[x] \subseteq before[y]

Sorts(s, before, S) ==
    /\ s \in [1..Cardinality(S) -> S]
    /\ \A x \in S : \E i \in 1..Cardinality(S) : s[i] = x
    /\ \A i, j \in 1..Cardinality(S) : i < j => s[i] \in before[s[j]]
    /\ \A i, j \in 1..Cardinality(S) : s[i] = s[j] => i = j

\* One that is before another has fewer before it.
LEMMA RankGrows ==
    ASSUME NEW S, IsFiniteSet(S), NEW before, Orders(before, S),
           NEW x \in S, NEW y \in S, x \in before[y]
    PROVE  /\ Cardinality(before[x]) \in Nat /\ Cardinality(before[y]) \in Nat
           /\ Cardinality(before[x]) < Cardinality(before[y])
<1>1. before[x] \subseteq before[y] /\ before[y] \subseteq S /\ before[x] # before[y]
  BY DEF Orders
<1>2. IsFiniteSet(before[y])
  BY <1>1, FS_Subset
<1>3. IsFiniteSet(before[x]) /\ Cardinality(before[x]) <= Cardinality(before[y])
      /\ Cardinality(before[x]) # Cardinality(before[y])
  BY <1>1, <1>2, FS_Subset
<1>4. Cardinality(before[x]) \in Nat /\ Cardinality(before[y]) \in Nat
  BY <1>2, <1>3, FS_CardinalityType
<1> QED
  BY <1>3, <1>4

LEMMA RankTaken ==
    ASSUME NEW S, IsFiniteSet(S), NEW before, Orders(before, S)
    PROVE  /\ Cardinality(S) \in Nat
           /\ \A x \in S : Cardinality(before[x]) + 1 \in 1..Cardinality(S)
           /\ \A i \in 1..Cardinality(S) : \E x \in S : Cardinality(before[x]) = i - 1
<1> DEFINE n == Cardinality(S)
           rank == [x \in S |-> Cardinality(before[x]) + 1]
<1>1. n \in Nat
  BY FS_CardinalityType
<1>2. ASSUME NEW x \in S PROVE Cardinality(before[x]) \in Nat /\ Cardinality(before[x]) + 1 \in 1..n
  <2>1. before[x] \subseteq S /\ x \notin before[x]
    BY DEF Orders
  <2>2. IsFiniteSet(before[x]) /\ Cardinality(before[x]) <= n /\ Cardinality(before[x]) # n
    BY <2>1, FS_Subset
  <2>3. Cardinality(before[x]) \in Nat
    BY <2>2, FS_CardinalityType
  <2> QED
    BY <1>1, <2>2, <2>3
<1>3. rank \in [S -> 1..n]
  BY <1>2
<1>4. ASSUME NEW x \in S, NEW y \in S, rank[x] = rank[y] PROVE x = y
  <2>1. Cardinality(before[x]) = Cardinality(before[y])
    BY <1>2, <1>4
  <2>2. x \notin before[y] /\ y \notin before[x]
    BY <2>1, RankGrows
  <2> QED
    BY <2>2 DEF Orders
<1>5. \A i \in 1..n : \E x \in S : rank[x] = i
  BY <1>3, <1>4, AllTaken
<1>6. \A i \in 1..n : \E x \in S : Cardinality(before[x]) = i - 1
  BY <1>1, <1>2, <1>5
<1> QED
  BY <1>1, <1>2, <1>6

\* What has at each place one with as many before it is sorted.
LEMMA RankedIsSorted ==
    ASSUME NEW S, IsFiniteSet(S), NEW before, Orders(before, S),
           NEW s, s = [i \in 1..Cardinality(S) |-> s[i]],
           \A i \in 1..Cardinality(S) :
               (\E x \in S : Cardinality(before[x]) = i - 1)
                   => s[i] \in S /\ Cardinality(before[s[i]]) = i - 1
    PROVE  Sorts(s, before, S)
<1> DEFINE n == Cardinality(S)
<1>1. n \in Nat /\ \A i \in 1..n : s[i] \in S /\ Cardinality(before[s[i]]) = i - 1
  BY RankTaken
<1>2. s \in [1..n -> S]
  BY <1>1
<1>3. ASSUME NEW x \in S PROVE \E i \in 1..n : s[i] = x
  <2>1. PICK i \in 1..n : i = Cardinality(before[x]) + 1
    BY RankTaken
  <2>2. s[i] \in S /\ Cardinality(before[s[i]]) = Cardinality(before[x])
    <3>1. Cardinality(before[x]) \in Nat
      <4>1. before[x] \subseteq S
        BY DEF Orders
      <4> QED
        BY <4>1, FS_Subset, FS_CardinalityType
    <3> QED
      BY <1>1, <2>1, <3>1
  <2>3. s[i] \notin before[x] /\ x \notin before[s[i]]
    BY <2>2, RankGrows
  <2> QED
    BY <2>2, <2>3 DEF Orders
<1>4. ASSUME NEW i \in 1..n, NEW j \in 1..n, i < j PROVE s[i] \in before[s[j]]
  <2>1. /\ s[i] \in S /\ s[j] \in S
        /\ Cardinality(before[s[i]]) = i - 1 /\ Cardinality(before[s[j]]) = j - 1
    BY <1>1
  <2>2. s[j] \notin before[s[i]]
    BY <1>4, <2>1, RankGrows
  <2>3. s[i] # s[j]
    BY <1>1, <1>4, <2>1
  <2> QED
    BY <2>1, <2>2, <2>3 DEF Orders
<1>5. \A i, j \in 1..n : s[i] = s[j] => i = j
  BY <1>1
<1> QED
  BY <1>2, <1>3, <1>4, <1>5 DEF Sorts

-----------------------------------------------------------------------------
(* Selecting.                                                              *)

LEMMA HeldFacts ==
    ASSUME NEW s, NEW S, NEW i \in Nat
    PROVE  /\ IsFiniteSet(Held(s, S, i)) /\ Cardinality(Held(s, S, i)) \in 0..i
           /\ Held(s, S, 0) = {} /\ Cardinality(Held(s, S, 0)) = 0
           /\ Held(s, S, i + 1) = Held(s, S, i) \cup (IF s[i + 1] \in S THEN {i + 1} ELSE {})
           /\ s[i + 1] \in S =>
                  Cardinality(Held(s, S, i + 1)) = Cardinality(Held(s, S, i)) + 1
           /\ s[i + 1] \notin S =>
                  Cardinality(Held(s, S, i + 1)) = Cardinality(Held(s, S, i))
<1>1. IsFiniteSet(1..i) /\ Cardinality(1..i) = i /\ Held(s, S, i) \subseteq 1..i
  BY FS_Interval DEF Held
<1>2. IsFiniteSet(Held(s, S, i)) /\ Cardinality(Held(s, S, i)) <= i
      /\ Cardinality(Held(s, S, i)) \in Nat
  BY <1>1, FS_Subset, FS_CardinalityType
<1>3. Held(s, S, 0) = {} /\ Cardinality(Held(s, S, 0)) = 0
  BY FS_EmptySet DEF Held
<1>4. Held(s, S, i + 1) = Held(s, S, i) \cup (IF s[i + 1] \in S THEN {i + 1} ELSE {})
  BY DEF Held
<1>5. i + 1 \notin Held(s, S, i)
  BY DEF Held
<1>6. ASSUME s[i + 1] \in S
      PROVE  Cardinality(Held(s, S, i + 1)) = Cardinality(Held(s, S, i)) + 1
  BY <1>2, <1>4, <1>5, <1>6, FS_AddElement
<1>7. ASSUME s[i + 1] \notin S
      PROVE  Cardinality(Held(s, S, i + 1)) = Cardinality(Held(s, S, i))
  BY <1>4, <1>7
<1> QED
  BY <1>2, <1>3, <1>4, <1>6, <1>7

\* A place that is held comes after all that are counted before it.
LEMMA HeldGrows ==
    ASSUME NEW s, NEW S, NEW i \in Nat, NEW j \in Nat, i < j
    PROVE  /\ Cardinality(Held(s, S, i)) <= Cardinality(Held(s, S, j))
           /\ s[j] \in S => Cardinality(Held(s, S, i)) < Cardinality(Held(s, S, j))
<1>1. Held(s, S, i) \subseteq Held(s, S, j) /\ j \notin Held(s, S, i)
      /\ (s[j] \in S => j \in Held(s, S, j))
  BY DEF Held
<1>2. IsFiniteSet(Held(s, S, j)) /\ Cardinality(Held(s, S, i)) \in Nat /\ Cardinality(Held(s, S, j)) \in Nat
  BY HeldFacts
<1>3. /\ Cardinality(Held(s, S, i)) <= Cardinality(Held(s, S, j))
      /\ Cardinality(Held(s, S, i)) = Cardinality(Held(s, S, j)) => Held(s, S, i) = Held(s, S, j)
  BY <1>1, <1>2, FS_Subset
<1> QED
  BY <1>1, <1>2, <1>3

LEMMA SelectedFacts ==
    ASSUME NEW T, NEW s \in Seq(T), NEW S
    PROVE  LET n == Cardinality(Held(s, S, Len(s)))
           IN /\ n \in 0..Len(s)
              /\ Selected(s, S) \in Seq(T) /\ Len(Selected(s, S)) = n
              /\ \A k \in 1..n : \E i \in 1..Len(s) :
                     /\ s[i] \in S /\ Cardinality(Held(s, S, i)) = k
                     /\ Selected(s, S)[k] = s[i]
              /\ \A i \in 1..Len(s) : s[i] \in S =>
                     /\ Cardinality(Held(s, S, i)) \in 1..n
                     /\ Selected(s, S)[Cardinality(Held(s, S, i))] = s[i]
<1> DEFINE m == Len(s)
           H == Held(s, S, m)
           n == Cardinality(H)
           c(i) == Cardinality(Held(s, S, i))
           rank == [i \in H |-> c(i)]
<1>1. m \in Nat /\ s \in [1..m -> T] /\ H = {i \in 1..m : s[i] \in S}
  BY DEF Held
<1>2. \A i \in Nat : c(i) \in 0..i
  BY HeldFacts
<1>3. \A i, j \in Nat : i < j => c(i) <= c(j) /\ (s[j] \in S => c(i) < c(j))
  BY HeldGrows
<1>4. n = c(m) /\ IsFiniteSet(H)
  BY <1>1, HeldFacts
<1>5. Selected(s, S) = [k \in 1..n |-> s[CHOOSE i \in H : c(i) = k]]
  BY DEF Selected
<1> HIDE DEF m, c, n, H
<1>6. n \in 0..m /\ n \in Nat
  BY <1>1, <1>2, <1>4
<1>7. ASSUME NEW i \in H PROVE c(i) \in 1..n
  <2>1. i \in 1..m /\ s[i] \in S
    BY <1>1
  <2>2. c(0) < c(i) /\ (i = m \/ c(i) <= c(m))
    BY <1>1, <1>3, <2>1
  <2> QED
    BY <1>1, <1>2, <1>4, <1>6, <2>1, <2>2
<1>8. ASSUME NEW i \in H, NEW j \in H, c(i) = c(j) PROVE i = j
  <2>1. i \in Nat /\ j \in Nat /\ s[i] \in S /\ s[j] \in S
    BY <1>1
  <2>2. c(i) \in Nat /\ ~(c(i) < c(j)) /\ ~(c(j) < c(i))
    BY <1>2, <1>8, <2>1
  <2>3. ~(i < j) /\ ~(j < i)
    BY <1>3, <2>1, <2>2
  <2> QED
    BY <2>1, <2>3
<1>9. \A k \in 1..n : \E i \in H : c(i) = k
  <2>1. rank \in [H -> 1..n] /\ \A i, j \in H : rank[i] = rank[j] => i = j
    BY <1>7, <1>8
  <2>2. rank \in [H -> 1..Cardinality(H)]
    BY <2>1 DEF n
  <2>3. \A k \in 1..Cardinality(H) : \E i \in H : rank[i] = k
    BY <1>4, <2>1, <2>2, AllTaken
  <2> QED
    BY <2>3 DEF n
<1>10. ASSUME NEW k \in 1..n PROVE \E i \in H : Selected(s, S)[k] = s[i] /\ c(i) = k
  <2>1. \E i \in H : c(i) = k
    BY <1>9
  <2>2. Selected(s, S)[k] = s[CHOOSE i \in H : c(i) = k]
    BY <1>5
  <2> QED
    BY <2>1, <2>2
<1>11. ASSUME NEW i \in H PROVE Selected(s, S)[c(i)] = s[i]
  <2>1. PICK j \in H : Selected(s, S)[c(i)] = s[j] /\ c(j) = c(i)
    BY <1>7, <1>10
  <2>2. i = j
    BY <1>8, <2>1
  <2> QED
    BY <2>1, <2>2
<1>12. Selected(s, S) \in Seq(T) /\ Len(Selected(s, S)) = n
  <2>1. \A k \in 1..n : Selected(s, S)[k] \in T
    BY <1>1, <1>10
  <2>2. Selected(s, S) \in [1..n -> T]
    BY <1>5, <2>1
  <2> QED
    BY <1>6, <2>2
<1>13. \A k \in 1..n : \E i \in 1..m : s[i] \in S /\ c(i) = k /\ Selected(s, S)[k] = s[i]
  BY <1>1, <1>10
<1>14. \A i \in 1..m : s[i] \in S => c(i) \in 1..n /\ Selected(s, S)[c(i)] = s[i]
  BY <1>1, <1>7, <1>11
<1> QED
  BY <1>6, <1>12, <1>13, <1>14 DEF m, c, n, H

-----------------------------------------------------------------------------
\* There is a least natural number among some.
Below == {p \in Nat \X Nat : p[1] < p[2]}

LEMMA LeastNatural ==
    ASSUME NEW S, S \subseteq Nat, S # {}
    PROVE  \E m \in S : \A n \in S : m <= n
<1>1. IsWellFoundedOn(Below, Nat)
  BY NatLessThanWellFounded DEF OpToRel, Below
<1>2. PICK m \in S : \A n \in S : ~(<<n, m>> \in Below)
  BY <1>1, WFMin
<1>3. ASSUME NEW n \in S PROVE m <= n
  <2>1. ~(<<n, m>> \in Below) /\ n \in Nat /\ m \in Nat
    BY <1>2
  <2> QED
    BY <2>1 DEF Below
<1> QED
  BY <1>2, <1>3

-----------------------------------------------------------------------------
(* Loops.                                                                  *)

\* What goes from each number to the next goes as far as there are numbers.
LEMMA UpTo ==
    ASSUME NEW n \in Nat, NEW Q, 0 \in Q, \A i \in 1..n : i - 1 \in Q => i \in Q
    PROVE  \A i \in 0..n : i \in Q
<1> SUFFICES ASSUME NEW j \in 0..n, j \notin Q PROVE FALSE
  OBVIOUS
<1>1. PICK m \in {i \in 0..n : i \notin Q} : \A i \in {i \in 0..n : i \notin Q} : m <= i
  <2>1. {i \in 0..n : i \notin Q} \subseteq Nat /\ {i \in 0..n : i \notin Q} # {}
    OBVIOUS
  <2> QED
    BY <2>1, LeastNatural
<1>2. m \in 1..n /\ m - 1 \in 0..n /\ m - 1 < m
  BY <1>1
<1>3. m - 1 \in Q
  BY <1>1, <1>2
<1> QED
  BY <1>1, <1>2, <1>3

\* The states g of a loop, which `step` takes from one to the next.
Runs(g, n, start, step) ==
    \A i \in 0..n : g[i] = IF i = 0 THEN start ELSE step[<<g[i - 1], i>>]

\* A loop that goes from a state of S to another comes to its end.
LEMMA LoopRuns ==
    ASSUME NEW n \in Nat, NEW S, NEW start \in S, NEW step \in [S \X (1..n) -> S]
    PROVE  \E g \in [0..n -> S] : Runs(g, n, start, step)
<1> DEFINE Q == {m \in 0..n : \E g \in [0..m -> S] : Runs(g, m, start, step)}
<1>1. 0 \in Q
  <2> DEFINE g == [i \in 0..0 |-> start]
  <2>1. g \in [0..0 -> S] /\ \A i \in 0..0 : i = 0 /\ g[i] = start
    OBVIOUS
  <2>2. 0 \in 0..n
    OBVIOUS
  <2> HIDE DEF g
  <2> QED
    BY <2>1, <2>2 DEF Runs
<1>2. ASSUME NEW m \in 1..n, m - 1 \in Q PROVE m \in Q
  <2>1. PICK g \in [0..(m - 1) -> S] : Runs(g, m - 1, start, step)
    BY <1>2
  <2> DEFINE x == step[<<g[m - 1], m>>]
             h == [i \in 0..m |-> IF i = m THEN x ELSE g[i]]
  <2>2. x \in S
    OBVIOUS
  <2> HIDE DEF x
  <2>3. h \in [0..m -> S] /\ h[m] = x /\ \A i \in 0..(m - 1) : h[i] = g[i]
    BY <2>1, <2>2
  <2> HIDE DEF h
  <2>4. ASSUME NEW i \in 0..m PROVE h[i] = IF i = 0 THEN start ELSE step[<<h[i - 1], i>>]
    <3>1. CASE i = m
      <4>1. m # 0 /\ m - 1 \in 0..(m - 1)
        OBVIOUS
      <4> QED
        BY <2>3, <3>1, <4>1 DEF x
    <3>2. CASE i # m
      <4>1. i \in 0..(m - 1) /\ (i # 0 => i - 1 \in 0..(m - 1))
        BY <3>2
      <4> QED
        BY <2>1, <2>3, <4>1 DEF Runs
    <3> QED
      BY <3>1, <3>2
  <2>5. Runs(h, m, start, step)
    BY <2>4 DEF Runs
  <2> QED
    BY <2>3, <2>5
<1> HIDE DEF Q
<1>3. n \in Q
  BY <1>1, <1>2, UpTo
<1> QED
  BY <1>3 DEF Q
=============================================================================
