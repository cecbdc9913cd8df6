-------------------------- MODULE SymbolIndex_proofs -------------------------
(***************************************************************************)
(* The files of an index are what was recorded, and a search and a page    *)
(* show what is in them, whatever is recorded and asked for.               *)
(***************************************************************************)
EXTENDS SymbolIndex, Lists_proofs, SequenceTheorems

\* What is recorded is of files.
RecordedOK ==
    /\ defines \subseteq Providers /\ declares \subseteq Providers
    /\ users \in [Uses -> Nat]
    /\ \A p \in Provided : HasFile(p.object) /\ HasFile(p.location)
    /\ \A u \in Uses : users[u] > 0 => HasFile(u[1]) /\ HasFile(u[2])

-----------------------------------------------------------------------------
(* What OutputBinaryIndex counts is finite.                                *)

LEMMA ProvidedFacts ==
    ASSUME IndexAssumption, RecordedOK
    PROVE  /\ IsFiniteSet(Provided)
           /\ \A p \in Provided :
                  /\ p.name \in Names /\ p.kind \in Kinds
                  /\ p.location \in Places /\ p.object \in Places
                  /\ PlaceFile[p.location] \in DOMAIN PathLength
           /\ NamesSeen \subseteq Names /\ IsFiniteSet(NamesSeen)
<1>1. defines \subseteq Providers /\ declares \subseteq Providers
  BY DEF RecordedOK
<1>2. IsFiniteSet(Provided) /\ Provided \subseteq Providers
  BY <1>1, FS_Subset DEF IndexAssumption, Provided
<1>3. ASSUME NEW p \in Provided
      PROVE  /\ p.name \in Names /\ p.kind \in Kinds
             /\ p.location \in Places /\ p.object \in Places
             /\ PlaceFile[p.location] \in DOMAIN PathLength
  <2>1. /\ p.name \in Names /\ p.kind \in Kinds
        /\ p.location \in Places /\ p.object \in Places
    BY <1>2 DEF IndexAssumption
  <2> QED
    BY <2>1 DEF IndexAssumption, RecordedOK, HasFile
<1>4. IsFiniteSet(NamesSeen)
  <2> DEFINE f == [p \in Provided |-> p.name]
  <2>1. DOMAIN f = Provided /\ NamesSeen = {f[p] : p \in Provided}
    BY DEF NamesSeen
  <2> HIDE DEF f
  <2>2. IsFiniteSet({f[p] : p \in Provided})
    BY <1>2, <2>1, ImageFinite
  <2> QED
    BY <2>1, <2>2
<1> QED
  BY <1>2, <1>3, <1>4 DEF NamesSeen

LEMMA KindsFacts ==
    ASSUME IndexAssumption, RecordedOK, NEW n
    PROVE  KindsOf(n) \subseteq Kinds /\ IsFiniteSet(KindsOf(n))
<1> DEFINE S == {q \in Provided : q.name = n}
           f == [p \in S |-> p.kind]
<1>1. IsFiniteSet(S)
  BY ProvidedFacts, FS_Subset
<1>2. DOMAIN f = S /\ KindsOf(n) = {f[p] : p \in S}
  BY DEF KindsOf
<1>3. KindsOf(n) \subseteq Kinds
  BY ProvidedFacts DEF KindsOf
<1> HIDE DEF f
<1>4. IsFiniteSet({f[p] : p \in S})
  BY <1>1, <1>2, ImageFinite
<1> QED
  BY <1>2, <1>3, <1>4

LEMMA AppearancesFacts ==
    ASSUME IndexAssumption, RecordedOK, NEW n
    PROVE  /\ IsFiniteSet(Appearances(n))
           /\ \A a \in Appearances(n) : a[2] \in Uses /\ users[a[2]] > 0
           /\ UserFiles(n) \subseteq DOMAIN PathLength /\ IsFiniteSet(UserFiles(n))
           /\ Cardinality(UserFiles(n)) \in Nat /\ TimesUsed(n) \in Nat
<1> DEFINE A == Appearances(n)
<1>1. A \subseteq KindsOf(n) \X Uses /\ \A a \in A : users[a[2]] > 0
  BY DEF Appearances
<1>2. IsFiniteSet(A)
  <2>1. IsFiniteSet(KindsOf(n) \X Uses)
    BY KindsFacts, FS_Product DEF IndexAssumption
  <2> QED
    BY <1>1, <2>1, FS_Subset
<1>3. \A a \in A : a[2] \in Uses /\ users[a[2]] > 0 /\ users[a[2]] \in Nat
  BY <1>1 DEF RecordedOK
<1>4. \A a \in A : PlaceFile[a[2][2]] \in DOMAIN PathLength
  <2> TAKE a \in A
  <2>1. a[2][2] \in Places /\ PlaceFile[a[2][2]] # 0
    BY <1>3 DEF IndexAssumption, RecordedOK, HasFile
  <2> QED
    BY <2>1 DEF IndexAssumption
<1>5. IsFiniteSet(UserFiles(n)) /\ UserFiles(n) \subseteq DOMAIN PathLength
  <2> DEFINE f == [a \in A |-> PlaceFile[a[2][2]]]
  <2>1. /\ DOMAIN f = A /\ \A a \in A : f[a] \in DOMAIN PathLength
        /\ UserFiles(n) = {f[a] : a \in A}
    BY <1>4 DEF UserFiles
  <2> HIDE DEF f
  <2>2. IsFiniteSet({f[a] : a \in A})
    BY <1>2, <2>1, ImageFinite
  <2> QED
    BY <2>1, <2>2
<1>6. TimesUsed(n) \in Nat
  <2> DEFINE f == [a \in A |-> {a} \X (1..users[a[2]])]
             F == {f[a] : a \in A}
  <2>1. DOMAIN f = A /\ TimesUsed(n) = Cardinality(UNION F)
    BY DEF TimesUsed
  <2>2. ASSUME NEW a \in A PROVE IsFiniteSet(f[a])
    <3>1. IsFiniteSet({a}) /\ IsFiniteSet(1..users[a[2]])
      <4>1. 1 \in Int /\ users[a[2]] \in Int
        BY <1>3
      <4> QED
        BY <4>1, FS_Singleton, FS_Interval
    <3>2. IsFiniteSet({a} \X (1..users[a[2]]))
      BY <3>1, FS_Product
    <3> QED
      BY <3>2
  <2> HIDE DEF f
  <2>3. IsFiniteSet(F)
    BY <1>2, <2>1, ImageFinite
  <2>4. IsFiniteSet(UNION F)
    BY <2>2, <2>3, FS_UNION
  <2> QED
    BY <2>1, <2>4, FS_CardinalityType
<1> QED
  BY <1>2, <1>3, <1>5, <1>6, FS_CardinalityType

LEMMA FilesFacts ==
    ASSUME IndexAssumption, RecordedOK
    PROVE  AllFiles \subseteq DOMAIN PathLength /\ IsFiniteSet(AllFiles)
<1> DEFINE f == [p \in Provided |-> PlaceFile[p.location]]
           g == [n \in NamesSeen |-> UserFiles(n)]
           F == {g[n] : n \in NamesSeen}
<1>1. DOMAIN f = Provided /\ \A p \in Provided : f[p] \in DOMAIN PathLength
  BY ProvidedFacts
<1>2. /\ DOMAIN g = NamesSeen
      /\ \A n \in NamesSeen : IsFiniteSet(g[n]) /\ g[n] \subseteq DOMAIN PathLength
  BY AppearancesFacts
<1>3. AllFiles = {f[p] : p \in Provided} \cup UNION F
  BY DEF AllFiles
<1> HIDE DEF f, g
<1>4. IsFiniteSet({f[p] : p \in Provided}) /\ IsFiniteSet(F)
  BY <1>1, <1>2, ProvidedFacts, ImageFinite
<1>5. IsFiniteSet(UNION F)
  BY <1>2, <1>4, FS_UNION
<1>6. UNION F \subseteq DOMAIN PathLength
  BY <1>2
<1> DEFINE D == {f[p] : p \in Provided}
           U == UNION F
<1>7. AllFiles = D \cup U /\ IsFiniteSet(D) /\ IsFiniteSet(U) /\ U \subseteq DOMAIN PathLength
      /\ D \subseteq DOMAIN PathLength
  BY <1>1, <1>3, <1>4, <1>5, <1>6
<1> HIDE DEF F, D, U
<1> QED
  BY <1>7, FS_Union

-----------------------------------------------------------------------------
(* The order of the symbols.                                               *)

LEMMA SymbolLessOrders ==
    ASSUME IndexAssumption, RecordedOK
    PROVE  /\ \A n \in Names : ~SymbolLess(n, n)
           /\ \A m, n \in Names : m # n => SymbolLess(m, n) \/ SymbolLess(n, m)
           /\ \A m, n, o \in Names : SymbolLess(m, n) /\ SymbolLess(n, o) => SymbolLess(m, o)
           /\ \A m, n \in Names : SymbolLess(m, n) => NameLength[m] <= NameLength[n]
<1> DEFINE l(n) == NameLength[n]
           f(n) == Cardinality(UserFiles(n))
           t(n) == TimesUsed(n)
           Less(m, n) == \/ l(m) < l(n)
                         \/ l(m) = l(n) /\ f(m) < f(n)
                         \/ l(m) = l(n) /\ f(m) = f(n) /\ t(m) < t(n)
                         \/ l(m) = l(n) /\ f(m) = f(n) /\ t(m) = t(n) /\ m < n
<1>1. \A n \in Names : n \in Nat /\ l(n) \in Nat /\ f(n) \in Nat /\ t(n) \in Nat
  BY AppearancesFacts DEF IndexAssumption
<1>2. \A m, n \in Names : ScoreLess(m, n) <=> f(m) < f(n) \/ (f(m) = f(n) /\ t(m) < t(n))
  BY DEF ScoreLess
<1>3. \A m, n \in Names : SymbolLess(m, n) <=>
          \/ l(m) # l(n) /\ l(m) < l(n)
          \/ l(m) = l(n) /\ (ScoreLess(m, n) \/ ScoreLess(n, m)) /\ ScoreLess(m, n)
          \/ l(m) = l(n) /\ ~(ScoreLess(m, n) \/ ScoreLess(n, m)) /\ m < n
  BY DEF SymbolLess
<1> HIDE DEF l, f, t
<1>4. \A m, n \in Names : SymbolLess(m, n) <=> Less(m, n)
  BY <1>1, <1>2, <1>3
<1>5. \A n \in Names : ~Less(n, n)
  BY <1>1
<1>6. \A m, n \in Names : m # n => Less(m, n) \/ Less(n, m)
  BY <1>1
<1>7. \A m, n, o \in Names : Less(m, n) /\ Less(n, o) => Less(m, o)
  BY <1>1
<1>8. \A m, n \in Names : Less(m, n) => l(m) <= l(n)
  BY <1>1
<1> HIDE DEF Less
<1> QED
  BY <1>4, <1>5, <1>6, <1>7, <1>8 DEF l

LEMMA SymbolsFacts ==
    ASSUME IndexAssumption, RecordedOK
    PROVE  /\ Symbols \in Seq(Names)
           /\ \A i \in 1..Len(Symbols) : Symbols[i] \in NamesSeen /\ Fits(Symbols[i])
           /\ \A n \in NamesSeen : Fits(n) => \E i \in 1..Len(Symbols) : Symbols[i] = n
           /\ \A i, j \in 1..Len(Symbols) :
                  i < j => NameLength[Symbols[i]] <= NameLength[Symbols[j]]
<1> DEFINE S == {n \in NamesSeen : Fits(n)}
           before == [n \in S |-> {m \in S : SymbolLess(m, n)}]
           c(n) == Cardinality({m \in S : SymbolLess(m, n)})
           s == Symbols
<1>1. IsFiniteSet(S) /\ S \subseteq Names
  BY ProvidedFacts, FS_Subset
<1>2. Orders(before, S)
  <2>1. before \in [S -> SUBSET S]
    OBVIOUS
  <2>2. \A n \in S : n \notin before[n]
    BY <1>1, SymbolLessOrders
  <2>3. \A m, n \in S : m # n => m \in before[n] \/ n \in before[m]
    BY <1>1, SymbolLessOrders
  <2>4. \A m, n \in S : m \in before[n] => before[m] \subseteq before[n]
    <3> SUFFICES ASSUME NEW m \in S, NEW n \in S, SymbolLess(m, n),
                        NEW o \in S, SymbolLess(o, m)
                 PROVE  SymbolLess(o, n)
      OBVIOUS
    <3> QED
      BY <1>1, SymbolLessOrders
  <2> QED
    BY <2>1, <2>2, <2>3, <2>4 DEF Orders
<1>3. s = [i \in 1..Cardinality(S) |-> CHOOSE n \in S : c(n) = i - 1]
  BY DEF Symbols, SortedSeq
<1>4. \A n \in S : c(n) = Cardinality(before[n])
  OBVIOUS
<1>5. \A n \in S : \A m \in before[n] : NameLength[m] <= NameLength[n]
  BY <1>1, SymbolLessOrders
<1> HIDE DEF before, c, s
<1>6. Sorts(s, before, S)
  <2> DEFINE n == Cardinality(S)
  <2>1. s = [i \in 1..n |-> s[i]]
    BY <1>3
  <2>2. ASSUME NEW i \in 1..n, \E m \in S : Cardinality(before[m]) = i - 1
        PROVE  s[i] \in S /\ Cardinality(before[s[i]]) = i - 1
    <3>1. \E m \in S : c(m) = i - 1
      BY <1>4, <2>2
    <3>2. s[i] \in S /\ c(s[i]) = i - 1
      BY <1>3, <3>1
    <3> QED
      BY <1>4, <3>2
  <2> HIDE DEF S
  <2> QED
    BY <1>1, <1>2, <2>1, <2>2, RankedIsSorted
<1>7. Cardinality(S) \in Nat
  BY <1>1, FS_CardinalityType
<1> HIDE DEF S
<1>8. Len(s) = Cardinality(S) /\ s \in Seq(S)
  BY <1>6, <1>7 DEF Sorts
<1>9. \A i, j \in 1..Len(s) : i < j => NameLength[s[i]] <= NameLength[s[j]]
  BY <1>5, <1>6, <1>8 DEF Sorts
<1>10. s \in Seq(Names) /\ \A i \in 1..Len(s) : s[i] \in S
  BY <1>1, <1>6, <1>8
<1>11. \A n \in S : \E i \in 1..Len(s) : s[i] = n
  BY <1>6, <1>8 DEF Sorts
<1> QED
  BY <1>9, <1>10, <1>11 DEF s, S

-----------------------------------------------------------------------------
(* The hashes and the kinds.                                               *)

LEMMA HashesFacts ==
    ASSUME IndexAssumption, NEW symbols \in Seq(Names)
    PROVE  LET t == HashTable(symbols)  n == Len(symbols)
           IN /\ t \in Seq([hash : Nat, detail : 1..n]) /\ Len(t) = n
              /\ \A i \in 1..n : t[i].hash = HashOf[symbols[t[i].detail]]
              /\ \A d \in 1..n : \E i \in 1..n : t[i].detail = d
              /\ \A i, j \in 1..n : i <= j => t[i].hash <= t[j].hash
<1> DEFINE n == Len(symbols)
           f == [i \in 1..n |-> [hash |-> HashOf[symbols[i]], detail |-> i]]
           S == {[hash |-> HashOf[symbols[i]], detail |-> i] : i \in 1..n}
           before == [x \in S |-> {y \in S : HashLess(y, x)}]
           c(x) == Cardinality({y \in S : HashLess(y, x)})
           t == HashTable(symbols)
<1>1. /\ n \in Nat /\ DOMAIN f = 1..n /\ S = {f[i] : i \in 1..n}
      /\ \A i \in 1..n : HashOf[symbols[i]] \in Nat
  <2>1. n \in Nat /\ \A i \in 1..n : symbols[i] \in Names
    OBVIOUS
  <2>2. \A i \in 1..n : HashOf[symbols[i]] \in Nat
    BY <2>1 DEF IndexAssumption
  <2> QED
    BY <2>1, <2>2
<1>2. /\ S \subseteq [hash : Nat, detail : 1..n]
      /\ \A x \in S : x.hash = HashOf[symbols[x.detail]]
      /\ f \in [1..n -> S] /\ \A i \in 1..n : f[i].detail = i
  BY <1>1
<1>3. \A x, y \in S : x.detail = y.detail => x = y
  BY <1>1
<1>4. Orders(before, S)
  <2>1. before \in [S -> SUBSET S]
    OBVIOUS
  <2>2. \A x \in S : x.hash \in Nat /\ x.detail \in Nat
    BY <1>2
  <2>3. \A x \in S : ~HashLess(x, x)
    BY <2>2 DEF HashLess
  <2>4. \A x, y \in S : x # y => HashLess(x, y) \/ HashLess(y, x)
    BY <1>3, <2>2 DEF HashLess
  <2>5. \A x, y, z \in S : HashLess(x, y) /\ HashLess(y, z) => HashLess(x, z)
    BY <2>2 DEF HashLess
  <2> HIDE DEF S
  <2>6. \A x, y \in S : x # y => x \in before[y] \/ y \in before[x]
    BY <2>4
  <2>7. \A x, y \in S : x \in before[y] => before[x] \subseteq before[y]
    BY <2>5
  <2>8. \A x \in S : x \notin before[x]
    BY <2>3
  <2> QED
    BY <2>1, <2>6, <2>7, <2>8 DEF Orders
<1>5. t = [i \in 1..Cardinality(S) |-> CHOOSE x \in S : c(x) = i - 1]
  BY DEF HashTable, SortedSeq
<1>6. \A x \in S : c(x) = Cardinality(before[x])
  OBVIOUS
<1>7. \A y \in S : \A x \in before[y] : x.hash <= y.hash
  <2>1. \A x, y \in S : HashLess(x, y) => x.hash <= y.hash
    BY <1>2 DEF HashLess
  <2> HIDE DEF S
  <2> QED
    BY <2>1
<1> HIDE DEF f
<1>8. IsFiniteSet(S) /\ Cardinality(S) = n
  <2>1. IsFiniteSet(1..n) /\ Cardinality(1..n) = n
    BY <1>1, FS_Interval
  <2>2. f \in Surjection(1..n, S) /\ f \in Injection(1..n, S)
    <3>2. \A x \in S : \E i \in 1..n : f[i] = x
      BY <1>1
    <3>3. \A i, j \in 1..n : f[i] = f[j] => i = j
      BY <1>2
    <3> HIDE DEF S
    <3> QED
      BY <1>2, <3>2, <3>3, Fun_IsSurj, Fun_IsInj
  <2> HIDE DEF S
  <2> QED
    BY <2>1, <2>2, FS_Surjection
<1> HIDE DEF before, c, t, S
<1>9. Sorts(t, before, S)
  <2>1. t = [i \in 1..Cardinality(S) |-> t[i]]
    BY <1>5
  <2>2. ASSUME NEW i \in 1..Cardinality(S), \E x \in S : Cardinality(before[x]) = i - 1
        PROVE  t[i] \in S /\ Cardinality(before[t[i]]) = i - 1
    <3>1. \E x \in S : c(x) = i - 1
      BY <1>6, <2>2
    <3>2. t[i] \in S /\ c(t[i]) = i - 1
      BY <1>5, <3>1
    <3> QED
      BY <1>6, <3>2
  <2> QED
    BY <1>4, <1>8, <2>1, <2>2, RankedIsSorted
<1>10. t \in [1..n -> S]
  BY <1>8, <1>9 DEF Sorts
<1> HIDE DEF n
<1>11. /\ Len(t) = n /\ t \in Seq([hash : Nat, detail : 1..n])
      /\ \A i \in 1..n : t[i] \in S
  <2> DEFINE R == [hash : Nat, detail : 1..n]
  <2>1. S \subseteq R /\ n \in Nat
    BY <1>1, <1>2
  <2> HIDE DEF R
  <2>2. t \in [1..n -> R]
    BY <1>10, <2>1
  <2>3. t \in Seq(R) /\ Len(t) = n
    BY <2>1, <2>2
  <2> QED
    BY <1>10, <2>3 DEF R
<1>12. ASSUME NEW d \in 1..n PROVE \E i \in 1..n : t[i].detail = d
  <2>1. PICK i \in 1..n : t[i] = f[d]
    BY <1>2, <1>8, <1>9 DEF Sorts
  <2> QED
    BY <1>2, <2>1
<1>13. \A i, j \in 1..n : i <= j => t[i].hash <= t[j].hash
  <2> TAKE i \in 1..n, j \in 1..n
  <2>1. CASE i < j
    BY <1>7, <1>8, <1>9, <1>11, <2>1 DEF Sorts
  <2>2. CASE i = j
    BY <1>2, <1>11, <2>2
  <2> QED
    BY <1>1, <2>1, <2>2
<1>14. \A i \in 1..n : t[i].hash = HashOf[symbols[t[i].detail]]
  BY <1>2, <1>11
<1> QED
  BY <1>11, <1>12, <1>13, <1>14 DEF t, n

LEMMA NumbersSorted ==
    ASSUME NEW S, S \subseteq Nat, IsFiniteSet(S)
    PROVE  LET s == SortedSeq(S, LAMBDA k, l : k < l)
           IN /\ s \in Seq(S) /\ Len(s) = Cardinality(S)
              /\ \A k \in S : \E i \in 1..Len(s) : s[i] = k
<1> DEFINE before == [k \in S |-> {l \in S : l < k}]
           c(k) == Cardinality({l \in S : l < k})
           s == SortedSeq(S, LAMBDA k, l : k < l)
<1>1. Orders(before, S)
  <2>1. \A k \in S : k \in Nat /\ before[k] \subseteq S /\ \A l \in S : l \in before[k] <=> l < k
    OBVIOUS
  <2>2. before \in [S -> SUBSET S]
    OBVIOUS
  <2> HIDE DEF before
  <2>3. \A k, l \in S : k \in before[l] => before[k] \subseteq before[l]
    BY <2>1
  <2> QED
    BY <2>1, <2>2, <2>3 DEF Orders
<1>2. s = [i \in 1..Cardinality(S) |-> CHOOSE k \in S : c(k) = i - 1]
  BY DEF SortedSeq
<1>3. \A k \in S : c(k) = Cardinality(before[k])
  OBVIOUS
<1> HIDE DEF before, c, s
<1>4. Sorts(s, before, S)
  <2>1. s = [i \in 1..Cardinality(S) |-> s[i]]
    BY <1>2
  <2>2. ASSUME NEW i \in 1..Cardinality(S), \E k \in S : Cardinality(before[k]) = i - 1
        PROVE  s[i] \in S /\ Cardinality(before[s[i]]) = i - 1
    <3>1. \E k \in S : c(k) = i - 1
      BY <1>3, <2>2
    <3>2. s[i] \in S /\ c(s[i]) = i - 1
      BY <1>2, <3>1
    <3> QED
      BY <1>3, <3>2
  <2> QED
    BY <1>1, <2>1, <2>2, RankedIsSorted
<1>5. Cardinality(S) \in Nat
  BY FS_CardinalityType
<1>6. s \in Seq(S) /\ Len(s) = Cardinality(S)
  BY <1>4, <1>5 DEF Sorts
<1> QED
  BY <1>4, <1>6 DEF Sorts, s

-----------------------------------------------------------------------------
(* The files, and the offsets of their paths.                              *)

LEMMA OrderFacts ==
    ASSUME IndexAssumption, RecordedOK, NEW order \in SetToSeqs(AllFiles)
    PROVE  /\ order \in Seq(AllFiles)
           /\ \A f \in AllFiles : \E i \in 1..Len(order) : order[i] = f
           /\ \A i, j \in 1..Len(order) : order[i] = order[j] => i = j
<1> DEFINE S == AllFiles
           n == Cardinality(S)
<1>1. IsFiniteSet(S) /\ n \in Nat
  BY FilesFacts, FS_CardinalityType
<1>2. order \in [1..n -> S] /\ \A i, j \in 1..n : order[i] = order[j] => i = j
  BY DEF SetToSeqs
<1>3. IsFiniteSet(1..n) /\ Cardinality(1..n) = n
  BY <1>1, FS_Interval
<1> HIDE DEF S
<1>4. order \in Injection(1..n, S)
  BY <1>2, Fun_IsInj
<1>5. order \in Surjection(1..n, S)
  BY <1>1, <1>3, <1>4, FS_Injection
<1> HIDE DEF n
<1>6. \A f \in S : \E i \in 1..n : order[i] = f
  BY <1>5 DEF Surjection
<1>7. Len(order) = n /\ order \in Seq(S)
  BY <1>1, <1>2
<1> QED
  BY <1>2, <1>6, <1>7 DEF S

\* The path at the offset of a file is its own, unless it is too long.
LEMMA FileOffsetFacts ==
    ASSUME IndexAssumption, RecordedOK, NEW order \in SetToSeqs(AllFiles)
    PROVE  LET files == Selected(order, {f \in AllFiles : PathFits(f)})
           IN /\ files \in Seq(DOMAIN PathLength)
              /\ \A f \in AllFiles :
                     /\ FileOffset(order, f) \in 1..Len(files) + 1
                     /\ PathFits(f) =>
                            /\ FileOffset(order, f) \in 1..Len(files)
                            /\ files[FileOffset(order, f)] = f
<1> DEFINE F == {f \in AllFiles : PathFits(f)}
           files == Selected(order, F)
           m == Len(order)
           c(i) == Cardinality(Held(order, F, i))
<1>1. order \in Seq(AllFiles) /\ m \in Nat
  BY OrderFacts
<1>2. /\ c(m) \in 0..m /\ files \in Seq(AllFiles) /\ Len(files) = c(m)
      /\ \A i \in 1..m : order[i] \in F => c(i) \in 1..c(m) /\ files[c(i)] = order[i]
  BY <1>1, SelectedFacts
<1>3. files \in Seq(DOMAIN PathLength)
  BY <1>2, FilesFacts
<1>4. ASSUME NEW f \in AllFiles
      PROVE  /\ FileOffset(order, f) \in 1..Len(files) + 1
             /\ PathFits(f) => /\ FileOffset(order, f) \in 1..Len(files)
                               /\ files[FileOffset(order, f)] = f
  <2>1. PICK j \in 1..m : order[j] = f
    BY OrderFacts
  <2>2. {i \in 1..m : PathFits(order[i]) /\ \E k \in 1..m : order[k] = f /\ i < k}
            = Held(order, F, j - 1)
    <3>1. \A k \in 1..m : order[k] = f => k = j
      BY <2>1, OrderFacts
    <3>2. \A i \in 1..m : PathFits(order[i]) <=> order[i] \in F
      BY <1>1
    <3> HIDE DEF F
    <3>3. \A i \in 1..m : (\E k \in 1..m : order[k] = f /\ i < k) <=> i < j
      BY <2>1, <3>1
    <3>4. \A i : i \in 1..m /\ i < j <=> i \in 1..(j - 1)
      BY <1>1, <2>1
    <3> QED
      BY <3>2, <3>3, <3>4 DEF Held
  <2>3. FileOffset(order, f) = 1 + c(j - 1)
    BY <2>2 DEF FileOffset
  <2>4. /\ \A i \in Nat : c(i) \in 0..i
        /\ \A i \in Nat : order[i + 1] \in F => c(i + 1) = c(i) + 1
        /\ \A i, k \in Nat : i < k => c(i) <= c(k)
    <3> HIDE DEF F
    <3>1. \A i \in Nat : c(i) \in 0..i
      BY HeldFacts
    <3>2. \A i \in Nat : order[i + 1] \in F => c(i + 1) = c(i) + 1
      BY HeldFacts
    <3>3. \A i, k \in Nat : i < k => c(i) <= c(k)
      BY HeldGrows
    <3> QED
      BY <3>1, <3>2, <3>3
  <2> HIDE DEF F, c, m
  <2>5. /\ j - 1 \in Nat /\ c(j - 1) \in Nat
        /\ order[j] \in F => c(j) = c(j - 1) + 1
    <3>1. j - 1 \in Nat /\ (j - 1) + 1 = j
      BY <1>1, <2>1
    <3> QED
      BY <2>4, <3>1
  <2>6. c(j - 1) <= c(m)
    BY <1>1, <2>1, <2>4, <2>5
  <2>7. FileOffset(order, f) \in 1..Len(files) + 1
    BY <1>1, <1>2, <2>3, <2>5, <2>6
  <2>8. ASSUME PathFits(f)
        PROVE  FileOffset(order, f) \in 1..Len(files) /\ files[FileOffset(order, f)] = f
    <3>1. order[j] \in F
      BY <2>1, <2>8 DEF F
    <3>2. FileOffset(order, f) = c(j)
      BY <1>2, <2>3, <2>5, <3>1
    <3>3. c(j) \in 1..c(m) /\ files[c(j)] = order[j]
      BY <1>2, <2>1, <3>1
    <3> HIDE DEF files
    <3> QED
      BY <1>2, <2>1, <3>2, <3>3
  <2> QED
    BY <2>7, <2>8
<1> QED
  BY <1>3, <1>4

-----------------------------------------------------------------------------
(* A detail: what it lists of what was defined, or declared, by the        *)
(* objects that have a name as a kind.                                     *)

LEMMA ListedFacts ==
    ASSUME IndexAssumption, RecordedOK, NEW recorded, recorded \subseteq Provided,
           NEW n, NEW k, 0 < Word
    PROVE  /\ IsFiniteSet(Listed(recorded, n, k)) /\ Cardinality(Listed(recorded, n, k)) < Word
           /\ \A q \in recorded :
                  (q.name = n /\ q.kind = k
                     /\ Cardinality({p.location : p \in {o \in recorded : o.name = n}}) < Word)
                      => q.location \in Listed(recorded, n, k)
<1> DEFINE All == {p.location : p \in {o \in recorded : o.name = n}}
           at == {p.location : p \in {q \in recorded : q.name = n /\ q.object \in Objects(n, k)}}
           R == {o \in recorded : o.name = n}
           f == [p \in R |-> p.location]
<1>1. at \subseteq All
  OBVIOUS
<1>2. IsFiniteSet(All)
  <2>1. IsFiniteSet(R)
    BY ProvidedFacts, FS_Subset
  <2>2. DOMAIN f = R /\ All = {f[p] : p \in R}
    OBVIOUS
  <2> HIDE DEF f, R, All
  <2> QED
    BY <2>1, <2>2, ImageFinite
<1>4. \A q \in recorded : q.name = n /\ q.kind = k => q.location \in at
  BY DEF Objects
<1>5. Listed(recorded, n, k) = IF Cardinality(at) < Word THEN at ELSE {}
  BY DEF Listed
<1> HIDE DEF at, All
<1>6. IsFiniteSet(at) /\ Cardinality(at) <= Cardinality(All)
  BY <1>1, <1>2, FS_Subset
<1>7. Cardinality(at) \in Nat /\ Cardinality(All) \in Nat /\ Word \in Nat
  BY <1>2, <1>6, FS_CardinalityType DEF IndexAssumption
<1>8. IsFiniteSet(Listed(recorded, n, k)) /\ Cardinality(Listed(recorded, n, k)) < Word
  BY <1>5, <1>6, FS_EmptySet
<1>9. Cardinality(All) < Word => Listed(recorded, n, k) = at
  BY <1>5, <1>6, <1>7
<1> QED
  BY <1>4, <1>8, <1>9 DEF All

\* What is listed of what was recorded is at a place that was recorded under
\* the name, and at the offset of the path of its file.
LocatedOf(D, recorded, n, files) ==
    /\ IsFiniteSet(D) /\ Cardinality(D) < Word
    /\ \A p \in D :
           /\ p.place \in Places /\ p.path \in 1..Len(files) + 1
           /\ PathFits(PlaceFile[p.place]) =>
                  p.path \in 1..Len(files) /\ files[p.path] = PlaceFile[p.place]
           /\ \E q \in recorded : q.name = n /\ q.location = p.place

LEMMA LocatedFacts ==
    ASSUME IndexAssumption, RecordedOK, NEW recorded, recorded \subseteq Provided,
           NEW n, NEW k, 0 < Word, NEW order \in SetToSeqs(AllFiles),
           NEW files, files = Selected(order, {f \in AllFiles : PathFits(f)})
    PROVE  LocatedOf(Located(Listed(recorded, n, k), order), recorded, n, files)
<1> DEFINE L == Listed(recorded, n, k)
           D == Located(L, order)
           f == [at \in L |-> [place |-> at, path |-> FileOffset(order, PlaceFile[at])]]
<1>1. IsFiniteSet(L) /\ Cardinality(L) < Word
  BY ListedFacts, Zenon
<1>2. \A at \in L : \E q \in recorded : q.name = n /\ q.location = at
  BY DEF Listed
<1> HIDE DEF L
<1>3. DOMAIN f = L /\ D = {f[at] : at \in L}
  BY DEF Located
<1>4. \A p \in D : p.place \in L /\ p.path = FileOffset(order, PlaceFile[p.place])
  BY DEF Located
<1> HIDE DEF f, D
<1>5. IsFiniteSet(D) /\ Cardinality(D) <= Cardinality(L)
  BY <1>1, <1>3, ImageFinite
<1>6. Cardinality(D) \in Nat /\ Cardinality(L) \in Nat /\ Word \in Nat
  BY <1>1, <1>5, FS_CardinalityType DEF IndexAssumption
<1>7. Cardinality(D) < Word
  BY <1>1, <1>5, <1>6
<1>8. ASSUME NEW p \in D
      PROVE  /\ p.place \in Places /\ p.path \in 1..Len(files) + 1
             /\ PathFits(PlaceFile[p.place]) =>
                    p.path \in 1..Len(files) /\ files[p.path] = PlaceFile[p.place]
             /\ \E q \in recorded : q.name = n /\ q.location = p.place
  <2>1. PICK q \in recorded : q.name = n /\ q.location = p.place
    BY <1>2, <1>4
  <2>2. q \in Provided /\ p.place \in Places /\ PlaceFile[p.place] \in AllFiles
    BY <2>1, ProvidedFacts DEF AllFiles
  <2>3. p.path = FileOffset(order, PlaceFile[p.place])
    BY <1>4
  <2>4. \A g \in AllFiles :
            /\ FileOffset(order, g) \in 1..Len(files) + 1
            /\ PathFits(g) => /\ FileOffset(order, g) \in 1..Len(files)
                              /\ files[FileOffset(order, g)] = g
    BY FileOffsetFacts, Zenon
  <2> QED
    BY <2>1, <2>2, <2>3, <2>4
<1>9. LocatedOf(D, recorded, n, files)
  BY <1>5, <1>7, <1>8 DEF LocatedOf
<1> QED
  BY <1>9 DEF D, L

\* A detail has all the kinds of its name, and under each what is listed.
KindsOfDetail(d, n, order) ==
    /\ d.name = n /\ d.hash = HashOf[n]
    /\ DOMAIN d.kinds = 1..Len(d.kinds) /\ Len(d.kinds) \in Nat /\ Len(d.kinds) < Word
    /\ \A i \in 1..Len(d.kinds) :
           LET k == d.kinds[i].kind
           IN /\ d.kinds[i].defs = Located(Listed(defines, n, k), order)
              /\ d.kinds[i].decls = Located(Listed(declares, n, k), order)
    /\ \A k \in KindsOf(n) : \E i \in 1..Len(d.kinds) : d.kinds[i].kind = k

LEMMA DetailFacts ==
    ASSUME IndexAssumption, RecordedOK, NEW n, Fits(n), NEW order
    PROVE  KindsOfDetail(Detail(n, order), n, order)
<1> DEFINE kinds == SortedSeq(KindsOf(n), LAMBDA k, l : k < l)
           of(k) == [kind  |-> k,
                     defs  |-> Located(Listed(defines, n, k), order),
                     decls |-> Located(Listed(declares, n, k), order)]
           ks == [i \in 1..Len(kinds) |-> of(kinds[i])]
           d == Detail(n, order)
<1>1. KindsOf(n) \subseteq Nat /\ IsFiniteSet(KindsOf(n)) /\ Cardinality(KindsOf(n)) < Word
  BY KindsFacts DEF IndexAssumption, Fits
<1>2. /\ kinds \in Seq(KindsOf(n)) /\ Len(kinds) = Cardinality(KindsOf(n))
      /\ \A k \in KindsOf(n) : \E i \in 1..Len(kinds) : kinds[i] = k
  BY <1>1, NumbersSorted
<1>3. d = [name |-> n, hash |-> HashOf[n], kinds |-> ks]
  BY DEF Detail
<1> HIDE DEF d, kinds
<1>4. Len(kinds) \in Nat
  BY <1>2
<1>5. ks \in Seq({of(k) : k \in KindsOf(n)}) /\ Len(ks) = Len(kinds)
  BY <1>2, <1>4
<1>6. d.kinds = ks /\ DOMAIN ks = 1..Len(ks) /\ Len(ks) \in Nat
  BY <1>3, <1>4, <1>5
<1>7. /\ \A i \in 1..Len(ks) : ks[i] = of(kinds[i])
      /\ \A k : /\ of(k).kind = k
                /\ of(k).defs = Located(Listed(defines, n, k), order)
                /\ of(k).decls = Located(Listed(declares, n, k), order)
  BY <1>5
<1> HIDE DEF ks, of
<1>8. \A i \in 1..Len(ks) : ks[i] = of(ks[i].kind) /\ ks[i].kind = kinds[i]
  BY <1>7
<1>9. d.name = n /\ d.hash = HashOf[n]
  BY <1>3
<1>10. \A i \in 1..Len(ks) :
           /\ ks[i].defs = Located(Listed(defines, n, ks[i].kind), order)
           /\ ks[i].decls = Located(Listed(declares, n, ks[i].kind), order)
  BY <1>7, <1>8
<1>11. \A k \in KindsOf(n) : \E i \in 1..Len(ks) : ks[i].kind = k
  BY <1>2, <1>5, <1>8
<1>12. KindsOfDetail(d, n, order)
  <2>1. Len(ks) < Word
    BY <1>1, <1>2, <1>5
  <2> HIDE DEF d
  <2> QED
    BY <1>6, <1>9, <1>10, <1>11, <2>1, Zenon DEF KindsOfDetail
<1> QED
  BY <1>12 DEF d

-----------------------------------------------------------------------------
(* The index as it is written: what the server may rely on.                *)

\* All that was recorded under the name, where it fits in 16 bits, is in D.
ListsAll(kinds, Which(_), recorded, n) ==
    \A q \in recorded :
        (q.name = n /\ Cardinality({p.location : p \in {o \in recorded : o.name = n}}) < Word)
            => \E i \in DOMAIN kinds : \E p \in Which(kinds[i]) : p.place = q.location

DetailOf(d, n, files, defs, decls) ==
    /\ d.name = n /\ d.hash = HashOf[n]
    /\ DOMAIN d.kinds = 1..Len(d.kinds) /\ Len(d.kinds) \in Nat /\ Len(d.kinds) < Word
    /\ \A i \in DOMAIN d.kinds :
           /\ LocatedOf(d.kinds[i].defs, defs, n, files)
           /\ LocatedOf(d.kinds[i].decls, decls, n, files)
    /\ ListsAll(d.kinds, LAMBDA k : k.defs, defs, n)
    /\ ListsAll(d.kinds, LAMBDA k : k.decls, decls, n)

IndexOf(ix, defs, decls) ==
    LET n == Len(ix.symbols)
    IN /\ ix.symbols \in Seq(Names) /\ ix.files \in Seq(DOMAIN PathLength)
       /\ \A i, j \in 1..n : i < j => NameLength[ix.symbols[i]] <= NameLength[ix.symbols[j]]
       /\ DOMAIN ix.details = 1..n /\ Len(ix.details) = n
       /\ \A d \in 1..n : DetailOf(ix.details[d], ix.symbols[d], ix.files, defs, decls)
       /\ ix.hashes \in Seq([hash : Nat, detail : 1..n]) /\ Len(ix.hashes) = n
       /\ \A i \in 1..n : ix.hashes[i].hash = HashOf[ix.symbols[ix.hashes[i].detail]]
       /\ \A d \in 1..n : \E i \in 1..n : ix.hashes[i].detail = d
       /\ \A i, j \in 1..n : i <= j => ix.hashes[i].hash <= ix.hashes[j].hash

LEMMA DetailWritten ==
    ASSUME IndexAssumption, RecordedOK, NEW n \in NamesSeen, Fits(n),
           NEW order \in SetToSeqs(AllFiles),
           NEW files, files = Selected(order, {f \in AllFiles : PathFits(f)})
    PROVE  DetailOf(Detail(n, order), n, files, defines, declares)
<1> DEFINE d == Detail(n, order)
           Few(recorded) ==
               Cardinality({p.location : p \in {o \in recorded : o.name = n}}) < Word
<1>1. 0 < Word
  <2>1. n \in Names /\ NameLength[n] < Word
    BY ProvidedFacts DEF Fits
  <2> QED
    BY <2>1 DEF IndexAssumption
<1>2. KindsOfDetail(d, n, order)
  BY DetailFacts, Zenon
<1> HIDE DEF d
<1>3. DOMAIN d.kinds = 1..Len(d.kinds)
  BY <1>2 DEF KindsOfDetail
<1>4. \A i \in 1..Len(d.kinds) :
          /\ d.kinds[i].defs = Located(Listed(defines, n, d.kinds[i].kind), order)
          /\ d.kinds[i].decls = Located(Listed(declares, n, d.kinds[i].kind), order)
  BY <1>2 DEF KindsOfDetail
<1>5. defines \subseteq Provided /\ declares \subseteq Provided
  BY DEF Provided
<1>6. ASSUME NEW i \in 1..Len(d.kinds)
      PROVE  /\ LocatedOf(d.kinds[i].defs, defines, n, files)
             /\ LocatedOf(d.kinds[i].decls, declares, n, files)
  <2> DEFINE k == d.kinds[i].kind
  <2>1. LocatedOf(Located(Listed(defines, n, k), order), defines, n, files)
    BY <1>1, <1>5, LocatedFacts
  <2>2. LocatedOf(Located(Listed(declares, n, k), order), declares, n, files)
    BY <1>1, <1>5, LocatedFacts
  <2> QED
    BY <1>4, <2>1, <2>2, Zenon
<1>7. ASSUME NEW recorded, recorded \subseteq Provided, NEW q \in recorded,
             q.name = n, Few(recorded)
      PROVE  \E i \in 1..Len(d.kinds) :
                 q.location \in Listed(recorded, n, d.kinds[i].kind)
  <2>1. q.kind \in KindsOf(n)
    BY <1>7 DEF KindsOf
  <2>2. q.location \in Listed(recorded, n, q.kind)
    BY <1>1, <1>7, ListedFacts, Zenon
  <2> QED
    BY <1>2, <2>1, <2>2 DEF KindsOfDetail
<1>8. ASSUME NEW places, NEW at \in places
      PROVE  \E p \in Located(places, order) : p.place = at
  <2> DEFINE p == [place |-> at, path |-> FileOffset(order, PlaceFile[at])]
  <2>1. p \in Located(places, order) /\ p.place = at
    BY DEF Located
  <2> QED
    BY <2>1
<1>9. ListsAll(d.kinds, LAMBDA k : k.defs, defines, n)
  <2> SUFFICES ASSUME NEW q \in defines, q.name = n, Few(defines)
               PROVE  \E i \in DOMAIN d.kinds : \E p \in d.kinds[i].defs : p.place = q.location
    BY DEF ListsAll
  <2>1. PICK i \in 1..Len(d.kinds) : q.location \in Listed(defines, n, d.kinds[i].kind)
    BY <1>5, <1>7
  <2>2. PICK p \in Located(Listed(defines, n, d.kinds[i].kind), order) : p.place = q.location
    BY <1>8, <2>1
  <2>3. p \in d.kinds[i].defs
    BY <1>4
  <2> QED
    BY <1>3, <2>2, <2>3
<1>10. ListsAll(d.kinds, LAMBDA k : k.decls, declares, n)
  <2> SUFFICES ASSUME NEW q \in declares, q.name = n, Few(declares)
               PROVE  \E i \in DOMAIN d.kinds : \E p \in d.kinds[i].decls : p.place = q.location
    BY DEF ListsAll
  <2>1. PICK i \in 1..Len(d.kinds) : q.location \in Listed(declares, n, d.kinds[i].kind)
    BY <1>5, <1>7
  <2>2. PICK p \in Located(Listed(declares, n, d.kinds[i].kind), order) : p.place = q.location
    BY <1>8, <2>1
  <2>3. p \in d.kinds[i].decls
    BY <1>4
  <2> QED
    BY <1>3, <2>2, <2>3
<1> QED
  BY <1>2, <1>3, <1>6, <1>9, <1>10 DEF DetailOf, KindsOfDetail, d

LEMMA IndexWritten ==
    ASSUME IndexAssumption, RecordedOK, NEW order \in SetToSeqs(AllFiles)
    PROVE  IndexOf(BinaryIndex(order), defines, declares)
<1> DEFINE ix == BinaryIndex(order)
           files == Selected(order, {f \in AllFiles : PathFits(f)})
           s == Symbols
           n == Len(s)
<1>1. /\ ix.symbols = s /\ ix.files = files /\ ix.hashes = HashTable(s)
      /\ ix.details = [i \in 1..n |-> Detail(s[i], order)]
  BY DEF BinaryIndex
<1>2. files \in Seq(DOMAIN PathLength)
  BY FileOffsetFacts
<1>3. /\ s \in Seq(Names) /\ \A i \in 1..n : s[i] \in NamesSeen /\ Fits(s[i])
      /\ \A i, j \in 1..n : i < j => NameLength[s[i]] <= NameLength[s[j]]
  BY SymbolsFacts
<1> HIDE DEF s, files
<1>4. /\ HashTable(s) \in Seq([hash : Nat, detail : 1..n]) /\ Len(HashTable(s)) = n
      /\ \A i \in 1..n : HashTable(s)[i].hash = HashOf[s[HashTable(s)[i].detail]]
      /\ \A d \in 1..n : \E i \in 1..n : HashTable(s)[i].detail = d
      /\ \A i, j \in 1..n : i <= j => HashTable(s)[i].hash <= HashTable(s)[j].hash
  BY <1>3, HashesFacts, Zenon
<1>5. \A d \in 1..n : DetailOf(Detail(s[d], order), s[d], files, defines, declares)
  BY <1>3, DetailWritten DEF files
<1>6. n \in Nat
  BY <1>3
<1> HIDE DEF n
<1>7. /\ DOMAIN ix.details = 1..n /\ Len(ix.details) = n
      /\ \A d \in 1..n : ix.details[d] = Detail(s[d], order)
  BY <1>1, <1>6
<1>8. \A d \in 1..n : DetailOf(ix.details[d], s[d], files, defines, declares)
  BY <1>5, <1>7, Zenon
<1> HIDE DEF ix
<1>9. Len(ix.symbols) = n
  BY <1>1 DEF n
<1>10. IndexOf(ix, defines, declares)
  BY <1>1, <1>2, <1>3, <1>4, <1>7, <1>8, <1>9, ZenonT(40) DEF IndexOf
<1> QED
  BY <1>10 DEF ix

\* While the code is walked what is recorded is of files, and nothing is
\* written; from then on the index is that of what was recorded.
IndexInv ==
    /\ RecordedOK
    /\ IF pc = "index"
       THEN index = [symbols |-> <<>>, details |-> <<>>, files |-> <<>>, hashes |-> <<>>]
       ELSE IndexOf(index, defines, declares)

\* All that is done once the index is written.
Serving ==
    \/ LoadSymbols \/ LoadFails \/ HandleSearch \/ SearchPanics \/ HandlePage \/ Serve

LEMMA RecordUseKeeps ==
    ASSUME IndexAssumption, IndexInv, RecordUse
    PROVE  IndexInv'
<1>1. PICK u \in Uses : /\ HasFile(u[1]) /\ HasFile(u[2])
                        /\ users' = [users EXCEPT ![u] = @ + 1]
  BY Zenon DEF RecordUse
<1>2. pc = "index" /\ UNCHANGED <<defines, declares, index, pc>>
  BY DEF RecordUse, Indexing
<1>3. users' \in [Uses -> Nat]
  BY <1>1 DEF IndexInv, RecordedOK
<1>4. \A v \in Uses : users'[v] > 0 => HasFile(v[1]) /\ HasFile(v[2])
  BY <1>1 DEF IndexInv, RecordedOK
<1> QED
  BY <1>2, <1>3, <1>4 DEF IndexInv, RecordedOK, Provided, HasFile

LEMMA RecordKeeps ==
    ASSUME IndexAssumption, IndexInv, RecordDefines \/ RecordDeclares
    PROVE  IndexInv'
<1>1. PICK p \in Providers :
          /\ HasFile(p.object) /\ HasFile(p.location)
          /\ Provided' = Provided \cup {p}
          /\ defines' \subseteq Providers /\ declares' \subseteq Providers
  <2>1. CASE RecordDefines
    <3>1. PICK p \in Providers : /\ HasFile(p.object) /\ HasFile(p.location)
                                 /\ defines' = defines \cup {p}
      BY <2>1, Zenon DEF RecordDefines
    <3> QED
      BY <2>1, <3>1 DEF RecordDefines, Provided, IndexInv, RecordedOK
  <2>2. CASE RecordDeclares
    <3>1. PICK p \in Providers : /\ HasFile(p.object) /\ HasFile(p.location)
                                 /\ declares' = declares \cup {p}
      BY <2>2, Zenon DEF RecordDeclares
    <3> QED
      BY <2>2, <3>1 DEF RecordDeclares, Provided, IndexInv, RecordedOK
  <2> QED
    BY <2>1, <2>2
<1>2. pc = "index" /\ UNCHANGED <<users, index, pc>>
  BY DEF RecordDefines, RecordDeclares, Indexing
<1>3. \A q \in Provided' : HasFile(q.object) /\ HasFile(q.location)
  BY <1>1 DEF IndexInv, RecordedOK
<1> QED
  BY <1>1, <1>2, <1>3 DEF IndexInv, RecordedOK, HasFile

LEMMA WriteKeeps ==
    ASSUME IndexAssumption, IndexInv, OutputBinaryIndex
    PROVE  IndexInv'
<1>1. PICK order \in SetToSeqs(AllFiles) : index' = BinaryIndex(order)
  BY Zenon DEF OutputBinaryIndex
<1>2. IndexOf(BinaryIndex(order), defines, declares)
  BY IndexWritten DEF IndexInv
<1>3. pc' = "written" /\ UNCHANGED <<defines, declares, users>>
  BY DEF OutputBinaryIndex
<1>4. IndexOf(index', defines', declares')
  BY <1>1, <1>2, <1>3, Zenon
<1>5. RecordedOK'
  BY <1>3 DEF IndexInv, RecordedOK, Provided, HasFile
<1> QED
  BY <1>3, <1>4, <1>5 DEF IndexInv

\* Nothing else changes the index.
LEMMA ServingKeepsIndex ==
    ASSUME Serving \/ UNCHANGED vars
    PROVE  UNCHANGED indexer /\ (pc = "index" <=> pc' = "index")
BY DEF Serving, Serve, vars, indexer, LoadSymbols, LoadFails, HandleSearch, SearchPanics,
       HandlePage, NoMatch, SkipResult, ReturnResult, DropResult, SearchEnds, Scanning,
       LookUp, PageFound, PageMissing, Respond

\* Whatever the indexer records, what it writes is an index of that, and serving
\* changes none of it.
THEOREM IndexInvariant == Spec => []IndexInv
<1>1. Init => IndexInv
  <2> SUFFICES ASSUME Init PROVE IndexInv
    OBVIOUS
  <2> QED
    BY DEF Init, IndexInv, RecordedOK, Provided
<1>2. IndexInv /\ [Next]_vars => IndexInv'
  <2> SUFFICES ASSUME IndexInv, [Next]_vars PROVE IndexInv'
    OBVIOUS
  <2>1. CASE RecordUse \/ RecordDefines \/ RecordDeclares \/ OutputBinaryIndex
    BY <2>1, IndexAssumption, RecordUseKeeps, RecordKeeps, WriteKeeps
  <2>2. CASE Serving \/ UNCHANGED vars
    <3>1. UNCHANGED indexer /\ (pc = "index" <=> pc' = "index")
      BY <2>2, ServingKeepsIndex
    <3> QED
      BY <3>1 DEF indexer, IndexInv, RecordedOK, Provided, HasFile
  <2> QED
    BY <2>1, <2>2 DEF Next, Serving
<1> QED
  BY <1>1, <1>2, PTL DEF Spec

-----------------------------------------------------------------------------
(* The binary search of HashLookup, of any table that is sorted.           *)

\* The entry looked at is in the range that is left.
LEMMA ToCheckInRange ==
  ASSUME Lookup!LookupInv, Lookup!Searching
  PROVE  /\ Lookup!ToCheck \in Nat /\ minindex <= Lookup!ToCheck /\ Lookup!ToCheck < maxindex
         /\ Lookup!ToCheck + 1 \in 1..Len(table)
<1>1. Len(table) \in Nat
  BY DEF Lookup!LookupInv, Lookup!Sorted
<1>2. (maxindex - minindex) \div 2 \in 0..(maxindex - minindex - 1)
  BY DEF Lookup!LookupInv, Lookup!Searching
<1> QED BY <1>1, <1>2 DEF Lookup!LookupInv, Lookup!Searching, Lookup!ToCheck

LEMMA LookupStarts == Lookup!Init => Lookup!LookupInv
BY DEF Lookup!Init, Lookup!LookupInv, Lookup!Sorted

LEMMA LookupStartKeeps ==
  ASSUME Lookup!Start(table', wanted'), Lookup!Sorted(table'), wanted' \in Nat
  PROVE  Lookup!LookupInv'
<1>1. Len(table') \in Nat
  BY DEF Lookup!Sorted
<1> QED BY <1>1 DEF Lookup!Start, Lookup!LookupInv, Lookup!Sorted

LEMMA LookupReturnKeeps ==
  ASSUME Lookup!LookupInv, Lookup!Return
  PROVE  Lookup!LookupInv'
BY DEF Lookup!Return, Lookup!LookupInv, Lookup!Sorted

LEMMA HitKeeps ==
  ASSUME Lookup!LookupInv, Lookup!Hit
  PROVE  Lookup!LookupInv'
BY DEF Lookup!LookupInv, Lookup!Hit, Lookup!Searching, Lookup!Sorted, Lookup!At, Lookup!ToCheck

LEMMA GoRightKeeps ==
  ASSUME Lookup!LookupInv, Lookup!GoRight
  PROVE  Lookup!LookupInv'
<1>1. /\ Lookup!ToCheck \in Nat /\ Lookup!ToCheck < maxindex
      /\ Lookup!ToCheck + 1 \in 1..Len(table)
  BY ToCheckInRange DEF Lookup!GoRight
<1>2. ASSUME NEW i \in 1..Len(table), i <= Lookup!ToCheck + 1 PROVE table[i] < wanted
  <2>1. table[i] <= table[Lookup!ToCheck + 1]
    BY <1>1, <1>2 DEF Lookup!LookupInv, Lookup!Sorted
  <2>2. table[i] \in Nat /\ table[Lookup!ToCheck + 1] \in Nat
    BY <1>1 DEF Lookup!LookupInv, Lookup!Sorted
  <2> QED BY <2>1, <2>2 DEF Lookup!GoRight, Lookup!At, Lookup!LookupInv
<1> QED BY <1>1, <1>2 DEF Lookup!LookupInv, Lookup!GoRight, Lookup!Searching, Lookup!Sorted

LEMMA GoLeftKeeps ==
  ASSUME Lookup!LookupInv, Lookup!GoLeft
  PROVE  Lookup!LookupInv'
<1>1. /\ Lookup!ToCheck \in Nat /\ Lookup!ToCheck < maxindex
      /\ Lookup!ToCheck + 1 \in 1..Len(table)
  BY ToCheckInRange DEF Lookup!GoLeft
<1>2. ASSUME NEW i \in 1..Len(table), i > Lookup!ToCheck PROVE table[i] > wanted
  <2>1. table[Lookup!ToCheck + 1] <= table[i]
    BY <1>1, <1>2 DEF Lookup!LookupInv, Lookup!Sorted
  <2>2. table[i] \in Nat /\ table[Lookup!ToCheck + 1] \in Nat
    BY <1>1 DEF Lookup!LookupInv, Lookup!Sorted
  <2> QED BY <2>1, <2>2 DEF Lookup!GoLeft, Lookup!At, Lookup!LookupInv
<1>3. Len(table) \in Nat
  BY DEF Lookup!LookupInv, Lookup!Sorted
<1> QED BY <1>1, <1>2, <1>3 DEF Lookup!LookupInv, Lookup!GoLeft, Lookup!Searching, Lookup!Sorted

LEMMA MissKeeps ==
  ASSUME Lookup!LookupInv, Lookup!Miss
  PROVE  Lookup!LookupInv'
BY DEF Lookup!LookupInv, Lookup!Miss, Lookup!Sorted

\* What is left out of the range is accounted for at every iteration.
THEOREM LookupInvariant == Lookup!Spec => []Lookup!LookupInv
<1>1. Lookup!LookupInv /\ [Lookup!Next]_(Lookup!vars) => Lookup!LookupInv'
  <2> SUFFICES ASSUME Lookup!LookupInv, [Lookup!Next]_(Lookup!vars) PROVE Lookup!LookupInv'
    OBVIOUS
  <2>1. CASE Lookup!Start(table', wanted') /\ Lookup!Sorted(table') /\ wanted' \in Nat
    BY <2>1, LookupStartKeeps
  <2>2. CASE Lookup!Loop
    BY <2>2, HitKeeps, GoRightKeeps, GoLeftKeeps, MissKeeps DEF Lookup!Loop
  <2>3. CASE UNCHANGED Lookup!vars
    BY <2>3 DEF Lookup!vars, Lookup!LookupInv, Lookup!Sorted, Lookup!At, Lookup!ToCheck
  <2> QED BY <2>1, <2>2, <2>3, LookupReturnKeeps DEF Lookup!Next
<1> QED BY <1>1, LookupStarts, PTL DEF Lookup!Spec

\* A search of a sorted table finds the hash if and only if it is there.
THEOREM LookupCorrect == Lookup!Spec => []Lookup!LookupRight
<1>1. Lookup!LookupInv => Lookup!LookupRight
  <2> SUFFICES ASSUME Lookup!LookupInv PROVE Lookup!LookupRight
    OBVIOUS
  <2>1. Len(table) \in Nat /\ \A i \in 1..Len(table) : table[i] \in Nat
    BY DEF Lookup!LookupInv, Lookup!Sorted
  <2>2. ASSUME outcome = "found" PROVE Lookup!At(Lookup!ToCheck) = wanted /\ Lookup!ToCheck < Len(table)
    <3>1. (maxindex - minindex) \div 2 \in 0..(maxindex - minindex - 1)
      BY <2>2 DEF Lookup!LookupInv
    <3> QED BY <2>1, <2>2, <3>1 DEF Lookup!LookupInv, Lookup!ToCheck
  <2>3. ASSUME outcome = "missing", NEW i \in 1..Len(table) PROVE table[i] # wanted
    <3>1. i <= minindex \/ i > maxindex
      BY <2>1, <2>3 DEF Lookup!LookupInv
    <3> QED BY <2>1, <3>1 DEF Lookup!LookupInv
  <2> QED BY <2>2, <2>3 DEF Lookup!LookupRight
<1> QED BY <1>1, LookupInvariant, PTL

\* The loop ends: what is left of the table shrinks with every iteration.
THEOREM LookupEnds == Lookup!Spec => Lookup!LookupShrinks
<1>1. Lookup!LookupInv /\ [Lookup!Next]_(Lookup!vars) => [Lookup!Continue => Lookup!Left' < Lookup!Left]_(Lookup!vars)
  <2> SUFFICES ASSUME Lookup!LookupInv, Lookup!Continue PROVE Lookup!Left' < Lookup!Left
    OBVIOUS
  <2>1. Lookup!Searching
    BY DEF Lookup!Continue, Lookup!GoLeft, Lookup!GoRight
  <2>2. /\ Lookup!ToCheck \in Nat /\ minindex <= Lookup!ToCheck /\ Lookup!ToCheck < maxindex
        /\ minindex \in Nat /\ maxindex \in Nat
    BY <2>1, ToCheckInRange DEF Lookup!LookupInv
  <2>3. CASE Lookup!GoRight
    BY <2>2, <2>3 DEF Lookup!GoRight, Lookup!Left
  <2>4. CASE Lookup!GoLeft
    BY <2>2, <2>4 DEF Lookup!GoLeft, Lookup!Left
  <2> QED BY <2>3, <2>4 DEF Lookup!Continue
<1> QED BY <1>1, LookupInvariant, PTL DEF Lookup!Spec, Lookup!LookupShrinks

-----------------------------------------------------------------------------
(* The refinement: the search of the hashes is HashLookup's.               *)

LEMMA HashesSorted ==
    ASSUME IndexAssumption, IndexInv, pc # "index"
    PROVE  Lookup!Sorted([i \in 1..Len(index.hashes) |-> index.hashes[i].hash])
<1> DEFINE n == Len(index.symbols)
           t == [i \in 1..Len(index.hashes) |-> index.hashes[i].hash]
<1>1. /\ index.hashes \in Seq([hash : Nat, detail : 1..n])
      /\ Len(index.hashes) = n
      /\ \A i, j \in 1..n : i <= j => index.hashes[i].hash <= index.hashes[j].hash
  BY DEF IndexInv, IndexOf
<1>2. index.symbols \in Seq(Names) /\ t = [i \in 1..n |-> index.hashes[i].hash]
  BY <1>1 DEF IndexInv, IndexOf
<1>3. n \in Nat
  BY <1>2
<1> HIDE DEF n, t
<1>7. \A i \in 1..n : index.hashes[i].hash \in Nat
  <2> DEFINE R == [hash : Nat, detail : 1..n]
  <2>1. index.hashes \in Seq(R) /\ Len(index.hashes) = n /\ \A x \in R : x.hash \in Nat
    BY <1>1
  <2> HIDE DEF R
  <2> QED
    BY <2>1
<1>4. t \in Seq(Nat) /\ Len(t) = n /\ \A i \in 1..n : t[i] = index.hashes[i].hash
  BY <1>2, <1>3, <1>7
<1>5. \A i, j \in 1..Len(t) : i <= j => t[i] <= t[j]
  BY <1>1, <1>4
<1>6. Lookup!Sorted(t)
  BY <1>4, <1>5 DEF Lookup!Sorted
<1> QED
  BY <1>6 DEF t

\* GetHashData is given a table that is sorted, and does with it what it does in
\* HashLookup.
THEOREM LookupRefined == Spec => LookupSpec
<1>1. Init => Lookup!Init
  BY DEF Init
<1>2. IndexInv /\ [Next]_vars => [Lookup!Next]_(Lookup!vars)
  <2> SUFFICES ASSUME IndexInv, [Next]_vars PROVE [Lookup!Next]_(Lookup!vars)
    OBVIOUS
  <2>1. CASE HandlePage
    <3>1. PICK h \in Hashes :
              Lookup!Start([i \in 1..Len(index.hashes) |-> index.hashes[i].hash], h)
      BY <2>1, Zenon DEF HandlePage
    <3>2. /\ table' = [i \in 1..Len(index.hashes) |-> index.hashes[i].hash]
          /\ wanted' = h /\ pc # "index"
      BY <2>1, <3>1 DEF HandlePage, Lookup!Start
    <3>3. Lookup!Start(table', wanted')
      BY <3>1, <3>2, Zenon
    <3>4. Lookup!Sorted(table') /\ wanted' \in Nat
      BY <3>2, IndexAssumption, HashesSorted DEF IndexAssumption
    <3> QED
      BY <3>3, <3>4 DEF Lookup!Next
  <2>2. CASE LookUp
    BY <2>2 DEF LookUp, Lookup!Next
  <2>3. CASE Respond
    BY <2>3 DEF Respond, Lookup!Next, lookup, Lookup!vars
  <2>4. CASE ~HandlePage /\ ~LookUp /\ ~Respond
    <3>1. UNCHANGED lookup
      BY <2>4 DEF Next, Serve, vars, RecordUse, RecordDefines, RecordDeclares,
                  OutputBinaryIndex, LoadSymbols, LoadFails, HandleSearch, SearchPanics,
                  NoMatch, SkipResult, ReturnResult, DropResult, SearchEnds,
                  PageFound, PageMissing
    <3> QED
      BY <3>1 DEF lookup, Lookup!vars
  <2> QED
    BY <2>1, <2>2, <2>3, <2>4
<1> QED
  BY <1>1, <1>2, IndexInvariant, PTL DEF Spec, LookupSpec, Lookup!Spec

\* So what is proved of the one is true of the other.
LEMMA LookupIsRight == Spec => [](Lookup!LookupInv /\ Lookup!LookupRight)
<1> QED
  BY LookupRefined, LookupInvariant, LookupCorrect, PTL DEF LookupSpec

-----------------------------------------------------------------------------
(* What the server answers from a detail.                                  *)

RecordedAs(n, defs, decls) ==
    {[place |-> p.location, defined |-> TRUE]  : p \in {q \in defs : q.name = n}} \cup
    {[place |-> p.location, defined |-> FALSE] : p \in {q \in decls : q.name = n}}

AnswerOf(r, defs, decls) ==
    /\ r \in Result
    /\ r.status = "shown" => Faithful(r.listed, RecordedAs(r.name, defs, decls))
    /\ r.status # "none" => r.name \in Names /\ r.hash = HashOf[r.name]

\* There are as many recordings of a name as places it was recorded at.
LEMMA RecordingsFacts ==
    ASSUME IndexAssumption, RecordedOK, NEW n, NEW recorded, recorded \subseteq Provided,
           NEW S, S = {o \in recorded : o.name = n},
           NEW f, DOMAIN f = S, \A p \in S : f[p].place = p.location,
           Cardinality({f[p] : p \in S}) < Word
    PROVE  Cardinality({p.location : p \in {o \in recorded : o.name = n}}) < Word
<1> DEFINE E == {f[p] : p \in S}
           g == [e \in E |-> e.place]
           L == {p.location : p \in S}
<1>1. IsFiniteSet(S)
  BY ProvidedFacts, FS_Subset
<1>2. DOMAIN g = E /\ L = {g[e] : e \in E}
  <2>1. \A p \in S : f[p] \in E /\ g[f[p]] = p.location
    OBVIOUS
  <2>2. \A e \in E : g[e] \in L
    OBVIOUS
  <2>3. DOMAIN g = E
    OBVIOUS
  <2> HIDE DEF g, E
  <2> QED
    BY <2>1, <2>2, <2>3
<1>3. IsFiniteSet(E)
  BY <1>1, ImageFinite
<1> HIDE DEF g, E, L
<1>4. IsFiniteSet(L) /\ Cardinality(L) <= Cardinality(E)
  BY <1>2, <1>3, ImageFinite
<1>5. Cardinality(E) \in Nat /\ Cardinality(L) \in Nat /\ Word \in Nat
  BY <1>3, <1>4, FS_CardinalityType DEF IndexAssumption
<1>6. Cardinality(E) < Word
  BY DEF E
<1>7. Cardinality(L) < Word
  BY <1>4, <1>5, <1>6
<1> QED
  BY <1>7 DEF L

LEMMA AnswerFacts ==
    ASSUME IndexAssumption, IndexInv, pc # "index",
           NEW d \in 1..Len(index.symbols), NEW r \in SymbolDetails(d)
    PROVE  /\ AnswerOf(r, defines, declares) /\ r.name = index.symbols[d]
           /\ r.status \in {"shown", "error", "garbled"}
           /\ Readable(d) /\ InRange(d) => r.status = "shown"
<1> DEFINE n == index.symbols[d]
           detail == index.details[d]
           kinds == detail.kinds
           files == index.files
           Entry(p, b) == [place |-> p.place, path |-> files[p.path], defined |-> b]
           listed == UNION {Listing(k.defs, TRUE) \cup Listing(k.decls, FALSE) : k \in ToSet(kinds)}
<1>1. /\ n \in Names /\ files \in Seq(DOMAIN PathLength)
      /\ DetailOf(detail, n, files, defines, declares)
  <2>1. IndexOf(index, defines, declares)
    BY DEF IndexInv
  <2>2. index.symbols \in Seq(Names) /\ files \in Seq(DOMAIN PathLength)
    BY <2>1, Zenon DEF IndexOf
  <2>3. DetailOf(detail, n, files, defines, declares)
    BY <2>1, Zenon DEF IndexOf
  <2> QED
    BY <2>2, <2>3
<1>2. detail.name = n /\ detail.hash = HashOf[n] /\ DOMAIN kinds = 1..Len(kinds)
  BY <1>1 DEF DetailOf
<1>3. r \in {[status |-> st, name |-> n, hash |-> HashOf[n], listed |-> {}] :
                 st \in {"error", "garbled"}}
      \/ /\ r = [status |-> "shown", name |-> n, hash |-> HashOf[n], listed |-> listed]
         /\ Readable(d) /\ InRange(d)
  BY <1>2 DEF SymbolDetails
<1>4. Readable(d) /\ InRange(d) => r.status = "shown"
  BY DEF SymbolDetails
<1>5. CASE r \in {[status |-> st, name |-> n, hash |-> HashOf[n], listed |-> {}] :
                     st \in {"error", "garbled"}}
  <2>1. PICK st \in {"error", "garbled"} :
            r = [status |-> st, name |-> n, hash |-> HashOf[n], listed |-> {}]
    BY <1>5
  <2>2. r \in Result
    <3>1. n \in {0} \cup Names /\ HashOf[n] \in {0} \cup {HashOf[m] : m \in Names}
      BY <1>1
    <3>2. {} \in SUBSET [place : Places, path : DOMAIN PathLength, defined : BOOLEAN]
      OBVIOUS
    <3> QED
      BY <2>1, <3>1, <3>2 DEF Result
  <2>3. r.status = st /\ r.name = n /\ r.hash = HashOf[n]
    BY <2>1
  <2> QED
    BY <1>1, <1>4, <2>2, <2>3 DEF AnswerOf
<1>6. CASE /\ r = [status |-> "shown", name |-> n, hash |-> HashOf[n], listed |-> listed]
           /\ Readable(d) /\ InRange(d)
  <2>1. \A l : l \in listed <=>
            \E i \in DOMAIN kinds : \/ \E p \in kinds[i].defs : l = Entry(p, TRUE)
                                    \/ \E p \in kinds[i].decls : l = Entry(p, FALSE)
    BY DEF Listing, ToSet
  <2>2. \A i \in DOMAIN kinds : \A p \in kinds[i].defs \cup kinds[i].decls : p.path <= Len(files)
    BY <1>6 DEF InRange, ToSet
  <2>3. ASSUME NEW recorded, NEW D, LocatedOf(D, recorded, n, files),
               NEW p \in D, p.path <= Len(files)
        PROVE  /\ p.place \in Places /\ files[p.path] \in DOMAIN PathLength
               /\ PathFits(PlaceFile[p.place]) => files[p.path] = PlaceFile[p.place]
               /\ \E q \in recorded : q.name = n /\ q.location = p.place
    <3>1. /\ p.place \in Places /\ p.path \in 1..Len(files) + 1
          /\ PathFits(PlaceFile[p.place]) => files[p.path] = PlaceFile[p.place]
          /\ \E q \in recorded : q.name = n /\ q.location = p.place
      BY <2>3 DEF LocatedOf
    <3>2. files[p.path] \in DOMAIN PathLength
      BY <1>1, <2>3, <3>1
    <3> QED
      BY <3>1, <3>2
  <2>4. ASSUME NEW l \in listed
        PROVE  /\ l \in [place : Places, path : DOMAIN PathLength, defined : BOOLEAN]
               /\ [place |-> l.place, defined |-> l.defined] \in Recordings(n)
               /\ PathFits(PlaceFile[l.place]) => l.path = PlaceFile[l.place]
    <3>1. PICK i \in DOMAIN kinds : \/ \E p \in kinds[i].defs : l = Entry(p, TRUE)
                                    \/ \E p \in kinds[i].decls : l = Entry(p, FALSE)
      BY <2>1
    <3>2. /\ LocatedOf(kinds[i].defs, defines, n, files)
          /\ LocatedOf(kinds[i].decls, declares, n, files)
      BY <1>1, <1>2 DEF DetailOf
    <3>3. CASE \E p \in kinds[i].defs : l = Entry(p, TRUE)
      <4>1. PICK p \in kinds[i].defs : l = Entry(p, TRUE)
        BY <3>3
      <4>2. p.path <= Len(files)
        BY <2>2
      <4>3. /\ p.place \in Places /\ files[p.path] \in DOMAIN PathLength
            /\ PathFits(PlaceFile[p.place]) => files[p.path] = PlaceFile[p.place]
            /\ \E q \in defines : q.name = n /\ q.location = p.place
        BY <2>3, <3>2, <4>2, ZenonT(40)
      <4>4. [place |-> p.place, defined |-> TRUE] \in Recordings(n)
        BY <4>3 DEF Recordings
      <4> QED
        BY <4>1, <4>3, <4>4
    <3>4. CASE \E p \in kinds[i].decls : l = Entry(p, FALSE)
      <4>1. PICK p \in kinds[i].decls : l = Entry(p, FALSE)
        BY <3>4
      <4>2. p.path <= Len(files)
        BY <2>2
      <4>3. /\ p.place \in Places /\ files[p.path] \in DOMAIN PathLength
            /\ PathFits(PlaceFile[p.place]) => files[p.path] = PlaceFile[p.place]
            /\ \E q \in declares : q.name = n /\ q.location = p.place
        BY <2>3, <3>2, <4>2, ZenonT(40)
      <4>4. [place |-> p.place, defined |-> FALSE] \in Recordings(n)
        BY <4>3 DEF Recordings
      <4> QED
        BY <4>1, <4>3, <4>4
    <3> QED
      BY <3>1, <3>3, <3>4
  <2>5. ASSUME NEW c \in Recordings(n),
               Cardinality({e \in Recordings(n) : e.defined = c.defined}) < Word
        PROVE  \E l \in listed : l.place = c.place /\ l.defined = c.defined
    <3>1. CASE \E q \in defines : q.name = n /\ c = [place |-> q.location, defined |-> TRUE]
      <4>1. PICK q \in defines : q.name = n /\ c = [place |-> q.location, defined |-> TRUE]
        BY <3>1
      <4>2. Cardinality({p.location : p \in {o \in defines : o.name = n}}) < Word
        <5> DEFINE S == {o \in defines : o.name = n}
                   f == [p \in S |-> [place |-> p.location, defined |-> TRUE]]
        <5>1. {e \in Recordings(n) : e.defined = c.defined} = {f[p] : p \in S}
          <6>1. c.defined = TRUE
            BY <4>1
          <6>2. \A e : e \in Recordings(n) /\ e.defined = TRUE <=> \E p \in S : e = f[p]
            BY DEF Recordings
          <6> HIDE DEF f, S
          <6> QED
            BY <6>1, <6>2
        <5>2. DOMAIN f = S /\ \A p \in S : f[p].place = p.location
          OBVIOUS
        <5>3. defines \subseteq Provided /\ RecordedOK /\ S = {o \in defines : o.name = n}
          BY DEF Provided, IndexInv
        <5> HIDE DEF f, S
        <5>4. Cardinality({f[p] : p \in S}) < Word
          BY <2>5, <5>1
        <5> QED
          BY <5>2, <5>3, <5>4, RecordingsFacts, ZenonT(40)
      <4>4. \E i \in DOMAIN kinds : \E p \in kinds[i].defs : p.place = q.location
        BY <1>1, <4>1, <4>2 DEF DetailOf, ListsAll
      <4>5. PICK i \in DOMAIN kinds : \E p \in kinds[i].defs : p.place = q.location
        BY <4>4
      <4>7. PICK p \in kinds[i].defs : p.place = q.location
        BY <4>5
      <4>6. Entry(p, TRUE) \in listed
        BY <2>1
      <4> QED
        BY <4>1, <4>6, <4>7
    <3>2. CASE \E q \in declares : q.name = n /\ c = [place |-> q.location, defined |-> FALSE]
      <4>1. PICK q \in declares : q.name = n /\ c = [place |-> q.location, defined |-> FALSE]
        BY <3>2
      <4>2. Cardinality({p.location : p \in {o \in declares : o.name = n}}) < Word
        <5> DEFINE S == {o \in declares : o.name = n}
                   f == [p \in S |-> [place |-> p.location, defined |-> FALSE]]
        <5>1. {e \in Recordings(n) : e.defined = c.defined} = {f[p] : p \in S}
          <6>1. c.defined = FALSE
            BY <4>1
          <6>2. \A p \in S : f[p] \in Recordings(n) /\ f[p].defined = c.defined
            BY <6>1 DEF Recordings
          <6>3. ASSUME NEW e \in Recordings(n), e.defined = c.defined
                PROVE  \E p \in S : e = f[p]
            <7>1. \A o : [place |-> o.location, defined |-> TRUE].defined = TRUE
              OBVIOUS
            <7>2. \A o \in defines : e # [place |-> o.location, defined |-> TRUE]
              BY <6>1, <6>3, <7>1
            <7>3. PICK o \in S : e = [place |-> o.location, defined |-> FALSE]
              BY <7>2 DEF Recordings
            <7> QED
              BY <7>3
          <6> HIDE DEF f, S
          <6> QED
            BY <6>2, <6>3
        <5>2. DOMAIN f = S /\ \A p \in S : f[p].place = p.location
          OBVIOUS
        <5>3. declares \subseteq Provided /\ RecordedOK /\ S = {o \in declares : o.name = n}
          BY DEF Provided, IndexInv
        <5> HIDE DEF f, S
        <5>4. Cardinality({f[p] : p \in S}) < Word
          BY <2>5, <5>1
        <5> QED
          BY <5>2, <5>3, <5>4, RecordingsFacts, ZenonT(40)
      <4>4. \E i \in DOMAIN kinds : \E p \in kinds[i].decls : p.place = q.location
        BY <1>1, <4>1, <4>2 DEF DetailOf, ListsAll
      <4>5. PICK i \in DOMAIN kinds : \E p \in kinds[i].decls : p.place = q.location
        BY <4>4
      <4>7. PICK p \in kinds[i].decls : p.place = q.location
        BY <4>5
      <4>6. Entry(p, FALSE) \in listed
        BY <2>1
      <4> QED
        BY <4>1, <4>6, <4>7
    <3> QED
      BY <3>1, <3>2 DEF Recordings
  <2>6. r.name = n /\ r.listed = listed /\ r.status = "shown" /\ r.hash = HashOf[n]
    BY <1>6
  <2> HIDE DEF listed
  <2>7. Faithful(r.listed, RecordedAs(r.name, defines, declares))
    <3>1. RecordedAs(n, defines, declares) = Recordings(n)
      BY Zenon DEF RecordedAs, Recordings
    <3>2. Faithful(listed, Recordings(n))
      BY <2>4, <2>5 DEF Faithful
    <3> QED
      BY <2>6, <3>1, <3>2, Zenon
  <2>8. r \in Result
    BY <1>1, <1>6, <2>4 DEF Result
  <2> QED
    BY <1>1, <2>6, <2>7, <2>8 DEF AnswerOf
<1> QED
  BY <1>3, <1>5, <1>6

-----------------------------------------------------------------------------
(* Requests.                                                               *)

Whole == \A d \in 1..Len(index.details) : Readable(d) /\ InRange(d)

NoSearch == query = NoQuery /\ skip = 0 /\ offset = 0 /\ matched = 0 /\ data = <<>>

\* The scan has counted all names before the offset that match. Where no detail
\* fails to read, it has returned those that were not to be skipped.
ScanOK ==
    /\ query \in Queries /\ skip \in Skips /\ offset \in 1..Len(index.symbols) + 1
    /\ matched = Cardinality(Held(index.symbols, query.matches, offset - 1))
    /\ data = <<>> \/ Len(data) + skip <= matched
    /\ Len(data) <= MaxResults
    /\ Whole =>
         /\ Len(data) = IF matched > skip THEN matched - skip ELSE 0
         /\ \A k \in 1..Len(data) :
                data[k].name = Selected(index.symbols, query.matches)[skip + k]

ScanOver == offset > Len(index.symbols) \/ matched >= MaxResults + skip

LookingUp ==
    /\ outcome \in {"searching", "found", "missing"}
    /\ table = [i \in 1..Len(index.hashes) |-> index.hashes[i].hash]

Answered ==
    \/ outcome = "found" /\ page.status # "none" /\ page.hash = wanted
    \/ outcome = "missing" /\ page = NoPage

RequestInv ==
    /\ pc \in {"index", "written", "failed", "ready", "search", "lookup", "done"}
    /\ AnswerOf(page, defines, declares) /\ data \in Seq(Result)
    /\ \A i \in 1..Len(data) : AnswerOf(data[i], defines, declares)
    /\ pc \in {"ready", "search", "lookup", "done"} => index.symbols # <<>>
    /\ pc \in {"index", "written", "failed", "ready"} =>
           NoSearch /\ page = NoPage /\ outcome = "none"
    /\ pc = "search" => ScanOK /\ Len(data) < MaxResults /\ page = NoPage /\ outcome = "none"
    /\ pc = "lookup" => NoSearch /\ page = NoPage /\ LookingUp
    /\ pc = "done" =>
           \/ NoSearch /\ page = NoPage /\ outcome = "none"
           \/ ScanOK /\ ScanOver /\ page = NoPage /\ outcome = "none"
           \/ NoSearch /\ LookingUp /\ Answered

LEMMA NothingShown ==
    ASSUME NEW defs, NEW decls
    PROVE  AnswerOf(NoPage, defs, decls) /\ NoPage \in Result
<1>1. {} \in SUBSET [place : Places, path : DOMAIN PathLength, defined : BOOLEAN]
  OBVIOUS
<1>2. NoPage \in Result
  BY <1>1 DEF NoPage, Result
<1> QED
  BY <1>2 DEF NoPage, AnswerOf

LEMMA SymbolsTyped ==
    ASSUME IndexAssumption, IndexInv, pc # "index"
    PROVE  /\ index.symbols \in Seq(Names) /\ Len(index.symbols) \in Nat
           /\ Len(index.details) = Len(index.symbols)
           /\ \A i \in 1..Len(index.symbols) :
                  index.symbols[i] \in Names /\ NameLength[index.symbols[i]] \in Nat
           /\ \A i, j \in 1..Len(index.symbols) :
                  i < j => NameLength[index.symbols[i]] <= NameLength[index.symbols[j]]
<1>1. IndexOf(index, defines, declares)
  BY DEF IndexInv
<1>2. index.symbols \in Seq(Names) /\ Len(index.details) = Len(index.symbols)
  BY <1>1, Zenon DEF IndexOf
<1>3. \A i, j \in 1..Len(index.symbols) :
          i < j => NameLength[index.symbols[i]] <= NameLength[index.symbols[j]]
  BY <1>1, Zenon DEF IndexOf
<1>4. \A i \in 1..Len(index.symbols) : index.symbols[i] \in Names
  BY <1>2
<1>5. \A n \in Names : NameLength[n] \in Nat
  BY DEF IndexAssumption
<1>6. Len(index.symbols) \in Nat
  BY <1>2
<1> QED
  BY <1>2, <1>3, <1>4, <1>5, <1>6, Zenon

\* The longest name is the last.
LEMMA MaxLengthFacts ==
    ASSUME IndexAssumption, IndexInv, pc # "index", index.symbols # <<>>
    PROVE  \E i \in 1..Len(index.symbols) : NameLength[index.symbols[i]] = MaxLength
<1> DEFINE s == index.symbols
           n == Len(s)
           S == {NameLength[s[i]] : i \in 1..n}
<1>1. s \in Seq(Names) /\ n \in Nat /\ n # 0
  <2>1. s \in Seq(Names)
    BY SymbolsTyped, Zenon
  <2>2. \A t \in Seq(Names) : Len(t) \in Nat /\ (Len(t) = 0 => t = <<>>)
    OBVIOUS
  <2> QED
    BY <2>1, <2>2
<1>2. \A i \in 1..n : NameLength[s[i]] \in Nat
  BY SymbolsTyped
<1>3. \A i \in 1..n : NameLength[s[i]] <= NameLength[s[n]]
  <2> TAKE i \in 1..n
  <2>1. i \in 1..n /\ n \in 1..n /\ (i < n \/ i = n)
    BY <1>1
  <2>2. CASE i < n
    <3>1. \A k, l \in 1..n : k < l => NameLength[s[k]] <= NameLength[s[l]]
      BY SymbolsTyped, Zenon
    <3> HIDE DEF n, s
    <3> QED
      BY <2>1, <2>2, <3>1
  <2>3. CASE i = n
    <3> HIDE DEF n, s
    <3> QED
      BY <1>2, <2>1, <2>3
  <2> QED
    BY <2>1, <2>2, <2>3
<1>4. NameLength[s[n]] \in S /\ \A x \in S : NameLength[s[n]] >= x
  BY <1>1, <1>2, <1>3
<1>5. MaxLength = CHOOSE x \in S : \A y \in S : x >= y
  BY DEF MaxLength, Max
<1>6. MaxLength \in S
  BY <1>4, <1>5
<1> QED
  BY <1>6

LEMMA MinOffsetFacts ==
    ASSUME IndexAssumption, IndexInv, pc # "index", index.symbols # <<>>,
           NEW length \in Nat, length <= MaxLength
    PROVE  /\ MinOffset(length) \in 1..Len(index.symbols)
           /\ \A j \in 1..(MinOffset(length) - 1) : NameLength[index.symbols[j]] < length
<1> DEFINE s == index.symbols
           n == Len(s)
           I == {i \in 1..n : NameLength[s[i]] >= length}
<1>1. s \in Seq(Names) /\ n \in Nat
  BY SymbolsTyped
<1>2. \A i \in 1..n : NameLength[s[i]] \in Nat
  BY SymbolsTyped
<1>3. I \subseteq Nat /\ I # {}
  BY MaxLengthFacts
<1>4. MinOffset(length) = CHOOSE x \in I : \A y \in I : x =< y
  <2>1. MinOffset(length) = IF I # {} THEN Min(I) ELSE 0
    BY Zenon DEF MinOffset, SelectInSeq
  <2> QED
    BY <1>3, <2>1, Zenon DEF Min
<1>5. \E x \in I : \A y \in I : x =< y
  BY <1>3, LeastNatural
<1>6. MinOffset(length) \in I /\ \A y \in I : MinOffset(length) =< y
  BY <1>4, <1>5
<1>7. ASSUME NEW j \in 1..(MinOffset(length) - 1) PROVE NameLength[s[j]] < length
  <2>1. j \in 1..n /\ j < MinOffset(length)
    BY <1>6
  <2>2. j \notin I
    BY <1>6, <2>1
  <2> QED
    BY <1>2, <2>1, <2>2
<1> QED
  BY <1>6, <1>7

LEMMA WholeKept ==
    ASSUME UNCHANGED index
    PROVE  Whole' <=> Whole
BY DEF Whole, Readable, InRange

\* What the scan counts at the name it is at.
LEMMA ScanCounts ==
    ASSUME IndexAssumption, IndexInv, pc # "index", ScanOK, offset <= Len(index.symbols)
    PROVE  LET s == index.symbols  M == query.matches
           IN /\ matched \in Nat /\ skip \in Nat /\ offset \in 1..Len(s)
              /\ offset + 1 \in 1..Len(s) + 1 /\ (offset + 1) - 1 = offset
              /\ Here = s[offset] /\ Here \in Names
              /\ Here \notin M => matched = Cardinality(Held(s, M, offset))
              /\ Here \in M => /\ matched + 1 = Cardinality(Held(s, M, offset))
                               /\ Selected(s, M)[matched + 1] = Here
<1> DEFINE s == index.symbols
           M == query.matches
           o == offset - 1
<1>1. s \in Seq(Names) /\ Len(s) \in Nat /\ \A i \in 1..Len(s) : s[i] \in Names
  BY SymbolsTyped
<1>2. /\ offset \in 1..Len(s) /\ offset + 1 \in 1..Len(s) + 1 /\ (offset + 1) - 1 = offset
      /\ o \in Nat /\ o + 1 = offset /\ skip \in Nat
  BY <1>1 DEF ScanOK, IndexAssumption
<1>3. matched = Cardinality(Held(s, M, o))
  BY DEF ScanOK
<1> HIDE DEF s, M, o
<1>4. /\ Cardinality(Held(s, M, o)) \in 0..o
      /\ s[o + 1] \in M => Cardinality(Held(s, M, o + 1)) = Cardinality(Held(s, M, o)) + 1
      /\ s[o + 1] \notin M => Cardinality(Held(s, M, o + 1)) = Cardinality(Held(s, M, o))
  BY <1>2, HeldFacts
<1>5. /\ matched \in Nat
      /\ s[offset] \in M => matched + 1 = Cardinality(Held(s, M, offset))
      /\ s[offset] \notin M => matched = Cardinality(Held(s, M, offset))
  BY <1>2, <1>3, <1>4
<1>6. \A i \in 1..Len(s) : s[i] \in M => Selected(s, M)[Cardinality(Held(s, M, i))] = s[i]
  BY <1>1, SelectedFacts
<1>7. Here = s[offset]
  BY DEF Here, s
<1>8. /\ matched \in Nat /\ skip \in Nat /\ offset \in 1..Len(s)
      /\ offset + 1 \in 1..Len(s) + 1 /\ (offset + 1) - 1 = offset
      /\ Here = s[offset] /\ Here \in Names
      /\ Here \notin M => matched = Cardinality(Held(s, M, offset))
      /\ Here \in M => /\ matched + 1 = Cardinality(Held(s, M, offset))
                       /\ Selected(s, M)[matched + 1] = Here
  BY <1>1, <1>2, <1>5, <1>6, <1>7
<1> QED
  BY <1>8 DEF s, M

LEMMA SearchStarts ==
    ASSUME IndexAssumption, IndexInv, RequestInv, HandleSearch
    PROVE  RequestInv'
<1>1. PICK q \in Queries, t \in Skips :
          /\ q.prefix <= MaxLength
          /\ query' = q /\ skip' = t /\ offset' = MinOffset(q.prefix)
  BY Zenon DEF HandleSearch
<1>2. /\ pc = "ready" /\ pc' = "search"
      /\ UNCHANGED <<defines, declares, index, matched, data, page, outcome>>
  BY DEF HandleSearch, indexer, lookup
<1>3. /\ index.symbols # <<>> /\ matched = 0 /\ data = <<>> /\ page = NoPage
      /\ outcome = "none" /\ AnswerOf(page, defines, declares)
  BY <1>2 DEF RequestInv, NoSearch
<1> DEFINE s == index.symbols
           M == q.matches
           o == offset'
<1>4. q.prefix \in Nat /\ \A n \in M : n \in Names /\ q.prefix <= NameLength[n]
  BY DEF IndexAssumption
<1>5. o \in 1..Len(s) /\ \A j \in 1..(o - 1) : NameLength[s[j]] < q.prefix
  BY <1>1, <1>2, <1>3, <1>4, MinOffsetFacts
<1>6. Held(s, M, o - 1) = {}
  <2>3. Len(s) \in Nat /\ \A i \in 1..Len(s) : NameLength[s[i]] \in Nat
    BY <1>2, SymbolsTyped, Zenon
  <2> HIDE DEF s, o, M
  <2>1. \A j \in 1..(o - 1) : j \in 1..Len(s) /\ NameLength[s[j]] \in Nat
    BY <1>5, <2>3
  <2>2. \A j \in 1..(o - 1) : s[j] \notin M
    BY <1>4, <1>5, <2>1
  <2> QED
    BY <2>2 DEF Held
<1>7. Cardinality(Held(s, M, o - 1)) = 0
  BY <1>6, FS_EmptySet
<1>8. o \in 1..Len(s) + 1
  BY <1>2, <1>5, SymbolsTyped
<1>9. ScanOK'
  <2>1. skip' \in Nat /\ MaxResults \in Nat
    BY <1>1 DEF IndexAssumption
  <2> QED
    BY <1>1, <1>2, <1>3, <1>7, <1>8, <2>1 DEF ScanOK
<1>10. Len(data') < MaxResults /\ data' \in Seq(Result) /\ Len(data') = 0
  BY <1>2, <1>3 DEF IndexAssumption
<1> QED
  BY <1>2, <1>3, <1>9, <1>10 DEF RequestInv

LEMMA PassKeeps ==
    ASSUME IndexAssumption, IndexInv, RequestInv, NoMatch \/ SkipResult
    PROVE  RequestInv'
<1>1. /\ pc = "search" /\ pc' = "search" /\ offset <= Len(index.symbols)
      /\ offset' = offset + 1
      /\ UNCHANGED <<defines, declares, index, query, skip, data, page, outcome>>
  BY DEF NoMatch, SkipResult, Scanning, indexer, lookup
<1>2. ScanOK /\ Len(data) < MaxResults /\ page = NoPage /\ outcome = "none"
  BY <1>1 DEF RequestInv
<1>3. /\ matched \in Nat /\ skip \in Nat
      /\ offset' \in 1..Len(index.symbols) + 1 /\ offset' - 1 = offset
      /\ Here \notin query.matches =>
             matched = Cardinality(Held(index.symbols, query.matches, offset))
      /\ Here \in query.matches =>
             matched + 1 = Cardinality(Held(index.symbols, query.matches, offset))
  BY <1>1, <1>2, ScanCounts
<1>4. /\ matched' = Cardinality(Held(index.symbols, query.matches, offset' - 1))
      /\ matched' = matched \/ (matched' = matched + 1 /\ matched' <= skip)
  BY <1>3 DEF NoMatch, SkipResult
<1>5. Whole' <=> Whole
  BY <1>1, WholeKept
<1>6. ScanOK'
  <2>1. /\ matched' >= matched /\ matched' \in Nat
        /\ (IF matched' > skip THEN matched' - skip ELSE 0)
             = IF matched > skip THEN matched - skip ELSE 0
    BY <1>3, <1>4
  <2>2. data = <<>> \/ Len(data) + skip <= matched'
    <3>1. data = <<>> \/ Len(data) + skip <= matched
      BY <1>2 DEF ScanOK
    <3>2. Len(data) \in Nat
      BY DEF RequestInv
    <3> QED
      BY <1>3, <2>1, <3>1, <3>2
  <2>3. Len(data) = (IF matched > skip THEN matched - skip ELSE 0)
            => Len(data) = (IF matched' > skip THEN matched' - skip ELSE 0)
    BY <2>1
  <2> QED
    BY <1>1, <1>2, <1>3, <1>4, <1>5, <2>2, <2>3 DEF ScanOK
<1> QED
  BY <1>1, <1>2, <1>6 DEF RequestInv

LEMMA ReturnKeeps ==
    ASSUME IndexAssumption, IndexInv, RequestInv, ReturnResult
    PROVE  RequestInv'
<1>1. PICK r \in SymbolDetails(offset) : r.status # "error" /\ data' = Append(data, r)
  BY Zenon DEF ReturnResult
<1>2. /\ pc = "search" /\ offset <= Len(index.symbols) /\ offset' = offset + 1
      /\ Here \in query.matches /\ matched' = matched + 1 /\ matched + 1 > skip
      /\ pc' = IF matched' >= MaxResults + skip THEN "done" ELSE "search"
      /\ UNCHANGED <<defines, declares, index, query, skip, page, outcome>>
  BY DEF ReturnResult, Scanning, indexer, lookup
<1>3. ScanOK /\ Len(data) < MaxResults /\ page = NoPage /\ outcome = "none"
  BY <1>2 DEF RequestInv
<1> DEFINE s == index.symbols
           M == query.matches
<1>4. /\ matched \in Nat /\ skip \in Nat /\ offset \in 1..Len(s)
      /\ offset' \in 1..Len(s) + 1 /\ offset' - 1 = offset /\ Here = s[offset]
      /\ matched' = Cardinality(Held(s, M, offset)) /\ Selected(s, M)[matched'] = Here
  BY <1>2, <1>3, ScanCounts
<1>5. AnswerOf(r, defines, declares) /\ r.name = s[offset]
  BY <1>2, <1>4, AnswerFacts
<1>6. /\ data' \in Seq(Result) /\ Len(data') = Len(data) + 1 /\ Len(data) \in Nat
      /\ data'[Len(data')] = r
      /\ \A i \in 1..Len(data) : data'[i] = data[i]
      /\ \A i \in 1..Len(data') : i \in 1..Len(data) \/ i = Len(data')
  <2>1. r \in Result /\ data \in Seq(Result)
    BY <1>5 DEF AnswerOf, RequestInv
  <2> QED
    BY <1>1, <2>1
<1>7. \A i \in 1..Len(data') : AnswerOf(data'[i], defines, declares)
  BY <1>5, <1>6 DEF RequestInv
<1>8. MaxResults \in Nat
  BY DEF IndexAssumption
<1>9. Whole' <=> Whole
  BY <1>2, WholeKept
<1> HIDE DEF s, M
<1>10. Len(data') + skip <= matched' /\ Len(data') <= MaxResults
  <2>1. Len(data) = 0 \/ Len(data) + skip <= matched
    BY <1>3 DEF ScanOK
  <2> QED
    BY <1>2, <1>3, <1>4, <1>6, <1>8, <2>1
<1>11. ASSUME Whole
       PROVE  /\ Len(data') = IF matched' > skip THEN matched' - skip ELSE 0
              /\ \A k \in 1..Len(data') : data'[k].name = Selected(s, M)[skip + k]
  <2>1. /\ Len(data) = IF matched > skip THEN matched - skip ELSE 0
        /\ \A k \in 1..Len(data) : data[k].name = Selected(s, M)[skip + k]
    BY <1>3, <1>11 DEF ScanOK, s, M
  <2>2. Len(data') = matched' - skip /\ skip + Len(data') = matched'
    BY <1>2, <1>4, <1>6, <2>1
  <2>3. data'[Len(data')].name = Selected(s, M)[skip + Len(data')]
    BY <1>4, <1>5, <1>6, <2>2
  <2> QED
    BY <1>2, <1>6, <2>1, <2>2, <2>3
<1>12. ScanOK'
  <2>1. query' \in Queries /\ skip' \in Skips
    BY <1>2, <1>3 DEF ScanOK
  <2> QED
    BY <1>2, <1>4, <1>9, <1>10, <1>11, <2>1 DEF ScanOK, s, M
<1>13. CASE matched' >= MaxResults + skip
  <2>1. pc' = "done" /\ ScanOver'
    BY <1>2, <1>13 DEF ScanOver
  <2> QED
    BY <1>2, <1>3, <1>6, <1>7, <1>12, <2>1 DEF RequestInv
<1>14. CASE ~(matched' >= MaxResults + skip)
  <2>1. pc' = "search" /\ Len(data') < MaxResults
    BY <1>2, <1>4, <1>6, <1>8, <1>10, <1>14
  <2> QED
    BY <1>2, <1>3, <1>6, <1>7, <1>12, <2>1 DEF RequestInv
<1> QED
  BY <1>13, <1>14

LEMMA DropKeeps ==
    ASSUME IndexAssumption, IndexInv, RequestInv, DropResult
    PROVE  RequestInv'
<1>1. PICK r \in SymbolDetails(offset) : r.status = "error"
  BY Zenon DEF DropResult
<1>2. /\ pc = "search" /\ pc' = "search" /\ offset <= Len(index.symbols)
      /\ offset' = offset + 1 /\ Here \in query.matches /\ matched' = matched + 1
      /\ UNCHANGED <<defines, declares, index, query, skip, data, page, outcome>>
  BY DEF DropResult, Scanning, indexer, lookup
<1>3. ScanOK /\ Len(data) < MaxResults /\ page = NoPage /\ outcome = "none"
  BY <1>2 DEF RequestInv
<1>4. /\ matched \in Nat /\ skip \in Nat /\ offset \in 1..Len(index.symbols)
      /\ offset' \in 1..Len(index.symbols) + 1 /\ offset' - 1 = offset
      /\ matched' = Cardinality(Held(index.symbols, query.matches, offset))
  BY <1>2, <1>3, ScanCounts
<1>5. ~Whole
  <2>1. ~(Readable(offset) /\ InRange(offset))
    BY <1>1, <1>2, <1>4, AnswerFacts
  <2>2. Len(index.details) = Len(index.symbols)
    BY <1>2, SymbolsTyped
  <2> QED
    BY <1>4, <2>1, <2>2 DEF Whole
<1>6. ~Whole'
  BY <1>2, <1>5, WholeKept
<1>7. data = <<>> \/ Len(data) + skip <= matched'
  <2>1. data = <<>> \/ Len(data) + skip <= matched
    BY <1>3 DEF ScanOK
  <2>2. Len(data) \in Nat
    BY DEF RequestInv
  <2> QED
    BY <1>2, <1>4, <2>1, <2>2
<1>8. ScanOK'
  <2>1. query' \in Queries /\ skip' \in Skips /\ Len(data) <= MaxResults
    BY <1>2, <1>3 DEF ScanOK
  <2> QED
    BY <1>2, <1>4, <1>6, <1>7, <2>1 DEF ScanOK
<1> QED
  BY <1>2, <1>3, <1>8 DEF RequestInv

LEMMA SearchEndsKeeps ==
    ASSUME RequestInv, SearchEnds
    PROVE  RequestInv'
<1>1. /\ pc = "search" /\ pc' = "done" /\ ScanOver
      /\ UNCHANGED <<defines, declares, index, query, skip, offset, matched, data, page, outcome>>
  BY DEF SearchEnds, ScanOver, indexer, search, lookup
<1>2. ScanOK /\ page = NoPage /\ outcome = "none"
  BY <1>1 DEF RequestInv
<1>3. ScanOK'
  <2>1. Whole' <=> Whole
    BY <1>1, WholeKept
  <2> QED
    BY <1>1, <1>2, <2>1 DEF ScanOK
<1> QED
  BY <1>1, <1>2, <1>3 DEF RequestInv, ScanOver

LEMMA PageStarts ==
    ASSUME RequestInv, HandlePage
    PROVE  RequestInv'
<1>1. PICK h \in Hashes :
          Lookup!Start([i \in 1..Len(index.hashes) |-> index.hashes[i].hash], h)
  BY Zenon DEF HandlePage
<1>2. /\ pc = "ready" /\ pc' = "lookup" /\ NoSearch /\ page = NoPage
      /\ UNCHANGED <<defines, declares, index, query, skip, offset, matched, data, page>>
  BY DEF HandlePage, indexer, search, RequestInv
<1>3. NoSearch'
  BY <1>2 DEF NoSearch
<1>4. LookingUp'
  BY <1>1, <1>2 DEF LookingUp, Lookup!Start
<1> QED
  BY <1>2, <1>3, <1>4 DEF RequestInv

LEMMA LookUpKeeps ==
    ASSUME RequestInv, LookUp
    PROVE  RequestInv'
<1>1. /\ pc = "lookup" /\ pc' = "lookup" /\ NoSearch /\ page = NoPage /\ LookingUp
      /\ UNCHANGED <<defines, declares, index, query, skip, offset, matched, data, page>>
  BY DEF LookUp, indexer, search, RequestInv
<1>2. table' = table /\ outcome' \in {"searching", "found", "missing"}
  BY <1>1 DEF LookUp, LookingUp, Lookup!Loop, Lookup!Hit, Lookup!GoRight, Lookup!GoLeft,
              Lookup!Miss, Lookup!Searching
<1>3. NoSearch' /\ LookingUp'
  BY <1>1, <1>2 DEF NoSearch, LookingUp
<1> QED
  BY <1>1, <1>3 DEF RequestInv

\* The detail of the entry that was found is of a symbol that has the hash.
LEMMA PageFoundKeeps ==
    ASSUME IndexAssumption, IndexInv, RequestInv, PageFound,
           Lookup!LookupInv, Lookup!LookupRight
    PROVE  RequestInv'
<1> DEFINE e == index.hashes[Lookup!ToCheck + 1]
           n == Len(index.symbols)
<1>1. /\ pc = "lookup" /\ pc' = "done" /\ NoSearch /\ LookingUp /\ outcome = "found"
      /\ page' \in SymbolDetails(e.detail)
      /\ UNCHANGED <<defines, declares, index, query, skip, offset, matched, data>>
      /\ UNCHANGED <<table, wanted, outcome>>
  BY DEF PageFound, indexer, search, lookup, RequestInv
<1>2. /\ index.hashes \in Seq([hash : Nat, detail : 1..n]) /\ Len(index.hashes) = n
      /\ \A i \in 1..n : index.hashes[i].hash = HashOf[index.symbols[index.hashes[i].detail]]
  BY <1>1, Zenon DEF IndexInv, IndexOf
<1>3. Lookup!ToCheck + 1 \in 1..n
  <2>1. Lookup!ToCheck < Len(table)
    BY <1>1 DEF Lookup!LookupRight
  <2>2. minindex \in Nat /\ maxindex \in Nat /\ minindex < maxindex
    BY <1>1 DEF Lookup!LookupInv
  <2>3. Lookup!ToCheck \in Nat
    <3>1. (maxindex - minindex) \div 2 \in Nat
      BY <2>2
    <3> QED
      BY <2>2, <3>1 DEF Lookup!ToCheck
  <2>4. Len(table) = n
    BY <1>1, <1>2 DEF LookingUp
  <2> QED
    BY <2>1, <2>3, <2>4
<1>4. e.hash = wanted
  <2>1. table[Lookup!ToCheck + 1] = wanted
    BY <1>1 DEF Lookup!LookupRight, Lookup!At
  <2>2. table[Lookup!ToCheck + 1] = e.hash
    BY <1>1, <1>2, <1>3 DEF LookingUp
  <2> QED
    BY <2>1, <2>2
<1>5. e.detail \in 1..n
  <2> DEFINE R == [hash : Nat, detail : 1..n]
             h == index.hashes
             i == Lookup!ToCheck + 1
  <2>1. h \in Seq(R) /\ i \in 1..Len(h) /\ \A x \in R : x.detail \in 1..n
    BY <1>2, <1>3
  <2>2. h[i] \in R
    <3> HIDE DEF R, h, i
    <3> QED
      BY <2>1
  <2> QED
    BY <2>1, <2>2
<1>6. /\ AnswerOf(page', defines, declares) /\ page'.name = index.symbols[e.detail]
      /\ page'.status \in {"shown", "error", "garbled"}
  BY <1>1, <1>5, AnswerFacts
<1>7. page'.hash = wanted /\ page'.status # "none"
  <2>1. page'.hash = HashOf[index.symbols[e.detail]]
    BY <1>6 DEF AnswerOf
  <2>2. e.hash = HashOf[index.symbols[e.detail]]
    BY <1>2, <1>3
  <2> QED
    BY <1>4, <1>6, <2>1, <2>2
<1>8. NoSearch' /\ LookingUp' /\ Answered'
  BY <1>1, <1>7 DEF NoSearch, LookingUp, Answered
<1> QED
  BY <1>1, <1>6, <1>8 DEF RequestInv

\* The rest of the steps: nothing is shown, or what was shown is forgotten.
LEMMA OthersKeep ==
    ASSUME RequestInv,
           \/ RecordUse \/ RecordDefines \/ RecordDeclares \/ OutputBinaryIndex
           \/ LoadSymbols \/ LoadFails \/ SearchPanics \/ PageMissing \/ Respond
           \/ UNCHANGED vars
    PROVE  RequestInv'
<1>1. CASE RecordUse \/ RecordDefines \/ RecordDeclares \/ OutputBinaryIndex
  <2>1. /\ pc = "index" /\ pc' \in {"index", "written"}
        /\ UNCHANGED <<query, skip, offset, matched, data, page, outcome>>
    BY <1>1 DEF RecordUse, RecordDefines, RecordDeclares, OutputBinaryIndex, Indexing,
                search, lookup
  <2>2. NoSearch' /\ data' = <<>> /\ page' = NoPage /\ outcome' = "none"
    BY <2>1 DEF RequestInv, NoSearch
  <2> QED
    BY <2>1, <2>2, NothingShown DEF RequestInv
<1>2. CASE LoadSymbols \/ LoadFails \/ SearchPanics
  <2>1. /\ pc \in {"written", "ready"} /\ pc' \in {"ready", "failed", "done"}
        /\ pc' # "failed" => index.symbols # <<>>
        /\ UNCHANGED <<defines, declares, index, query, skip, offset, matched, data, page, outcome>>
    BY <1>2 DEF LoadSymbols, LoadFails, SearchPanics, Mappable, indexer, search, lookup, RequestInv
  <2> QED
    BY <2>1 DEF RequestInv, NoSearch
<1>3. CASE PageMissing
  <2>1. /\ pc = "lookup" /\ pc' = "done" /\ outcome = "missing"
        /\ UNCHANGED <<defines, declares, index, query, skip, offset, matched, data, page, outcome>>
        /\ UNCHANGED <<table, wanted>>
    BY <1>3 DEF PageMissing, indexer, search, lookup
  <2>2. NoSearch' /\ LookingUp' /\ Answered'
    BY <2>1 DEF RequestInv, NoSearch, LookingUp, Answered
  <2> QED
    BY <2>1, <2>2 DEF RequestInv
<1>4. CASE Respond
  <2>1. pc = "done" /\ pc' = "ready" /\ UNCHANGED <<defines, declares, users, index>>
    BY <1>4 DEF Respond, indexer
  <2>2. NoSearch' /\ data' = <<>> /\ page' = NoPage
    BY <1>4 DEF Respond, NoSearch
  <2>3. outcome' = "none"
    BY <1>4 DEF Respond, lookup, Lookup!Return
  <2> QED
    BY <2>1, <2>2, <2>3, NothingShown DEF RequestInv
<1>5. CASE UNCHANGED vars
  <2>1. /\ UNCHANGED <<defines, declares, index, pc, query, skip, offset, matched, data, page>>
        /\ UNCHANGED <<table, wanted, outcome>> /\ (Whole' <=> Whole)
    BY <1>5, WholeKept DEF vars, indexer, search, lookup
  <2> QED
    BY <2>1 DEF RequestInv, ScanOK, ScanOver, NoSearch, LookingUp, Answered
<1> QED
  BY <1>1, <1>2, <1>3, <1>4, <1>5

\* Scans and lookups are where their count of names and results say, and all
\* that is shown was recorded.
THEOREM RequestInvariant == Spec => []RequestInv
<1>1. Init => RequestInv
  <2> SUFFICES ASSUME Init PROVE RequestInv
    OBVIOUS
  <2>1. /\ pc = "index" /\ data = <<>> /\ page = NoPage /\ NoSearch /\ outcome = "none"
    BY DEF Init, NoSearch, Lookup!Init
  <2> QED
    BY <2>1, NothingShown DEF RequestInv
<1>2. IndexInv /\ Lookup!LookupInv /\ Lookup!LookupRight /\ RequestInv /\ [Next]_vars
          => RequestInv'
  BY IndexAssumption, SearchStarts, PassKeeps, ReturnKeeps, DropKeeps, SearchEndsKeeps,
     PageStarts, LookUpKeeps, PageFoundKeeps, OthersKeep DEF Next, Serve
<1> QED
  BY <1>1, <1>2, IndexInvariant, LookupIsRight, PTL DEF Spec

-----------------------------------------------------------------------------
(* What the runs check.                                                    *)

LEMMA DetailsTyped ==
    ASSUME IndexAssumption, IndexInv
    PROVE  /\ Len(index.symbols) \in Nat /\ Len(index.details) = Len(index.symbols)
           /\ Len(index.hashes) = Len(index.symbols)
           /\ \A d \in ToSet(index.details) : DetailOK(d) /\ Len(d.kinds) < Word
<1>1. CASE pc = "index"
  <2>1. index.symbols = <<>> /\ index.details = <<>> /\ index.hashes = <<>>
    BY <1>1 DEF IndexInv
  <2> QED
    BY <2>1 DEF ToSet
<1>2. CASE pc # "index"
  <2> DEFINE n == Len(index.symbols)
             files == index.files
  <2>1. IndexOf(index, defines, declares)
    BY <1>2 DEF IndexInv
  <2>2. /\ DOMAIN index.details = 1..n /\ Len(index.details) = n /\ Len(index.hashes) = n
        /\ \A d \in 1..n : DetailOf(index.details[d], index.symbols[d], files, defines, declares)
    BY <2>1, Zenon DEF IndexOf
  <2>3. n \in Nat
    BY <1>2, SymbolsTyped
  <2>4. ASSUME NEW i \in 1..n
        PROVE  DetailOK(index.details[i]) /\ Len(index.details[i].kinds) < Word
    <3> DEFINE d == index.details[i]
               name == index.symbols[i]
    <3>1. DetailOf(d, name, files, defines, declares)
      BY <2>2
    <3> HIDE DEF d, name
    <3>2. /\ Len(d.kinds) < Word
          /\ \A k \in ToSet(d.kinds) :
                 LocatedOf(k.defs, defines, name, files) /\ LocatedOf(k.decls, declares, name, files)
      BY <3>1 DEF DetailOf, ToSet
    <3>3. ASSUME NEW k \in ToSet(d.kinds)
          PROVE  /\ Cardinality(k.defs) < Word /\ Cardinality(k.decls) < Word
                 /\ \A p \in k.defs \cup k.decls : p.path \in 1..Len(files) + 1
      BY <3>2 DEF LocatedOf
    <3>4. DetailOK(d) /\ Len(d.kinds) < Word
      BY <3>2, <3>3, Zenon DEF DetailOK
    <3> QED
      BY <3>4 DEF d
  <2> QED
    BY <2>2, <2>3, <2>4 DEF ToSet
<1> QED
  BY <1>1, <1>2

\* The index, the request and its answers have their types: sizes fit in 16
\* bits, offsets are in the files, a page of results is no longer than it may.
THEOREM IndexTypeCorrect == Spec => []TypeOK
<1>1. IndexInv /\ RequestInv => TypeOK
  <2> SUFFICES ASSUME IndexInv, RequestInv PROVE TypeOK
    OBVIOUS
  <2>1. defines \subseteq Providers /\ declares \subseteq Providers /\ users \in [Uses -> Nat]
    BY DEF IndexInv, RecordedOK
  <2>2. /\ Len(index.symbols) \in Nat /\ Len(index.details) = Len(index.symbols)
        /\ Len(index.hashes) = Len(index.symbols)
        /\ \A d \in ToSet(index.details) : DetailOK(d) /\ Len(d.kinds) < Word
    BY IndexAssumption, DetailsTyped
  <2>3. pc \in {"index", "written", "failed", "ready", "search", "lookup", "done"}
    BY DEF RequestInv
  <2>4. NoSearch \/ ScanOK
    BY DEF RequestInv
  <2>5. /\ query \in Queries \cup {NoQuery} /\ skip \in Skips \cup {0}
        /\ offset \in 0..Len(index.symbols) + 1 /\ matched \in Nat
        /\ Len(data) <= MaxResults
    <3>1. CASE NoSearch
      BY <2>2, <3>1, IndexAssumption DEF NoSearch, IndexAssumption
    <3>2. CASE ScanOK
      <4>1. offset - 1 \in Nat /\ offset \in 0..Len(index.symbols) + 1
        BY <2>2, <3>2 DEF ScanOK
      <4>2. matched = Cardinality(Held(index.symbols, query.matches, offset - 1))
        BY <3>2 DEF ScanOK
      <4>3. matched \in Nat
        BY <4>1, <4>2, HeldFacts
      <4> QED
        BY <3>2, <4>1, <4>3 DEF ScanOK
    <3> QED
      BY <2>4, <3>1, <3>2
  <2>6. page \in Result /\ \A r \in ToSet(data) : r \in Result
    BY DEF RequestInv, AnswerOf, ToSet
  <2> QED
    BY <2>1, <2>2, <2>3, <2>5, <2>6, Zenon DEF TypeOK
<1> QED
  BY <1>1, IndexInvariant, RequestInvariant, PTL

\* What is listed of a symbol is what was recorded under its name.
THEOREM ListedIsRight == Spec => []ListedRight
<1>1. RequestInv => ListedRight
  <2> SUFFICES ASSUME RequestInv, NEW r \in Answers, r.status = "shown"
               PROVE  Faithful(r.listed, Recordings(r.name))
    BY DEF ListedRight
  <2>1. AnswerOf(r, defines, declares)
    BY DEF RequestInv, Answers, ToSet
  <2>2. RecordedAs(r.name, defines, declares) = Recordings(r.name)
    BY Zenon DEF RecordedAs, Recordings
  <2> QED
    BY <2>1, <2>2, Zenon DEF AnswerOf
<1> QED
  BY <1>1, RequestInvariant, PTL

\* A page shows a symbol with the hash asked for; none only if none has it.
THEOREM PageIsRight == Spec => []PageRight
<1>1. IndexInv /\ RequestInv /\ Lookup!LookupRight => PageRight
  <2> SUFFICES ASSUME IndexInv, RequestInv, Lookup!LookupRight, pc = "done", outcome # "none"
               PROVE  /\ page.status # "none" => page.hash = wanted /\ HashOf[page.name] = wanted
                      /\ outcome = "missing" =>
                             \A n \in ToSet(index.symbols) : HashOf[n] # wanted
    BY DEF PageRight
  <2>1. LookingUp /\ Answered /\ AnswerOf(page, defines, declares)
    BY DEF RequestInv
  <2>2. page.status # "none" => page.hash = wanted /\ HashOf[page.name] = wanted
    BY <2>1 DEF Answered, AnswerOf, NoPage
  <2>3. ASSUME outcome = "missing", NEW d \in 1..Len(index.symbols)
        PROVE  HashOf[index.symbols[d]] # wanted
    <3>1. /\ Len(index.hashes) = Len(index.symbols)
          /\ \A i \in 1..Len(index.symbols) :
                 index.hashes[i].hash = HashOf[index.symbols[index.hashes[i].detail]]
          /\ \E i \in 1..Len(index.symbols) : index.hashes[i].detail = d
      BY Zenon DEF IndexInv, IndexOf
    <3>2. PICK i \in 1..Len(index.symbols) : index.hashes[i].detail = d
      BY <3>1
    <3>3. table[i] = index.hashes[i].hash /\ i \in 1..Len(table)
      <4>1. Len(index.symbols) \in Nat
        BY IndexAssumption, DetailsTyped
      <4> QED
        BY <2>1, <3>1, <4>1 DEF LookingUp
    <3> QED
      BY <2>3, <3>1, <3>2, <3>3 DEF Lookup!LookupRight
  <2>4. DOMAIN index.symbols = 1..Len(index.symbols)
    BY IndexAssumption, SymbolsTyped DEF RequestInv
  <2> QED
    BY <2>2, <2>3, <2>4 DEF ToSet
<1> QED
  BY <1>1, IndexInvariant, RequestInvariant, LookupIsRight, PTL

LEMMA LesserOfTwo ==
    ASSUME NEW a \in Nat, NEW b \in Nat
    PROVE  Min({a, b}) = IF a <= b THEN a ELSE b
<1>1. Min({a, b}) = CHOOSE x \in {a, b} : \A y \in {a, b} : x =< y
  BY DEF Min
<1> DEFINE lesser == IF a <= b THEN a ELSE b
<1>2. lesser \in {a, b} /\ \A y \in {a, b} : lesser =< y
  OBVIOUS
<1>3. \A x \in {a, b} : (\A y \in {a, b} : x =< y) => x = lesser
  OBVIOUS
<1> HIDE DEF lesser
<1>4. Min({a, b}) = lesser
  BY <1>1, <1>2, <1>3
<1> QED
  BY <1>4 DEF lesser

LEMMA PartOfSequence ==
    ASSUME NEW S, NEW seq \in Seq(S), NEW a \in Nat \ {0}, NEW b \in 0..Len(seq)
    PROVE  LET n == IF a <= b THEN b - a + 1 ELSE 0
           IN  /\ SubSeq(seq, a, b) \in [1..n -> S]
               /\ \A k \in 1..n : SubSeq(seq, a, b)[k] = seq[a + k - 1]
<1> DEFINE n == IF a <= b THEN b - a + 1 ELSE 0
           sub == SubSeq(seq, a, b)
<1>1. a \in Int /\ b \in Int /\ n \in Nat /\ \A i \in a..b : seq[i] \in S
  OBVIOUS
<1>2. 1..n = 1..b - a + 1
  BY <1>1
<1>3. sub \in Seq(S) /\ Len(sub) = n /\ \A k \in 1..b - a + 1 : sub[k] = seq[a + k - 1]
  BY <1>1, SubSeqProperties
<1> HIDE DEF n, sub
<1>4. sub \in [1..n -> S]
  BY <1>1, <1>3
<1>5. \A k \in 1..n : sub[k] = seq[a + k - 1]
  BY <1>2, <1>3
<1> QED
  BY <1>4, <1>5 DEF n, sub

\* Where no detail fails to read, a page of results is exactly the next of all
\* the names that match.
THEOREM SearchIsExact == Spec => []SearchExact
<1>1. IndexInv /\ RequestInv => SearchExact
  <2> DEFINE s == index.symbols
             all == Selected(s, query.matches)
             m == Min({Len(all), skip + MaxResults})
             n == Cardinality(Held(s, query.matches, Len(s)))
  <2> SUFFICES ASSUME IndexInv, RequestInv, pc = "done", query # NoQuery,
                      \A d \in 1..Len(index.details) : Readable(d) /\ InRange(d)
               PROVE  [i \in 1..Len(data) |-> data[i].name] = SubSeq(all, skip + 1, m)
    BY DEF SearchExact
  <2>1. ScanOK /\ ScanOver /\ Whole
    BY DEF RequestInv, NoSearch, Whole
  <2>2. s \in Seq(Names) /\ Len(s) \in Nat
    BY IndexAssumption, SymbolsTyped
  <2>3. all \in Seq(Names) /\ Len(all) = n /\ n \in Nat
    <3>1. n \in 0..Len(s) /\ all \in Seq(Names) /\ Len(all) = n
      BY <2>2, SelectedFacts
    <3> QED
      BY <2>2, <3>1
  <2>4. skip \in Nat /\ MaxResults \in Nat
    BY <2>1, IndexAssumption DEF ScanOK, IndexAssumption
  <2>5. /\ offset \in 1..Len(s) + 1 /\ matched = Cardinality(Held(s, query.matches, offset - 1))
        /\ Len(data) = IF matched > skip THEN matched - skip ELSE 0
        /\ \A k \in 1..Len(data) : data[k].name = all[skip + k]
        /\ Len(data) <= MaxResults
        /\ offset > Len(s) \/ matched >= MaxResults + skip
    BY <2>1 DEF ScanOK, ScanOver
  <2>6. matched \in Nat /\ matched <= n /\ (offset > Len(s) => matched = n)
    <3> DEFINE at == offset - 1
               len == Len(s)
               c(i) == Cardinality(Held(s, query.matches, i))
    <3> HIDE DEF s
    <3>1. at \in Nat /\ len \in Nat /\ at <= len /\ (offset > len => at = len)
      BY <2>2, <2>5
    <3>2. c(at) = matched /\ c(len) = n
      BY <2>5
    <3>3. c(at) \in 0..at
      <4> HIDE DEF at
      <4> QED
        BY <3>1, HeldFacts
    <3>4. at < len => c(at) <= c(len)
      <4> HIDE DEF at, len
      <4> QED
        BY <3>1, HeldGrows
    <3> HIDE DEF at, len, c, n
    <3>5. matched \in Nat
      BY <3>1, <3>2, <3>3
    <3>6. at = len \/ at < len
      BY <3>1
    <3>7. matched <= n
      BY <2>3, <3>2, <3>4, <3>6
    <3>8. offset > len => matched = n
      BY <3>1, <3>2
    <3> QED
      BY <3>5, <3>7, <3>8 DEF len
  <2>7. m = IF n <= skip + MaxResults THEN n ELSE skip + MaxResults
    <3>1. skip + MaxResults \in Nat /\ Len(all) \in Nat
      BY <2>3, <2>4
    <3>2. m = IF Len(all) <= skip + MaxResults THEN Len(all) ELSE skip + MaxResults
      <4> HIDE DEF all
      <4> QED
        BY <3>1, LesserOfTwo
    <3> HIDE DEF n, m, all
    <3> QED
      BY <2>3, <3>2
  <2> HIDE DEF s, all, m, n
  <2>8. /\ Len(data) = IF skip + 1 <= m THEN m - (skip + 1) + 1 ELSE 0
        /\ m \in 0..n /\ Len(data) \in Nat
    BY <2>3, <2>4, <2>5, <2>6, <2>7
  <2> DEFINE sub == SubSeq(all, skip + 1, m)
  <2>9. /\ sub \in [1..Len(data) -> Names]
        /\ \A k \in 1..Len(data) : sub[k] = all[skip + 1 + k - 1]
    <3>1. skip + 1 \in 1..n + 1 \/ skip + 1 > m
      BY <2>3, <2>4, <2>8
    <3> QED
      BY <2>3, <2>4, <2>8, PartOfSequence
  <2>10. \A k \in 1..Len(data) : skip + 1 + k - 1 = skip + k
    BY <2>4, <2>8
  <2> HIDE DEF sub
  <2>11. sub = [i \in 1..Len(data) |-> data[i].name]
    BY <2>5, <2>9, <2>10
  <2> QED
    BY <2>11 DEF sub
<1> QED
  BY <1>1, IndexInvariant, RequestInvariant, PTL
=============================================================================
