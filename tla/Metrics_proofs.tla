--------------------------- MODULE Metrics_proofs ---------------------------
(***************************************************************************)
(* What a chart of the page of the metrics shows, and says, is of the      *)
(* points with the labels that look pressed, whatever the service answers. *)
(***************************************************************************)
EXTENDS Metrics, Lists_proofs

-----------------------------------------------------------------------------
(* The invariant.                                                          *)

\* What is said is of a point the chart has, and of a point that is alone
\* something always is.
SaidRight(c) ==
    /\ c.text = Nothing => c.circle = Nothing /\ Len(c.given) # 1
    /\ c.text # Nothing =>
        /\ \E i \in DOMAIN c.given : c.given[i] = c.text.point
        /\ c.circle \in {Nothing, c.text.point}
        /\ (\A i, j \in DOMAIN c.given : i < j => c.given[i].time <= c.given[j].time)
               => c.text.label = c.text.point.label

\* There is a line, or it moves, and where it is or goes is where it should be.
LineRight(c) ==
    /\ c.to = Nothing <=> c.line # Nothing
    /\ (IF c.to = Nothing THEN c.line ELSE c.to) = Line(c)

\* The chart is one of these points, of which there are some.
ChartRight(c, given) ==
    /\ c.given = given /\ given # <<>>
    /\ (IF c.raw = Nothing THEN c.domain ELSE c.raw) = Full(given)
    /\ c.down => c.origin # Nothing
    /\ LineRight(c) /\ SaidRight(c)

\* The page knows of the labels of the points it has, and has a chart for some.
MetricRight(k, m) ==
    /\ k.restricted[m] = k.active[m] /\ k.active[m] \subseteq LabelsOf(k.data[m])
    /\ m \in k.asked \/ ~k.listed => k.data[m] = <<>>
    /\ k.chart[m] = Nothing <=> k.data[m] = <<>>
    /\ k.chart[m] # Nothing => ChartRight(k.chart[m], Filtered(k.data[m], k.active[m]))

PageRight(k) ==
    /\ k \in Page
    /\ ~k.listed => k.asked = {}
    /\ k.brush \in Metric => k.chart[k.brush] # Nothing
    /\ \A m \in Metric : MetricRight(k, m)

MetricsInv == PageRight(page)

-----------------------------------------------------------------------------
(* Sorting by time.                                                        *)

Before(given) ==
    [j \in DOMAIN given |-> {i \in DOMAIN given : \/ given[i].time < given[j].time
                                                  \/ given[i].time = given[j].time /\ i < j}]

LEMMA PointFacts ==
    ASSUME MetricsAssumption
    PROVE  /\ \A p \in Points : p.time \in Int /\ p.value \in Int /\ p.label \subseteq Labels
           /\ Nothing \notin Points
<1>1. \A p \in Points : At(p, "x") \in Int /\ At(p, "y") \in Int
  BY DEF MetricsAssumption, Dims
<1>2. \A p \in Points : p.label \subseteq Labels
  BY DEF Labels
<1> QED
  BY <1>1, <1>2 DEF At, MetricsAssumption

\* The points by time are those there are, and just those if they came so.
LEMMA ByTimeFacts ==
    ASSUME MetricsAssumption, NEW given \in Seq(Points)
    PROVE  /\ ByTime(given) \in Seq(Points) /\ Len(ByTime(given)) = Len(given)
           /\ \A i \in 1..Len(given) : \E j \in 1..Len(given) : ByTime(given)[i] = given[j]
           /\ (\A i, j \in 1..Len(given) : i < j => given[i].time <= given[j].time)
                  => \A i \in 1..Len(given) : ByTime(given)[i] = given[i]
<1> DEFINE n == Len(given)
           S == 1..n
           before == Before(given)
           c(j) == Cardinality({i \in S : \/ given[i].time < given[j].time
                                          \/ given[i].time = given[j].time /\ i < j})
           s == [i \in 1..Cardinality(S) |-> CHOOSE x \in S : c(x) = i - 1]
<1>1. n \in Nat /\ DOMAIN given = S /\ IsFiniteSet(S) /\ Cardinality(S) = n
  <2>1. n \in Nat /\ DOMAIN given = S
    OBVIOUS
  <2> HIDE DEF n, before, s
  <2> QED
    BY <2>1, FS_Interval
<1>2. \A i \in S : given[i] \in Points /\ given[i].time \in Int /\ i \in Int
  BY PointFacts
<1>3. ByTime(given) = [i \in S |-> given[s[i]]]
  BY <1>1 DEF ByTime, SortedSeq
<1>4. \A j \in S : c(j) = Cardinality(before[j])
  BY <1>1 DEF Before
<1>5. Orders(before, S)
  <2>1. before \in [S -> SUBSET S]
    BY <1>1 DEF Before
  <2>2. \A i, j \in S : i \in before[j] <=> \/ given[i].time < given[j].time
                                            \/ given[i].time = given[j].time /\ i < j
    BY <1>1 DEF Before
  <2> HIDE DEF before, S
  <2>3. \A i \in S : i \notin before[i]
    BY <1>2, <2>2
  <2>4. \A i, j \in S : i # j => i \in before[j] \/ j \in before[i]
    BY <1>2, <2>2
  <2>5. ASSUME NEW i \in S, NEW j \in S, i \in before[j] PROVE before[i] \subseteq before[j]
    <3> SUFFICES ASSUME NEW h \in S, h \in before[i] PROVE h \in before[j]
      BY <2>1
    <3>1. given[h].time \in Int /\ given[i].time \in Int /\ given[j].time \in Int
          /\ h \in Int /\ i \in Int /\ j \in Int
      BY <1>2
    <3> QED
      BY <2>2, <2>5, <3>1
  <2> QED
    BY <2>1, <2>3, <2>4, <2>5 DEF Orders
<1>6. Sorts(s, before, S)
  <2> HIDE DEF before, c, S
  <2>1. s = [i \in 1..Cardinality(S) |-> s[i]]
    OBVIOUS
  <2>2. ASSUME NEW i \in 1..Cardinality(S), \E x \in S : Cardinality(before[x]) = i - 1
        PROVE  s[i] \in S /\ Cardinality(before[s[i]]) = i - 1
    <3>1. \E x \in S : c(x) = i - 1
      BY <1>4, <2>2
    <3>2. s[i] \in S /\ c(s[i]) = i - 1
      BY <3>1
    <3> QED
      BY <1>4, <3>2
  <2> QED
    BY <1>1, <1>5, <2>1, <2>2, RankedIsSorted
<1> HIDE DEF s
<1>7. s \in [S -> S]
  BY <1>1, <1>6 DEF Sorts
<1>8. \A i \in S : ByTime(given)[i] = given[s[i]]
  BY <1>3
<1>9. ByTime(given) \in Seq(Points) /\ Len(ByTime(given)) = n
  <2>1. ByTime(given) \in [1..n -> Points]
    BY <1>2, <1>3, <1>7
  <2> QED
    BY <1>1, <2>1
<1>10. ASSUME \A i, j \in S : i < j => given[i].time <= given[j].time,
              NEW i \in S
       PROVE  s[i] = i
  <2>1. \A x \in S : before[x] = 1..(x - 1)
    <3> SUFFICES ASSUME NEW x \in S, NEW y \in S
                 PROVE  (\/ given[y].time < given[x].time
                         \/ given[y].time = given[x].time /\ y < x) <=> y < x
      BY <1>1 DEF Before
    <3>1. x < y => given[x].time <= given[y].time
      BY <1>10
    <3>2. y < x => given[y].time <= given[x].time
      BY <1>10
    <3>3. given[x].time \in Int /\ given[y].time \in Int /\ x \in Int /\ y \in Int
      BY <1>2
    <3>4. x = y => given[y].time = given[x].time
      OBVIOUS
    <3> QED
      BY <3>1, <3>2, <3>3, <3>4
  <2>2. ASSUME NEW x \in S PROVE c(x) = x - 1
    <3>1. Cardinality(1..(x - 1)) = x - 1
      BY FS_Interval
    <3>2. c(x) = Cardinality(before[x]) /\ before[x] = 1..(x - 1)
      BY <1>4, <2>1
    <3> HIDE DEF c, before
    <3> QED
      BY <3>1, <3>2
  <2>3. \E x \in S : c(x) = i - 1
    BY <2>2
  <2>4. s[i] \in S /\ c(s[i]) = i - 1
    BY <1>1, <2>3 DEF s
  <2>5. c(s[i]) = s[i] - 1
    BY <2>2, <2>4
  <2> HIDE DEF c
  <2> QED
    BY <2>4, <2>5
<1> QED
  BY <1>1, <1>7, <1>8, <1>9, <1>10

-----------------------------------------------------------------------------
(* The scales.                                                             *)

\* Some integers, finitely many, have a least and a greatest.
LEMMA LeastAndGreatest ==
    ASSUME NEW S, S \subseteq Int, IsFiniteSet(S), S # {}
    PROVE  Min(S) \in S /\ Max(S) \in S
<1> DEFINE less == [x \in S |-> {y \in S : y < x}]
           more == [x \in S |-> {y \in S : y > x}]
<1>1. Cardinality(S) \in Nat /\ Cardinality(S) # 0
  BY FS_CardinalityType, FS_EmptySet
<1>2. Orders(less, S)
  <2>1. less \in [S -> SUBSET S] /\ \A x, y \in S : y \in less[x] <=> y < x
    OBVIOUS
  <2>2. \A x \in S : x \in Int
    OBVIOUS
  <2> HIDE DEF less
  <2>3. \A x, y \in S : x \in less[y] => less[x] \subseteq less[y]
    <3> SUFFICES ASSUME NEW x \in S, NEW y \in S, x < y, NEW z \in S, z < x
                 PROVE  z < y
      BY <2>1
    <3> QED
      BY <2>2
  <2>4. \A x, y \in S : x \notin less[x] /\ (x # y => x \in less[y] \/ y \in less[x])
    BY <2>1, <2>2
  <2> QED
    BY <2>1, <2>3, <2>4 DEF Orders
<1>3. Orders(more, S)
  <2>1. more \in [S -> SUBSET S] /\ \A x, y \in S : y \in more[x] <=> y > x
    OBVIOUS
  <2>2. \A x \in S : x \in Int
    OBVIOUS
  <2> HIDE DEF more
  <2>3. \A x, y \in S : x \in more[y] => more[x] \subseteq more[y]
    <3> SUFFICES ASSUME NEW x \in S, NEW y \in S, x > y, NEW z \in S, z > x
                 PROVE  z > y
      BY <2>1
    <3> QED
      BY <2>2
  <2>4. \A x, y \in S : x \notin more[x] /\ (x # y => x \in more[y] \/ y \in more[x])
    BY <2>1, <2>2
  <2> QED
    BY <2>1, <2>3, <2>4 DEF Orders
<1>4. \E x \in S : \A y \in S : x <= y
  <2>1. PICK x \in S : Cardinality(less[x]) = 1 - 1
    <3> HIDE DEF less
    <3>1. 1 \in 1..Cardinality(S)
      BY <1>1
    <3> QED
      BY <1>2, <3>1, RankTaken
  <2>2. less[x] = {}
    <3>1. IsFiniteSet(less[x])
      BY FS_Subset
    <3> HIDE DEF less
    <3> QED
      BY <2>1, <3>1, FS_EmptySet
  <2> QED
    BY <2>2
<1>5. \E x \in S : \A y \in S : x >= y
  <2>1. PICK x \in S : Cardinality(more[x]) = 1 - 1
    <3> HIDE DEF more
    <3>1. 1 \in 1..Cardinality(S)
      BY <1>1
    <3> QED
      BY <1>3, <3>1, RankTaken
  <2>2. more[x] = {}
    <3>1. IsFiniteSet(more[x])
      BY FS_Subset
    <3> HIDE DEF more
    <3> QED
      BY <2>1, <3>1, FS_EmptySet
  <2> QED
    BY <2>2
<1> QED
  BY <1>4, <1>5 DEF Min, Max

LEMMA FullFacts ==
    ASSUME MetricsAssumption, NEW given \in Seq(Points), given # <<>>
    PROVE  Full(given) \in Rectangle
<1>1. ASSUME NEW dim \in Dims PROVE Domain(given, dim) \in Int \X Int
  <2> DEFINE f == [i \in 1..Len(given) |-> At(given[i], dim)]
             V == Values(given, dim)
  <2>1. V = {f[i] : i \in 1..Len(given)} /\ DOMAIN f = 1..Len(given) /\ V \subseteq Int
    BY DEF Values, MetricsAssumption
  <2>2. 1 \in 1..Len(given) /\ IsFiniteSet(1..Len(given))
    BY FS_Interval
  <2>3. V # {}
    BY <2>1, <2>2
  <2>4. IsFiniteSet(V)
    <3> HIDE DEF f, V
    <3> QED
      BY <2>1, <2>2, ImageFinite
  <2> HIDE DEF V
  <2>5. Min(V) \in Int /\ Max(V) \in Int
    BY <2>1, <2>3, <2>4, LeastAndGreatest
  <2>6. Inflate(Min(V)) \in Int /\ Inflate(Max(V)) \in Int /\ Deflate(Max(V)) \in Int
    BY <2>5 DEF Inflate, Deflate
  <2>7. Extent(given, dim) \in Int \X Int
    BY <2>5, <2>6 DEF Extent, V
  <2> HIDE DEF V, f
  <2> QED
    BY <2>7 DEF Domain, MetricsAssumption
<1> QED
  BY <1>1 DEF Full, Rectangle

LEMMA SelectionFacts ==
    ASSUME MetricsAssumption, NEW c, c.domain \in Rectangle, c.origin \in Places, NEW place \in Places
    PROVE  Selection(c, place) \in Rectangle
<1>1. \A x, y \in Int : Max({x, y}) \in Int /\ Min({x, y}) \in Int
  <2> SUFFICES ASSUME NEW x \in Int, NEW y \in Int
               PROVE  Max({x, y}) \in {x, y} /\ Min({x, y}) \in {x, y}
    OBVIOUS
  <2>1. /\ \E z \in {x, y} : \A w \in {x, y} : z <= w
        /\ \E z \in {x, y} : \A w \in {x, y} : z >= w
    OBVIOUS
  <2> QED
    BY <2>1 DEF Max, Min
<1>2. ASSUME NEW dim \in Dims
      PROVE  /\ c.domain[dim] \in Int \X Int
             /\ c.origin[dim] \in Int /\ place[dim] \in Int
  BY <1>2 DEF Rectangle, MetricsAssumption
<1> QED
  BY <1>1, <1>2 DEF Selection, Rectangle

LEMMA LineFacts ==
    ASSUME MetricsAssumption, NEW c \in Charts
    PROVE  Line(c) \in Paths /\ Line(c) # Nothing
<1>1. c.given \in Seq(Points) /\ c.domain \in Rectangle
  BY DEF Charts
<1>2. ByTime(c.given) \in Seq(Points)
  BY <1>1, ByTimeFacts
<1>3. Line(c) \in Paths
  BY <1>1, <1>2 DEF Line, Paths
<1> QED
  BY <1>3 DEF MetricsAssumption

-----------------------------------------------------------------------------
(* A chart is drawn.                                                       *)

LEMMA MainPlotRight ==
    ASSUME MetricsAssumption, NEW c \in Charts, c.given # <<>>
    PROVE  LET x == MainPlot(c)
           IN /\ x \in Charts /\ LineRight(x)
              /\ x.given = c.given /\ x.domain = c.domain /\ x.raw = c.raw
<1> DEFINE x == MainPlot(c)
<1>1. Line(c) \in Paths /\ Line(c) # Nothing
  BY LineFacts
<1>2. x = IF c.line = Nothing /\ c.to = Nothing THEN [c EXCEPT !.line = Line(c)]
          ELSE [c EXCEPT !.line = Nothing, !.to = Line(c)]
  BY DEF MainPlot, AddLine
<1>3. x \in Charts
  BY <1>1, <1>2 DEF Charts
<1>4. x.given = c.given /\ x.domain = c.domain /\ x.raw = c.raw
  BY <1>2 DEF Charts
<1>5. /\ x.to = Nothing <=> x.line # Nothing
      /\ (IF x.to = Nothing THEN x.line ELSE x.to) = Line(c)
  BY <1>1, <1>2 DEF Charts
<1>6. Line(x) = Line(c)
  BY <1>4 DEF Line
<1> QED
  BY <1>3, <1>4, <1>5, <1>6 DEF LineRight

\* The point of a chart at some place of those it draws, and what is said of it.
LEMMA RolloverOnRight ==
    ASSUME MetricsAssumption, NEW c \in Charts, NEW i \in DOMAIN c.given,
           c.circle \in {Nothing, ByTime(c.given)[i]}
    PROVE  LET x == RolloverOn(c, i)
           IN /\ x \in Charts /\ SaidRight(x) /\ x.text # Nothing
              /\ x.given = c.given /\ x.domain = c.domain /\ x.raw = c.raw
              /\ x.line = c.line /\ x.to = c.to /\ x.down = c.down /\ x.origin = c.origin
<1> DEFINE x == RolloverOn(c, i)
           p == ByTime(c.given)[i]
           u == UpdateCircle(c, p)
           said == [point |-> p, label |-> c.given[i].label]
           given == c.given
<1>1. given \in Seq(Points) /\ i \in 1..Len(given) /\ DOMAIN given = 1..Len(given)
  BY DEF Charts
<1>2. p \in Points /\ given[i] \in Points
  BY <1>1, ByTimeFacts
<1>3. said \in Said /\ said # Nothing
  BY <1>2, PointFacts DEF Said, MetricsAssumption
<1>4. /\ u \in Charts /\ u.circle \in {Nothing, p}
      /\ u.given = c.given /\ u.domain = c.domain /\ u.raw = c.raw
      /\ u.line = c.line /\ u.to = c.to /\ u.down = c.down /\ u.origin = c.origin
  <2>1. u = c \/ u = [c EXCEPT !.circle = p]
    BY DEF UpdateCircle
  <2>2. c.circle \in {Nothing, p}
    OBVIOUS
  <2> HIDE DEF u, p
  <2> QED
    BY <1>2, <2>1, <2>2 DEF Charts
<1>5. /\ x \in Charts /\ x.text = said /\ x.circle \in {Nothing, p}
      /\ x.given = c.given /\ x.domain = c.domain /\ x.raw = c.raw
      /\ x.line = c.line /\ x.to = c.to /\ x.down = c.down /\ x.origin = c.origin
  <2>1. x = [u EXCEPT !.text = said]
    BY <1>4 DEF RolloverOn, Say
  <2> HIDE DEF x, u, p, said
  <2> QED
    BY <1>3, <1>4, <2>1 DEF Charts
<1>6. \E j \in DOMAIN given : given[j] = p
  <2>1. PICK j \in 1..Len(given) : ByTime(given)[i] = given[j]
    <3> HIDE DEF given
    <3> QED
      BY <1>1, ByTimeFacts
  <2> QED
    BY <1>1, <2>1
<1>7. ASSUME \A h, j \in DOMAIN given : h < j => given[h].time <= given[j].time
      PROVE  p = given[i]
  <2>1. \A h, j \in 1..Len(given) : h < j => given[h].time <= given[j].time
    BY <1>1, <1>7
  <2> QED
    BY <1>1, <2>1, ByTimeFacts
<1>8. SaidRight(x)
  <2>1. said.point = p /\ said.label = given[i].label
    OBVIOUS
  <2> HIDE DEF x, p, said
  <2> QED
    BY <1>3, <1>5, <1>6, <1>7, <2>1 DEF SaidRight
<1> QED
  BY <1>3, <1>5, <1>8

LEMMA SetUpRolloverRight ==
    ASSUME MetricsAssumption, NEW c \in Charts, c.given # <<>>
    PROVE  LET x == SetUpRollover(c)
           IN /\ x \in Charts /\ SaidRight(x)
              /\ x.given = c.given /\ x.domain = c.domain /\ x.raw = c.raw
              /\ x.line = c.line /\ x.to = c.to
<1> DEFINE r == RemoveRollover(c)
           x == SetUpRollover(c)
<1>1. /\ r \in Charts /\ r.circle = Nothing /\ r.text = Nothing
      /\ r.given = c.given /\ r.domain = c.domain /\ r.raw = c.raw
      /\ r.line = c.line /\ r.to = c.to
  BY DEF RemoveRollover, Charts
<1>2. x = IF Len(r.given) = 1 THEN RolloverOn(r, 1) ELSE r
  BY DEF SetUpRollover, ConfigureSingleton, Singleton
<1>3. c.given \in Seq(Points)
  BY DEF Charts
<1> HIDE DEF r, x
<1>4. CASE Len(r.given) = 1
  <2>1. 1 \in DOMAIN r.given /\ r.circle \in {Nothing, ByTime(r.given)[1]}
    BY <1>1, <1>3, <1>4
  <2>2. x = RolloverOn(r, 1)
    BY <1>2, <1>4
  <2> QED
    BY <1>1, <2>1, <2>2, RolloverOnRight DEF x
<1>5. CASE Len(r.given) # 1
  <2>1. x = r
    BY <1>2, <1>5
  <2>2. SaidRight(r)
    BY <1>1, <1>5 DEF SaidRight
  <2> QED
    BY <1>1, <2>1, <2>2 DEF x
<1> QED
  BY <1>4, <1>5

\* Drawing makes the line and what is said right, whatever was there.
LEMMA DrawRight ==
    ASSUME MetricsAssumption, NEW c \in Charts, c.given # <<>>
    PROVE  LET x == Draw(c)
           IN /\ x \in Charts /\ LineRight(x) /\ SaidRight(x) /\ ~x.down
              /\ x.given = c.given /\ x.domain = c.domain /\ x.raw = c.raw
<1> DEFINE p == MainPlot(c)
           s == SetUpRollover(p)
           x == Draw(c)
<1>1. /\ p \in Charts /\ LineRight(p)
      /\ p.given = c.given /\ p.domain = c.domain /\ p.raw = c.raw
  BY MainPlotRight
<1> HIDE DEF p
<1>2. /\ s \in Charts /\ SaidRight(s)
      /\ s.given = p.given /\ s.domain = p.domain /\ s.raw = p.raw
      /\ s.line = p.line /\ s.to = p.to
  BY <1>1, SetUpRolloverRight
<1>3. x = [s EXCEPT !.down = FALSE, !.dragging = FALSE, !.extent = Nothing]
  BY DEF Draw, AddBrush, p
<1> HIDE DEF s, x
<1>4. /\ x \in Charts /\ ~x.down /\ x.given = s.given /\ x.domain = s.domain /\ x.raw = s.raw
      /\ x.line = s.line /\ x.to = s.to /\ x.text = s.text /\ x.circle = s.circle
  BY <1>2, <1>3 DEF Charts
<1>5. LineRight(x)
  BY <1>1, <1>2, <1>4 DEF LineRight, Line
<1>6. SaidRight(x)
  BY <1>2, <1>4 DEF SaidRight
<1> QED
  BY <1>1, <1>2, <1>4, <1>5, <1>6 DEF x
LEMMA DataGraphicRight ==
    ASSUME MetricsAssumption, NEW old \in Charts \cup {Nothing},
           NEW given \in Seq(Points), given # <<>>
    PROVE  DataGraphic(old, given) \in Charts /\ ChartRight(DataGraphic(old, given), given)
<1> DEFINE svg == Svg(old)
           c == [circle |-> svg.circle, text |-> svg.text, line |-> svg.line, to |-> svg.to,
                 given |-> given, domain |-> Full(given), raw |-> Nothing,
                 down |-> FALSE, dragging |-> FALSE, origin |-> Nothing, extent |-> Nothing]
           x == Draw(c)
<1>1. /\ svg.circle \in Points \cup {Nothing} /\ svg.text \in Said \cup {Nothing}
      /\ svg.line \in Paths \cup {Nothing} /\ svg.to \in Paths \cup {Nothing}
  BY DEF Svg, NewSvg, Charts
<1>2. Full(given) \in Rectangle
  BY FullFacts
<1>3. c \in Charts /\ c.given = given /\ c.domain = Full(given) /\ c.raw = Nothing
  <2> HIDE DEF svg
  <2> QED
    BY <1>1, <1>2 DEF Charts
<1>4. DataGraphic(old, given) = x
  BY DEF DataGraphic
<1> HIDE DEF c
<1>5. /\ x \in Charts /\ LineRight(x) /\ SaidRight(x) /\ ~x.down
      /\ x.given = c.given /\ x.domain = c.domain /\ x.raw = c.raw
  BY <1>3, DrawRight
<1> HIDE DEF x
<1> QED
  BY <1>3, <1>4, <1>5 DEF ChartRight

-----------------------------------------------------------------------------
(* What the mouse does to a chart.                                         *)

\* What is said of a chart may change, and the rest is as it was.
LEMMA SaidAnew ==
    ASSUME NEW c, NEW x, NEW given, ChartRight(c, given), SaidRight(x),
           x.given = c.given, x.domain = c.domain, x.raw = c.raw,
           x.line = c.line, x.to = c.to, x.down = c.down, x.origin = c.origin
    PROVE  ChartRight(x, given)
BY DEF ChartRight, LineRight, Line

LEMMA HoverRight ==
    ASSUME MetricsAssumption, NEW c \in Charts, NEW given, ChartRight(c, given),
           NEW i \in DOMAIN c.given, c.text = Nothing \/ Len(c.given) = 1
    PROVE  RolloverOn(c, i) \in Charts /\ ChartRight(RolloverOn(c, i), given)
<1>1. c.circle \in {Nothing, ByTime(c.given)[i]}
  <2>1. CASE c.text = Nothing
    BY <2>1 DEF ChartRight, SaidRight
  <2>2. CASE c.text # Nothing
    <3> DEFINE g == c.given
    <3>1. g \in Seq(Points) /\ Len(g) = 1 /\ i = 1 /\ DOMAIN g = 1..1
      BY <2>2 DEF Charts
    <3>2. PICK j \in DOMAIN c.given : c.given[j] = c.text.point
      BY <2>2 DEF ChartRight, SaidRight
    <3>3. PICK h \in 1..Len(g) : ByTime(g)[i] = g[h]
      <4> HIDE DEF g
      <4> QED
        BY <3>1, ByTimeFacts
    <3>4. c.text.point = ByTime(c.given)[i]
      BY <3>1, <3>2, <3>3
    <3> QED
      BY <2>2, <3>4 DEF ChartRight, SaidRight
  <2> QED
    BY <2>1, <2>2
<1> DEFINE x == RolloverOn(c, i)
<1>2. /\ x \in Charts /\ SaidRight(x)
      /\ x.given = c.given /\ x.domain = c.domain /\ x.raw = c.raw
      /\ x.line = c.line /\ x.to = c.to /\ x.down = c.down /\ x.origin = c.origin
  BY <1>1, RolloverOnRight
<1> HIDE DEF x
<1> QED
  BY <1>2, SaidAnew DEF x

LEMMA UnhoverRight ==
    ASSUME MetricsAssumption, NEW c \in Charts, NEW given, ChartRight(c, given)
    PROVE  RolloverOff(c) \in Charts /\ ChartRight(RolloverOff(c), given)
<1> DEFINE x == RolloverOff(c)
<1>1. CASE Len(c.given) = 1
  BY <1>1 DEF RolloverOff, ClearMouseover, RemoveActivePoint, Singleton
<1>2. CASE Len(c.given) # 1
  <2> DEFINE r == [c EXCEPT !.circle = Nothing]
  <2>1. RemoveActivePoint(c) = r
    BY <1>2 DEF RemoveActivePoint, Singleton
  <2>2. r \in Charts /\ r.given = c.given
    BY DEF Charts
  <2>3. x = [r EXCEPT !.text = Nothing]
    BY <1>2, <2>1, <2>2 DEF RolloverOff, ClearMouseover, Singleton
  <2>4. /\ x \in Charts /\ x.text = Nothing /\ x.circle = Nothing
        /\ x.given = c.given /\ x.domain = c.domain /\ x.raw = c.raw
        /\ x.line = c.line /\ x.to = c.to /\ x.down = c.down /\ x.origin = c.origin
    <3> HIDE DEF x
    <3> QED
      BY <2>3 DEF Charts
  <2> HIDE DEF x, r
  <2>5. SaidRight(x)
    BY <1>2, <2>4 DEF SaidRight
  <2> QED
    BY <2>4, <2>5, SaidAnew DEF x
<1> QED
  BY <1>1, <1>2

LEMMA LineMovedRight ==
    ASSUME MetricsAssumption, NEW c \in Charts, NEW given, ChartRight(c, given), c.to # Nothing
    PROVE  LineMoved(c) \in Charts /\ ChartRight(LineMoved(c), given)
<1> DEFINE x == LineMoved(c)
<1>1. /\ x \in Charts /\ x.line = c.to /\ x.to = Nothing
      /\ x.given = c.given /\ x.domain = c.domain /\ x.raw = c.raw
      /\ x.text = c.text /\ x.circle = c.circle /\ x.down = c.down /\ x.origin = c.origin
  BY DEF LineMoved, Charts
<1> HIDE DEF x
<1>2. LineRight(x)
  BY <1>1 DEF ChartRight, LineRight, Line
<1>3. SaidRight(x)
  BY <1>1 DEF ChartRight, SaidRight
<1> QED
  BY <1>1, <1>2, <1>3 DEF ChartRight, x

\* Neither the brush nor the zoom changes what the chart is of.
LEMMA PressRight ==
    ASSUME MetricsAssumption, NEW c \in Charts, NEW given, ChartRight(c, given), NEW place \in Places
    PROVE  Press(c, place) \in Charts /\ ChartRight(Press(c, place), given)
<1> DEFINE x == Press(c, place)
<1>1. /\ x \in Charts /\ x.line = c.line /\ x.to = c.to /\ x.origin = place
      /\ x.given = c.given /\ x.domain = c.domain /\ x.raw = c.raw
      /\ x.text = c.text /\ x.circle = c.circle
  BY DEF Press, Charts
<1>2. place # Nothing
  BY DEF MetricsAssumption
<1> HIDE DEF x
<1>3. LineRight(x) /\ SaidRight(x)
  BY <1>1 DEF ChartRight, LineRight, Line, SaidRight
<1> QED
  BY <1>1, <1>2, <1>3 DEF ChartRight, x

LEMMA DragRight ==
    ASSUME MetricsAssumption, NEW c \in Charts, NEW given, ChartRight(c, given), NEW place \in Places
    PROVE  Drag(c, place) \in Charts /\ ChartRight(Drag(c, place), given)
<1> DEFINE x == Drag(c, place)
           sel == Selection(c, place)
<1>1. CASE ~c.down
  BY <1>1 DEF Drag
<1>2. CASE c.down
  <2>1. c.origin \in Places /\ c.domain \in Rectangle
    BY <1>2 DEF ChartRight, Charts
  <2>2. sel \in Rectangle
    BY <2>1, SelectionFacts
  <2>3. x = [c EXCEPT !.dragging = TRUE, !.extent = sel]
    BY <1>2 DEF Drag
  <2> HIDE DEF x, sel
  <2>4. /\ x \in Charts /\ x.line = c.line /\ x.to = c.to /\ x.origin = c.origin
        /\ x.given = c.given /\ x.domain = c.domain /\ x.raw = c.raw
        /\ x.text = c.text /\ x.circle = c.circle /\ x.down = c.down
    BY <2>2, <2>3 DEF Charts
  <2>5. SaidRight(x)
    BY <2>4 DEF ChartRight, SaidRight
  <2> QED
    BY <2>4, <2>5, SaidAnew DEF x
<1> QED
  BY <1>1, <1>2

LEMMA ZoomToRight ==
    ASSUME MetricsAssumption, NEW c \in Charts, NEW given, ChartRight(c, given), NEW domain \in Rectangle
    PROVE  LET x == ZoomTo(c, domain)
           IN x \in Charts /\ ChartRight(x, given) /\ x.domain = domain /\ ~x.down
<1> DEFINE r == [c EXCEPT !.raw = IF c.raw = Nothing THEN c.domain ELSE c.raw, !.domain = domain]
           x == ZoomTo(c, domain)
<1>1. Nothing \notin Rectangle /\ c.domain \in Rectangle
  BY DEF MetricsAssumption, Charts
<1>2. /\ r \in Charts /\ r.given = c.given /\ r.domain = domain /\ r.raw # Nothing
      /\ r.raw = IF c.raw = Nothing THEN c.domain ELSE c.raw
  BY <1>1 DEF Charts
<1>3. x = Draw(r)
  BY DEF ZoomTo
<1>4. c.given = given /\ given # <<>> /\ r.raw = Full(given)
  BY <1>2 DEF ChartRight
<1> HIDE DEF r, x
<1>5. /\ x \in Charts /\ LineRight(x) /\ SaidRight(x) /\ ~x.down
      /\ x.given = r.given /\ x.domain = r.domain /\ x.raw = r.raw
  BY <1>2, <1>3, <1>4, DrawRight
<1> QED
  BY <1>2, <1>4, <1>5 DEF ChartRight, x

LEMMA ZoomOutRight ==
    ASSUME MetricsAssumption, NEW c \in Charts, NEW given, ChartRight(c, given)
    PROVE  ZoomOut(c) \in Charts /\ ChartRight(ZoomOut(c), given)
<1>1. CASE c.raw = Nothing
  BY <1>1 DEF ZoomOut
<1>2. CASE c.raw # Nothing
  <2> DEFINE z == ZoomTo(c, c.raw)
             x == ZoomOut(c)
  <2>1. c.raw \in Rectangle /\ c.raw = Full(given)
    BY <1>2 DEF ChartRight, Charts
  <2>2. z \in Charts /\ ChartRight(z, given) /\ z.domain = c.raw /\ ~z.down
    BY <2>1, ZoomToRight
  <2>3. x = [z EXCEPT !.raw = Nothing]
    BY <1>2 DEF ZoomOut
  <2> HIDE DEF x, z
  <2>4. /\ x \in Charts /\ x.line = z.line /\ x.to = z.to /\ x.raw = Nothing
        /\ x.given = z.given /\ x.domain = z.domain
        /\ x.text = z.text /\ x.circle = z.circle /\ ~x.down
    BY <2>2, <2>3 DEF Charts
  <2>5. LineRight(x) /\ SaidRight(x)
    BY <2>2, <2>4 DEF ChartRight, LineRight, Line, SaidRight
  <2> QED
    BY <2>1, <2>2, <2>4, <2>5 DEF ChartRight, x
<1> QED
  BY <1>1, <1>2

LEMMA ReleaseRight ==
    ASSUME MetricsAssumption, NEW c \in Charts, NEW given, ChartRight(c, given), NEW place \in Places
    PROVE  Release(c, place) \in Charts /\ ChartRight(Release(c, place), given)
<1> DEFINE r == [c EXCEPT !.down = FALSE, !.dragging = FALSE]
           sel == Selection(c, place)
<1>1. CASE ~c.down
  BY <1>1 DEF Release
<1>2. CASE c.down
  <2>1. /\ r \in Charts /\ r.line = c.line /\ r.to = c.to /\ ~r.down
        /\ r.given = c.given /\ r.domain = c.domain /\ r.raw = c.raw
        /\ r.text = c.text /\ r.circle = c.circle
    BY DEF Charts
  <2> HIDE DEF r
  <2>2. LineRight(r) /\ SaidRight(r)
    BY <2>1 DEF ChartRight, LineRight, Line, SaidRight
  <2>3. ChartRight(r, given)
    BY <2>1, <2>2 DEF ChartRight
  <2>4. c.origin \in Places /\ c.domain \in Rectangle /\ c.dragging \in BOOLEAN
    BY <1>2 DEF ChartRight, Charts
  <2>5. sel \in Rectangle
    BY <2>4, SelectionFacts
  <2>6. Release(c, place) = IF c.dragging THEN ZoomTo(r, sel) ELSE ZoomOut(r)
    BY <1>2, <2>4 DEF Release, r
  <2>7. ZoomTo(r, sel) \in Charts /\ ChartRight(ZoomTo(r, sel), given)
    <3> HIDE DEF sel
    <3> QED
      BY <2>1, <2>3, <2>5, ZoomToRight
  <2>8. ZoomOut(r) \in Charts /\ ChartRight(ZoomOut(r), given)
    BY <2>1, <2>3, ZoomOutRight
  <2> QED
    BY <2>6, <2>7, <2>8
<1> QED
  BY <1>1, <1>2
-----------------------------------------------------------------------------
(* The page.                                                               *)

\* Some of the points are left when one of the labels that they are chosen by
\* is of a point there is.
LEMMA FilteredFacts ==
    ASSUME MetricsAssumption, NEW data \in Seq(Points), NEW labels
    PROVE  /\ Filtered(data, labels) \in Seq(Points)
           /\ labels = {} => Filtered(data, labels) = data
           /\ labels \subseteq LabelsOf(data) /\ data # <<>> => Filtered(data, labels) # <<>>
<1> DEFINE S == {p \in Points : p.label \cap labels # {}}
           n == Cardinality(Held(data, S, Len(data)))
<1>1. /\ Selected(data, S) \in Seq(Points) /\ Len(Selected(data, S)) = n
      /\ \A i \in 1..Len(data) : data[i] \in S => Cardinality(Held(data, S, i)) \in 1..n
  BY SelectedFacts
<1>2. Filtered(data, labels) = IF labels = {} THEN data ELSE Selected(data, S)
  BY DEF Filtered
<1>3. ASSUME labels \subseteq LabelsOf(data), labels # {}
      PROVE  Selected(data, S) # <<>>
  <2>1. PICK l \in labels : l \in LabelsOf(data)
    BY <1>3
  <2>2. PICK i \in 1..Len(data) : l \in data[i].label
    BY <2>1 DEF LabelsOf
  <2>3. data[i] \in S
    BY <2>1, <2>2
  <2> HIDE DEF S, n
  <2>4. Cardinality(Held(data, S, i)) \in 1..n
    BY <1>1, <2>3
  <2>5. 1..n # {}
    BY <2>4
  <2>6. Len(Selected(data, S)) # 0
    BY <1>1, <2>5
  <2> QED
    BY <2>6
<1> HIDE DEF S, n
<1> QED
  BY <1>1, <1>2, <1>3

\* The chart of one metric changes.
LEMMA ChartChanged ==
    ASSUME PageRight(page), NEW m \in Metric, Drawn(m), NEW x \in Charts, x # Nothing,
           ChartRight(page.chart[m], Filtered(page.data[m], page.active[m]))
               => ChartRight(x, Filtered(page.data[m], page.active[m]))
    PROVE  PageRight(SetChart(m, x))
<1> DEFINE charts == [page.chart EXCEPT ![m] = x]
           k == SetChart(m, x)
<1>1. page \in Page /\ charts \in [Metric -> Charts \cup {Nothing}]
      /\ charts[m] = x /\ \A o \in Metric : o # m => charts[o] = page.chart[o]
  BY DEF PageRight, Page
<1>2. k = [page EXCEPT !.chart = charts]
  BY DEF SetChart
<1> HIDE DEF charts, k
<1>3. /\ k \in Page /\ k.chart = charts /\ k.listed = page.listed /\ k.asked = page.asked
      /\ k.data = page.data /\ k.restricted = page.restricted /\ k.active = page.active
      /\ k.brush = page.brush
  BY <1>1, <1>2 DEF Page
<1>4. MetricRight(k, m)
  BY <1>1, <1>3 DEF PageRight, MetricRight, Drawn
<1>5. ASSUME NEW o \in Metric, o # m PROVE MetricRight(k, o)
  <2>1. MetricRight(page, o)
    BY DEF PageRight
  <2> QED
    BY <1>1, <1>3, <1>5, <2>1 DEF MetricRight
<1> QED
  BY <1>1, <1>3, <1>4, <1>5 DEF PageRight, k

LEMMA ButtonChanged ==
    ASSUME NEW k, PageRight(k), NEW b \in Metric \cup {Nobody}
    PROVE  PageRight([k EXCEPT !.button = b])
<1> DEFINE q == [k EXCEPT !.button = b]
<1>1. /\ q \in Page /\ q.chart = k.chart /\ q.listed = k.listed /\ q.asked = k.asked
      /\ q.data = k.data /\ q.restricted = k.restricted /\ q.active = k.active
      /\ q.brush = k.brush
  BY DEF PageRight, Page
<1> HIDE DEF q
<1>2. ASSUME NEW m \in Metric PROVE MetricRight(q, m)
  <2>1. MetricRight(k, m)
    BY DEF PageRight
  <2> QED
    BY <1>1, <2>1 DEF MetricRight
<1> QED
  BY <1>1, <1>2 DEF PageRight, q

\* A metric whose points or labels have changed is shown, if it has any points.
LEMMA ShowGraphRight ==
    ASSUME MetricsAssumption, NEW k \in Page, NEW m \in Metric,
           k.listed, k.brush \in Metric => k.chart[k.brush] # Nothing,
           \A o \in Metric : o # m => MetricRight(k, o),
           k.restricted[m] = k.active[m], k.active[m] \subseteq LabelsOf(k.data[m]),
           m \in k.asked => k.data[m] = <<>>,
           k.data[m] = <<>> => k.chart[m] = Nothing
    PROVE  PageRight(ShowGraph(k, m, Filtered(k.data[m], k.active[m])))
<1> DEFINE given == Filtered(k.data[m], k.active[m])
           x == DataGraphic(k.chart[m], given)
           charts == [k.chart EXCEPT ![m] = x]
           q == ShowGraph(k, m, given)
<1>1. k.data[m] \in Seq(Points) /\ k.chart[m] \in Charts \cup {Nothing}
      /\ k.chart \in [Metric -> Charts \cup {Nothing}]
  BY DEF Page
<1>2. given \in Seq(Points) /\ (given = <<>> <=> k.data[m] = <<>>)
  <2>1. CASE k.data[m] = <<>>
    <3>1. k.active[m] = {}
      BY <2>1 DEF LabelsOf
    <3> QED
      BY <1>1, <2>1, <3>1, FilteredFacts
  <2>2. CASE k.data[m] # <<>>
    BY <1>1, <2>2, FilteredFacts
  <2> QED
    BY <2>1, <2>2
<1>3. CASE given = <<>>
  <2>1. q = k
    BY <1>3 DEF ShowGraph
  <2>2. MetricRight(k, m)
    BY <1>2, <1>3 DEF MetricRight
  <2> HIDE DEF q, given
  <2> QED
    BY <2>1, <2>2 DEF PageRight, q, given
<1>4. CASE given # <<>>
  <2> HIDE DEF given
  <2>1. x \in Charts /\ ChartRight(x, given) /\ x # Nothing
    <3>1. x \in Charts /\ ChartRight(x, given)
      BY <1>1, <1>2, <1>4, DataGraphicRight
    <3> HIDE DEF x
    <3> QED
      BY <3>1 DEF MetricsAssumption
  <2>2. q = [k EXCEPT !.chart = charts, !.brush = m]
    BY <1>4 DEF ShowGraph
  <2> HIDE DEF x
  <2>3. /\ charts \in [Metric -> Charts \cup {Nothing}] /\ charts[m] = x
        /\ \A o \in Metric : o # m => charts[o] = k.chart[o]
    BY <1>1, <2>1
  <2> HIDE DEF q, charts
  <2>4. /\ q \in Page /\ q.chart = charts /\ q.listed = k.listed /\ q.asked = k.asked
        /\ q.data = k.data /\ q.restricted = k.restricted /\ q.active = k.active
        /\ q.brush = m
    BY <2>2, <2>3 DEF Page
  <2>5. MetricRight(q, m)
    <3>1. Filtered(q.data[m], q.active[m]) = given
      BY <2>4 DEF given
    <3> QED
      BY <1>2, <1>4, <2>1, <2>3, <2>4, <3>1 DEF MetricRight
  <2>6. ASSUME NEW o \in Metric, o # m PROVE MetricRight(q, o)
    <3>1. MetricRight(k, o)
      BY <2>6
    <3> QED
      BY <2>3, <2>4, <2>6, <3>1 DEF MetricRight
  <2> QED
    BY <2>1, <2>3, <2>4, <2>5, <2>6 DEF PageRight, q, given
<1> QED
  BY <1>3, <1>4
-----------------------------------------------------------------------------
(* The invariant, one lemma for the actions of each kind.                  *)

LEMMA InitRight == ASSUME MetricsAssumption, MetricsInit PROVE MetricsInv
<1>1. /\ page \in Page /\ page.asked = {} /\ page.brush = Nobody
      /\ \A m \in Metric : /\ page.restricted[m] = {} /\ page.active[m] = {}
                             /\ page.data[m] = <<>> /\ page.chart[m] = Nothing
  BY DEF MetricsInit, Page
<1>2. \A m \in Metric : MetricRight(page, m)
  BY <1>1 DEF MetricRight
<1> QED
  BY <1>1, <1>2 DEF MetricsInv, PageRight, MetricsAssumption

\* Points arrive for a metric that has none, or never do.
LEMMA RequestsKeep ==
    ASSUME MetricsAssumption, MetricsInv,
           List \/ \E m \in Metric : Data(m) \/ Lost(m)
    PROVE  MetricsInv'
<1>1. page \in Page /\ PageRight(page) /\ \A o \in Metric : MetricRight(page, o)
  BY DEF MetricsInv, PageRight
<1>2. CASE List
  <2>1. /\ page' \in Page /\ page'.listed /\ page'.chart = page.chart /\ page'.brush = page.brush
        /\ page'.data = page.data /\ page'.restricted = page.restricted /\ page'.active = page.active
        /\ ~page.listed
    BY <1>1, <1>2 DEF List, Page
  <2>2. ASSUME NEW o \in Metric PROVE MetricRight(page', o)
    <3>1. MetricRight(page, o)
      BY <1>1
    <3> QED
      BY <2>1, <3>1 DEF MetricRight
  <2> QED
    BY <1>1, <2>1, <2>2 DEF MetricsInv, PageRight
<1>3. ASSUME NEW m \in Metric, Lost(m) PROVE MetricsInv'
  <2>1. /\ page' \in Page /\ page'.listed = page.listed /\ page'.chart = page.chart
        /\ page'.brush = page.brush /\ page'.asked = page.asked \ {m}
        /\ page'.data = page.data /\ page'.restricted = page.restricted /\ page'.active = page.active
    BY <1>1, <1>3 DEF Lost, Page
  <2>2. ASSUME NEW o \in Metric PROVE MetricRight(page', o)
    <3>1. MetricRight(page, o)
      BY <1>1
    <3> QED
      BY <2>1, <3>1 DEF MetricRight
  <2> QED
    BY <1>1, <2>1, <2>2 DEF MetricsInv, PageRight
<1>4. ASSUME NEW m \in Metric, Data(m) PROVE MetricsInv'
  <2> DEFINE Answered(s) == [page EXCEPT !.asked = @ \ {m}, !.data = [@ EXCEPT ![m] = s]]
  <2>1. PICK s \in AnswerOf[m] : page' = ShowGraph(Answered(s), m, s)
    BY <1>4 DEF Data
  <2> DEFINE data == [page.data EXCEPT ![m] = s]
             k == Answered(s)
  <2>2. s \in Seq(Points) /\ m \in page.asked
    BY <1>4 DEF MetricsAssumption, Data
  <2>3. data \in [Metric -> Seq(Points)] /\ data[m] = s /\ \A o \in Metric : o # m => data[o] = page.data[o]
    BY <1>1, <2>2 DEF Page
  <2>4. k = [page EXCEPT !.asked = page.asked \ {m}, !.data = data]
    OBVIOUS
  <2> HIDE DEF data, k
  <2>5. /\ k \in Page /\ k.data = data /\ k.asked = page.asked \ {m} /\ k.listed = page.listed
        /\ k.chart = page.chart /\ k.restricted = page.restricted /\ k.active = page.active
        /\ k.brush = page.brush
    BY <1>1, <2>3, <2>4 DEF Page
  <2>6. /\ page.listed /\ page.data[m] = <<>> /\ page.chart[m] = Nothing
        /\ page.restricted[m] = page.active[m] /\ page.active[m] = {}
    BY <1>1, <2>2 DEF PageRight, MetricRight, LabelsOf
  <2>7. ASSUME NEW o \in Metric, o # m PROVE MetricRight(k, o)
    <3>1. MetricRight(page, o)
      BY <1>1
    <3> QED
      BY <2>3, <2>5, <2>7, <3>1 DEF MetricRight
  <2>8. k.brush \in Metric => k.chart[k.brush] # Nothing
    BY <1>1, <2>5 DEF PageRight
  <2>9. PageRight(ShowGraph(k, m, Filtered(k.data[m], k.active[m])))
    BY <2>5, <2>6, <2>7, <2>8, ShowGraphRight
  <2>10. Filtered(k.data[m], k.active[m]) = s
    BY <2>2, <2>3, <2>5, <2>6, FilteredFacts
  <2>11. page' = ShowGraph(k, m, s)
    BY <2>1 DEF k
  <2> QED
    BY <2>9, <2>10, <2>11 DEF MetricsInv
<1> QED
  BY <1>2, <1>3, <1>4

\* A label is of some point the metric has.
LEMMA LabelsKeep ==
    ASSUME MetricsAssumption, MetricsInv, NEW m \in Metric, NEW l \in Labels, ClickLabel(m, l)
    PROVE  MetricsInv'
<1> DEFINE set == Flip(page.restricted[m], l)
           restricted == [page.restricted EXCEPT ![m] = set]
           active == [page.active EXCEPT ![m] = set]
           k == [page EXCEPT !.restricted = restricted, !.active = active]
<1>1. page \in Page /\ PageRight(page) /\ \A o \in Metric : MetricRight(page, o)
  BY DEF MetricsInv, PageRight
<1>2. l \in LabelsOf(page.data[m]) /\ page.restricted[m] = page.active[m]
  BY <1>1 DEF ClickLabel, MetricRight
<1>3. Flip(page.active[m], l) = set
  BY <1>2
<1>4. set \in SUBSET Labels /\ set \subseteq LabelsOf(page.data[m])
  <2>1. page.active[m] \subseteq LabelsOf(page.data[m]) /\ page.active[m] \subseteq Labels
    BY <1>1 DEF MetricRight, Page
  <2> QED
    BY <1>2, <2>1 DEF Flip
<1>5. page' = ShowGraph(k, m, Filtered(page.data[m], set))
  BY <1>1, <1>3 DEF ClickLabel, Page
<1> HIDE DEF set
<1>6. /\ restricted \in [Metric -> SUBSET Labels] /\ active \in [Metric -> SUBSET Labels]
      /\ restricted[m] = set /\ active[m] = set
      /\ \A o \in Metric : o # m => restricted[o] = page.restricted[o] /\ active[o] = page.active[o]
  BY <1>1, <1>4 DEF Page
<1> HIDE DEF restricted, active
<1>7. /\ k \in Page /\ k.restricted = restricted /\ k.active = active /\ k.data = page.data
      /\ k.asked = page.asked /\ k.listed = page.listed /\ k.chart = page.chart /\ k.brush = page.brush
  BY <1>1, <1>6 DEF Page
<1> HIDE DEF k
<1>8. /\ page.data[m] # <<>> /\ page.listed
      /\ m \notin page.asked
  BY <1>1, <1>2 DEF PageRight, MetricRight, LabelsOf
<1>9. ASSUME NEW o \in Metric, o # m PROVE MetricRight(k, o)
  <2>1. MetricRight(page, o)
    BY <1>1
  <2> QED
    BY <1>6, <1>7, <1>9, <2>1 DEF MetricRight
<1>10. k.brush \in Metric => k.chart[k.brush] # Nothing
  BY <1>1, <1>7 DEF PageRight
<1>11. PageRight(ShowGraph(k, m, Filtered(k.data[m], k.active[m])))
  BY <1>4, <1>6, <1>7, <1>8, <1>9, <1>10, ShowGraphRight
<1> QED
  BY <1>5, <1>6, <1>7, <1>11 DEF MetricsInv

LEMMA ChartOf ==
    ASSUME MetricsAssumption, MetricsInv, NEW m \in Metric, Drawn(m)
    PROVE  /\ page.chart[m] \in Charts /\ PageRight(page)
           /\ ChartRight(page.chart[m], Filtered(page.data[m], page.active[m]))
BY DEF MetricsInv, PageRight, MetricRight, Drawn, Page

\* What changes a chart and keeps it right keeps all.
LEMMA ChartKeeps ==
    ASSUME MetricsAssumption, MetricsInv, NEW m \in Metric, Drawn(m), NEW x \in Charts,
           ChartRight(x, Filtered(page.data[m], page.active[m]))
    PROVE  PageRight(SetChart(m, x))
<1>1. x # Nothing
  BY DEF MetricsAssumption
<1> QED
  BY <1>1, ChartOf, ChartChanged

LEMMA RolloversKeep ==
    ASSUME MetricsAssumption, MetricsInv, NEW m \in Metric,
           Unhover(m) \/ TransitionEnds(m) \/ \E i \in DOMAIN page.data[m] : Hover(m, i)
    PROVE  MetricsInv'
<1> DEFINE c == page.chart[m]
           given == Filtered(page.data[m], page.active[m])
<1>1. Drawn(m) => c \in Charts /\ ChartRight(c, given)
  BY ChartOf
<1> HIDE DEF given
<1>2. CASE Unhover(m)
  <2>1. Drawn(m) /\ page' = SetChart(m, RolloverOff(c))
    BY <1>2 DEF Unhover
  <2>2. RolloverOff(c) \in Charts /\ ChartRight(RolloverOff(c), given)
    BY <1>1, <2>1, UnhoverRight
  <2> QED
    BY <2>1, <2>2, ChartKeeps DEF given, MetricsInv
<1>3. CASE TransitionEnds(m)
  <2>1. Drawn(m) /\ c.to # Nothing /\ page' = SetChart(m, LineMoved(c))
    BY <1>3 DEF TransitionEnds
  <2>2. LineMoved(c) \in Charts /\ ChartRight(LineMoved(c), given)
    BY <1>1, <2>1, LineMovedRight
  <2> QED
    BY <2>1, <2>2, ChartKeeps DEF given, MetricsInv
<1>4. ASSUME NEW i \in DOMAIN page.data[m], Hover(m, i) PROVE MetricsInv'
  <2>1. /\ Drawn(m) /\ i \in DOMAIN c.given /\ (c.text = Nothing \/ Len(c.given) = 1)
        /\ page' = SetChart(m, RolloverOn(c, i))
    BY <1>4 DEF Hover
  <2>2. RolloverOn(c, i) \in Charts /\ ChartRight(RolloverOn(c, i), given)
    BY <1>1, <2>1, HoverRight
  <2> QED
    BY <2>1, <2>2, ChartKeeps DEF given, MetricsInv
<1> QED
  BY <1>2, <1>3, <1>4

LEMMA BrushKeeps ==
    ASSUME MetricsAssumption, MetricsInv, NEW place \in Places,
           MouseMove(place) \/ MouseUp(place) \/ \E m \in Metric : MouseDown(m, place)
    PROVE  MetricsInv'
<1>1. page.brush # Nobody => page.brush \in Metric /\ Drawn(page.brush)
  BY DEF MetricsInv, PageRight, Page, Drawn
<1>2. ASSUME NEW m \in Metric, MouseDown(m, place) PROVE MetricsInv'
  <2> DEFINE x == Press(page.chart[m], place)
  <2>1. Drawn(m) /\ page' = [SetChart(m, x) EXCEPT !.button = m]
    BY <1>2 DEF MouseDown
  <2>2. x \in Charts /\ ChartRight(x, Filtered(page.data[m], page.active[m]))
    BY <2>1, ChartOf, PressRight
  <2> HIDE DEF x
  <2>3. PageRight(SetChart(m, x))
    BY <2>1, <2>2, ChartKeeps
  <2> QED
    BY <2>1, <2>3, ButtonChanged DEF MetricsInv
<1>3. CASE MouseMove(place)
  <2> DEFINE m == page.brush
             x == Drag(page.chart[m], place)
  <2>1. m \in Metric /\ Drawn(m) /\ page' = SetChart(m, x)
    BY <1>1, <1>3 DEF MouseMove
  <2>2. x \in Charts /\ ChartRight(x, Filtered(page.data[m], page.active[m]))
    BY <2>1, ChartOf, DragRight
  <2> HIDE DEF x, m
  <2> QED
    BY <2>1, <2>2, ChartKeeps DEF MetricsInv
<1>4. CASE MouseUp(place)
  <2> DEFINE m == page.brush
             x == Release(page.chart[m], place)
  <2>1. m \in Metric /\ Drawn(m) /\ page' = [SetChart(m, x) EXCEPT !.button = Nobody]
    BY <1>1, <1>4 DEF MouseUp
  <2>2. x \in Charts /\ ChartRight(x, Filtered(page.data[m], page.active[m]))
    BY <2>1, ChartOf, ReleaseRight
  <2> HIDE DEF x, m
  <2>3. PageRight(SetChart(m, x))
    BY <2>1, <2>2, ChartKeeps
  <2> QED
    BY <2>1, <2>3, ButtonChanged DEF MetricsInv
<1> QED
  BY <1>2, <1>3, <1>4

LEMMA MetricsStep == ASSUME MetricsAssumption, MetricsInv, [MetricsNext]_page PROVE MetricsInv'
<1>1. CASE UNCHANGED page
  BY <1>1 DEF MetricsInv
<1>2. CASE MetricsNext
  BY <1>2, RequestsKeep, LabelsKeep, RolloversKeep, BrushKeeps DEF MetricsNext
<1> QED
  BY <1>1, <1>2

LEMMA MetricsAlways == ASSUME MetricsAssumption PROVE MetricsSpec => []MetricsInv
<1>1. MetricsInit => MetricsInv
  BY InitRight
<1>2. MetricsInv /\ [MetricsNext]_page => MetricsInv'
  BY MetricsStep
<1> QED
  BY <1>1, <1>2, PTL DEF MetricsSpec

-----------------------------------------------------------------------------
(* The theorems.                                                           *)

\* A click in a chart shows, after however many zooms, all of the points with
\* the labels that look pressed, and no others, and its line goes through them
\* or moves there: what ShowLabels, ShowGraph, zoom_to_data_domain and
\* mg_add_line keep between them, for all points and labels.
THEOREM WholeIsBehindZoom == ASSUME MetricsAssumption PROVE MetricsSpec => []WholeBehindZoom
<1>1. MetricsInv => AllBehindZoom
  BY ChartOf DEF AllBehindZoom, ChartRight
<1>2. MetricsInv => LineShown
  <2> SUFFICES ASSUME MetricsInv, NEW m \in Metric, Drawn(m)
               PROVE  LET c == page.chart[m]
                      IN /\ c.to = Nothing <=> c.line # Nothing
                         /\ (IF c.to = Nothing THEN c.line ELSE c.to) =
                                [points |-> ByTime(Filtered(page.data[m], page.active[m])),
                                 domain |-> c.domain]
    BY DEF LineShown
  <2> QED
    BY ChartOf DEF ChartRight, LineRight, Line
<1>3. MetricsInv => WholeBehindZoom
  BY <1>1, <1>2 DEF WholeBehindZoom
<1> QED
  BY <1>3, MetricsAlways, PTL

\* What is said of a point is said of one that the chart has, at the circle,
\* and with the label it has if the points came in order (rolloverOn).
THEOREM SaidIsShown == ASSUME MetricsAssumption PROVE MetricsSpec => []SaidOfShown
<1>1. MetricsInv => SaidOfShown
  BY ChartOf DEF SaidOfShown, ChartRight, SaidRight
<1> QED
  BY <1>1, MetricsAlways, PTL

\* The page of the metrics keeps its type.
THEOREM PageTypeCorrect == ASSUME MetricsAssumption PROVE MetricsSpec => []MetricsTypeOK
<1>1. MetricsInv => MetricsTypeOK
  BY DEF MetricsInv, PageRight, MetricsTypeOK
<1> QED
  BY <1>1, MetricsAlways, PTL
=============================================================================
