------------------------------- MODULE Chart -------------------------------
(***************************************************************************)
(* A line chart of src/static/graphs/metricsgraphics.js as the page of the *)
(* metrics asks for it: one series of points over time, brushed in both    *)
(* dimensions.  `given` is the data the chart was asked for; a chart that  *)
(* is drawn anew keeps its element and its svg, and nothing else.  A place *)
(* of the mouse is the point of the plot it is at, in units of the data.   *)
(***************************************************************************)
EXTENDS Integers, Sequences, FiniteSetsExt, Lists

CONSTANTS
    Day,      \* what the times span when there is only one
    Nothing   \* no zoom, no extent, no point

Dims == {"x", "y"}
At(p, dim) == IF dim = "x" THEN p.time ELSE p.value

-----------------------------------------------------------------------------
(* What is drawn.                                                          *)

\* A clone of the data, sorted by time: raw_data_transformation.  The sort is
\* stable, and has the points of one time in their order.
ByTime(given) ==
    LET Before(i, j) == \/ given[i].time < given[j].time
                        \/ given[i].time = given[j].time /\ i < j
        order == SortedSeq(DOMAIN given, Before)
    IN [i \in DOMAIN given |-> given[order[i]]]

Values(given, dim) == {At(given[i], dim) : i \in DOMAIN given}

\* The axis of values is inflated, and starts at 0 unless some are below: one
\* whose values are all below gets nearer to 0 than the last of them.
Inflate(v) == (v * 10) \div 9
Deflate(v) == (v * 8) \div 9
Extent(given, dim) ==
    LET lo == Min(Values(given, dim))
        hi == Max(Values(given, dim))
    IN IF dim = "x" THEN <<lo, hi>>
       ELSE <<IF lo > 0 THEN 0 ELSE Inflate(lo), IF hi < 0 THEN Deflate(hi) ELSE Inflate(hi)>>

\* mg_min_max_numerical: some range has to be shown.
Domain(given, dim) ==
    LET e == Extent(given, dim)
    IN IF e[1] < e[2] THEN e ELSE <<e[1], e[1] + IF dim = "x" THEN Day ELSE 1>>
Full(given) == [dim \in Dims |-> Domain(given, dim)]

InRange(v, range) == range[1] <= v /\ v <= range[2]
InBounds(p, domain) == \A dim \in Dims : InRange(At(p, dim), domain[dim])

-----------------------------------------------------------------------------
(* The rollover: the circle at a point, and what is said of it.            *)

Singleton(c) == Len(c.given) = 1

\* One that is out of the plot leaves the circle where it was.
UpdateCircle(c, p) == IF InBounds(p, c.domain) THEN [c EXCEPT !.circle = p] ELSE c

\* The page's mouseover has the label of the point of that index of the data
\* it gave, which is not sorted.
Say(c, p, i) == [c EXCEPT !.text = [point |-> p, label |-> c.given[i].label]]

RolloverOn(c, i) == LET p == ByTime(c.given)[i] IN Say(UpdateCircle(c, p), p, i)

\* A point that is alone keeps its circle, and what is said of it.
RemoveActivePoint(c) == IF Singleton(c) THEN c ELSE [c EXCEPT !.circle = Nothing]
ClearMouseover(c)    == IF Singleton(c) THEN c ELSE [c EXCEPT !.text = Nothing]
RolloverOff(c)       == ClearMouseover(RemoveActivePoint(c))

RemoveRollover(c) == [c EXCEPT !.circle = Nothing, !.text = Nothing]

\* A point that is alone is always on.
ConfigureSingleton(c) == IF Singleton(c) THEN RolloverOn(c, 1) ELSE c

\* Mutant: what was said of a point stays when the chart is drawn anew.
SetUpRolloverBeside(c) == ConfigureSingleton(c)

SetUpRollover(c) == ConfigureSingleton(RemoveRollover(c))

\* The rectangle of a point goes half the way to the next: of those of no width
\* none is under the mouse.
Hoverable(c, i) ==
    LET data  == ByTime(c.given)
        n     == Len(data)
        T(j)  == data[IF j < 1 THEN 1 ELSE IF j > n THEN n ELSE j].time
        lo    == IF i = 1 THEN 2 * T(1) ELSE T(i - 1) + T(i)
        hi    == IF i = n /\ n > 1 THEN 2 * T(n) ELSE T(i) + T(i + 1)
        shown == c.domain["x"]
    IN \/ n = 1
       \/ /\ shown[1] # shown[2]
          /\ Max({lo, 2 * Min({shown[1], shown[2]})}) < Min({hi, 2 * Max({shown[1], shown[2]})})

-----------------------------------------------------------------------------
(* Drawing.                                                                *)

\* The path of the generator: the points it goes through, at the scales.
Line(c) == [points |-> ByTime(c.given), domain |-> c.domain]

\* A line that exists moves to the new one, from wherever it is; a transition
\* takes the place of the one that goes on.
AddLine(c) ==
    IF c.line = Nothing /\ c.to = Nothing THEN [c EXCEPT !.line = Line(c)]
    ELSE [c EXCEPT !.line = Nothing, !.to = Line(c)]

\* A series of no points has no line.
MainPlot(c) == IF c.given = <<>> THEN c ELSE AddLine(c)

LineMoved(c) == [c EXCEPT !.line = c.to, !.to = Nothing]

\* The handlers of a brush are new, and know of no button.
AddBrush(c) == [c EXCEPT !.down = FALSE, !.dragging = FALSE, !.extent = Nothing]

Draw(c) == AddBrush(SetUpRollover(MainPlot(c)))

\* init: the svg of a chart that was there is kept, and what is drawn in it.
NewSvg   == [circle |-> Nothing, text |-> Nothing, line |-> Nothing, to |-> Nothing]
Svg(old) == IF old = Nothing THEN NewSvg ELSE old

\* MG.data_graphic on an element, where a chart may be: nothing of its zoom and
\* its brush is kept.
DataGraphic(old, given) ==
    Draw([circle |-> Svg(old).circle, text |-> Svg(old).text, line |-> Svg(old).line, to |-> Svg(old).to,
          given |-> given, domain |-> Full(given), raw |-> Nothing,
          down |-> FALSE, dragging |-> FALSE, origin |-> Nothing, extent |-> Nothing])

\* Mutant: each keeps where it was.
ZoomToAndKeep(c, domain) == Draw([c EXCEPT !.raw = c.domain, !.domain = domain])

\* zoom_to_data_domain: where it was is kept by the first of several.
ZoomTo(c, domain) ==
    Draw([c EXCEPT !.raw = IF @ = Nothing THEN c.domain ELSE @, !.domain = domain])

ZoomOut(c) ==
    IF c.raw = Nothing THEN c ELSE [ZoomTo(c, c.raw) EXCEPT !.raw = Nothing]

-----------------------------------------------------------------------------
(* The brush.                                                              *)

\* calculateSelectionRange: within the plot.
Selection(c, place) ==
    [dim \in Dims |->
        <<Max({c.domain[dim][1], Min({c.origin[dim], place[dim]})}),
          Min({c.domain[dim][2], Max({c.origin[dim], place[dim]})})>>]

Press(c, place) ==
    [c EXCEPT !.down = TRUE, !.dragging = FALSE, !.origin = place, !.extent = Nothing]

Drag(c, place) ==
    IF c.down THEN [c EXCEPT !.dragging = TRUE, !.extent = Selection(c, place)] ELSE c

Release(c, place) ==
    LET r == [c EXCEPT !.down = FALSE, !.dragging = FALSE]
    IN CASE ~c.down               -> c
         [] c.down /\ c.dragging  -> ZoomTo(r, Selection(c, place))
         [] c.down /\ ~c.dragging -> ZoomOut(r)
=============================================================================
