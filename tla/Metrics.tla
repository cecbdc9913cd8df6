------------------------------ MODULE Metrics ------------------------------
(***************************************************************************)
(* The page of the metrics (src/static/metrics.js): a chart for each, once *)
(* its points arrive, and buttons for the labels they have, which restrict *)
(* the chart to the points with any of those pressed.  The charts share    *)
(* the document, which has one set of handlers for a brush: those of the   *)
(* chart drawn last, for the name they are set under is "[object", the     *)
(* first word of what an element converts to, whatever the chart.          *)
(***************************************************************************)
EXTENDS Chart

CONSTANTS
    Metric,    \* what the service lists
    AnswerOf,  \* AnswerOf[m]: the points it may answer with
    Places,    \* where the mouse may be, [x, y]
    Nobody     \* no metric

VARIABLE page

Points    == UNION {UNION {{s[i] : i \in DOMAIN s} : s \in AnswerOf[m]} : m \in Metric}
Labels    == UNION {p.label : p \in Points}
Rectangle == [Dims -> Int \X Int]

Paths     == [points : Seq(Points), domain : Rectangle]
Said      == [point : Points, label : SUBSET Labels]

Charts == [given    : Seq(Points),
           domain   : Rectangle,
           raw      : Rectangle \cup {Nothing},   \* where a zoom started from
           line     : Paths \cup {Nothing},        \* where the line is
           to       : Paths \cup {Nothing},        \* where it moves to
           circle   : Points \cup {Nothing},
           text     : Said \cup {Nothing},
           down     : BOOLEAN,                    \* mouseDown
           dragging : BOOLEAN,
           origin   : Places \cup {Nothing},
           extent   : Rectangle \cup {Nothing}]

Page == [listed     : BOOLEAN,                    \* the service was asked what there is
         asked      : SUBSET Metric,              \* requests under way
         data       : [Metric -> Seq(Points)],
         chart      : [Metric -> Charts \cup {Nothing}],
         restricted : [Metric -> SUBSET Labels],
         active     : [Metric -> SUBSET Labels],  \* the buttons that look pressed
         brush      : Metric \cup {Nobody},       \* whose handlers the document has
         button     : Metric \cup {Nobody}]       \* where the mouse was pressed

-----------------------------------------------------------------------------
\* What the service answers are points, and what is not there is none of the
\* things that may be.
MetricsAssumption ==
    /\ Day \in Nat \ {0} /\ Nobody \notin Metric
    /\ \A m \in Metric : AnswerOf[m] \subseteq Seq(Points)
    /\ \A p \in Points, dim \in Dims : At(p, dim) \in Int
    /\ \A place \in Places, dim \in Dims : place[dim] \in Int
    /\ Nothing \notin Points /\ Nothing \notin Charts /\ Nothing \notin Said
    /\ Nothing \notin Rectangle /\ Nothing \notin Paths /\ Nothing \notin Places

-----------------------------------------------------------------------------
Drawn(m)       == page.chart[m] # Nothing
SetChart(m, c) == [page EXCEPT !.chart = [@ EXCEPT ![m] = c]]

ShowGraph(k, m, given) ==
    IF given = <<>> THEN k
    ELSE [k EXCEPT !.chart = [@ EXCEPT ![m] = DataGraphic(k.chart[m], given)], !.brush = m]

\* Any of the labels will do.
Filtered(data, restricted) ==
    IF restricted = {} THEN data
    ELSE Selected(data, {p \in Points : p.label \cap restricted # {}})

LabelsOf(data) == UNION {data[i].label : i \in DOMAIN data}

List == ~page.listed /\ page' = [page EXCEPT !.listed = TRUE, !.asked = Metric]

Data(m) ==
    /\ m \in page.asked
    /\ \E s \in AnswerOf[m] :
           page' = ShowGraph([page EXCEPT !.asked = @ \ {m}, !.data = [@ EXCEPT ![m] = s]], m, s)

\* Nothing is done about a request that fails.
Lost(m) == m \in page.asked /\ page' = [page EXCEPT !.asked = @ \ {m}]

Flip(set, l) == IF l \in set THEN set \ {l} ELSE set \cup {l}

\* The handler of the labels, and then that of bootstrap.js, at the document.
ClickLabel(m, l) ==
    /\ page.button = Nobody /\ l \in LabelsOf(page.data[m])
    /\ LET restricted == Flip(page.restricted[m], l)
           k == [page EXCEPT !.restricted = [@ EXCEPT ![m] = restricted],
                             !.active = [@ EXCEPT ![m] = Flip(page.active[m], l)]]
       IN page' = ShowGraph(k, m, Filtered(page.data[m], restricted))

Hover(m, i) ==
    /\ Drawn(m) /\ i \in DOMAIN page.chart[m].given /\ Hoverable(page.chart[m], i)
    /\ page.chart[m].text = Nothing \/ Len(page.chart[m].given) = 1
    /\ page' = SetChart(m, RolloverOn(page.chart[m], i))

Unhover(m) ==
    /\ Drawn(m) /\ page.chart[m].text # Nothing
    /\ page' = SetChart(m, RolloverOff(page.chart[m]))

MouseDown(m, place) ==
    /\ page.button = Nobody /\ Drawn(m)
    /\ \A dim \in Dims : InRange(place[dim], page.chart[m].domain[dim])
    /\ page' = [SetChart(m, Press(page.chart[m], place)) EXCEPT !.button = m]

\* Moving over a chart without pressing is Hover.
MouseMove(place) ==
    /\ page.button # Nobody /\ page.brush # Nobody
    /\ page' = SetChart(page.brush, Drag(page.chart[page.brush], place))

MouseUp(place) ==
    /\ page.button # Nobody /\ page.brush # Nobody
    /\ page' = [SetChart(page.brush, Release(page.chart[page.brush], place)) EXCEPT !.button = Nobody]

\* The transition of a line ends.
TransitionEnds(m) ==
    /\ Drawn(m) /\ page.chart[m].to # Nothing
    /\ page' = SetChart(m, LineMoved(page.chart[m]))

MetricsInit == page = [listed |-> FALSE, asked |-> {}, data |-> [m \in Metric |-> <<>>],
                       chart |-> [m \in Metric |-> Nothing], restricted |-> [m \in Metric |-> {}],
                       active |-> [m \in Metric |-> {}], brush |-> Nobody, button |-> Nobody]

MetricsNext ==
    \/ List
    \/ \E m \in Metric :
        \/ Data(m) \/ Lost(m) \/ Unhover(m) \/ TransitionEnds(m)
        \/ \E l \in Labels : ClickLabel(m, l)
        \/ \E i \in DOMAIN page.data[m] : Hover(m, i)
        \/ \E place \in Places : MouseDown(m, place)
    \/ \E place \in Places : MouseMove(place) \/ MouseUp(place)

MetricsSpec == MetricsInit /\ [][MetricsNext]_page

-----------------------------------------------------------------------------
(* Properties.                                                             *)

MetricsTypeOK == page \in Page

\* A chart that is not zoomed into shows all of the points with the labels that
\* look pressed, and a click in one that is goes back to just that, after
\* however many zooms (zoom_to_data_domain, zoom_to_raw_range, ShowLabels).
AllBehindZoom ==
    \A m \in Metric : Drawn(m) =>
        LET c == page.chart[m]
        IN (IF c.raw = Nothing THEN c.domain ELSE c.raw) =
               Full(Filtered(page.data[m], page.active[m]))

\* The line of a chart goes through the points with the labels that look
\* pressed, at the scales the chart has, or moves there: whatever it was doing
\* when it was drawn anew (mg_add_line).
LineShown ==
    \A m \in Metric : Drawn(m) =>
        LET c == page.chart[m]
        IN /\ c.to = Nothing <=> c.line # Nothing
           /\ (IF c.to = Nothing THEN c.line ELSE c.to) =
                  [points |-> ByTime(Filtered(page.data[m], page.active[m])), domain |-> c.domain]

\* A chart has all it should have, its line too.
WholeBehindZoom == AllBehindZoom /\ LineShown

\* What is said of a point is said of one that the chart has, the circle is at
\* the point it is said of, and so is the label, if the points came in the order
\* of their times (rolloverOn, the mouseover of ShowGraph).
SaidOfShown ==
    \A m \in Metric : Drawn(m) /\ page.chart[m].text # Nothing =>
        LET c       == page.chart[m]
            ordered == \A i, j \in DOMAIN c.given : i < j => c.given[i].time <= c.given[j].time
        IN /\ \E i \in DOMAIN c.given : c.given[i] = c.text.point
           /\ c.circle \in {Nothing, c.text.point}
           /\ ordered => c.text.label = c.text.point.label
=============================================================================
