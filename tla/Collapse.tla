------------------------------ MODULE Collapse ------------------------------
(***************************************************************************)
(* The panels of bootstrap.js that open and close, each with a trigger, as *)
(* the navigation bar of a narrow page.  Those of one parent make an       *)
(* accordion: to open one hides the others.                                *)
(***************************************************************************)
EXTENDS Naturals, FiniteSets, Transition

CONSTANTS Panels,     \* in their order on the page
          Accordion,  \* they have one parent
          Opened      \* the panels the markup may have open, one at most

VARIABLE panel

Ids == {Panels[i] : i \in DOMAIN Panels}

CollapseAssumption == DOMAIN Panels \subseteq Nat /\ Accordion \in BOOLEAN /\ Opened \subseteq Ids

Panel == [class         : {"collapse", "collapsing", "in"},
          data          : BOOLEAN,  \* it has its object
          transitioning : BOOLEAN,  \* what that object says
          expanded      : BOOLEAN,  \* aria-expanded, and its trigger not collapsed
          waits         : SUBSET {"shown", "hidden"}]

Active(p, i) == p[i].class \in {"in", "collapsing"}

\* children(".in, .collapsing") of the parent.
Actives(p) == {i \in Ids : Accordion /\ Active(p, i)}

\* data() of several is that of the first.
First(actives) ==
    Panels[CHOOSE n \in DOMAIN Panels :
               Panels[n] \in actives /\ \A m \in DOMAIN Panels : Panels[m] \in actives => n <= m]

Hide(x) ==
    IF x.transitioning \/ x.class # "in" THEN x
    ELSE [x EXCEPT !.class = "collapsing", !.expanded = FALSE, !.transitioning = TRUE,
                   !.waits = OnEnd(@, "hidden")]

\* addAriaAndCollapsedClass: of a panel on its way it says that it is closed.
SayClass(x) == [x EXCEPT !.expanded = (x.class = "in")]

\* Without an object it gets one, which is told to hide and not to toggle.
HideNew(x) == Hide(IF x.data THEN x ELSE [SayClass(x) EXCEPT !.data = TRUE])

\* The object is forgotten, that says the panel is in a transition.
Forget(x) == [x EXCEPT !.data = FALSE, !.transitioning = FALSE]

\* Mutant: the panel that is open stays so.
HideNone(p) == p

\* All are hidden, and all forgotten when the first of them had no object.
HideActives(p) ==
    LET new == Actives(p) # {} /\ ~p[First(Actives(p))].data
    IN [i \in Ids |-> IF i \notin Actives(p) THEN p[i]
                      ELSE IF new THEN Forget(HideNew(p[i])) ELSE HideNew(p[i])]

Busy(p) == Actives(p) # {} /\ p[First(Actives(p))].data /\ p[First(Actives(p))].transitioning

Opening(x) == [x EXCEPT !.class = "collapsing", !.expanded = TRUE, !.transitioning = TRUE,
                        !.waits = OnEnd(@, "shown")]

Show(p, i) ==
    IF p[i].transitioning \/ p[i].class = "in" \/ Busy(p) THEN p
    ELSE [HideActives(p) EXCEPT ![i] = Opening(@)]

TogglePanel(p, i) == IF p[i].class = "in" THEN [p EXCEPT ![i] = Hide(@)] ELSE Show(p, i)

\* The first click on a trigger makes the panel's object.  Of an accordion that
\* looks at all the triggers of the parent (getParent).
Construct(p, i) ==
    [j \in Ids |-> IF ~p[i].data /\ (j = i \/ Accordion) THEN SayClass(p[j]) ELSE p[j]]

\* The options of a new object have it toggled.
Click(i) == panel' = [TogglePanel(Construct(panel, i), i) EXCEPT ![i] = [@ EXCEPT !.data = TRUE]]

\* The handlers run in the order they were set in: with both, what was being
\* hidden when it was forgotten is shown.
Complete(x) == [x EXCEPT !.waits = Ended(@), !.transitioning = FALSE,
                         !.class = IF "shown" \in x.waits THEN "in" ELSE "collapse"]

PanelEnds(i) == CanEnd(panel[i].waits) /\ panel' = [panel EXCEPT ![i] = Complete(@)]

NewPanel(open) == [class |-> IF open THEN "in" ELSE "collapse", data |-> FALSE,
                   transitioning |-> FALSE, expanded |-> open, waits |-> {}]

CollapseInit == \E open \in {{}} \cup {{i} : i \in Opened} :
            panel = [i \in Ids |-> NewPanel(i \in open)]

CollapseNext == \E i \in Ids : Click(i) \/ PanelEnds(i)

CollapseSpec == CollapseInit /\ [][CollapseNext]_panel

-----------------------------------------------------------------------------
CollapseTypeOK == panel \in [Ids -> Panel]

\* However clicks and the ends of transitions follow on each other, an
\* accordion has one panel open or opening at most, and no trigger says that a
\* panel is open that is neither (show, hide).  Not when the markup has a panel
\* open: it has no object to say that it closes, and two clicks then open two.
\* The trigger of a panel that is open may say that it is closed: the first
\* click on another has said so while it was opening.
OpenOrOpening(x) == x.class = "in" \/ "shown" \in x.waits
OneOpen ==
    /\ Accordion => Cardinality({i \in Ids : OpenOrOpening(panel[i])}) <= 1
    /\ \A i \in Ids : panel[i].expanded => OpenOrOpening(panel[i])
=============================================================================
