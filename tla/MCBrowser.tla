----------------------------- MODULE MCBrowser -----------------------------
(* The parts of Browser.  A behaviour is of one of them; the others stay in *)
(* one of their first states.                                               *)
EXTENDS Browser

VARIABLE part

all == <<vars, part, visitsVars, d, widgets, page>>

ASSUME BrowserAssumption

\* Two menus, one of them with two inside.
MenuTree == [m \in {"search", "tags", "sub1", "sub2"} |->
                IF m \in {"sub1", "sub2"} THEN "tags" ELSE Nowhere]

ThreePanels == <<"p1", "p2", "p3">>

SomeTips == {[triggers |-> {"hover", "focus"}, delay |-> TRUE],
             [triggers |-> {"hover", "focus"}, delay |-> FALSE],
             [triggers |-> {"click"}, delay |-> FALSE]}

AllModals == [static : BOOLEAN, keyboard : BOOLEAN, fade : BOOLEAN, long : BOOLEAN]

SomeLayouts == {[offsets |-> <<1, 3>>, height |-> 6], [offsets |-> <<2, 3>>, height |-> 7],
                [offsets |-> <<1, 1>>, height |-> 4], [offsets |-> <<0, 2>>, height |-> 4]}

P(t, v, l)  == [time |-> t, value |-> v, label |-> l]
SomeAnswers == [m \in {"a", "b"} |->
    IF m = "a" THEN {<<P(1, 9, {"k"}), P(2, 0, {"k", "f"}), P(4, 9, {"f"})>>,
                     <<P(2, 9, {"f"}), P(1, 9, {})>>}
    ELSE {<<P(2, 9, {"k"})>>, <<>>}]
TwoPlaces   == {[x |-> 1, y |-> 0], [x |-> 3, y |-> 4]}

SiteIdle ==
    /\ current = "symbol" /\ old = "symbol" /\ checked = "symbol" /\ chosen = "symbol"
    /\ shown = {"symbol"} /\ focus = "body" /\ line = 0
    /\ about = Screen!NewModal /\ help = Screen!NewModal
    /\ picks = <<>> /\ heads = {} /\ found = {} /\ refused = {} /\ location = Here

BrowserInit ==
    /\ part \in {"boxes", "screens", "tags", "visits", "menus", "carousel", "collapse", "tooltip", "scrollspy",
                 "modal", "affix", "metrics"}
    /\ IF part \in {"boxes", "screens"} THEN Init ELSE SiteIdle
    /\ VisitsInit /\ (part = "visits" \/ published = 0)
    /\ MenusInit /\ (part = "menus" \/ d.label = "file")
    /\ CarouselInit /\ CollapseInit /\ MetricsInit
    /\ Tooltip!Init /\ (part = "tooltip" \/ tip.options = CHOOSE o \in TipOptions : TRUE)
    /\ Modals!Init /\ (part = "modal" \/ modal.options = CHOOSE o \in ModalOptions : TRUE)
    /\ ScrollSpy!Init /\ (part = "scrollspy" \/ spy.layout = CHOOSE l \in Layouts : TRUE)
    /\ Affix!Init /\ (part = "affix" \/ <<affix.top, affix.height>> = <<0, CHOOSE h \in Heights : TRUE>>)

others == <<part, visitsVars, d, page>>

\* The page of a file in three parts: its boxes with one of the screens, the two
\* screens with one box, and its boxes with the menu of tags.
AboutStep == AboutKey \/ EscKey \/ AboutLink \/ AboutLoad \/ AboutAnimated \/ AboutClick
SiteNext ==
    \/ part = "boxes" /\ (BoxStep \/ AboutStep)
    \/ part = "screens" /\ (ScreenStep \/ FocusBox \/ LeaveBox)
    \/ part = "tags" /\ (BoxStep \/ TagStep)

BrowserNext ==
    \/ SiteNext /\ UNCHANGED <<others, widgets>>
    \/ part = "visits" /\ VisitsNext /\ UNCHANGED <<part, vars, d, page, widgets>>
    \/ part = "menus" /\ MenusNext /\ UNCHANGED <<part, vars, visitsVars, page, widgets>>
    \/ part = "metrics" /\ MetricsNext /\ UNCHANGED <<part, vars, visitsVars, d, widgets>>
    \/ /\ UNCHANGED <<vars, others>>
       /\ \/ part = "carousel" /\ CarouselNext /\ UNCHANGED <<panel, tip, modal, spy, affix>>
          \/ part = "collapse" /\ CollapseNext /\ UNCHANGED <<carousel, tip, modal, spy, affix>>
          \/ part = "tooltip" /\ Tooltip!Next /\ UNCHANGED <<carousel, panel, modal, spy, affix>>
          \/ part = "modal" /\ Modals!Next /\ UNCHANGED <<carousel, panel, tip, spy, affix>>
          \/ part = "scrollspy" /\ ScrollSpy!Next /\ UNCHANGED <<carousel, panel, tip, modal, affix>>
          \/ part = "affix" /\ Affix!Next /\ UNCHANGED <<carousel, panel, tip, modal, spy>>

\* The browser ends the animations it has started, as in FairSpec.
BrowserSpec ==
    BrowserInit /\ [][BrowserNext]_all
    /\ WF_all(part \in {"boxes", "screens"} /\ AboutAnimated /\ UNCHANGED <<others, widgets>>)
=============================================================================
