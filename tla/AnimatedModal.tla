--------------------------- MODULE AnimatedModal ---------------------------
(***************************************************************************)
(* A screen laid over the page, as the one about the site and the one with *)
(* its help (src/static/animated-modal/animatedModal.js).  A link toggles  *)
(* it; what it shows is fetched the first time; it comes and goes with an  *)
(* animation, whose end is an event of its own.                            *)
(***************************************************************************)
EXTENDS Naturals

CONSTANT MaxGets  \* bound: requests of one screen, 1 at least

Modal == [loaded    : BOOLEAN,
          opened    : BOOLEAN,
          gets      : 0..MaxGets,     \* requests for its content under way
          asked     : 0..MaxGets,     \* requests made
          content   : 0..MaxGets,     \* times the content was put into it
          on        : BOOLEAN,        \* its class is -on, not -off
          attached  : BOOLEAN,        \* it is in the page
          active    : BOOLEAN,        \* its link is
          animation : {"none", "in", "out"},
          afterClose : BOOLEAN,       \* bound to the end of an animation
          clicks    : BOOLEAN,        \* a click on it closes it
          keyup     : BOOLEAN,        \* a handler of the document waits for ESC
          dismissed : BOOLEAN]        \* closed by its user since it was last shown

NewModal ==
    [loaded |-> FALSE, opened |-> FALSE, gets |-> 0, asked |-> 0, content |-> 0, on |-> FALSE,
     attached |-> FALSE, active |-> FALSE, animation |-> "none", afterClose |-> FALSE,
     clicks |-> FALSE, keyup |-> FALSE, dismissed |-> FALSE]

-----------------------------------------------------------------------------
\* Mutant: nothing is bound to the end of the animation.
CloseUnbound(m) ==
    [m EXCEPT !.on = FALSE, !.dismissed = TRUE,
              !.animation = IF m.attached THEN "out" ELSE "none"]

\* Nothing asks whether it is open. An element out of the page has no animation.
Close(m) ==
    [m EXCEPT !.on = FALSE, !.afterClose = TRUE, !.dismissed = TRUE,
              !.animation = IF m.attached THEN "out" ELSE "none"]

\* In a narrow window a click closes it too.  To be put at the end of the page
\* starts its animation anew.
Show(m, narrow) ==
    [m EXCEPT !.active = TRUE, !.clicks = @ \/ narrow, !.attached = TRUE, !.on = TRUE,
              !.animation = "in", !.keyup = TRUE, !.dismissed = FALSE]

\* Mutant: the screen is shown while its content is on its way.
OpenEarly(m, narrow) ==
    IF m.loaded THEN Show([m EXCEPT !.opened = TRUE], narrow)
    ELSE Show([m EXCEPT !.gets = @ + 1, !.asked = @ + 1, !.opened = TRUE], narrow)

Open(m, narrow) ==
    IF m.loaded THEN Show([m EXCEPT !.opened = TRUE], narrow)
    ELSE [m EXCEPT !.gets = @ + 1, !.asked = @ + 1]

Toggle(m, narrow) == IF m.opened THEN Close(m) ELSE Open(m, narrow)

\* The element is taken out with its handlers; the class it has stays.
AfterClose(m) ==
    [m EXCEPT !.opened = FALSE, !.attached = FALSE, !.active = FALSE,
              !.afterClose = FALSE, !.clicks = FALSE, !.animation = "none"]

\* The events: each is what the screen becomes, where it can happen.
CanToggle(m) == m.opened \/ m.loaded \/ m.asked < MaxGets

Arrive(m, narrow) ==
    Show([m EXCEPT !.gets = @ - 1, !.content = @ + 1, !.loaded = TRUE, !.opened = TRUE], narrow)

Lost(m) == [m EXCEPT !.gets = @ - 1]

AnimationEnd(m) == IF m.afterClose THEN AfterClose(m) ELSE [m EXCEPT !.animation = "none"]

Escape(m) == IF m.keyup THEN Close(m) ELSE m

ClickOn(m) == [Close(m) EXCEPT !.clicks = FALSE]

-----------------------------------------------------------------------------
(* Properties.                                                             *)

\* A screen is in the page when its link is active and when toggling closes
\* it, and is never shown before it has its content (show, afterClose).  One
\* that was closed and is still there has what takes it out bound to the end of
\* an animation that it is in, whatever has arrived meanwhile.
Whole(m) ==
    /\ m.opened = m.attached /\ m.opened = m.active
    /\ m.attached => m.content > 0
    /\ m.animation = "out" => m.attached /\ m.afterClose
    /\ m.dismissed /\ m.opened => m.afterClose
    /\ m.afterClose /\ m.opened => m.animation # "none"
=============================================================================
