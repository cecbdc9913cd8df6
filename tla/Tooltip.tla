------------------------------ MODULE Tooltip ------------------------------
(***************************************************************************)
(* A tooltip of bootstrap.js, and a popover, which differs in what it      *)
(* says: it is shown while the pointer or the focus is on its element, or  *)
(* after a click on it, at once or after a delay, and fades in and out.    *)
(***************************************************************************)
EXTENDS Naturals, Sequences

CONSTANTS Options,   \* [triggers, delay]: what it is for, and whether it waits
          MaxWaits   \* bound: handlers for the end of a transition

VARIABLE tip

Waits == {"shown", "hidden"}
Tip   == [options    : Options,
          inState    : SUBSET {"click", "hover", "focus"},
          hoverState : {"none", "in", "out"},
          timeout    : {"none", "show", "hide"},
          in         : BOOLEAN,   \* its class
          fade       : BOOLEAN,   \* its class, from when it is first shown
          attached   : BOOLEAN,   \* it is in the page
          waits      : Seq(Waits)] \* handlers of the end of its transition

-----------------------------------------------------------------------------
Show(k) == [k EXCEPT !.attached = TRUE, !.in = TRUE, !.fade = TRUE,
                     !.waits = Append(@, "shown")]

\* One that was never shown has nothing to fade; one that is not in the page
\* keeps the class, and fades like one that is.
Hide(k) ==
    [k EXCEPT !.in = FALSE, !.hoverState = "none",
              !.waits = IF k.fade THEN Append(@, "hidden") ELSE @]

\* Called with the object itself, and not with an event, no state is recorded.
Enter(k, states) ==
    LET e == [k EXCEPT !.inState = @ \cup states]
        f == [e EXCEPT !.hoverState = "in", !.timeout = "none"]
    IN IF k.in \/ k.hoverState = "in" THEN [e EXCEPT !.hoverState = "in"]
       ELSE IF k.options.delay THEN [f EXCEPT !.timeout = "show"]
       ELSE Show(f)

Leave(k, states) ==
    LET e == [k EXCEPT !.inState = @ \ states]
        f == [e EXCEPT !.hoverState = "out", !.timeout = "none"]
    IN IF e.inState # {} THEN e
       ELSE IF k.options.delay THEN [f EXCEPT !.timeout = "hide"]
       ELSE Hide(f)

Toggle(k) ==
    LET t == [k EXCEPT !.inState = (@ \ {"click"}) \cup ({"click"} \ @)]
    IN IF t.inState # {} THEN Enter(t, {}) ELSE Leave(t, {})

\* Mutant: that it was left before it was all there is forgotten.
ShownOnly(k) == [k EXCEPT !.hoverState = "none"]

\* complete() of show: it was left meanwhile.
Shown(k) ==
    LET s == [k EXCEPT !.hoverState = "none"]
    IN IF k.hoverState = "out" THEN Leave(s, {}) ELSE s

\* complete() of hide: it is taken out unless it was entered meanwhile.
Hidden(k) == IF k.hoverState # "in" THEN [k EXCEPT !.attached = FALSE] ELSE k

Complete(k, wait) == IF wait = "shown" THEN Shown(k) ELSE Hidden(k)

-----------------------------------------------------------------------------
Roomy == Len(tip.waits) < MaxWaits

For(trigger) == trigger \in tip.options.triggers

MouseEnter == For("hover") /\ "hover" \notin tip.inState /\ Roomy /\ tip' = Enter(tip, {"hover"})
MouseLeave == "hover" \in tip.inState /\ Roomy /\ tip' = Leave(tip, {"hover"})
FocusIn    == For("focus") /\ "focus" \notin tip.inState /\ Roomy /\ tip' = Enter(tip, {"focus"})
FocusOut   == "focus" \in tip.inState /\ Roomy /\ tip' = Leave(tip, {"focus"})
Click      == For("click") /\ Roomy /\ tip' = Toggle(tip)

\* Each timeout looks at what has become of its reason.
Timeout ==
    /\ tip.timeout # "none" /\ Roomy
    /\ LET k == [tip EXCEPT !.timeout = "none"]
       IN tip' = CASE tip.timeout = "show" /\ tip.hoverState = "in"  -> Show(k)
                   [] tip.timeout = "hide" /\ tip.hoverState = "out" -> Hide(k)
                   [] OTHER -> k

\* The end of a transition runs the handlers there are, in their order.
Transitioned ==
    /\ tip.waits # <<>>
    /\ LET after[i \in 0..Len(tip.waits)] ==
               IF i = 0 THEN [tip EXCEPT !.waits = <<>>]
               ELSE Complete(after[i - 1], tip.waits[i])
       IN tip' = after[Len(tip.waits)]

Init == \E o \in Options :
    tip = [options |-> o, inState |-> {}, hoverState |-> "none", timeout |-> "none",
           in |-> FALSE, fade |-> FALSE, attached |-> FALSE, waits |-> <<>>]

Next == MouseEnter \/ MouseLeave \/ FocusIn \/ FocusOut \/ Click \/ Timeout \/ Transitioned

Spec == Init /\ [][Next]_tip

-----------------------------------------------------------------------------
TypeOK == tip \in Tip

\* However it is entered and left while it fades in or out, none is left behind:
\* a tooltip at rest with nothing on that it is for is not in the page.  (One
\* that is on may be missing: a fade that is over by then takes it out.)
NotLeftBehind ==
    tip.waits = <<>> /\ tip.timeout = "none" /\ tip.inState = {} => ~tip.in /\ ~tip.attached
=============================================================================
