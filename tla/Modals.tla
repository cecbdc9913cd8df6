------------------------------- MODULE Modals -------------------------------
(***************************************************************************)
(* A modal of bootstrap.js, over its backdrop, which keeps the pointer     *)
(* from the page.  It is shown once the backdrop is, and the backdrop goes *)
(* once it is hidden.  Left out are a modal that has no backdrop, and a    *)
(* trigger that the keyboard presses again while the backdrop fades: both  *)
(* can show it anew before it has gone.                                    *)
(***************************************************************************)
EXTENDS Naturals, Transition

CONSTANT Options  \* [static, keyboard, fade], and long: the page has a scroll bar

VARIABLE modal

ModalsAssumption == \A o \in Options : {o.static, o.keyboard, o.fade, o.long} \subseteq BOOLEAN

Modal == [options    : Options,
          isShown    : BOOLEAN,
          displayed  : BOOLEAN,
          open       : BOOLEAN,   \* the class of the body, which does not scroll
          padding    : {"own", "wider"},   \* of the body, in the place of its scroll bar
          original   : {"own", "wider"},   \* originalBodyPad
          enforced   : BOOLEAN,   \* the document's handler, that gives it the focus
          clicks     : BOOLEAN,   \* click.dismiss
          keys       : BOOLEAN,   \* keydown.dismiss
          ignore     : BOOLEAN,   \* ignoreBackdropClick
          backdrops  : Nat,       \* in the page
          backdrop   : BOOLEAN,   \* it has one of them
          onBackdrop : SUBSET {"shown", "hidden", "remove"},  \* what waits for the end of
          onElement  : SUBSET {"hidden"},                     \* a transition of each
          onDialog   : SUBSET {"shown"},
          focus      : {"trigger", "modal", "page"}]

-----------------------------------------------------------------------------
\* The callbacks of the backdrop.
ShowElement(k) ==
    LET e == [k EXCEPT !.displayed = TRUE, !.enforced = TRUE]
    IN IF k.options.fade THEN [e EXCEPT !.onDialog = OnEnd(@, "shown")]
       ELSE [e EXCEPT !.focus = "modal"]

SetScrollbar(k) == [k EXCEPT !.original = k.padding,
                             !.padding  = IF k.options.long THEN "wider" ELSE @]
ResetScrollbar(k) == [k EXCEPT !.padding = k.original]

\* hidden.bs.modal: the trigger that showed it gets the focus.
Hidden(k) == [ResetScrollbar(k) EXCEPT !.open = FALSE, !.focus = "trigger"]

Call(k, callback) == IF callback = "shown" THEN ShowElement(k) ELSE Hidden(k)

RemoveBackdrop(k) ==
    [k EXCEPT !.backdrops = IF k.backdrop THEN @ - 1 ELSE @, !.backdrop = FALSE]

Backdrop(k, callback) ==
    LET added == [k EXCEPT !.backdrops = @ + 1, !.backdrop = TRUE, !.clicks = TRUE]
    IN CASE k.isShown /\ k.options.fade  -> [added EXCEPT !.onBackdrop = OnEnd(@, callback)]
         [] k.isShown /\ ~k.options.fade -> Call(added, callback)
         [] ~k.isShown /\ k.backdrop /\ k.options.fade ->
                [k EXCEPT !.onBackdrop = OnEnd(@, "remove")]
         [] ~k.isShown /\ k.backdrop /\ ~k.options.fade -> Call(RemoveBackdrop(k), callback)
         [] ~k.isShown /\ ~k.backdrop -> Call(k, callback)

Show(k) ==
    IF k.isShown THEN k
    ELSE Backdrop([SetScrollbar(k) EXCEPT !.isShown = TRUE, !.open = TRUE, !.clicks = TRUE,
                                          !.keys = k.options.keyboard], "shown")

\* The browser takes the focus from what is not displayed.
HideModal(k) ==
    Backdrop([k EXCEPT !.displayed = FALSE, !.focus = IF @ = "modal" THEN "page" ELSE @], "hidden")

Hide(k) ==
    IF ~k.isShown THEN k
    ELSE LET h == [k EXCEPT !.isShown = FALSE, !.keys = FALSE, !.enforced = FALSE, !.clicks = FALSE]
         IN IF k.options.fade THEN [h EXCEPT !.onElement = OnEnd(@, "hidden")] ELSE HideModal(h)

Toggle(k) == IF k.isShown THEN Hide(k) ELSE Show(k)

-----------------------------------------------------------------------------
\* The pointer reaches the trigger when neither of the two is over it.
Trigger == modal.backdrops = 0 /\ ~modal.displayed /\ modal' = Toggle([modal EXCEPT !.focus = "trigger"])

Escape  == modal.displayed /\ modal.keys /\ modal.focus = "modal" /\ modal' = Hide(modal)
Dismiss == modal.displayed /\ modal.clicks /\ modal' = Hide(modal)

ClickInside == modal.displayed /\ modal.focus # "modal" /\ modal' = [modal EXCEPT !.focus = "modal"]

\* Beside the dialog, over the backdrop.
ClickBeside ==
    /\ modal.displayed /\ modal.clicks
    /\ modal' = CASE modal.ignore -> [modal EXCEPT !.ignore = FALSE]
                  [] ~modal.ignore /\ modal.options.static -> [modal EXCEPT !.focus = "modal"]
                  [] OTHER -> Hide(modal)

\* The button goes down in the dialog and up beside it.  Whether that is a
\* click on what has both differs between browsers.
DragOut ==
    /\ modal.displayed /\ modal.isShown
    /\ \E click \in BOOLEAN : modal' = [modal EXCEPT !.ignore = ~click]

\* What gets the focus out of the modal gives it back.
TabOut == modal.focus = "modal" /\ ~modal.enforced /\ modal' = [modal EXCEPT !.focus = "page"]

BackdropEnd ==
    /\ CanEnd(modal.onBackdrop)
    /\ \E w \in modal.onBackdrop :
        LET k == [modal EXCEPT !.onBackdrop = Ended(@)]
        IN modal' = IF w = "remove" THEN Hidden(RemoveBackdrop(k)) ELSE Call(k, w)

ElementEnd ==
    /\ CanEnd(modal.onElement)
    /\ modal' = HideModal([modal EXCEPT !.onElement = Ended(@)])

\* What is not displayed gets no focus.
DialogEnd ==
    /\ CanEnd(modal.onDialog)
    /\ modal' = [modal EXCEPT !.onDialog = Ended(@),
                              !.focus = IF modal.displayed THEN "modal" ELSE @]

Init == \E o \in Options :
    modal = [options |-> o, isShown |-> FALSE, displayed |-> FALSE, open |-> FALSE,
             padding |-> "own", original |-> "own", enforced |-> FALSE, clicks |-> FALSE,
             keys |-> FALSE, ignore |-> FALSE, backdrops |-> 0, backdrop |-> FALSE,
             onBackdrop |-> {}, onElement |-> {}, onDialog |-> {}, focus |-> "page"]

Next ==
    \/ Trigger \/ Escape \/ Dismiss \/ ClickInside \/ ClickBeside \/ DragOut \/ TabOut
    \/ BackdropEnd \/ ElementEnd \/ DialogEnd

Spec == Init /\ [][Next]_modal

-----------------------------------------------------------------------------
TypeOK == modal \in Modal

\* However it is shown and dismissed while it and its backdrop fade, what it
\* adds to the page goes with it: at rest the backdrop, the class that keeps the
\* page from scrolling, the padding for its scroll bar and the handler that takes
\* the focus are there exactly when it is, and it is displayed when it says it
\* is shown (show, hide, backdrop).
NotLeftBehind ==
    modal.onBackdrop = {} /\ modal.onElement = {} =>
        /\ modal.displayed = modal.isShown
        /\ modal.open = modal.isShown
        /\ modal.enforced = modal.isShown
        /\ modal.padding = (IF modal.isShown /\ modal.options.long THEN "wider" ELSE "own")
        /\ modal.backdrops = IF modal.isShown THEN 1 ELSE 0
=============================================================================
