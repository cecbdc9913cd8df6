----------------------------- MODULE Transition -----------------------------
(***************************************************************************)
(* How the widgets of src/static/bootstrap/js/bootstrap.js wait for a      *)
(* transition of the style sheet.  `waits` holds the handlers that an      *)
(* element has for the end of one.  The end is an event of the browser or, *)
(* for a browser that sends none, of the timeout set with the handler; it  *)
(* is the same event, and runs every handler there is: a timeout whose     *)
(* element has seen an end since it was set does nothing.                  *)
(***************************************************************************)
EXTENDS FiniteSets

\* .one("bsTransitionEnd", h).emulateTransitionEnd(duration)
OnEnd(waits, h) == waits \cup {h}

\* The end is seen by the element the transition is of, and not by those around
\* it; each handler is for one end.
CanEnd(waits) == waits # {}
Ended(waits)  == {}
=============================================================================
