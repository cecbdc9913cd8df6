------------------------------- MODULE Browser -------------------------------
(***************************************************************************)
(* The pages in a browser: the page of a file with its boxes and screens,  *)
(* the visits that its tabs and windows keep in cookies, and each of the   *)
(* parts of a page with a state of their own.  They share no variable.     *)
(***************************************************************************)
EXTENDS SearchPage, Visits, Dropdowns, Widgets, Metrics

BrowserAssumption ==
    VisitsAssumption /\ DropdownsAssumption /\ WidgetsAssumption /\ MetricsAssumption

PagesSpec == Spec /\ VisitsSpec /\ MenusSpec /\ WidgetsSpec /\ MetricsSpec

\* Each part keeps its type.
TypesOK == TypeOK /\ VisitsTypeOK /\ MenusTypeOK /\ WidgetsTypeOK /\ MetricsTypeOK
=============================================================================
