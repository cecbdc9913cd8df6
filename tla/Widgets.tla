------------------------------ MODULE Widgets ------------------------------
(***************************************************************************)
(* The widgets of bootstrap.js that a page has: a carousel, panels, a      *)
(* tooltip, a modal, a scroll spy and an affix.  Each keeps a state of its *)
(* own, and acts on its own events.                                        *)
(***************************************************************************)
EXTENDS Carousel, Collapse

CONSTANTS TipOptions, MaxWaits,                   \* Tooltip
          ModalOptions,                           \* Modals
          Layouts, SpyWindow,                     \* ScrollSpy
          Heights, Window, Height, Pinned, OffsetTop, OffsetBottom  \* Affix

VARIABLES tip, modal, spy, affix

Tooltip   == INSTANCE Tooltip WITH Options <- TipOptions
Modals    == INSTANCE Modals WITH Options <- ModalOptions
ScrollSpy == INSTANCE ScrollSpy WITH Window <- SpyWindow
Affix     == INSTANCE Affix

widgets == <<carousel, panel, tip, modal, spy, affix>>

WidgetsAssumption ==
    /\ CarouselAssumption /\ CollapseAssumption /\ Modals!ModalsAssumption
    /\ ScrollSpy!SpyAssumption /\ Affix!AffixAssumption

WidgetsSpec == /\ CarouselSpec /\ CollapseSpec /\ Tooltip!Spec /\ Modals!Spec
               /\ ScrollSpy!Spec /\ Affix!Spec

-----------------------------------------------------------------------------
WidgetsTypeOK ==
    /\ CarouselTypeOK /\ CollapseTypeOK /\ Tooltip!TypeOK /\ Modals!TypeOK
    /\ ScrollSpy!TypeOK /\ Affix!TypeOK

\* Tooltip and Modals: nothing is left in the page of what is not shown.
NotLeftBehind == Tooltip!NotLeftBehind /\ Modals!NotLeftBehind

\* ScrollSpy: the link is that of the place the page is scrolled to.
SpiesRight == ScrollSpy!SpiesRight

\* Affix: the element is where it belongs, one event after the page has changed.
Belongs == Affix!Belongs
=============================================================================
