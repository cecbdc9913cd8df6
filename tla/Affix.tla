------------------------------- MODULE Affix -------------------------------
(***************************************************************************)
(* The affix of bootstrap.js keeps an element in the window while the page *)
(* is scrolled: at the top of the page it is where it belongs, and it does *)
(* not go over the bottom.  Each event of scrolling goes from the state of *)
(* the one before, and from where the element was left.                    *)
(***************************************************************************)
EXTENDS Integers

CONSTANTS
    Heights,       \* what the page can have, scrollHeight
    Window,        \* the height of the window
    Height,        \* of the element
    Pinned,        \* where the class affix has it, in the window
    OffsetTop, OffsetBottom

VARIABLE affix

\* The page is long enough to have places between its top and its bottom.
AffixAssumption ==
    /\ {Window, Height, Pinned, OffsetTop, OffsetBottom} \subseteq Nat
    /\ \A h \in Heights : h \in Nat /\ h - OffsetBottom > OffsetTop + Pinned + Height

States == {"null", "top", "bottom", "false"}

Affix == [height  : Heights,
          top     : Nat,       \* scrollTop
          affixed : States,
          pinned  : Nat,       \* while it is at the bottom, where it was left
          settled : BOOLEAN]   \* the last event found the page as it is

-----------------------------------------------------------------------------
Max(h)    == IF h > Window THEN h - Window ELSE 0
Bottom(h) == h - OffsetBottom

\* position.top, of one that is not at the top of the page.
Position(s) == IF s.affixed = "bottom" THEN s.pinned ELSE s.top + Pinned

\* An element that has just been made one goes by the window.
Collides(s) ==
    IF s.affixed = "null" THEN s.top + Window >= Bottom(s.height)
    ELSE Position(s) + Height >= Bottom(s.height)

\* Mutant: one at the bottom stays there.
GetStateLoose(s) ==
    CASE s.affixed = "top"    -> IF s.top < OffsetTop THEN "top" ELSE "false"
      [] s.affixed = "bottom" -> "bottom"
      [] OTHER -> IF s.top <= OffsetTop THEN "top" ELSE IF Collides(s) THEN "bottom" ELSE "false"

\* getState: there is no way from the top to the bottom, nor back, in one event.
GetState(s) ==
    CASE s.affixed = "top"    -> IF s.top < OffsetTop THEN "top" ELSE "false"
      [] s.affixed = "bottom" -> IF s.top + Pinned <= Position(s) THEN "false" ELSE "bottom"
      [] OTHER -> IF s.top <= OffsetTop THEN "top" ELSE IF Collides(s) THEN "bottom" ELSE "false"

CheckPosition(s) ==
    LET state == GetState(s)
    IN [s EXCEPT !.affixed = state,
                 !.pinned  = IF state = "bottom" THEN Bottom(s.height) - Height ELSE 0]

-----------------------------------------------------------------------------
Scroll(top) ==
    /\ top <= Max(affix.height)
    /\ affix' = CheckPosition([affix EXCEPT !.top = top, !.settled = (top = affix.top)])

\* A click may change the page: the check follows the handlers of the click.
Click(h) ==
    LET top == IF affix.top > Max(h) THEN Max(h) ELSE affix.top
    IN affix' = CheckPosition([affix EXCEPT !.height = h, !.top = top,
                                            !.settled = (h = affix.height)])

Init == \E h \in Heights : \E top \in 0..Max(h) :
    affix = CheckPosition([height |-> h, top |-> top, affixed |-> "null", pinned |-> 0,
                           settled |-> FALSE])

Tops == 0..(CHOOSE h \in Heights : \A k \in Heights : k <= h)
Next == (\E top \in Tops : Scroll(top)) \/ (\E h \in Heights : Click(h))
Spec == Init /\ [][Next]_affix

-----------------------------------------------------------------------------
TypeOK == affix \in Affix

\* Whatever the page and its place have been, the second event that finds them
\* as they are has the element where it belongs: at its place at the top, in the
\* window further down, and above the bottom of the page.  (At just the place
\* where one begins it goes to and fro, an event after the other: getState.)
Belongs ==
    LET low == affix.top + Pinned + Height
        end == Bottom(affix.height)
    IN affix.settled =>
        /\ affix.top < OffsetTop => affix.affixed = "top"
        /\ affix.top > OffsetTop /\ low < end => affix.affixed = "false"
        /\ affix.top > OffsetTop /\ low > end => affix.affixed = "bottom"
=============================================================================
