----------------------------- MODULE Dropdowns -----------------------------
(***************************************************************************)
(* The menus of the navigation bar, as                                     *)
(* src/static/bootstrap/js/dropdowns-enhancement.js makes them: it takes   *)
(* the place of the dropdowns of bootstrap.js, adds menus within menus,    *)
(* and shows on its button which of its radio buttons is checked.          *)
(***************************************************************************)
EXTENDS Integers, FiniteSets

CONSTANTS
    Menus,
    ParentOf,   \* ParentOf[m]: the menu that m is in, or Nowhere
    Nowhere,
    Entries,    \* entries of a menu that can have the focus
    Radios      \* radio buttons of a menu

VARIABLE d

Dropdowns == [open    : SUBSET Menus,
              opened  : Menus \cup {Nowhere}, \* the one at the root of what is open
              item    : -1..(Entries - 1),    \* the entry with the focus
              checked : Radios,
              label   : Radios]               \* what the button says

\* The menus are two deep, no further than Tree goes; a menu has an entry.
DropdownsAssumption ==
    /\ Nowhere \notin Menus /\ ParentOf \in [Menus -> Menus \cup {Nowhere}]
    /\ \A m \in Menus : ParentOf[m] # Nowhere => ParentOf[ParentOf[m]] = Nowhere
    /\ Entries \in Nat \ {0}

-----------------------------------------------------------------------------
IsSubMenu(m) == ParentOf[m] # Nowhere
Root(m)      == IF IsSubMenu(m) THEN ParentOf[m] ELSE m

\* getSubMenuParents: the menus to open for m to be.
Tree(m)      == {Root(m), m}
Within(m)    == {n \in Menus : n = m \/ ParentOf[n] = m}
Inside(m)    == Within(m) \ {m}

\* What was opened goes with all that is in it.
CloseAll(k) == IF k.opened = Nowhere THEN k
               ELSE [k EXCEPT !.open = @ \ Within(k.opened), !.opened = Nowhere, !.item = -1]

\* Mutant: a menu within a menu is closed for itself only.
CloseForOne(k, m) ==
    IF k.opened # Nowhere /\ IsSubMenu(m) THEN [k EXCEPT !.open = @ \ {m}, !.item = -1]
    ELSE CloseAll(k)

\* closeOpened for a menu that is toggled: beside it, if it is in the menu that
\* is open, close the others that are in there.
CloseFor(k, m) ==
    IF k.opened # Nowhere /\ IsSubMenu(m) /\ k.opened = Root(m)
    THEN [k EXCEPT !.open = @ \ Inside(Root(m)), !.item = -1]
    ELSE CloseAll(k)

ToggleMenu(k, m) ==
    IF m \in k.open THEN CloseFor(k, m)
    ELSE [CloseFor(k, m) EXCEPT !.open = @ \cup Tree(m), !.opened = Root(m)]

Moved(index, key) ==
    CASE key = "up" /\ index > 0           -> index - 1
      [] key = "down" /\ index < Entries - 1 -> index + 1
      [] key = "up" /\ index = -1          -> 0
      [] OTHER                             -> index

\* A menu can be used where it is seen.
Seen(m) == IsSubMenu(m) => ParentOf[m] \in d.open

Toggle(m) == Seen(m) /\ d' = ToggleMenu(d, m)

\* Any of these keys opens a menu that is closed, ESC as well.
Keydown(m, key) ==
    /\ Seen(m)
    /\ d' = IF m \notin d.open \/ key = "esc" THEN ToggleMenu(d, m)
            ELSE [d EXCEPT !.item = Moved(@, key)]

ClickAway == d' = CloseAll(d)

Change(k, v) == [k EXCEPT !.checked = v, !.label = v]

\* The click on a radio button goes on to the document.
PickChoice(v) == d.open # {} /\ d' = CloseAll(Change(d, v))

\* The keys of the page check a radio button without a click.
PushChoice(v) == d' = Change(d, v)

MenusInit == \E v \in Radios :
    d = [open |-> {}, opened |-> Nowhere, item |-> -1, checked |-> v, label |-> v]

MenusNext ==
    \/ ClickAway
    \/ \E m \in Menus : Toggle(m) \/ \E key \in {"up", "down", "esc"} : Keydown(m, key)
    \/ \E v \in Radios : PickChoice(v) \/ PushChoice(v)

MenusSpec == MenusInit /\ [][MenusNext]_d

-----------------------------------------------------------------------------
MenusTypeOK == d \in Dropdowns

\* Whatever menus and keys are used, what is open is one branch of the menus,
\* from the root the next click closes, and the focus is in it (toggle,
\* closeOpened, keydown).
OneBranch ==
    /\ d.opened = Nowhere <=> d.open = {}
    /\ \A m \in d.open : Root(m) = d.opened /\ Root(m) \in d.open
    /\ Cardinality({m \in d.open : IsSubMenu(m)}) <= 1
    /\ d.item >= 0 => d.open # {}
=============================================================================
