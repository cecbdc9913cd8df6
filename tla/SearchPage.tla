----------------------------- MODULE SearchPage -----------------------------
(***************************************************************************)
(* The page that sbexr makes of a file, once it is in a browser            *)
(* (src/static/local.js): its keys, its four search boxes of which one is  *)
(* shown, the screens about the site and with its help, and the menu that  *)
(* moves to another tag.  What the boxes for symbols and files suggest is  *)
(* in Autocomplete: here their list may take a key before the page does.   *)
(***************************************************************************)
EXTENDS Naturals, Sequences, FiniteSets

CONSTANTS
    Boxes,       \* the search boxes
    Lines,       \* lines of the page, 0 when it has no #line-number
    Numbers,     \* what may be typed into the box for lines, 0 being no number
    Tags,        \* globalAllTags
    MaxGets,     \* bound: requests for one screen
    MaxPicks     \* bound: tags picked

ASSUME PageAssumption ==
    /\ {"symbol"} \subseteq Boxes /\ Boxes \subseteq {"symbol", "file", "line", "text"}
    /\ Lines \in Nat /\ Numbers \subseteq Nat
    /\ MaxPicks \in Nat /\ MaxGets \in Nat \ {0}

VARIABLES
    current, old,   \* searchHandler: _current and _old
    checked,        \* the radio button that is checked
    shown,          \* the boxes that are not hidden
    focus,          \* document.activeElement
    line,           \* the line last gone to, 0 for none
    about, help,    \* the screens
    picks,          \* the tags picked, in their order
    heads,          \* the HEAD requests under way: <<which pick, page>>
    found, refused, \* history: those that found their page, and that did not
    location,       \* what moveTo was last called for
    chosen          \* history: the box its user last chose by a radio button

boxVars  == <<current, old, checked, shown, focus, line, chosen>>
tagVars  == <<heads, picks, found, refused, location>>
vars     == <<boxVars, about, help, tagVars>>

Here  == <<"", "">>

Screen == INSTANCE AnimatedModal

-----------------------------------------------------------------------------
(* Search boxes.                                                           *)

\* Mutant: the box there was stays.
SetBoxBeside(new, focused) ==
    /\ shown' = shown \cup {new} /\ current' = new
    /\ focus' = IF focused THEN new ELSE focus

\* A box that is hidden loses the focus.
SetBox(new, focused) ==
    /\ shown' = (shown \ {current}) \cup {new}
    /\ current' = new
    /\ focus' = IF focused THEN new ELSE IF focus \in shown' \/ focus \notin Boxes THEN focus ELSE "body"

ChangeBox(new, focused) == checked' = new /\ SetBox(new, focused)

PushBox(new) ==
    /\ old' = current
    /\ ChangeBox(new, TRUE)
    /\ UNCHANGED <<line, chosen>>

\* The radio buttons of the menu: what the user picks is what is gone back to.
Radio(new) ==
    /\ ChangeBox(new, TRUE)
    /\ old' = new /\ chosen' = new
    /\ UNCHANGED <<line, about, help, tagVars>>

\* Mutant: a number past the last line is taken for one.
LineAtAny(n) == n

\* getLinePosition: past the last line is the last; there is none before the first.
LineAt(n) == IF n > Lines THEN Lines ELSE n

\* Return in a box leaves it and goes back.  In the box for lines a number that
\* has no line throws before that.
Enter(n) ==
    /\ focus \in Boxes
    /\ IF current = "line" /\ LineAt(n) = 0
       THEN UNCHANGED boxVars
       ELSE /\ checked' = old /\ shown' = (shown \ {current}) \cup {old} /\ current' = old
            /\ focus' = "body"
            /\ line' = IF current = "line" THEN LineAt(n) ELSE line
            /\ UNCHANGED <<old, chosen>>
    /\ UNCHANGED <<about, help, tagVars>>

\* A list that is open takes the key instead: it moves the page (Autocomplete).
ChooseSuggestion ==
    /\ focus \in {"symbol", "file"}
    /\ location' = <<focus, "suggestion">>
    /\ UNCHANGED <<boxVars, about, help, heads, picks, found, refused>>

FocusBox == focus # current /\ focus' = current
            /\ UNCHANGED <<current, old, checked, shown, line, chosen, about, help, tagVars>>
LeaveBox == focus # "body" /\ focus' = "body"
            /\ UNCHANGED <<current, old, checked, shown, line, chosen, about, help, tagVars>>

-----------------------------------------------------------------------------
(* Keys: they are commands while nothing that has a type has the focus.    *)

IsRelevant == focus = "body"

BoxKey ==
    /\ IsRelevant
    /\ \E new \in Boxes : (new = "line" => Lines > 0) /\ PushBox(new)
    /\ UNCHANGED <<about, help, tagVars>>

AboutKey ==
    /\ IsRelevant /\ Screen!CanToggle(about)
    /\ \E narrow \in BOOLEAN : about' = Screen!Toggle(about, narrow)
    /\ UNCHANGED <<boxVars, help, tagVars>>

HelpKey ==
    /\ IsRelevant /\ Screen!CanToggle(help)
    /\ \E narrow \in BOOLEAN : help' = Screen!Toggle(help, narrow)
    /\ UNCHANGED <<boxVars, about, tagVars>>

\* Both screens listen to the document, open or not.
EscKey ==
    /\ about.keyup \/ help.keyup
    /\ about' = Screen!Escape(about) /\ help' = Screen!Escape(help)
    /\ UNCHANGED <<boxVars, tagVars>>

-----------------------------------------------------------------------------
(* Screens.                                                                *)

\* A click on a link toggles its screen and gives the link, a button, the focus.
AboutLink ==
    /\ Screen!CanToggle(about) /\ focus' = "about"
    /\ \E narrow \in BOOLEAN : about' = Screen!Toggle(about, narrow)
    /\ UNCHANGED <<current, old, checked, shown, line, chosen, help, tagVars>>

HelpLink ==
    /\ Screen!CanToggle(help) /\ focus' = "help"
    /\ \E narrow \in BOOLEAN : help' = Screen!Toggle(help, narrow)
    /\ UNCHANGED <<current, old, checked, shown, line, chosen, about, tagVars>>

AboutLoad ==
    /\ about.gets > 0
    /\ \/ \E narrow \in BOOLEAN : about' = Screen!Arrive(about, narrow)
       \/ about' = Screen!Lost(about)
    /\ UNCHANGED <<boxVars, help, tagVars>>

HelpLoad ==
    /\ help.gets > 0
    /\ \/ \E narrow \in BOOLEAN : help' = Screen!Arrive(help, narrow)
       \/ help' = Screen!Lost(help)
    /\ UNCHANGED <<boxVars, about, tagVars>>

\* What is taken out leaves its link without the focus.
AboutAnimated ==
    /\ about.animation # "none"
    /\ about' = Screen!AnimationEnd(about)
    /\ focus' = IF about.afterClose /\ focus = "about" THEN "body" ELSE focus
    /\ UNCHANGED <<current, old, checked, shown, line, chosen, help, tagVars>>

HelpAnimated ==
    /\ help.animation # "none"
    /\ help' = Screen!AnimationEnd(help)
    /\ focus' = IF help.afterClose /\ focus = "help" THEN "body" ELSE focus
    /\ UNCHANGED <<current, old, checked, shown, line, chosen, about, tagVars>>

AboutClick ==
    /\ about.attached /\ about.clicks /\ about' = Screen!ClickOn(about)
    /\ UNCHANGED <<boxVars, help, tagVars>>

HelpClick ==
    /\ help.attached /\ help.clicks /\ help' = Screen!ClickOn(help)
    /\ UNCHANGED <<boxVars, about, tagVars>>

-----------------------------------------------------------------------------
(* The menu of tags.                                                       *)

\* The radio buttons of the menu: only one that is not checked changes.
CanPick(tag) == Len(picks) < MaxPicks /\ (picks # <<>> => picks[Len(picks)] # tag)

\* Mutant: the index is asked for right away.
PickBoth(tag) ==
    /\ CanPick(tag)
    /\ picks' = Append(picks, tag)
    /\ heads' = heads \cup {<<Len(picks'), "same">>, <<Len(picks'), "index">>}
    /\ UNCHANGED <<boxVars, about, help, found, refused, location>>

\* The same page of the tag is asked for first, whatever is asked for already.
Pick(tag) ==
    /\ CanPick(tag)
    /\ picks' = Append(picks, tag)
    /\ heads' = heads \cup {<<Len(picks'), "same">>}
    /\ UNCHANGED <<boxVars, about, help, found, refused, location>>

HeadFound(h) ==
    /\ heads' = heads \ {h} /\ found' = found \cup {h}
    /\ location' = <<picks[h[1]], h[2]>>
    /\ UNCHANGED <<boxVars, about, help, picks, refused>>

\* Its index is asked for when it has no such page.
HeadFails(h) ==
    /\ heads' = (heads \ {h}) \cup (IF h[2] = "same" THEN {<<h[1], "index">>} ELSE {})
    /\ refused' = refused \cup {h}
    /\ UNCHANGED <<boxVars, about, help, picks, found, location>>

-----------------------------------------------------------------------------
\* The about screen is asked for as the page loads, on the first access.
Init ==
    /\ current = "symbol" /\ old = "symbol" /\ checked = "symbol" /\ chosen = "symbol"
    /\ shown = {"symbol"} /\ focus = "body" /\ line = 0
    /\ about \in {Screen!NewModal, Screen!Open(Screen!NewModal, FALSE)}
    /\ help = Screen!NewModal
    /\ picks = <<>> /\ heads = {} /\ found = {} /\ refused = {} /\ location = Here

BoxStep == \/ BoxKey \/ FocusBox \/ LeaveBox \/ ChooseSuggestion
           \/ \E new \in Boxes : Radio(new)
           \/ \E n \in Numbers : Enter(n)
ScreenStep == \/ AboutKey \/ HelpKey \/ EscKey \/ AboutLink \/ HelpLink
              \/ AboutLoad \/ HelpLoad \/ AboutAnimated \/ HelpAnimated
              \/ AboutClick \/ HelpClick
TagStep == \/ \E tag \in Tags : Pick(tag)
           \/ \E h \in heads : HeadFound(h) \/ HeadFails(h)

Next == BoxStep \/ ScreenStep \/ TagStep

Spec == Init /\ [][Next]_vars

\* The browser ends the animations it has started.
FairSpec == Spec /\ WF_vars(AboutAnimated)

-----------------------------------------------------------------------------
(* Properties.                                                             *)

TypeOK ==
    /\ current \in Boxes /\ old \in Boxes /\ checked \in Boxes /\ chosen \in Boxes
    /\ shown \subseteq Boxes /\ focus \in Boxes \cup {"body", "about", "help"}
    /\ line \in 0..Lines
    /\ about \in Screen!Modal /\ help \in Screen!Modal
    /\ picks \in Seq(Tags) /\ Len(picks) <= MaxPicks
    /\ heads \cup found \cup refused \subseteq (DOMAIN picks) \X {"same", "index"}
    /\ location \in {Here} \cup (Tags \X {"same", "index"}) \cup ({"symbol", "file"} \X {"suggestion"})

\* Whatever pushes, pops and picks a box, one is shown, it is the one the menu
\* has checked, and no key is typed into a hidden one (_setBox, changeBox).
OneBox ==
    /\ shown = {current} /\ checked = current
    /\ focus \in Boxes => focus = current

\* Both screens, whatever else the page does (animatedModal).
ScreensWhole == Screen!Whole(about) /\ Screen!Whole(help)

\* Whatever is picked while answers are on their way, and in whatever order they
\* come: each pick has one request under way, or has moved the page once, or has
\* been refused its page and then the index; the index is asked for only once that
\* very pick was refused its page; and the page moves to what a pick has found
\* (tagPicker, _moveif).  Which of them is last is as the answers come.
Ends(n) == {h \in heads \cup found \cup {r \in refused : r[2] = "index"} : h[1] = n}
PicksAnswered ==
    /\ \A n \in DOMAIN picks :
         /\ \E h \in Ends(n) : Ends(n) = {h}
         /\ <<n, "index">> \in Ends(n) => <<n, "same">> \in refused
    /\ heads \cap (found \cup refused) = {} /\ found \cap refused = {}
    /\ location \in {Here} \cup ({"symbol", "file"} \X {"suggestion"})
                      \cup {<<picks[h[1]], h[2]>> : h \in found}

\* A screen that was closed goes, whatever is pressed or arrives meanwhile
\* (close, afterClose).
Goes == about.dismissed ~> ~about.opened
=============================================================================
