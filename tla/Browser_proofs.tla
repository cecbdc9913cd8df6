--------------------------- MODULE Browser_proofs ---------------------------
(***************************************************************************)
(* What the pages keep to in a browser, for all boxes, lines and tags, any *)
(* number of tabs, windows and news, and any menus.  The three parts of    *)
(* the search page, its boxes, its screens and its menu of tags, share     *)
(* only the focus, so that each has an invariant of its own; the visits    *)
(* and the menus share nothing.                                            *)
(***************************************************************************)
EXTENDS Browser, Metrics_proofs

-----------------------------------------------------------------------------
(* Boxes.                                                                  *)

Foci == Boxes \cup {"body", "about", "help"}

\* The inductive invariant of the boxes: what is gone back to is a box, and
\* a number that was gone to is a line.
BoxInv ==
    /\ OneBox
    /\ current \in Boxes /\ old \in Boxes /\ chosen \in Boxes
    /\ focus \in Foci /\ line \in 0..Lines

\* The focus is on what is no box, or on the one that is shown.
LEMMA SetBoxOne ==
    ASSUME BoxInv, NEW new \in Boxes, NEW focused \in BOOLEAN, ChangeBox(new, focused)
    PROVE  /\ shown' = {current'} /\ checked' = current' /\ current' = new
           /\ focus' \in Foci /\ (focus' \in Boxes => focus' = new)
<1>1. shown' = {new} /\ current' = new /\ checked' = new
  BY DEF ChangeBox, SetBox, BoxInv, OneBox
<1>2. CASE focused
  BY <1>1, <1>2 DEF ChangeBox, SetBox, Foci
<1>3. CASE ~focused
  BY <1>1, <1>3, PageAssumption DEF ChangeBox, SetBox, BoxInv, Foci
<1> QED
  BY <1>1, <1>2, <1>3

LEMMA LineAtLine == ASSUME NEW n \in Numbers PROVE LineAt(n) \in 0..Lines
BY PageAssumption DEF LineAt

LEMMA BoxInit == Init => BoxInv
BY PageAssumption DEF Init, BoxInv, OneBox, Foci

LEMMA BoxNext == ASSUME BoxInv, [Next]_vars PROVE BoxInv'
<1> USE DEF boxVars, tagVars
<1>0. "body" \notin Boxes /\ "about" \notin Boxes /\ "help" \notin Boxes
  BY PageAssumption
<1>1. ASSUME NEW new \in Boxes, PushBox(new) PROVE BoxInv'
  BY <1>1, SetBoxOne DEF PushBox, BoxInv, OneBox
<1>2. ASSUME NEW new \in Boxes, Radio(new) PROVE BoxInv'
  BY <1>2, SetBoxOne DEF Radio, BoxInv, OneBox
<1>3. ASSUME NEW n \in Numbers, Enter(n) PROVE BoxInv'
  <2>1. CASE UNCHANGED boxVars
    BY <2>1 DEF BoxInv, OneBox
  <2>2. CASE ~UNCHANGED boxVars
    <3>1. /\ checked' = old /\ shown' = (shown \ {current}) \cup {old} /\ current' = old
          /\ focus' = "body" /\ line' \in {LineAt(n), line} /\ UNCHANGED <<old, chosen>>
      BY <1>3, <2>2 DEF Enter
    <3> QED
      BY <1>0, <3>1, LineAtLine DEF BoxInv, OneBox, Foci
  <2> QED
    BY <2>1, <2>2
<1>4. CASE FocusBox \/ LeaveBox
  BY <1>0, <1>4 DEF FocusBox, LeaveBox, BoxInv, OneBox, Foci
<1>5. CASE AboutLink \/ HelpLink
  BY <1>0, <1>5 DEF AboutLink, HelpLink, BoxInv, OneBox, Foci
<1>6. CASE AboutAnimated \/ HelpAnimated
  BY <1>0, <1>6 DEF AboutAnimated, HelpAnimated, BoxInv, OneBox, Foci
<1>7. CASE UNCHANGED boxVars
  BY <1>7 DEF BoxInv, OneBox
<1>8. CASE BoxStep
  BY <1>1, <1>2, <1>3, <1>4, <1>7, <1>8 DEF BoxStep, BoxKey, ChooseSuggestion
<1>9. CASE ScreenStep
  BY <1>5, <1>6, <1>7, <1>9
     DEF ScreenStep, AboutKey, HelpKey, EscKey, AboutLoad, HelpLoad, AboutClick, HelpClick
<1>10. CASE TagStep
  BY <1>7, <1>10 DEF TagStep, Pick, HeadFound, HeadFails
<1> QED
  BY <1>7, <1>8, <1>9, <1>10 DEF Next, vars

LEMMA BoxAlways == Spec => []BoxInv
<1> QED
  BY BoxInit, BoxNext, PTL DEF Spec

\* Whatever pushes, pops and picks, one box is shown, the menu says so, and
\* no key is typed into another.
THEOREM OneBoxShown == Spec => []OneBox
<1>1. BoxInv => OneBox
  BY DEF BoxInv
<1> QED
  BY <1>1, BoxAlways, PTL

-----------------------------------------------------------------------------
(* Screens.                                                                *)

\* The inductive invariant of a screen: what is loaded has content, every
\* content was asked for, and a request under way is yet to bring its own.
ScreenInv(m) ==
    /\ m \in Screen!Modal /\ Screen!Whole(m)
    /\ m.loaded => m.content > 0
    /\ m.opened => m.loaded
    /\ m.gets + m.content <= m.asked

LEMMA CloseInv == ASSUME NEW m, ScreenInv(m) PROVE ScreenInv(Screen!Close(m))
BY DEF ScreenInv, Screen!Modal, Screen!Whole, Screen!Close

LEMMA ToggleInv ==
    ASSUME NEW m, ScreenInv(m), NEW narrow \in BOOLEAN, Screen!CanToggle(m)
    PROVE  ScreenInv(Screen!Toggle(m, narrow))
<1>1. CASE m.opened
  BY <1>1, CloseInv DEF Screen!Toggle
<1>2. CASE ~m.opened /\ m.loaded
  BY <1>2, ZenonT(30) DEF Screen!Toggle, Screen!Open, Screen!Show, ScreenInv, Screen!Modal, Screen!Whole
<1>3. CASE ~m.opened /\ ~m.loaded
  <2> DEFINE g == m.gets + 1
             a == m.asked + 1
  <2>1. /\ m.gets \in Nat /\ m.content \in Nat /\ m.asked \in Nat /\ m.asked < MaxGets
        /\ m.gets + m.content <= m.asked
    BY <1>3, PageAssumption DEF ScreenInv, Screen!Modal, Screen!CanToggle
  <2>2. g \in 0..MaxGets /\ a \in 0..MaxGets /\ g + m.content <= a
    BY <2>1, PageAssumption
  <2>3. Screen!Toggle(m, narrow) = [m EXCEPT !.gets = g, !.asked = a]
    BY <1>3 DEF Screen!Toggle, Screen!Open
  <2> HIDE DEF g, a
  <2> QED
    BY <2>2, <2>3 DEF ScreenInv, Screen!Modal, Screen!Whole
<1> QED
  BY <1>1, <1>2, <1>3

LEMMA NewModalInv == ScreenInv(Screen!NewModal) /\ ScreenInv(Screen!Open(Screen!NewModal, FALSE))
<1>1. 0 \in 0..MaxGets /\ 1 \in 0..MaxGets
  BY PageAssumption
<1>2. ScreenInv(Screen!NewModal)
  BY <1>1 DEF ScreenInv, Screen!Modal, Screen!Whole, Screen!NewModal
<1>3. ~Screen!NewModal.opened /\ ~Screen!NewModal.loaded /\ Screen!CanToggle(Screen!NewModal)
  BY PageAssumption DEF Screen!NewModal, Screen!CanToggle
<1>4. ScreenInv(Screen!Toggle(Screen!NewModal, FALSE))
  BY <1>2, <1>3, ToggleInv
<1> QED
  BY <1>2, <1>3, <1>4 DEF Screen!Toggle

LEMMA ArriveInv ==
    ASSUME NEW m, ScreenInv(m), m.gets > 0, NEW narrow \in BOOLEAN
    PROVE  ScreenInv(Screen!Arrive(m, narrow)) /\ ScreenInv(Screen!Lost(m))
<1> DEFINE g == m.gets - 1
           c == m.content + 1
           loaded == [m EXCEPT !.gets = g, !.content = c, !.loaded = TRUE, !.opened = TRUE]
<1>1. /\ m.gets \in Nat /\ m.content \in Nat /\ m.asked \in Nat /\ m.asked <= MaxGets
      /\ m.gets + m.content <= m.asked
  BY PageAssumption DEF ScreenInv, Screen!Modal
<1>2. /\ g \in 0..MaxGets /\ c \in 0..MaxGets /\ c > 0
      /\ g + c <= m.asked /\ g + m.content <= m.asked
  BY <1>1, PageAssumption
<1>3. Screen!Lost(m) = [m EXCEPT !.gets = g]
  BY DEF Screen!Lost
<1>4. Screen!Arrive(m, narrow) = Screen!Show(loaded, narrow)
  BY DEF Screen!Arrive
<1> HIDE DEF g, c
<1>5. ScreenInv([m EXCEPT !.gets = g])
  BY <1>2 DEF ScreenInv, Screen!Modal, Screen!Whole
<1>6. /\ loaded \in Screen!Modal /\ loaded.content > 0
      /\ loaded.loaded = TRUE /\ loaded.opened = TRUE /\ loaded.gets + loaded.content <= loaded.asked
  BY <1>2 DEF ScreenInv, Screen!Modal
<1> HIDE DEF loaded
<1>7. ScreenInv(Screen!Show(loaded, narrow))
  <2> DEFINE n == Screen!Show(loaded, narrow)
             clicks == loaded.clicks \/ narrow
  <2>1. clicks \in BOOLEAN
    OBVIOUS
  <2>2. n \in Screen!Modal
    <3>1. n = [loaded EXCEPT !.active = TRUE, !.clicks = clicks, !.attached = TRUE, !.on = TRUE,
                             !.animation = "in", !.keyup = TRUE, !.dismissed = FALSE]
      BY DEF Screen!Show
    <3> HIDE DEF clicks, n
    <3> QED
      BY <1>6, <2>1, <3>1, ZenonT(30) DEF Screen!Modal
  <2>3. /\ n.content = loaded.content /\ n.gets = loaded.gets /\ n.asked = loaded.asked
        /\ n.loaded = TRUE /\ n.opened = TRUE /\ n.attached = TRUE /\ n.active = TRUE
        /\ n.animation = "in" /\ n.dismissed = FALSE
    BY <1>6 DEF Screen!Modal, Screen!Show
  <2> HIDE DEF n
  <2>4. ScreenInv(n)
    BY <1>6, <2>2, <2>3 DEF ScreenInv, Screen!Whole
  <2> QED
    BY <2>4 DEF n
<1> QED
  BY <1>3, <1>4, <1>5, <1>7

LEMMA AnimationEndInv == ASSUME NEW m, ScreenInv(m) PROVE ScreenInv(Screen!AnimationEnd(m))
<1>1. CASE m.afterClose
  <2>1. Screen!AnimationEnd(m) = Screen!AfterClose(m)
    BY <1>1 DEF Screen!AnimationEnd
  <2>2. ScreenInv(Screen!AfterClose(m))
    BY DEF ScreenInv, Screen!Modal, Screen!Whole, Screen!AfterClose
  <2> QED
    BY <2>1, <2>2
<1>2. CASE ~m.afterClose
  <2>1. Screen!AnimationEnd(m) = [m EXCEPT !.animation = "none"]
    BY <1>2 DEF Screen!AnimationEnd
  <2>2. ScreenInv([m EXCEPT !.animation = "none"])
    BY <1>2 DEF ScreenInv, Screen!Modal, Screen!Whole
  <2> QED
    BY <2>1, <2>2
<1> QED
  BY <1>1, <1>2

LEMMA EscapeInv == ASSUME NEW m, ScreenInv(m) PROVE ScreenInv(Screen!Escape(m))
BY CloseInv DEF Screen!Escape

LEMMA ClickOnInv == ASSUME NEW m, ScreenInv(m) PROVE ScreenInv(Screen!ClickOn(m))
<1>1. ScreenInv(Screen!Close(m))
  BY CloseInv
<1> QED
  BY <1>1 DEF Screen!ClickOn, ScreenInv, Screen!Modal, Screen!Whole

ScreensInv == ScreenInv(about) /\ ScreenInv(help)

LEMMA ScreensInit == Init => ScreensInv
BY NewModalInv DEF Init, ScreensInv

LEMMA ScreensNext == ASSUME ScreensInv, [Next]_vars PROVE ScreensInv'
<1>1. UNCHANGED <<about, help>> => ScreensInv'
  BY DEF ScreensInv
<1>2. CASE AboutKey \/ AboutLink
  BY <1>2, ToggleInv DEF AboutKey, AboutLink, ScreensInv
<1>3. CASE HelpKey \/ HelpLink
  BY <1>3, ToggleInv DEF HelpKey, HelpLink, ScreensInv
<1>4. CASE EscKey
  BY <1>4, EscapeInv DEF EscKey, ScreensInv
<1>5. CASE AboutLoad
  BY <1>5, ArriveInv DEF AboutLoad, ScreensInv
<1>6. CASE HelpLoad
  BY <1>6, ArriveInv DEF HelpLoad, ScreensInv
<1>7. CASE AboutAnimated \/ HelpAnimated
  BY <1>7, AnimationEndInv DEF AboutAnimated, HelpAnimated, ScreensInv
<1>8. CASE AboutClick \/ HelpClick
  BY <1>8, ClickOnInv DEF AboutClick, HelpClick, ScreensInv
<1>9. CASE BoxStep
  BY <1>1, <1>9 DEF BoxStep, BoxKey, PushBox, FocusBox, LeaveBox, ChooseSuggestion, Radio, Enter
<1>10. CASE TagStep
  BY <1>1, <1>10 DEF TagStep, Pick, HeadFound, HeadFails
<1> QED
  BY <1>1, <1>2, <1>3, <1>4, <1>5, <1>6, <1>7, <1>8, <1>9, <1>10 DEF Next, ScreenStep, vars

LEMMA ScreensAlways == Spec => []ScreensInv
BY ScreensInit, ScreensNext, PTL DEF Spec

\* A screen is in the page when its link is active and toggling closes it,
\* and it never comes before its content, in whatever order keys, clicks,
\* animations and answers come.
THEOREM ScreensAreWhole == Spec => []ScreensWhole
<1>1. ScreensInv => ScreensWhole
  BY DEF ScreensInv, ScreenInv, ScreensWhole
<1> QED
  BY <1>1, ScreensAlways, PTL

-----------------------------------------------------------------------------
(* The menu of tags.                                                       *)

MovedTo == {Here} \cup ({"symbol", "file"} \X {"suggestion"}) \cup {<<picks[h[1]], h[2]>> : h \in found}

TagTyped ==
    /\ picks \in Seq(Tags) /\ Len(picks) <= MaxPicks
    /\ heads \cup found \cup refused \subseteq (DOMAIN picks) \X {"same", "index"}

\* The pick asks, or has asked, for one of the two pages, and for the index once
\* it was refused the other.
PickRight(n) ==
    /\ <<n, "same">> \in heads \cup found <=> ~(<<n, "index">> \in heads \cup found \cup refused)
    /\ <<n, "index">> \in heads \cup found \cup refused => <<n, "same">> \in refused

\* The inductive invariant of the menu.
TagInv ==
    /\ TagTyped
    /\ \A n \in DOMAIN picks : PickRight(n)
    /\ heads \cap (found \cup refused) = {} /\ found \cap refused = {}
    /\ location \in MovedTo

LEMMA TagAnswered == TagInv => PicksAnswered
<1> SUFFICES ASSUME TagInv PROVE PicksAnswered
  OBVIOUS
<1>1. ASSUME NEW n \in DOMAIN picks
      PROVE  /\ \E h \in Ends(n) : Ends(n) = {h}
             /\ <<n, "index">> \in Ends(n) => <<n, "same">> \in refused
  <2> DEFINE s == <<n, "same">>
             i == <<n, "index">>
  <2>1. /\ s \in heads \cup found <=> ~(i \in heads \cup found \cup refused)
        /\ i \in heads \cup found \cup refused => s \in refused
    BY DEF TagInv, PickRight
  <2>2. \A h \in heads \cup found \cup refused : h[1] = n => h = s \/ h = i
    BY DEF TagInv, TagTyped
  <2>3. s[1] = n /\ i[1] = n /\ s[2] # "index" /\ i[2] = "index" /\ s # i
    OBVIOUS
  <2> HIDE DEF s, i
  <2>4. \A h : h \in Ends(n) <=> (h = s /\ s \in heads \cup found)
                                 \/ (h = i /\ i \in heads \cup found \cup refused)
    BY <2>2, <2>3 DEF Ends
  <2>5. CASE s \in heads \cup found
    <3>1. Ends(n) = {s}
      BY <2>1, <2>4, <2>5
    <3> QED
      BY <2>3, <3>1 DEF i, s
  <2>6. CASE s \notin heads \cup found
    <3>1. Ends(n) = {i} /\ s \in refused
      BY <2>1, <2>4, <2>6
    <3> QED
      BY <3>1 DEF s
  <2> QED
    BY <2>5, <2>6
<1>2. /\ heads \cap (found \cup refused) = {} /\ found \cap refused = {}
      /\ location \in MovedTo
  BY DEF TagInv
<1> QED
  BY <1>1, <1>2 DEF PicksAnswered, MovedTo

LEMMA TagInit == Init => TagInv
<1>1. <<>> \in Seq(Tags) /\ Len(<<>>) = 0 /\ DOMAIN <<>> = {}
  OBVIOUS
<1> QED
  BY <1>1, PageAssumption DEF Init, TagInv, TagTyped, MovedTo

LEMMA PickTag == ASSUME TagInv, NEW tag \in Tags, Pick(tag) PROVE TagInv'
<1> DEFINE k == Len(picks) + 1
<1>1. /\ picks \in Seq(Tags) /\ Len(picks) \in Nat /\ DOMAIN picks = 1..Len(picks)
      /\ heads \cup found \cup refused \subseteq (DOMAIN picks) \X {"same", "index"}
  BY DEF TagInv, TagTyped
<1>2. /\ Len(picks) < MaxPicks /\ picks' = Append(picks, tag)
      /\ heads' = heads \cup {<<Len(picks'), "same">>}
      /\ UNCHANGED <<found, refused, location>>
  BY DEF Pick, CanPick
<1>3. /\ picks' \in Seq(Tags) /\ Len(picks') = k /\ DOMAIN picks' = DOMAIN picks \cup {k}
      /\ k \notin DOMAIN picks /\ \A n \in DOMAIN picks : picks'[n] = picks[n]
  BY <1>1, <1>2
<1>4. heads' = heads \cup {<<k, "same">>}
  BY <1>2, <1>3
<1>5. Len(picks') <= MaxPicks
  BY <1>1, <1>2, <1>3, PageAssumption
<1> HIDE DEF k
<1>6. TagTyped'
  BY <1>1, <1>2, <1>3, <1>4, <1>5 DEF TagTyped
<1>7. \A x : <<k, x>> \notin heads \cup found \cup refused
  BY <1>1, <1>3
<1>8. ASSUME NEW n \in DOMAIN picks' PROVE PickRight(n)'
  <2>1. CASE n = k
    BY <1>2, <1>4, <1>7, <2>1 DEF PickRight
  <2>2. CASE n # k
    <3>1. n \in DOMAIN picks /\ PickRight(n)
      BY <1>3, <2>2 DEF TagInv
    <3>2. \A x : <<n, x>> \in heads' <=> <<n, x>> \in heads
      BY <1>4, <2>2
    <3> QED
      BY <1>2, <3>1, <3>2 DEF PickRight
  <2> QED
    BY <2>1, <2>2
<1>9. heads' \cap (found' \cup refused') = {} /\ found' \cap refused' = {}
  BY <1>2, <1>4, <1>7 DEF TagInv
<1>10. location' \in MovedTo'
  <2>1. \A h \in found : h[1] \in DOMAIN picks
    BY <1>1
  <2>2. \A h \in found : picks'[h[1]] = picks[h[1]]
    BY <1>3, <2>1
  <2> QED
    BY <1>2, <2>2 DEF TagInv, MovedTo
<1> QED
  BY <1>6, <1>8, <1>9, <1>10 DEF TagInv

LEMMA HeadFoundTag == ASSUME TagInv, NEW h \in heads, HeadFound(h) PROVE TagInv'
<1>1. /\ heads' = heads \ {h} /\ found' = found \cup {h} /\ UNCHANGED <<picks, refused>>
      /\ location' = <<picks[h[1]], h[2]>>
  BY DEF HeadFound
<1>2. TagTyped'
  BY <1>1 DEF TagInv, TagTyped
<1>3. \A x : x \in heads' \cup found' <=> x \in heads \cup found
  BY <1>1
<1>4. \A n \in DOMAIN picks' : PickRight(n)'
  BY <1>1, <1>3 DEF TagInv, PickRight
<1>5. heads' \cap (found' \cup refused') = {} /\ found' \cap refused' = {}
  BY <1>1 DEF TagInv
<1>6. location' \in MovedTo'
  BY <1>1 DEF MovedTo
<1> QED
  BY <1>2, <1>4, <1>5, <1>6 DEF TagInv

LEMMA HeadFailsTag == ASSUME TagInv, NEW h \in heads, HeadFails(h) PROVE TagInv'
<1>1. PICK k \in DOMAIN picks, there \in {"same", "index"} : h = <<k, there>>
  BY DEF TagInv, TagTyped
<1>2. refused' = refused \cup {h} /\ UNCHANGED <<picks, found, location>>
  BY DEF HeadFails
<1>3. location' \in MovedTo'
  BY <1>2 DEF TagInv, MovedTo
<1>4. h \notin found /\ h \notin refused
  BY DEF TagInv
<1>5. CASE there = "index"
  <2>1. heads' = heads \ {h}
    BY <1>1, <1>5 DEF HeadFails
  <2>2. TagTyped'
    BY <1>2, <2>1 DEF TagInv, TagTyped
  <2>3. ASSUME NEW n \in DOMAIN picks PROVE PickRight(n)'
    <3>1. <<n, "same">> # h
      BY <1>1, <1>5
    <3>2. /\ <<n, "same">> \in heads' \cup found' <=> <<n, "same">> \in heads \cup found
          /\ <<n, "same">> \in refused => <<n, "same">> \in refused'
          /\ <<n, "index">> \in heads' \cup found' \cup refused'
             <=> <<n, "index">> \in heads \cup found \cup refused
      BY <1>2, <2>1, <3>1
    <3> QED
      BY <3>2 DEF TagInv, PickRight
  <2>4. heads' \cap (found' \cup refused') = {} /\ found' \cap refused' = {}
    BY <1>2, <1>4, <2>1 DEF TagInv
  <2> QED
    BY <1>2, <1>3, <2>2, <2>3, <2>4 DEF TagInv
<1>6. CASE there = "same"
  <2>1. heads' = (heads \ {h}) \cup {<<k, "index">>}
    BY <1>1, <1>6 DEF HeadFails
  <2>2. TagTyped'
    BY <1>1, <1>2, <2>1 DEF TagInv, TagTyped
  <2>3. <<k, "index">> \notin heads \cup found \cup refused
    BY <1>1, <1>6 DEF TagInv, PickRight
  <2>4. ASSUME NEW n \in DOMAIN picks PROVE PickRight(n)'
    <3>1. CASE n = k
      BY <1>1, <1>2, <1>4, <1>6, <2>1, <3>1 DEF PickRight
    <3>2. CASE n # k
      <4>1. \A x : <<n, x>> # h /\ <<n, x>> # <<k, "index">>
        BY <1>1, <3>2
      <4>2. \A x : /\ <<n, x>> \in heads' <=> <<n, x>> \in heads
                   /\ <<n, x>> \in refused' <=> <<n, x>> \in refused
        BY <1>2, <2>1, <4>1
      <4> QED
        BY <1>2, <4>2 DEF TagInv, PickRight
    <3> QED
      BY <3>1, <3>2
  <2>5. heads' \cap (found' \cup refused') = {} /\ found' \cap refused' = {}
    BY <1>1, <1>2, <1>4, <1>6, <2>1, <2>3 DEF TagInv
  <2> QED
    BY <1>2, <1>3, <2>2, <2>4, <2>5 DEF TagInv
<1> QED
  BY <1>1, <1>5, <1>6

LEMMA TagNext == ASSUME TagInv, [Next]_vars PROVE TagInv'
<1> USE DEF tagVars
<1>1. CASE ChooseSuggestion
  <2>1. UNCHANGED <<heads, picks, found, refused>>
    BY <1>1 DEF ChooseSuggestion
  <2>2. location' \in {"symbol", "file"} \X {"suggestion"}
    BY <1>1 DEF ChooseSuggestion
  <2> QED
    BY <2>1, <2>2 DEF TagInv, TagTyped, PickRight, MovedTo
<1>2. UNCHANGED tagVars => TagInv'
  BY DEF TagInv, TagTyped, PickRight, MovedTo
<1>3. CASE BoxStep
  BY <1>1, <1>2, <1>3 DEF BoxStep, BoxKey, FocusBox, LeaveBox, Radio, Enter
<1>4. CASE ScreenStep
  BY <1>2, <1>4 DEF ScreenStep, AboutKey, HelpKey, EscKey, AboutLink, HelpLink, AboutLoad,
     HelpLoad, AboutAnimated, HelpAnimated, AboutClick, HelpClick
<1>5. CASE TagStep
  BY <1>5, PickTag, HeadFoundTag, HeadFailsTag DEF TagStep
<1> QED
  BY <1>2, <1>3, <1>4, <1>5 DEF Next, vars

LEMMA TagAlways == Spec => []TagInv
BY TagInit, TagNext, PTL DEF Spec

\* However many tags are picked, and in whatever order the answers come: no pick
\* is lost, none moves the page twice, and the index is asked for only when that
\* pick was refused its page (tagPicker).
THEOREM EveryPickAnswered == Spec => []PicksAnswered
BY TagAlways, TagAnswered, PTL

-----------------------------------------------------------------------------
(* The types of all three.                                                 *)

Pages == {Here} \cup (Tags \X {"same", "index"}) \cup ({"symbol", "file"} \X {"suggestion"})

LEMMA MovedToPage == TagInv => location \in Pages
<1> SUFFICES ASSUME TagInv, NEW h \in found PROVE <<picks[h[1]], h[2]>> \in Tags \X {"same", "index"}
  BY DEF TagInv, MovedTo, Pages
<1>1. h[1] \in DOMAIN picks /\ h[2] \in {"same", "index"} /\ picks \in Seq(Tags)
  BY DEF TagInv, TagTyped
<1> QED
  BY <1>1

\* Every handler leaves the page's variables of the types it found.
THEOREM TypeCorrect == Spec => []TypeOK
<1>1. BoxInv /\ ScreensInv /\ TagInv => TypeOK
  BY MovedToPage
     DEF BoxInv, OneBox, Foci, ScreensInv, ScreenInv, TagInv, TagTyped, Pages, TypeOK
<1> QED
  BY <1>1, BoxAlways, ScreensAlways, TagAlways, PTL

-----------------------------------------------------------------------------
(* The visits.                                                             *)

\* A configuration that counts nothing as past that is not among s, the news
\* that were shown, of the p there are.
Right(config, s, p) ==
    /\ config \in Config
    /\ MaxNews <= Limit => 1..config.last \subseteq s
    /\ config.previous <= config.last /\ config.last <= p

JarRight(jar, s, p) ==
    DOMAIN jar = Names /\ Browsed(jar) \in 0..2 /\ Right(News(jar), s, p)

RequestRight(r, s, p) ==
    r = Never \/ (r \in [config : Config, window : BOOLEAN] /\ Right(r.config, s, p))

\* The inductive invariant: so are the cookies, and what each tab that waits
\* for the news has read of them, however old that is.
VisitsInv ==
    /\ clock \in Moments /\ published \in 0..MaxNews /\ seen \subseteq 1..MaxNews
    /\ JarRight(cookies, seen, published)
    /\ request \in [Tabs -> [config : Config, window : BOOLEAN] \cup {Never}]
    /\ \A tab \in Tabs : RequestRight(request[tab], seen, published)

-----------------------------------------------------------------------------
(* Cookies: what is set is what is got, and nothing else changes.          *)

LEMMA NewRight ==
    ASSUME VisitsAssumption, NEW s, NEW p \in Nat PROVE Right(NewConfig, s, p)
BY DEF VisitsAssumption, Right, NewConfig, Config, Moments

LEMMA SetBrowsed ==
    ASSUME VisitsAssumption, NEW jar, DOMAIN jar = Names, NEW n \in 0..2
    PROVE  /\ DOMAIN Set(jar, "sbexrBrowsed", Digits(n)) = Names
           /\ Browsed(Set(jar, "sbexrBrowsed", Digits(n))) = n
           /\ News(Set(jar, "sbexrBrowsed", Digits(n))) = News(jar)
<1> DEFINE j == Set(jar, "sbexrBrowsed", Digits(n))
<1>1. /\ DOMAIN j = Names /\ j["sbexrBrowsed"] = Digits(n) /\ j["sbexrNews"] = jar["sbexrNews"]
  BY DEF Names, Set
<1>2. Digits(n) # Never /\ Digits(n).digits = n
  BY DEF VisitsAssumption, Digits
<1> HIDE DEF j
<1>3. Browsed(j) = n /\ News(j) = News(jar)
  BY <1>1, <1>2 DEF Browsed, News, Get, GetJSON
<1> QED
  BY <1>1, <1>3 DEF j

LEMMA SetNews ==
    ASSUME VisitsAssumption, NEW jar, DOMAIN jar = Names, NEW config \in Config
    PROVE  /\ DOMAIN Set(jar, "sbexrNews", Json(config)) = Names
           /\ Browsed(Set(jar, "sbexrNews", Json(config))) = Browsed(jar)
           /\ News(Set(jar, "sbexrNews", Json(config))) = config
<1> DEFINE j == Set(jar, "sbexrNews", Json(config))
<1>1. /\ DOMAIN j = Names /\ j["sbexrNews"] = Json(config)
      /\ j["sbexrBrowsed"] = jar["sbexrBrowsed"]
  BY DEF Names, Set
<1>2. Json(config) # Never /\ Json(config).json = config /\ config # Never
  BY DEF VisitsAssumption, Json
<1> HIDE DEF j
<1>3. Browsed(j) = Browsed(jar) /\ News(j) = config
  BY <1>1, <1>2 DEF Browsed, News, Get, GetJSON
<1> QED
  BY <1>1, <1>3 DEF j

LEMMA AfterAboutRight ==
    ASSUME VisitsAssumption, NEW jar, NEW s, NEW p, JarRight(jar, s, p)
    PROVE  JarRight(AfterAbout(jar), s, p) /\ News(AfterAbout(jar)) = News(jar)
<1>1. (IF Browsed(jar) < 2 THEN Browsed(jar) + 1 ELSE 2) \in 0..2
  BY DEF JarRight
<1> QED
  BY <1>1, SetBrowsed DEF AfterAbout, JarRight

\* More news, and more of them shown, leave right what was.
LEMMA RightGrows ==
    ASSUME VisitsAssumption, NEW c, NEW s, NEW p \in Nat, Right(c, s, p),
           NEW t, s \subseteq t, NEW q \in Nat, p <= q
    PROVE  Right(c, t, q)
<1>1. c \in Config /\ c.previous \in Nat /\ c.last \in Nat
  BY DEF Right, Config, VisitsAssumption
<1>2. MaxNews <= Limit => 1..c.last \subseteq t
  BY DEF Right
<1>3. c.previous <= c.last /\ c.last <= q
  BY <1>1 DEF Right
<1> QED
  BY <1>1, <1>2, <1>3 DEF Right

LEMMA AllGrow ==
    ASSUME VisitsAssumption, VisitsInv, seen \subseteq seen', seen' \subseteq 1..MaxNews,
           published' \in 0..MaxNews, published <= published'
    PROVE  /\ \A r : RequestRight(r, seen, published) => RequestRight(r, seen', published')
           /\ \A jar : JarRight(jar, seen, published) => JarRight(jar, seen', published')
<1>1. published \in Nat /\ published' \in Nat
  BY DEF VisitsInv, VisitsAssumption
<1>2. ASSUME NEW c, Right(c, seen, published) PROVE Right(c, seen', published')
  BY <1>1, <1>2, RightGrows
<1>3. ASSUME NEW r, RequestRight(r, seen, published) PROVE RequestRight(r, seen', published')
  BY <1>2, <1>3 DEF RequestRight
<1>4. ASSUME NEW jar, JarRight(jar, seen, published) PROVE JarRight(jar, seen', published')
  BY <1>2, <1>4 DEF JarRight
<1> QED
  BY <1>3, <1>4

\* What a page writes when its news arrive counts as past what it has shown, or
\* what had been when it was loaded.
LEMMA AnsweredRight ==
    ASSUME VisitsAssumption, VisitsInv, NEW r \in [config : Config, window : BOOLEAN],
           Right(r.config, seen, published)
    PROVE  /\ Shown(r) \subseteq 1..MaxNews
           /\ Right(Answered(r), seen \cup Shown(r), published)
<1> DEFINE a == Answered(r)
<1>1. r.config \in Config /\ r.window \in BOOLEAN
  OBVIOUS
<1>2. /\ published \in Nat /\ published <= MaxNews /\ clock \in 0..MaxClock
      /\ MaxNews \in Nat /\ Limit \in Nat
  BY DEF VisitsInv, VisitsAssumption, Moments
<1>3. /\ r.config.last \in 0..MaxNews /\ r.config.previous \in 0..MaxNews
      /\ r.config.displayed \in 0..MaxClock
      /\ r.config.previous <= r.config.last /\ r.config.last <= published
  BY <1>1 DEF Right, Config, Moments
<1>4. Shown(r) \subseteq 1..published
  BY <1>2, <1>3 DEF Shown, Newest
<1>5. a \in Config
  BY <1>1, <1>2, <1>3 DEF Answered, Config, Moments
<1>6. a.previous <= a.last /\ a.last = published
  BY <1>1, <1>2, <1>3 DEF Answered
<1>7. ASSUME MaxNews <= Limit, NEW i \in 1..published PROVE i \in seen \cup Shown(r)
  <2>1. i \in Newest(Limit)
    BY <1>2, <1>7 DEF Newest
  <2>2. CASE i <= r.config.last
    BY <1>2, <1>3, <1>7, <2>2 DEF Right
  <2>3. CASE i > r.config.last
    BY <1>1, <1>2, <1>3, <2>1, <2>3 DEF Shown
  <2> QED
    BY <1>2, <1>3, <2>2, <2>3
<1> QED
  BY <1>2, <1>4, <1>5, <1>6, <1>7 DEF Right

-----------------------------------------------------------------------------
LEMMA VisitsStart == ASSUME VisitsAssumption, VisitsInit PROVE VisitsInv
<1>1. cookies["sbexrBrowsed"] = Never /\ cookies["sbexrNews"] = Never /\ DOMAIN cookies = Names
  BY DEF VisitsInit, Names
<1>2. Browsed(cookies) = 0 /\ News(cookies) = NewConfig
  BY <1>1 DEF Browsed, News, Get, GetJSON
<1>3. published \in Nat
  BY DEF VisitsInit, VisitsAssumption
<1>4. Right(NewConfig, seen, published)
  BY <1>3, NewRight
<1> QED
  BY <1>1, <1>2, <1>4 DEF VisitsInit, VisitsAssumption, VisitsInv, JarRight, RequestRight, Moments

LEMMA LoadKeeps == ASSUME VisitsAssumption, VisitsInv, NEW tab \in Tabs, LoadPage(tab) PROVE VisitsInv'
<1> DEFINE jar    == AfterAbout(cookies)
           config == News(jar)
           window == InDisplayWindow(config)
<1>1. JarRight(jar, seen, published) /\ Right(config, seen, published)
  BY AfterAboutRight DEF VisitsInv, JarRight
<1>2. config \in Config /\ window \in BOOLEAN
  BY <1>1 DEF Right, InDisplayWindow
<1>3. CASE ~window /\ FetchedLately(config)
  <2> DEFINE past == [config EXCEPT !.previous = config.last]
  <2>1. Right(past, seen, published)
    BY <1>1 DEF Right, Config, Moments
  <2>2. past \in Config
    BY <2>1 DEF Right
  <2> HIDE DEF past
  <2>3. JarRight(Set(jar, "sbexrNews", Json(past)), seen, published)
    BY <1>1, <2>1, <2>2, SetNews DEF JarRight
  <2>4. cookies' \in {jar, Set(jar, "sbexrNews", Json(past))}
    BY <1>3 DEF LoadPage, past
  <2>5. /\ request' = [request EXCEPT ![tab] = Never]
        /\ UNCHANGED <<clock, published, seen>>
    BY <1>3 DEF LoadPage
  <2> QED
    BY <1>1, <2>3, <2>4, <2>5 DEF VisitsInv, RequestRight
<1>4. CASE ~(~window /\ FetchedLately(config))
  <2> DEFINE r == [config |-> config, window |-> window]
  <2>1. /\ cookies' = jar /\ request' = [request EXCEPT ![tab] = r]
        /\ UNCHANGED <<clock, published, seen>>
    BY <1>4 DEF LoadPage
  <2>2. r \in [config : Config, window : BOOLEAN] /\ RequestRight(r, seen, published)
    BY <1>1, <1>2 DEF RequestRight
  <2> HIDE DEF r, jar, config, window
  <2>3. /\ request' \in [Tabs -> [config : Config, window : BOOLEAN] \cup {Never}]
        /\ \A t \in Tabs : RequestRight(request'[t], seen, published)
    BY <2>1, <2>2 DEF VisitsInv
  <2>4. JarRight(cookies', seen', published')
    BY <1>1, <2>1
  <2> QED
    BY <2>1, <2>3, <2>4 DEF VisitsInv
<1> QED
  BY <1>3, <1>4

LEMMA NewsArriveKeeps ==
    ASSUME VisitsAssumption, VisitsInv, NEW tab \in Tabs, NewsArrive(tab) PROVE VisitsInv'
<1> DEFINE r == request[tab]
<1>1. r \in [config : Config, window : BOOLEAN] /\ Right(r.config, seen, published)
  BY DEF VisitsInv, RequestRight, NewsArrive
<1>2. /\ Shown(r) \subseteq 1..MaxNews
      /\ Right(Answered(r), seen \cup Shown(r), published)
  BY <1>1, AnsweredRight
<1>3. /\ seen' = seen \cup Shown(r) /\ request' = [request EXCEPT ![tab] = Never]
      /\ UNCHANGED <<clock, published>>
      /\ cookies' \in {cookies, Set(cookies, "sbexrNews", Json(Answered(r)))}
  BY DEF NewsArrive
<1>4. seen \subseteq seen' /\ seen' \subseteq 1..MaxNews
  BY <1>2, <1>3 DEF VisitsInv
<1>5. published \in 0..MaxNews /\ MaxNews \in Nat
  BY DEF VisitsInv, VisitsAssumption
<1>6. published' \in 0..MaxNews /\ published <= published'
  BY <1>3, <1>5
<1> HIDE DEF r
<1>7. JarRight(Set(cookies, "sbexrNews", Json(Answered(r))), seen', published')
  BY <1>2, <1>3, SetNews DEF VisitsInv, JarRight, Right
<1>8. JarRight(cookies', seen', published')
  BY <1>3, <1>4, <1>6, <1>7, AllGrow DEF VisitsInv
<1>9. \A t \in Tabs : RequestRight(request'[t], seen', published')
  BY <1>3, <1>4, <1>6, AllGrow DEF VisitsInv, RequestRight
<1> QED
  BY <1>3, <1>4, <1>6, <1>8, <1>9 DEF VisitsInv

LEMMA VisitsStep == ASSUME VisitsAssumption, VisitsInv, [VisitsNext]_visitsVars PROVE VisitsInv'
<1>1. CASE UNCHANGED visitsVars
  BY <1>1 DEF visitsVars, VisitsInv
<1>2. CASE Publish
  <2>1. /\ seen \subseteq seen' /\ seen' \subseteq 1..MaxNews /\ published' \in 0..MaxNews
        /\ published <= published' /\ UNCHANGED <<clock, cookies, request, seen>>
    BY <1>2 DEF Publish, VisitsInv, VisitsAssumption
  <2> QED
    BY <2>1, AllGrow DEF VisitsInv
<1>3. CASE Tick
  BY <1>3 DEF Tick, VisitsInv, Moments, VisitsAssumption
<1>4. CASE Quit
  <2>1. cookies'["sbexrBrowsed"] = Never /\ cookies'["sbexrNews"] = Never /\ DOMAIN cookies' = Names
    BY <1>4 DEF Quit, Names
  <2>2. Browsed(cookies') = 0 /\ News(cookies') = NewConfig
    BY <2>1 DEF Browsed, News, Get, GetJSON
  <2>3. Right(NewConfig, seen, published)
    BY NewRight DEF VisitsInv, VisitsAssumption
  <2> QED
    BY <1>4, <2>1, <2>2, <2>3 DEF Quit, VisitsInv, JarRight, RequestRight
<1>5. ASSUME NEW tab \in Tabs, LoadPage(tab) PROVE VisitsInv'
  BY <1>5, LoadKeeps
<1>6. ASSUME NEW tab \in Tabs, NewsArrive(tab) PROVE VisitsInv'
  BY <1>6, NewsArriveKeeps
<1>7. ASSUME NEW tab \in Tabs, NewsFail(tab) PROVE VisitsInv'
  BY <1>7 DEF NewsFail, VisitsInv, RequestRight
<1> QED
  BY <1>1, <1>2, <1>3, <1>4, <1>5, <1>6, <1>7 DEF VisitsNext

LEMMA VisitsAlways == ASSUME VisitsAssumption PROVE VisitsSpec => []VisitsInv
<1>1. VisitsInit => VisitsInv
  BY VisitsStart
<1>2. VisitsInv /\ [VisitsNext]_visitsVars => VisitsInv'
  BY VisitsStep
<1> QED
  BY <1>1, <1>2, PTL DEF VisitsSpec

\* However the requests of any number of tabs cross, the news a cookie counts
\* as past were shown, and those of the visit before are among those of the last.
THEOREM NewsAreKept == ASSUME VisitsAssumption PROVE VisitsSpec => []NewsKept
<1>1. VisitsInv => NewsKept
  BY DEF VisitsInv, JarRight, Right, NewsKept
<1> QED
  BY <1>1, VisitsAlways, PTL

\* Cookies and requests keep their types.
THEOREM VisitsTypeCorrect == ASSUME VisitsAssumption PROVE VisitsSpec => []VisitsTypeOK
<1>1. VisitsInv => VisitsTypeOK
  BY DEF VisitsInv, JarRight, Right, VisitsTypeOK
<1> QED
  BY <1>1, VisitsAlways, PTL

-----------------------------------------------------------------------------
(* The menus.                                                              *)

\* OneBranch of any object, the count as what it says of two menus.
Branch(k) ==
    /\ k \in Dropdowns
    /\ k.opened = Nowhere <=> k.open = {}
    /\ \A m \in k.open : Root(m) = k.opened /\ Root(m) \in k.open
    /\ \A m, n \in k.open : IsSubMenu(m) /\ IsSubMenu(n) => m = n
    /\ k.item >= 0 => k.open # {}

LEMMA RootIsRoot ==
    ASSUME DropdownsAssumption, NEW m \in Menus
    PROVE  Root(m) \in Menus /\ ~IsSubMenu(Root(m)) /\ Root(Root(m)) = Root(m)
BY DEF DropdownsAssumption, Root, IsSubMenu

\* All that is open is within what was opened.
LEMMA CloseAllCloses ==
    ASSUME DropdownsAssumption, NEW k, Branch(k)
    PROVE  /\ CloseAll(k) \in Dropdowns
           /\ CloseAll(k).open = {} /\ CloseAll(k).opened = Nowhere
           /\ CloseAll(k).item = -1
<1>1. /\ k \in Dropdowns /\ k.open \subseteq Menus /\ k.item \in -1..(Entries - 1)
      /\ Entries \in Nat
  BY DEF Branch, Dropdowns, DropdownsAssumption
<1>2. CASE k.opened = Nowhere
  <2>1. CloseAll(k) = k /\ k.open = {} /\ ~(k.item >= 0)
    BY <1>2 DEF CloseAll, Branch
  <2> QED
    BY <1>1, <1>2, <2>1
<1>3. CASE k.opened # Nowhere
  <2>1. CloseAll(k) = [k EXCEPT !.open = @ \ Within(k.opened), !.opened = Nowhere, !.item = -1]
    BY <1>3 DEF CloseAll
  <2>2. ASSUME NEW m \in k.open PROVE m \in Within(k.opened)
    BY <1>1, <2>2 DEF Branch, Root, IsSubMenu, Within
  <2>3. CloseAll(k).open = {} /\ CloseAll(k).opened = Nowhere /\ CloseAll(k).item = -1
    BY <1>1, <2>1, <2>2 DEF Dropdowns
  <2>4. k.open \ Within(k.opened) \in SUBSET Menus /\ -1 \in -1..(Entries - 1)
    BY <1>1, DropdownsAssumption DEF DropdownsAssumption
  <2>5. CloseAll(k) \in Dropdowns
    BY <1>1, <2>1, <2>4 DEF Dropdowns
  <2> QED
    BY <2>3, <2>5
<1> QED
  BY <1>2, <1>3

\* Closed for a menu, what is left open is the menu it is in, if anything.
LEMMA CloseForCloses ==
    ASSUME DropdownsAssumption, NEW k, Branch(k), NEW m \in Menus
    PROVE  /\ CloseFor(k, m) \in Dropdowns /\ CloseFor(k, m).item = -1
           /\ \/ CloseFor(k, m).open = {} /\ CloseFor(k, m).opened = Nowhere
              \/ /\ IsSubMenu(m) /\ CloseFor(k, m).open = {Root(m)}
                 /\ CloseFor(k, m).opened = Root(m)
<1>1. k \in Dropdowns /\ k.open \subseteq Menus /\ Entries \in Nat
  BY DEF Branch, Dropdowns, DropdownsAssumption
<1>2. CASE k.opened # Nowhere /\ IsSubMenu(m) /\ k.opened = Root(m)
  <2>1. CloseFor(k, m) = [k EXCEPT !.open = @ \ Inside(Root(m)), !.item = -1]
    BY <1>2 DEF CloseFor
  <2>2. ASSUME NEW n \in k.open PROVE n = Root(m) \/ n \in Inside(Root(m))
    BY <1>1, <1>2, <2>2 DEF Branch, Root, IsSubMenu, Inside, Within
  <2>3. Root(m) \in k.open /\ Root(m) \notin Inside(Root(m))
    BY <1>2 DEF Branch, Inside
  <2>4. CloseFor(k, m).open = {Root(m)}
    BY <1>1, <2>1, <2>2, <2>3 DEF Dropdowns
  <2>5. k.open \ Inside(Root(m)) \in SUBSET Menus /\ -1 \in -1..(Entries - 1)
    BY <1>1, DropdownsAssumption DEF DropdownsAssumption
  <2>6. CloseFor(k, m) \in Dropdowns
    BY <1>1, <2>1, <2>5 DEF Dropdowns
  <2>7. CloseFor(k, m).item = -1 /\ CloseFor(k, m).opened = Root(m)
    BY <1>1, <1>2, <2>1 DEF Dropdowns
  <2> QED
    BY <1>2, <2>4, <2>6, <2>7
<1>3. CASE ~(k.opened # Nowhere /\ IsSubMenu(m) /\ k.opened = Root(m))
  <2>1. CloseFor(k, m) = CloseAll(k)
    BY <1>3 DEF CloseFor
  <2> QED
    BY <2>1, CloseAllCloses
<1> QED
  BY <1>2, <1>3

LEMMA ToggleMenuKeeps ==
    ASSUME DropdownsAssumption, NEW k, Branch(k), NEW m \in Menus
    PROVE  Branch(ToggleMenu(k, m))
<1> DEFINE c == CloseFor(k, m)
<1>1. /\ c \in Dropdowns /\ c.item = -1
      /\ \/ c.open = {} /\ c.opened = Nowhere
         \/ IsSubMenu(m) /\ c.open = {Root(m)} /\ c.opened = Root(m)
  BY CloseForCloses
<1>2. Root(m) \in Menus /\ ~IsSubMenu(Root(m)) /\ Root(Root(m)) = Root(m) /\ Root(m) # Nowhere
  BY RootIsRoot DEF DropdownsAssumption
<1> HIDE DEF c
<1>3. CASE m \in k.open
  <2>1. ToggleMenu(k, m) = c
    BY <1>3 DEF ToggleMenu, c
  <2>2. Branch(c)
    BY <1>1, <1>2 DEF Branch
  <2> QED
    BY <2>1, <2>2
<1>4. CASE m \notin k.open
  <2> DEFINE t == [c EXCEPT !.open = @ \cup Tree(m), !.opened = Root(m)]
  <2>1. ToggleMenu(k, m) = t
    BY <1>4 DEF ToggleMenu, c
  <2>2. Tree(m) = {Root(m), m}
    BY DEF Tree
  <2>3. t.open = {Root(m), m} /\ t.opened = Root(m) /\ t.item = -1
    BY <1>1, <2>2 DEF Dropdowns
  <2>4. t \in Dropdowns
    BY <1>1, <1>2, <2>2 DEF Dropdowns
  <2> HIDE DEF t
  <2>5. Branch(t)
    BY <1>2, <2>3, <2>4 DEF Branch
  <2> QED
    BY <2>1, <2>5
<1> QED
  BY <1>3, <1>4

LEMMA ChangeKeeps ==
    ASSUME NEW k, Branch(k), NEW v \in Radios PROVE Branch(Change(k, v))
<1>1. k \in Dropdowns
  BY DEF Branch
<1>2. /\ Change(k, v) \in Dropdowns /\ Change(k, v).open = k.open
      /\ Change(k, v).opened = k.opened /\ Change(k, v).item = k.item
  BY <1>1 DEF Change, Dropdowns
<1> QED
  BY <1>2 DEF Branch

LEMMA ClosedIsBranch ==
    ASSUME DropdownsAssumption, NEW k, Branch(k) PROVE Branch(CloseAll(k))
BY CloseAllCloses DEF Branch

LEMMA KeydownKeeps ==
    ASSUME DropdownsAssumption, Branch(d), NEW m \in Menus, NEW key \in {"up", "down", "esc"},
           Keydown(m, key)
    PROVE  Branch(d')
<1>1. CASE m \notin d.open \/ key = "esc"
  <2>1. d' = ToggleMenu(d, m)
    BY <1>1 DEF Keydown
  <2> QED
    BY <2>1, ToggleMenuKeeps
<1>2. CASE m \in d.open /\ key # "esc"
  <2>1. d \in Dropdowns /\ d.item \in -1..(Entries - 1) /\ Entries \in Nat \ {0}
    BY DEF Branch, Dropdowns, DropdownsAssumption
  <2>2. Moved(d.item, key) \in -1..(Entries - 1)
    BY <2>1 DEF Moved
  <2>3. d' = [d EXCEPT !.item = Moved(@, key)]
    BY <1>2 DEF Keydown
  <2>4. d' \in Dropdowns /\ d'.open = d.open /\ d'.opened = d.opened
    BY <2>1, <2>2, <2>3 DEF Dropdowns
  <2> QED
    BY <1>2, <2>4 DEF Branch
<1> QED
  BY <1>1, <1>2

LEMMA BranchInit == ASSUME DropdownsAssumption, MenusInit PROVE Branch(d)
BY DEF DropdownsAssumption, MenusInit, Branch, Dropdowns

LEMMA BranchNext == ASSUME DropdownsAssumption, Branch(d), [MenusNext]_d PROVE Branch(d')
<1>1. CASE UNCHANGED d
  BY <1>1
<1>2. CASE ClickAway
  BY <1>2, ClosedIsBranch DEF ClickAway
<1>3. ASSUME NEW m \in Menus, Toggle(m) PROVE Branch(d')
  BY <1>3, ToggleMenuKeeps DEF Toggle
<1>4. ASSUME NEW m \in Menus, NEW key \in {"up", "down", "esc"}, Keydown(m, key)
      PROVE  Branch(d')
  BY <1>4, KeydownKeeps
<1>5. ASSUME NEW v \in Radios, PickChoice(v) PROVE Branch(d')
  BY <1>5, ChangeKeeps, ClosedIsBranch DEF PickChoice
<1>6. ASSUME NEW v \in Radios, PushChoice(v) PROVE Branch(d')
  BY <1>6, ChangeKeeps DEF PushChoice
<1> QED
  BY <1>1, <1>2, <1>3, <1>4, <1>5, <1>6 DEF MenusNext

LEMMA BranchAlways == ASSUME DropdownsAssumption PROVE MenusSpec => []Branch(d)
<1>1. MenusInit => Branch(d)
  BY BranchInit
<1>2. Branch(d) /\ [MenusNext]_d => Branch(d)'
  BY BranchNext DEF Branch
<1> QED
  BY <1>1, <1>2, PTL DEF MenusSpec

\* For any menus within menus, what is open is one branch of them, from the one
\* the next click closes, and the focus is in it.
THEOREM OneBranchOpen == ASSUME DropdownsAssumption PROVE MenusSpec => []OneBranch
<1>1. Branch(d) => OneBranch
  <2> SUFFICES ASSUME Branch(d) PROVE Cardinality({m \in d.open : IsSubMenu(m)}) <= 1
    BY DEF Branch, OneBranch
  <2> DEFINE subs == {m \in d.open : IsSubMenu(m)}
  <2>1. CASE subs = {}
    BY <2>1, FS_EmptySet
  <2>2. CASE subs # {}
    <3>1. PICK m : subs = {m}
      BY <2>2 DEF Branch
    <3>2. Cardinality({m}) = 1
      BY FS_Singleton
    <3> HIDE DEF subs
    <3>3. Cardinality(subs) <= 1
      BY <3>1, <3>2
    <3> QED
      BY <3>3 DEF subs
  <2> QED
    BY <2>1, <2>2
<1> QED
  BY <1>1, BranchAlways, PTL

\* What the menus keep keeps its type.
THEOREM MenusTypeCorrect == ASSUME DropdownsAssumption PROVE MenusSpec => []MenusTypeOK
<1>1. Branch(d) => MenusTypeOK
  BY DEF Branch, MenusTypeOK
<1> QED
  BY <1>1, BranchAlways, PTL

-----------------------------------------------------------------------------
(* The carousel.                                                           *)

\* The inductive invariant of the carousel: what slides in is what was asked for,
\* and its end will be seen; what waits waits for that.
CarouselRight(k) ==
    /\ k \in Carousel
    /\ ~k.sliding => k.indicator = k.active /\ k.next = {} /\ k.waits = {}
    /\ k.sliding => k.next = {k.indicator} /\ k.waits = {"slid"}
    /\ k.to # <<>> => k.sliding \/ k.slid

LEMMA ItemForDirection ==
    ASSUME WidgetsAssumption, NEW k \in Carousel, NEW direction \in {"next", "prev"}
    PROVE  GetItemForDirection(k, direction) \in Index
<1>1. Items \in Nat \ {0} /\ k.active \in 0..(Items - 1)
  BY DEF WidgetsAssumption, CarouselAssumption, Carousel, Index
<1>2. \A x \in Int : x % Items \in 0..(Items - 1)
  BY <1>1
<1>3. (k.active + IF direction = "next" THEN 1 ELSE -1) \in Int
  BY <1>1
<1> QED
  BY <1>1, <1>2, <1>3 DEF GetItemForDirection, Index

\* The pauses change nothing else.
LEMMA PauseRight ==
    ASSUME NEW k, CarouselRight(k), NEW event \in BOOLEAN
    PROVE  /\ CarouselRight(Pause(k, event)) /\ Pause(k, event).sliding = k.sliding
           /\ Pause(k, event).slid = k.slid /\ Pause(k, event).to = k.to
<1> DEFINE b == ~event \/ k.paused
           p == [k EXCEPT !.paused = b, !.interval = FALSE]
<1>1. b \in BOOLEAN
  OBVIOUS
<1>2. Pause(k, event) = p
  BY DEF Pause
<1> HIDE DEF b
<1>3. /\ p \in Carousel /\ p.sliding = k.sliding /\ p.slid = k.slid /\ p.to = k.to /\ p.next = k.next
      /\ p.indicator = k.indicator /\ p.active = k.active /\ p.waits = k.waits
  BY <1>1 DEF CarouselRight, Carousel
<1> HIDE DEF p
<1> QED
  BY <1>2, <1>3 DEF CarouselRight

LEMMA CycleRight ==
    ASSUME NEW k, CarouselRight(k), NEW event \in BOOLEAN
    PROVE  /\ CarouselRight(Cycle(k, event)) /\ Cycle(k, event).sliding = k.sliding
           /\ Cycle(k, event).slid = k.slid /\ Cycle(k, event).to = k.to
<1> DEFINE b == event /\ k.paused
           c == ~b
           p == [k EXCEPT !.paused = b, !.interval = c]
<1>1. b \in BOOLEAN /\ c \in BOOLEAN
  OBVIOUS
<1>2. Cycle(k, event) = p
  BY DEF Cycle
<1> HIDE DEF b, c
<1>3. /\ p \in Carousel /\ p.sliding = k.sliding /\ p.slid = k.slid /\ p.to = k.to /\ p.next = k.next
      /\ p.indicator = k.indicator /\ p.active = k.active /\ p.waits = k.waits
  BY <1>1 DEF CarouselRight, Carousel
<1> HIDE DEF p
<1> QED
  BY <1>2, <1>3 DEF CarouselRight

LEMMA SlideRight ==
    ASSUME NEW k, CarouselRight(k), ~k.sliding, NEW next \in Index
    PROVE  CarouselRight(Slide(k, next))
<1> DEFINE f == [k EXCEPT !.sliding = FALSE]
           s == [k EXCEPT !.sliding = TRUE, !.indicator = next, !.next = k.next \cup {next},
                          !.waits = OnEnd(k.waits, "slid")]
<1>1. CarouselRight(f)
  BY DEF CarouselRight, Carousel
<1>2. CarouselRight(s)
  BY DEF CarouselRight, Carousel, OnEnd
<1>3. Slide(k, next) \in {f, s, Cycle(Pause(s, FALSE), FALSE)}
  BY DEF Slide
<1> HIDE DEF f, s
<1> QED
  BY <1>1, <1>2, <1>3, PauseRight, CycleRight

LEMMA ToRight ==
    ASSUME NEW k, CarouselRight(k), NEW pos \in Index
    PROVE  CarouselRight(To(k, pos))
<1> DEFINE a == [k EXCEPT !.to = Append(k.to, pos)]
<1>1. CASE k.sliding
  <2>1. CarouselRight(a)
    <3>1. Append(k.to, pos) \in Seq(Index)
      BY DEF CarouselRight, Carousel
    <3>2. /\ a \in Carousel /\ a.sliding = k.sliding /\ a.next = k.next
          /\ a.indicator = k.indicator /\ a.waits = k.waits
      BY <3>1 DEF CarouselRight, Carousel
    <3> HIDE DEF a
    <3> QED
      BY <1>1, <3>2 DEF CarouselRight
  <2> QED
    BY <1>1, <2>1 DEF To
<1>2. CASE ~k.sliding
  <2>1. To(k, pos) \in {Cycle(Pause(k, FALSE), FALSE), Slide(k, pos)}
    BY <1>2 DEF To
  <2> QED
    BY <1>2, <2>1, PauseRight, CycleRight, SlideRight
<1> QED
  BY <1>1, <1>2

LEMMA SlidInRight ==
    ASSUME NEW k, CarouselRight(k), k.waits # {}
    PROVE  CarouselRight(SlidIn(k))
<1>1. k.sliding /\ k.next = {k.indicator} /\ k.indicator \in Index
  BY DEF CarouselRight, Carousel
<1>2. (CHOOSE i \in k.next : TRUE) = k.indicator
  BY <1>1
<1> DEFINE s == [k EXCEPT !.waits = {}, !.active = k.indicator, !.next = {},
                          !.sliding = FALSE, !.slid = TRUE]
<1>3. SlidIn(k) = s
  BY <1>2 DEF SlidIn, Ended
<1>4. /\ s \in Carousel /\ ~s.sliding /\ s.slid /\ s.next = {} /\ s.waits = {}
      /\ s.active = s.indicator
  BY <1>1 DEF CarouselRight, Carousel
<1> HIDE DEF s
<1> QED
  BY <1>3, <1>4 DEF CarouselRight

\* However many requests wait, each is made again of what the one before made.
LEMMA SlidRight == ASSUME NEW k, CarouselRight(k) PROVE CarouselRight(Slid(k))
<1> DEFINE n == Len(k.to)
           start == [k EXCEPT !.to = <<>>, !.slid = FALSE]
           S == {x \in Carousel : CarouselRight(x)}
           step == [x \in S \X (1..n) |-> To(x[1], k.to[x[2]])]
           Loop(g) == g = [i \in 0..n |-> IF i = 0 THEN start ELSE To(g[i - 1], k.to[i])]
           after == CHOOSE g : Loop(g)
<1>1. n \in Nat /\ \A i \in 1..n : k.to[i] \in Index
  BY DEF CarouselRight, Carousel
<1>2. start \in S
  <2>1. /\ start \in Carousel /\ start.sliding = k.sliding /\ start.next = k.next
        /\ start.indicator = k.indicator /\ start.waits = k.waits /\ start.active = k.active
        /\ start.to = <<>>
    <3> HIDE DEF step, Loop, after
    <3>1. k \in Carousel /\ <<>> \in Seq(Index)
      BY DEF CarouselRight
    <3> QED
      BY <3>1 DEF Carousel
  <2> HIDE DEF start
  <2> QED
    BY <2>1 DEF CarouselRight
<1>3. Slid(k) = after[n]
  BY DEF Slid
<1> HIDE DEF n, start
<1>4. step \in [S \X (1..n) -> S]
  <2>1. ASSUME NEW x \in S, NEW i \in 1..n PROVE To(x, k.to[i]) \in S
    BY <1>1, ToRight DEF CarouselRight
  <2> HIDE DEF S
  <2> QED
    BY <2>1
<1>5. PICK g \in [0..n -> S] : Runs(g, n, start, step)
  <2> HIDE DEF step, S, Loop, after
  <2>1. n \in Nat
    BY <1>1
  <2> QED
    BY <2>1, <1>2, <1>4, LoopRuns, Zenon
<1>6. Loop(g)
  <2>1. ASSUME NEW i \in 0..n, i # 0 PROVE step[<<g[i - 1], i>>] = To(g[i - 1], k.to[i])
    <3>1. i \in 1..n /\ i - 1 \in 0..n
      BY <1>1, <2>1
    <3> HIDE DEF S
    <3> QED
      BY <3>1
  <2> HIDE DEF step
  <2>2. \A i \in 0..n : g[i] = IF i = 0 THEN start ELSE step[<<g[i - 1], i>>]
    BY <1>5 DEF Runs
  <2>3. \A i \in 0..n : g[i] = IF i = 0 THEN start ELSE To(g[i - 1], k.to[i])
    BY <2>1, <2>2
  <2> QED
    BY <2>3
<1>7. Loop(after)
  <2> HIDE DEF Loop
  <2> QED
    BY <1>6
<1> HIDE DEF after
<1>8. \A i \in 0..n : i \in {j \in 0..n : after[j] \in S}
  <2>1. after[0] \in S
    BY <1>1, <1>2, <1>7
  <2>2. ASSUME NEW i \in 1..n, after[i - 1] \in S PROVE after[i] \in S
    <3>1. after[i] = To(after[i - 1], k.to[i])
      <4>1. i \in 0..n /\ i # 0
        BY <1>1
      <4> QED
        BY <1>7, <4>1
    <3> QED
      BY <1>1, <2>2, <3>1, ToRight DEF CarouselRight
  <2> DEFINE Q == {j \in 0..n : after[j] \in S}
  <2> HIDE DEF S, Loop
  <2>3. 0 \in Q /\ \A i \in 1..n : i - 1 \in Q => i \in Q
    BY <1>1, <2>1, <2>2
  <2> HIDE DEF Q
  <2>4. \A i \in 0..n : i \in Q
    BY <1>1, <2>3, UpTo
  <2> QED
    BY <2>4 DEF Q
<1> QED
  BY <1>1, <1>3, <1>8

LEMMA CarouselStep ==
    ASSUME WidgetsAssumption, CarouselRight(carousel), [CarouselNext]_carousel
    PROVE  CarouselRight(carousel')
<1>1. CarouselRight(NextItem(carousel)) /\ CarouselRight(PrevItem(carousel))
  <2>1. carousel \in Carousel
    BY DEF CarouselRight
  <2>2. /\ GetItemForDirection(carousel, "next") \in Index
        /\ GetItemForDirection(carousel, "prev") \in Index
    BY <2>1, ItemForDirection
  <2> QED
    BY <2>2, SlideRight DEF NextItem, PrevItem
<1>2. CASE Arrow \/ Interval
  BY <1>1, <1>2 DEF Arrow, Interval
<1>3. CASE SlideTo
  BY <1>3, ToRight DEF SlideTo
<1>4. CASE MouseEnter \/ MouseLeave \/ Stop \/ Start
  BY <1>4, PauseRight, CycleRight DEF MouseEnter, MouseLeave, Stop, Start
<1>5. CASE SlideEnds
  BY <1>5, SlidInRight DEF SlideEnds, CanEnd
<1>6. CASE SlidEvent
  BY <1>6, SlidRight DEF SlidEvent
<1>7. CASE UNCHANGED carousel
  BY <1>7
<1> QED
  BY <1>2, <1>3, <1>4, <1>5, <1>6, <1>7 DEF CarouselNext

LEMMA CarouselStart == ASSUME WidgetsAssumption, CarouselInit PROVE CarouselRight(carousel)
BY DEF WidgetsAssumption, CarouselAssumption, CarouselInit, CarouselRight, Carousel, Index

LEMMA CarouselAlways == ASSUME WidgetsAssumption PROVE WidgetsSpec => []CarouselRight(carousel)
<1>1. CarouselInit => CarouselRight(carousel)
  BY CarouselStart
<1>2. CarouselRight(carousel) /\ [CarouselNext]_carousel => CarouselRight(carousel)'
  BY CarouselStep
<1> QED
  BY <1>1, <1>2, PTL DEF WidgetsSpec, CarouselSpec

\* Whatever is asked of a carousel while an item slides in, for any items and
\* number of requests that wait: at rest it shows what it says it shows, one item
\* slides in at a time, and no request waits for what does not come (to, slide).
THEOREM CarouselSettles == ASSUME WidgetsAssumption PROVE WidgetsSpec => []Settled
<1>1. CarouselRight(carousel) => Settled
  BY DEF CarouselRight, Settled
<1> QED
  BY <1>1, CarouselAlways, PTL

-----------------------------------------------------------------------------
(* Panels.                                                                 *)

\* A panel at rest, and one that opens or closes.
PanelRests(x) == /\ x.class # "collapsing" /\ ~x.transitioning /\ x.waits = {}
                 /\ x.expanded => x.class = "in"
PanelMoves(x) == /\ x.class = "collapsing" /\ x.transitioning
                 /\ x.waits = {"shown"} \/ (x.waits = {"hidden"} /\ ~x.expanded)
PanelRight(x) == x \in Panel /\ (PanelRests(x) \/ PanelMoves(x))

\* The inductive invariant of the panels, of which the markup has none open:
\* one that is or was open has its object, and of an accordion one is open or opening.
PanelsRight(p) ==
    /\ p \in [Ids -> Panel]
    /\ \A i \in Ids : PanelRight(p[i]) /\ (p[i].class # "collapse" => p[i].data)
    /\ Accordion => \A i, j \in Ids : OpenOrOpening(p[i]) /\ OpenOrOpening(p[j]) => i = j

LEMMA FirstOfActives ==
    ASSUME WidgetsAssumption, NEW actives \in SUBSET Ids, actives # {}
    PROVE  First(actives) \in actives
<1> DEFINE S == {n \in DOMAIN Panels : Panels[n] \in actives}
<1>1. S \subseteq Nat /\ S # {}
  BY DEF WidgetsAssumption, CollapseAssumption, Ids
<1>2. \E n \in S : \A m \in S : n <= m
  BY <1>1, LeastNatural
<1>3. \E n \in DOMAIN Panels : /\ Panels[n] \in actives
                               /\ \A m \in DOMAIN Panels : Panels[m] \in actives => n <= m
  BY <1>2
<1> QED
  BY <1>3 DEF First

LEMMA HidePanel ==
    ASSUME NEW x, PanelRight(x)
    PROVE  /\ PanelRight(Hide(x)) /\ Hide(x).data = x.data
           /\ Hide(x).class = "collapse" <=> x.class = "collapse"
           /\ OpenOrOpening(Hide(x)) => OpenOrOpening(x) /\ x.class = "collapsing"
           /\ x.data => HideNew(x) = Hide(x)
<1> DEFINE h == [x EXCEPT !.class = "collapsing", !.expanded = FALSE, !.transitioning = TRUE,
                          !.waits = OnEnd(x.waits, "hidden")]
<1>1. ASSUME x.transitioning \/ x.class # "in" PROVE Hide(x) = x
  BY <1>1 DEF Hide
<1>2. ASSUME ~x.transitioning, x.class = "in"
      PROVE  /\ Hide(x) = h /\ PanelRight(h) /\ h.data = x.data /\ h.class = "collapsing"
             /\ ~OpenOrOpening(h)
  BY <1>2 DEF Hide, PanelRight, PanelRests, PanelMoves, Panel, OnEnd, OpenOrOpening
<1>4. x.data => HideNew(x) = Hide(x)
  BY DEF HideNew
<1> HIDE DEF h
<1>5. x.class = "in" => ~x.transitioning
  BY DEF PanelRight, PanelRests, PanelMoves
<1>6. x.class # "in" /\ OpenOrOpening(x) => x.class = "collapsing"
  BY DEF PanelRight, PanelRests, PanelMoves, OpenOrOpening
<1> QED
  BY <1>1, <1>2, <1>4, <1>5, <1>6

LEMMA SayClassRight ==
    ASSUME NEW x, PanelRight(x)
    PROVE  /\ PanelRight(SayClass(x)) /\ SayClass(x).data = x.data
           /\ SayClass(x).class = x.class /\ SayClass(x).waits = x.waits
<1> DEFINE e == (x.class = "in")
           s == [x EXCEPT !.expanded = e]
<1>1. e \in BOOLEAN
  OBVIOUS
<1>2. e => x.class = "in"
  OBVIOUS
<1>3. x.class = "collapsing" => e = FALSE
  OBVIOUS
<1>4. SayClass(x) = s
  BY DEF SayClass
<1> HIDE DEF e
<1>5. PanelRight(s) /\ s.data = x.data /\ s.class = x.class /\ s.waits = x.waits
  BY <1>1, <1>2, <1>3 DEF PanelRight, PanelRests, PanelMoves, Panel
<1> HIDE DEF s
<1> QED
  BY <1>4, <1>5

\* What the constructor says of the panels of an accordion changes nothing else.
LEMMA ConstructRight ==
    ASSUME NEW p, PanelsRight(p), NEW i \in Ids
    PROVE  PanelsRight(Construct(p, i))
<1> DEFINE c == Construct(p, i)
<1>1. \A j \in Ids : c[j] = p[j] \/ c[j] = SayClass(p[j])
  BY DEF Construct
<1>2. \A j \in Ids : /\ PanelRight(c[j]) /\ c[j].data = p[j].data
                     /\ c[j].class = p[j].class /\ c[j].waits = p[j].waits
  BY <1>1, SayClassRight DEF PanelsRight
<1>3. c \in [Ids -> Panel]
  <2>1. DOMAIN c = Ids /\ c = [j \in Ids |-> c[j]]
    BY DEF Construct
  <2> HIDE DEF c
  <2> QED
    BY <1>2, <2>1 DEF PanelRight
<1> HIDE DEF c
<1>4. \A j \in Ids : OpenOrOpening(c[j]) => OpenOrOpening(p[j])
  BY <1>2 DEF OpenOrOpening
<1>5. Accordion => \A j, k \in Ids : OpenOrOpening(c[j]) /\ OpenOrOpening(c[k]) => j = k
  BY <1>4 DEF PanelsRight
<1>6. ASSUME NEW j \in Ids PROVE PanelRight(c[j]) /\ (c[j].class # "collapse" => c[j].data)
  <2>1. p[j].class # "collapse" => p[j].data
    BY DEF PanelsRight
  <2> QED
    BY <1>2, <2>1
<1>7. PanelsRight(c)
  BY <1>3, <1>5, <1>6 DEF PanelsRight
<1> QED
  BY <1>7 DEF c

\* None of those that are open is forgotten.
LEMMA HideActivesRight ==
    ASSUME WidgetsAssumption, NEW p, PanelsRight(p)
    PROVE  /\ HideActives(p) \in [Ids -> Panel]
           /\ \A i \in Ids : HideActives(p)[i] = IF i \in Actives(p) THEN Hide(p[i]) ELSE p[i]
<1>1. \A i \in Actives(p) : i \in Ids /\ p[i].class # "collapse"
  BY DEF Actives, Active
<1>2. Actives(p) # {} => p[First(Actives(p))].data
  BY <1>1, FirstOfActives DEF PanelsRight
<1>3. HideActives(p) = [i \in Ids |-> IF i \notin Actives(p) THEN p[i] ELSE HideNew(p[i])]
  BY <1>2 DEF HideActives
<1>4. \A i \in Actives(p) : HideNew(p[i]) = Hide(p[i]) /\ Hide(p[i]) \in Panel
  BY <1>1, HidePanel DEF PanelsRight, PanelRight
<1> QED
  BY <1>3, <1>4 DEF PanelsRight

\* What holds of the panels once one of them is told to go: its object comes
\* with the click.
Toggled(p, i) ==
    /\ p \in [Ids -> Panel]
    /\ \A j \in Ids : PanelRight(p[j]) /\ (j # i /\ p[j].class # "collapse" => p[j].data)
    /\ Accordion => \A j, k \in Ids : OpenOrOpening(p[j]) /\ OpenOrOpening(p[k]) => j = k

LEMMA ShowPanel ==
    ASSUME WidgetsAssumption, NEW p, PanelsRight(p), NEW i \in Ids
    PROVE  Toggled(Show(p, i), i)
<1> DEFINE h == HideActives(p)
           x == Opening(h[i])
<1>1. CASE p[i].transitioning \/ p[i].class = "in" \/ Busy(p)
  BY <1>1 DEF Show, Toggled, PanelsRight
<1>2. CASE ~(p[i].transitioning \/ p[i].class = "in" \/ Busy(p))
  <2>1. Show(p, i) = [h EXCEPT ![i] = x]
    BY <1>2 DEF Show
  <2>2. PanelRight(p[i]) /\ PanelRests(p[i]) /\ p[i].class = "collapse"
    BY <1>2 DEF PanelsRight, PanelRight, PanelRests, PanelMoves, Panel
  <2>3. i \notin Actives(p)
    BY <2>2 DEF Actives, Active
  <2>4. /\ h \in [Ids -> Panel] /\ h[i] = p[i]
        /\ \A j \in Ids : h[j] = IF j \in Actives(p) THEN Hide(p[j]) ELSE p[j]
    BY <2>3, HideActivesRight
  <2> HIDE DEF h
  <2>5. PanelRight(x)
    BY <2>2, <2>4 DEF Opening, PanelRight, PanelRests, PanelMoves, Panel, OnEnd
  <2> HIDE DEF x
  <2>6. /\ Show(p, i) \in [Ids -> Panel] /\ Show(p, i)[i] = x
        /\ \A j \in Ids : j # i => Show(p, i)[j] = h[j]
    BY <2>1, <2>4, <2>5 DEF PanelRight
  <2>7. \A j \in Ids : PanelRight(h[j]) /\ (h[j].class # "collapse" => h[j].data)
    BY <2>4, HidePanel DEF PanelsRight
  <2>8. ASSUME Accordion, NEW j \in Ids, OpenOrOpening(h[j]) PROVE FALSE
    <3>1. PanelRight(p[j]) /\ OpenOrOpening(p[j])
      BY <2>4, <2>8, HidePanel DEF PanelsRight
    <3>2. j \in Actives(p)
      BY <2>8, <3>1 DEF Actives, Active, PanelRight, PanelRests, PanelMoves, OpenOrOpening
    <3>3. p[j].class = "collapsing"
      BY <2>4, <2>8, <3>1, <3>2, HidePanel
    <3> DEFINE f == First(Actives(p))
    <3>4. f \in Actives(p) /\ f \in Ids
      BY <3>2, FirstOfActives DEF Actives
    <3>5. PanelRight(p[f]) /\ p[f].data
      BY <3>4 DEF PanelsRight, Actives, Active
    <3>6. ~p[f].transitioning
      BY <1>2, <3>2, <3>5 DEF Busy
    <3>7. p[f].class = "in" /\ OpenOrOpening(p[f])
      BY <3>4, <3>5, <3>6 DEF Actives, Active, PanelRight, PanelRests, PanelMoves, OpenOrOpening
    <3>8. f = j
      BY <2>8, <3>1, <3>4, <3>7 DEF PanelsRight
    <3> QED
      BY <3>3, <3>7, <3>8
  <2> QED
    BY <2>5, <2>6, <2>7, <2>8 DEF Toggled
<1> QED
  BY <1>1, <1>2

LEMMA TogglePanelRight ==
    ASSUME WidgetsAssumption, NEW p, PanelsRight(p), NEW i \in Ids
    PROVE  Toggled(TogglePanel(p, i), i)
<1>1. CASE p[i].class = "in"
  <2>1. TogglePanel(p, i) = [p EXCEPT ![i] = Hide(p[i])]
    BY <1>1 DEF TogglePanel
  <2>2. PanelRight(Hide(p[i])) /\ ~OpenOrOpening(Hide(p[i]))
    BY <1>1, HidePanel DEF PanelsRight
  <2> QED
    BY <2>1, <2>2 DEF PanelsRight, Toggled, PanelRight
<1>2. CASE p[i].class # "in"
  BY <1>2, ShowPanel DEF TogglePanel
<1> QED
  BY <1>1, <1>2

LEMMA ClickPanel ==
    ASSUME WidgetsAssumption, PanelsRight(panel), NEW i \in Ids, Click(i)
    PROVE  PanelsRight(panel')
<1> DEFINE t == TogglePanel(Construct(panel, i), i)
           x == [t[i] EXCEPT !.data = TRUE]
<1>1. Toggled(t, i)
  BY ConstructRight, TogglePanelRight
<1>2. panel' = [t EXCEPT ![i] = x]
  BY DEF Click
<1> HIDE DEF t
<1>3. PanelRight(x) /\ x.data /\ x.class = t[i].class /\ x.waits = t[i].waits
  <2>1. PanelRight(t[i])
    BY <1>1 DEF Toggled
  <2> QED
    BY <2>1 DEF PanelRight, PanelRests, PanelMoves, Panel
<1> HIDE DEF x
<1> QED
  BY <1>1, <1>2, <1>3 DEF Toggled, PanelsRight, PanelRight, OpenOrOpening

LEMMA PanelEndsRight ==
    ASSUME PanelsRight(panel), NEW i \in Ids, PanelEnds(i)
    PROVE  PanelsRight(panel')
<1> DEFINE x == Complete(panel[i])
<1>1. panel[i].waits # {} /\ panel' = [panel EXCEPT ![i] = x]
  BY DEF PanelEnds, CanEnd
<1>2. PanelRight(panel[i]) /\ PanelMoves(panel[i]) /\ panel[i].data
  BY <1>1 DEF PanelsRight, PanelRight, PanelRests, PanelMoves
<1>3. PanelRight(x) /\ x.data /\ (OpenOrOpening(x) => OpenOrOpening(panel[i]))
  BY <1>2 DEF Complete, PanelRight, PanelRests, PanelMoves, Panel, Ended, OpenOrOpening
<1> HIDE DEF x
<1> QED
  BY <1>1, <1>3 DEF PanelsRight, PanelRight

LEMMA PanelsStart == ASSUME Opened = {}, CollapseInit PROVE PanelsRight(panel)
<1>1. PICK open \in {{}} : panel = [i \in Ids |-> NewPanel(i \in open)]
  BY DEF CollapseInit
<1>2. ASSUME NEW i \in Ids
      PROVE  PanelRight(panel[i]) /\ panel[i].class = "collapse" /\ ~OpenOrOpening(panel[i])
  <2>1. panel[i] = NewPanel(i \in open)
    BY <1>1
  <2>2. (i \in open) = FALSE
    OBVIOUS
  <2>3. panel[i] = NewPanel(FALSE)
    BY <2>1, <2>2, Zenon
  <2> QED
    BY <2>3 DEF NewPanel, PanelRight, PanelRests, Panel, OpenOrOpening
<1> DEFINE new(i) == NewPanel(i \in open)
<1>3. panel = [i \in Ids |-> new(i)]
  BY <1>1
<1> HIDE DEF new
<1>4. panel \in [Ids -> Panel]
  BY <1>2, <1>3 DEF PanelRight
<1> QED
  BY <1>2, <1>4 DEF PanelsRight

LEMMA PanelsAlways ==
    ASSUME WidgetsAssumption, Opened = {} PROVE WidgetsSpec => []PanelsRight(panel)
<1>1. CollapseInit => PanelsRight(panel)
  BY PanelsStart
<1>2. PanelsRight(panel) /\ [CollapseNext]_panel => PanelsRight(panel)'
  BY ClickPanel, PanelEndsRight DEF CollapseNext
<1> QED
  BY <1>1, <1>2, PTL DEF WidgetsSpec, CollapseSpec

\* However clicks and the ends of transitions follow on each other: of an
\* accordion that the markup has closed one panel is open or opening at most,
\* and no trigger says that a panel is open that is neither (show, hide,
\* getParent).
THEOREM OnePanelOpen == ASSUME WidgetsAssumption, Opened = {} PROVE WidgetsSpec => []OneOpen
<1>1. ASSUME PanelsRight(panel) PROVE OneOpen
  <2> DEFINE S == {i \in Ids : OpenOrOpening(panel[i])}
  <2>2. ASSUME Accordion PROVE Cardinality(S) <= 1
    <3>1. CASE S = {}
      BY <3>1, FS_EmptySet
    <3>2. CASE S # {}
      <4>1. PICK i : i \in S
        BY <3>2
      <4>2. S = {i}
        BY <1>1, <2>2, <4>1 DEF PanelsRight
      <4> QED
        <5>1. Cardinality(S) = 1
          BY <4>2, FS_Singleton
        <5> QED
          BY <5>1
    <3> QED
      BY <3>1, <3>2
  <2>3. \A i \in Ids : panel[i].expanded => OpenOrOpening(panel[i])
    BY <1>1 DEF PanelsRight, PanelRight, PanelRests, PanelMoves, OpenOrOpening
  <2> QED
    BY <2>2, <2>3 DEF OneOpen
<1> QED
  BY <1>1, PanelsAlways, PTL

-----------------------------------------------------------------------------
(* The tooltip.                                                            *)

\* It is to be hidden: a handler will take it out, one that is set or one of
\* those after the i-th that are being run.
ToGo(k, run, i) == \/ \E j \in DOMAIN k.waits : k.waits[j] = "hidden"
                   \/ \E j \in (i + 1)..Len(run) : run[j] = "hidden"

\* One that is in the page has been shown.
Tips == {k \in Tooltip!Tip : k.attached => k.fade}

\* The inductive invariant of the tooltip.  One with nothing on that it is for
\* waits to be hidden, or was, and is on its way out.
TipRight(k, run, i) ==
    /\ k \in Tips
    /\ k.inState = {} =>
           \/ k.timeout = "hide" /\ k.hoverState = "out"
           \/ /\ k.timeout = "none" /\ k.hoverState = "none" /\ ~k.in
              /\ k.attached => ToGo(k, run, i)

LEMMA ShowTip ==
    ASSUME NEW k \in Tips
    PROVE  Tooltip!Show(k) \in Tips /\ Tooltip!Show(k).inState = k.inState
<1>1. Append(k.waits, "shown") \in Seq(Tooltip!Waits)
  BY DEF Tips, Tooltip!Tip, Tooltip!Waits
<1> QED
  BY <1>1 DEF Tooltip!Show, Tips, Tooltip!Tip

LEMMA HideTip ==
    ASSUME NEW k \in Tips, k.timeout = "none", NEW run, NEW i
    PROVE  TipRight(Tooltip!Hide(k), run, i)
<1> DEFINE w == IF k.fade THEN Append(k.waits, "hidden") ELSE k.waits
           h == [k EXCEPT !.in = FALSE, !.hoverState = "none", !.waits = w]
<1>1. w \in Seq(Tooltip!Waits) /\ (k.attached => \E j \in DOMAIN w : w[j] = "hidden")
  <2>1. k.waits \in Seq(Tooltip!Waits) /\ "hidden" \in Tooltip!Waits
    BY DEF Tips, Tooltip!Tip, Tooltip!Waits
  <2>2. /\ Append(k.waits, "hidden") \in Seq(Tooltip!Waits)
        /\ Len(k.waits) + 1 \in DOMAIN Append(k.waits, "hidden")
        /\ Append(k.waits, "hidden")[Len(k.waits) + 1] = "hidden"
    BY <2>1
  <2>3. k.attached => k.fade
    BY DEF Tips
  <2> QED
    BY <2>1, <2>2, <2>3
<1>2. Tooltip!Hide(k) = h
  BY DEF Tooltip!Hide
<1> HIDE DEF w
<1>3. /\ h \in Tips /\ h.timeout = "none" /\ h.hoverState = "none" /\ ~h.in
      /\ h.attached = k.attached /\ h.waits = w
  BY <1>1 DEF Tips, Tooltip!Tip
<1> HIDE DEF h
<1> QED
  BY <1>1, <1>2, <1>3 DEF TipRight, ToGo

LEMMA EnterTip ==
    ASSUME NEW k \in Tips, NEW states \in SUBSET {"click", "hover", "focus"},
           k.inState \cup states # {}, NEW run, NEW i
    PROVE  TipRight(Tooltip!Enter(k, states), run, i)
<1> DEFINE on == k.inState \cup states
           e == [k EXCEPT !.inState = on]
           g == [e EXCEPT !.hoverState = "in"]
           f == [e EXCEPT !.hoverState = "in", !.timeout = "none"]
           d2 == [f EXCEPT !.timeout = "show"]
<1>1. on \in SUBSET {"click", "hover", "focus"} /\ on # {}
  BY DEF Tips, Tooltip!Tip
<1>2. Tooltip!Enter(k, states) \in {g, d2, Tooltip!Show(f)}
  BY DEF Tooltip!Enter
<1> HIDE DEF on
<1>3. e \in Tips /\ e.inState = on
  BY <1>1 DEF Tips, Tooltip!Tip
<1> HIDE DEF e
<1>4. g \in Tips /\ g.inState = on /\ f \in Tips /\ f.inState = on
  BY <1>3 DEF Tips, Tooltip!Tip
<1> HIDE DEF g, f
<1>5. d2 \in Tips /\ d2.inState = on
  BY <1>4 DEF Tips, Tooltip!Tip
<1> HIDE DEF d2
<1> QED
  BY <1>1, <1>2, <1>4, <1>5, ShowTip DEF TipRight

LEMMA LeaveTip ==
    ASSUME NEW k \in Tips, NEW states, NEW run, NEW i
    PROVE  TipRight(Tooltip!Leave(k, states), run, i)
<1> DEFINE on == k.inState \ states
           e == [k EXCEPT !.inState = on]
           f == [e EXCEPT !.hoverState = "out", !.timeout = "none"]
           h == [f EXCEPT !.timeout = "hide"]
<1>1. on \in SUBSET {"click", "hover", "focus"}
  BY DEF Tips, Tooltip!Tip
<1>2. Tooltip!Leave(k, states) = IF e.inState # {} THEN e ELSE IF k.options.delay THEN h ELSE Tooltip!Hide(f)
  BY DEF Tooltip!Leave
<1> HIDE DEF on
<1>3. e \in Tips
  BY <1>1 DEF Tips, Tooltip!Tip
<1> HIDE DEF e
<1>4. f \in Tips /\ f.hoverState = "out" /\ f.timeout = "none"
  BY <1>3 DEF Tips, Tooltip!Tip
<1> HIDE DEF f
<1>5. h \in Tips /\ h.hoverState = "out" /\ h.timeout = "hide"
  BY <1>4 DEF Tips, Tooltip!Tip
<1> HIDE DEF h
<1>6. e.inState # {} => TipRight(e, run, i)
  BY <1>3 DEF TipRight
<1>7. TipRight(h, run, i) /\ TipRight(Tooltip!Hide(f), run, i)
  BY <1>4, <1>5, HideTip DEF TipRight
<1> QED
  BY <1>2, <1>6, <1>7

\* The handlers for the end of a transition.
LEMMA CompleteTip ==
    ASSUME NEW run \in Seq(Tooltip!Waits), NEW i \in 1..Len(run), NEW k, TipRight(k, run, i - 1)
    PROVE  TipRight(Tooltip!Complete(k, run[i]), run, i)
<1>0. k \in Tips
  BY DEF TipRight
<1>1. CASE run[i] = "shown"
  <2> DEFINE s == [k EXCEPT !.hoverState = "none"]
  <2>1. Tooltip!Complete(k, run[i]) = IF k.hoverState = "out" THEN Tooltip!Leave(s, {}) ELSE s
    BY <1>1 DEF Tooltip!Complete, Tooltip!Shown
  <2>2. /\ s \in Tips /\ s.hoverState = "none" /\ s.inState = k.inState /\ s.timeout = k.timeout
        /\ s.in = k.in /\ s.attached = k.attached /\ s.waits = k.waits
    BY <1>0 DEF Tips, Tooltip!Tip
  <2> HIDE DEF s
  <2>3. k.hoverState # "out" => TipRight(s, run, i)
    <3>1. ToGo(k, run, i - 1) => ToGo(s, run, i)
      <4>1. \A j \in ((i - 1) + 1)..Len(run) : j = i \/ j \in (i + 1)..Len(run)
        OBVIOUS
      <4> QED
        BY <1>1, <2>2, <4>1 DEF ToGo
    <3> QED
      BY <2>2, <3>1 DEF TipRight
  <2> QED
    BY <2>1, <2>2, <2>3, LeaveTip
<1>2. CASE run[i] # "shown"
  <2> DEFINE s == [k EXCEPT !.attached = FALSE]
  <2>1. Tooltip!Complete(k, run[i]) = IF k.hoverState # "in" THEN s ELSE k
    BY <1>2 DEF Tooltip!Complete, Tooltip!Hidden
  <2>2. /\ s \in Tips /\ ~s.attached /\ s.inState = k.inState /\ s.timeout = k.timeout
        /\ s.in = k.in /\ s.hoverState = k.hoverState
    BY <1>0 DEF Tips, Tooltip!Tip
  <2> HIDE DEF s
  <2>3. TipRight(s, run, i)
    BY <2>2 DEF TipRight
  <2>4. k.hoverState = "in" => TipRight(k, run, i)
    BY <1>0 DEF TipRight
  <2> QED
    BY <2>1, <2>3, <2>4
<1> QED
  BY <1>1, <1>2

LEMMA TransitionedTip ==
    ASSUME TipRight(tip, <<>>, 0), Tooltip!Transitioned
    PROVE  TipRight(tip', <<>>, 0)
<1> DEFINE run == tip.waits
           n == Len(run)
           start == [tip EXCEPT !.waits = <<>>]
           S == Tips
           step == [x \in S \X (1..n) |-> Tooltip!Complete(x[1], run[x[2]])]
           Loop(g) == g = [i \in 0..n |-> IF i = 0 THEN start ELSE Tooltip!Complete(g[i - 1], run[i])]
           after == CHOOSE g : Loop(g)
<1>1. /\ tip \in Tips /\ run \in Seq(Tooltip!Waits) /\ n \in Nat
      /\ \A i \in 1..n : run[i] \in Tooltip!Waits
  BY DEF TipRight, Tips, Tooltip!Tip
<1>2. tip' = after[n]
  BY DEF Tooltip!Transitioned
<1> HIDE DEF run, n, step, Loop, after
<1>3. start \in Tips /\ TipRight(start, run, 0)
  <2>1. /\ start \in Tips /\ start.inState = tip.inState /\ start.timeout = tip.timeout
        /\ start.hoverState = tip.hoverState /\ start.in = tip.in /\ start.attached = tip.attached
    <3>1. <<>> \in Seq(Tooltip!Waits)
      OBVIOUS
    <3> QED
      BY <1>1, <3>1 DEF Tips, Tooltip!Tip
  <2>2. ToGo(tip, <<>>, 0) => ToGo(start, run, 0)
    <3>1. DOMAIN tip.waits = (0 + 1)..Len(run)
      BY <1>1 DEF run
    <3> QED
      BY <3>1 DEF ToGo, run
  <2> HIDE DEF start
  <2> QED
    BY <2>1, <2>2 DEF TipRight
<1> HIDE DEF start
<1>4. step \in [S \X (1..n) -> S]
  <2>1. ASSUME NEW x \in S, NEW i \in 1..n PROVE Tooltip!Complete(x, run[i]) \in S
    <3> DEFINE y == [x EXCEPT !.hoverState = "none"]
               z == [x EXCEPT !.attached = FALSE]
    <3>1. y \in S /\ z \in S
      BY DEF Tips, Tooltip!Tip
    <3>2. Tooltip!Complete(x, run[i]) \in {x, y, z, Tooltip!Leave(y, {})}
      BY DEF Tooltip!Complete, Tooltip!Shown, Tooltip!Hidden
    <3> HIDE DEF y, z
    <3>3. Tooltip!Leave(y, {}) \in S
      BY <3>1, LeaveTip DEF TipRight
    <3> QED
      BY <3>1, <3>2, <3>3
  <2> HIDE DEF S
  <2> QED
    BY <2>1 DEF step
<1>5. PICK g \in [0..n -> S] : Runs(g, n, start, step)
  <2> HIDE DEF S
  <2>1. n \in Nat /\ start \in S
    BY <1>1, <1>3 DEF S
  <2> QED
    BY <2>1, <1>4, LoopRuns, Zenon
<1>6. Loop(g)
  <2>1. ASSUME NEW i \in 0..n, i # 0 PROVE step[<<g[i - 1], i>>] = Tooltip!Complete(g[i - 1], run[i])
    <3>1. i \in 1..n /\ i - 1 \in 0..n
      BY <1>1, <2>1
    <3> HIDE DEF S
    <3> QED
      BY <3>1 DEF step
  <2>2. \A i \in 0..n : g[i] = IF i = 0 THEN start ELSE step[<<g[i - 1], i>>]
    BY <1>5 DEF Runs
  <2>3. \A i \in 0..n : g[i] = IF i = 0 THEN start ELSE Tooltip!Complete(g[i - 1], run[i])
    BY <2>1, <2>2
  <2> QED
    BY <2>3 DEF Loop
<1>7. Loop(after)
  BY <1>6 DEF after
<1> DEFINE Q == {i \in 0..n : TipRight(after[i], run, i)}
<1>8. 0 \in Q
  BY <1>1, <1>3, <1>7 DEF Loop
<1>9. ASSUME NEW i \in 1..n, i - 1 \in Q PROVE i \in Q
  <2>1. i \in 0..n /\ i # 0 /\ i \in 1..Len(run)
    BY <1>1 DEF n
  <2>2. after[i] = Tooltip!Complete(after[i - 1], run[i])
    BY <1>7, <2>1 DEF Loop
  <2> QED
    BY <1>1, <1>9, <2>1, <2>2, CompleteTip
<1> HIDE DEF Q
<1>10. n \in Q
  <2>1. n \in Nat /\ n \in 0..n
    BY <1>1
  <2>2. \A i \in 0..n : i \in Q
    BY <1>8, <1>9, <2>1, UpTo
  <2> QED
    BY <2>1, <2>2
<1>11. TipRight(tip', run, n)
  BY <1>2, <1>10 DEF Q
<1>12. ToGo(tip', run, n) => ToGo(tip', <<>>, 0)
  <2>1. (n + 1)..Len(run) = {}
    BY <1>1 DEF n
  <2> QED
    BY <2>1 DEF ToGo
<1> QED
  BY <1>11, <1>12 DEF TipRight

LEMMA TimeoutTip ==
    ASSUME TipRight(tip, <<>>, 0), Tooltip!Timeout
    PROVE  TipRight(tip', <<>>, 0)
<1> DEFINE k == [tip EXCEPT !.timeout = "none"]
<1>1. tip \in Tips /\ tip.timeout # "none"
  BY DEF TipRight, Tooltip!Timeout
<1>2. /\ k \in Tips /\ k.timeout = "none" /\ k.inState = tip.inState
  BY <1>1 DEF Tips, Tooltip!Tip
<1>3. tip' = CASE tip.timeout = "show" /\ tip.hoverState = "in"  -> Tooltip!Show(k)
               [] tip.timeout = "hide" /\ tip.hoverState = "out" -> Tooltip!Hide(k)
               [] OTHER -> k
  BY DEF Tooltip!Timeout
<1> HIDE DEF k
<1>4. CASE tip.timeout = "hide" /\ tip.hoverState = "out"
  BY <1>2, <1>3, <1>4, HideTip
<1>5. CASE ~(tip.timeout = "hide" /\ tip.hoverState = "out")
  <2>1. tip.inState # {}
    BY <1>1, <1>5 DEF TipRight
  <2>2. tip' \in {k, Tooltip!Show(k)}
    BY <1>3, <1>5
  <2> QED
    BY <1>2, <2>1, <2>2, ShowTip DEF TipRight
<1> QED
  BY <1>4, <1>5

LEMMA TipStep == ASSUME TipRight(tip, <<>>, 0), [Tooltip!Next]_tip PROVE TipRight(tip', <<>>, 0)
<1>0. tip \in Tips
  BY DEF TipRight
<1>1. CASE Tooltip!MouseEnter \/ Tooltip!FocusIn
  <2>1. \A x \in {"hover", "focus"} : tip.inState \cup {x} # {} /\ {x} \in SUBSET {"click", "hover", "focus"}
    OBVIOUS
  <2> QED
    BY <1>0, <1>1, <2>1, EnterTip DEF Tooltip!MouseEnter, Tooltip!FocusIn
<1>2. CASE Tooltip!MouseLeave \/ Tooltip!FocusOut
  BY <1>0, <1>2, LeaveTip DEF Tooltip!MouseLeave, Tooltip!FocusOut
<1>3. CASE Tooltip!Click
  <2> DEFINE on == (tip.inState \ {"click"}) \cup ({"click"} \ tip.inState)
             t == [tip EXCEPT !.inState = on]
  <2>1. on \in SUBSET {"click", "hover", "focus"}
    BY <1>0 DEF Tips, Tooltip!Tip
  <2>2. tip' = IF t.inState # {} THEN Tooltip!Enter(t, {}) ELSE Tooltip!Leave(t, {})
    BY <1>3 DEF Tooltip!Click, Tooltip!Toggle
  <2> HIDE DEF on
  <2>3. t \in Tips
    BY <1>0, <2>1 DEF Tips, Tooltip!Tip
  <2> HIDE DEF t
  <2>4. t.inState # {} => t.inState \cup {} # {}
    OBVIOUS
  <2> QED
    BY <2>2, <2>3, <2>4, EnterTip, LeaveTip
<1>4. CASE UNCHANGED tip
  BY <1>4
<1> QED
  BY <1>1, <1>2, <1>3, <1>4, TimeoutTip, TransitionedTip DEF Tooltip!Next

LEMMA TipStart == ASSUME Tooltip!Init PROVE TipRight(tip, <<>>, 0)
BY DEF Tooltip!Init, TipRight, Tips, Tooltip!Tip

LEMMA TipAlways == WidgetsSpec => []TipRight(tip, <<>>, 0)
<1>1. Tooltip!Init => TipRight(tip, <<>>, 0)
  BY TipStart
<1>2. TipRight(tip, <<>>, 0) /\ [Tooltip!Next]_tip => TipRight(tip, <<>>, 0)'
  BY TipStep
<1> QED
  BY <1>1, <1>2, PTL DEF WidgetsSpec, Tooltip!Spec

LEMMA TipGone == TipRight(tip, <<>>, 0) => Tooltip!NotLeftBehind
BY DEF TipRight, ToGo, Tooltip!NotLeftBehind

-----------------------------------------------------------------------------
(* The modal.                                                              *)

\* The modal goes round by five stages, of which a transition ends each but the
\* first and the third; without fades those two are all there are.
ModalOver(k) == /\ k.open /\ k.backdrop /\ k.backdrops = 1
           /\ k.padding = IF k.options.long THEN "wider" ELSE "own"

ModalGone(k) == /\ ~k.open /\ ~k.backdrop /\ k.backdrops = 0 /\ k.padding = "own"
           /\ ~k.isShown /\ ~k.displayed /\ ~k.enforced /\ k.onBackdrop = {} /\ k.onElement = {}

ModalComing(k) == /\ ModalOver(k) /\ k.isShown /\ ~k.displayed /\ ~k.enforced
             /\ k.onBackdrop = {"shown"} /\ k.onElement = {}

ModalShown(k) == /\ ModalOver(k) /\ k.isShown /\ k.displayed /\ k.enforced
            /\ k.onBackdrop = {} /\ k.onElement = {}

ModalHiding(k) == /\ ModalOver(k) /\ ~k.isShown /\ k.displayed /\ ~k.enforced
             /\ k.onBackdrop = {} /\ k.onElement = {"hidden"}

ModalLeaving(k) == /\ ModalOver(k) /\ ~k.isShown /\ ~k.displayed /\ ~k.enforced
              /\ k.onBackdrop = {"remove"} /\ k.onElement = {}

ModalTyped(k) == k \in Modals!Modal /\ k.original = "own"
ModalRight(k) == ModalTyped(k) /\ (ModalGone(k) \/ ModalComing(k) \/ ModalShown(k) \/ ModalHiding(k) \/ ModalLeaving(k))

LEMMA OptionFacts ==
    ASSUME WidgetsAssumption, NEW k \in Modals!Modal
    PROVE  /\ k.options.fade \in BOOLEAN /\ k.options.long \in BOOLEAN
           /\ k.options.keyboard \in BOOLEAN /\ k.options.static \in BOOLEAN
BY DEF WidgetsAssumption, Modals!ModalsAssumption, Modals!Modal

\* What stays as it is while the modal gets the focus, or a click to ignore.
LEMMA FocusKeeps ==
    ASSUME NEW k, ModalRight(k), NEW e, ModalTyped(e),
           e.options = k.options, e.open = k.open, e.backdrop = k.backdrop,
           e.backdrops = k.backdrops, e.padding = k.padding, e.isShown = k.isShown,
           e.displayed = k.displayed, e.enforced = k.enforced,
           e.onBackdrop = k.onBackdrop, e.onElement = k.onElement
    PROVE  ModalRight(e)
BY DEF ModalRight, ModalOver, ModalGone, ModalComing, ModalShown, ModalHiding, ModalLeaving

LEMMA ShowElementRight ==
    ASSUME NEW k, ModalTyped(k), WidgetsAssumption, ModalOver(k), k.isShown, k.onBackdrop = {}, k.onElement = {}
    PROVE  ModalRight(Modals!ShowElement(k))
<1> DEFINE e == [k EXCEPT !.displayed = TRUE, !.enforced = TRUE]
           f == [e EXCEPT !.onDialog = Modals!OnEnd(@, "shown")]
           g == [e EXCEPT !.focus = "modal"]
<1>1. ModalTyped(e) /\ ModalShown(e)
  BY DEF ModalTyped, Modals!Modal, ModalOver, ModalShown
<1> HIDE DEF e
<1>2. ModalTyped(f) /\ ModalShown(f)
  BY <1>1 DEF ModalTyped, Modals!Modal, ModalOver, ModalShown, Modals!OnEnd
<1>3. ModalTyped(g) /\ ModalShown(g)
  BY <1>1 DEF ModalTyped, Modals!Modal, ModalOver, ModalShown
<1> HIDE DEF f, g
<1>4. Modals!ShowElement(k) \in {f, g}
  BY DEF Modals!ShowElement, e, f, g
<1> QED
  BY <1>2, <1>3, <1>4 DEF ModalRight

\* The callback of hide takes out what the modal added.
LEMMA HiddenRight ==
    ASSUME NEW k, ModalTyped(k), ModalOver(k), ~k.isShown, ~k.displayed, ~k.enforced,
           k.onBackdrop = {}, k.onElement = {}
    PROVE  ModalRight(Modals!Hidden(Modals!RemoveBackdrop(k)))
<1> DEFINE r == [k EXCEPT !.backdrops = 0, !.backdrop = FALSE]
           p == [r EXCEPT !.padding = r.original]
           h == [p EXCEPT !.open = FALSE, !.focus = "trigger"]
<1>1. Modals!RemoveBackdrop(k) = r
  BY DEF Modals!RemoveBackdrop, ModalOver, ModalTyped, Modals!Modal
<1>2. /\ r \in Modals!Modal /\ r.original = "own" /\ r.backdrops = 0 /\ ~r.backdrop /\ ~r.isShown /\ ~r.displayed
      /\ ~r.enforced /\ r.onBackdrop = {} /\ r.onElement = {}
  BY DEF ModalTyped, Modals!Modal
<1>3. Modals!Hidden(r) = h
  BY DEF Modals!Hidden, Modals!ResetScrollbar
<1> HIDE DEF r
<1>4. /\ p \in Modals!Modal /\ p.original = "own" /\ p.backdrops = 0 /\ ~p.backdrop /\ ~p.isShown /\ ~p.displayed
      /\ ~p.enforced /\ p.onBackdrop = {} /\ p.onElement = {} /\ p.padding = "own"
  BY <1>2 DEF Modals!Modal
<1> HIDE DEF p
<1>5. h \in Modals!Modal /\ h.original = "own" /\ ModalGone(h)
  BY <1>4 DEF Modals!Modal, ModalGone
<1> QED
  BY <1>1, <1>3, <1>5 DEF ModalRight, ModalTyped

LEMMA HideModalRight ==
    ASSUME WidgetsAssumption, NEW k, ModalTyped(k), ModalOver(k), ~k.isShown, k.displayed, ~k.enforced,
           k.onBackdrop = {}, k.onElement = {}
    PROVE  ModalRight(Modals!HideModal(k))
<1> DEFINE h == [k EXCEPT !.displayed = FALSE, !.focus = IF k.focus = "modal" THEN "page" ELSE k.focus]
<1>1. /\ ModalTyped(h) /\ ModalOver(h) /\ ~h.isShown /\ ~h.displayed /\ ~h.enforced
      /\ h.onBackdrop = {} /\ h.onElement = {} /\ h.options = k.options
  BY DEF ModalTyped, Modals!Modal, ModalOver
<1>2. Modals!HideModal(k) = Modals!Backdrop(h, "hidden")
  BY DEF Modals!HideModal
<1> HIDE DEF h
<1>3. CASE h.options.fade
  <2> DEFINE e == [h EXCEPT !.onBackdrop = Modals!OnEnd(@, "remove")]
  <2>1. Modals!Backdrop(h, "hidden") = e
    BY <1>1, <1>3 DEF Modals!Backdrop, ModalOver
  <2>2. ModalTyped(e) /\ ModalLeaving(e)
    BY <1>1 DEF ModalTyped, Modals!Modal, ModalOver, ModalLeaving, Modals!OnEnd
  <2> QED
    BY <1>2, <2>1, <2>2 DEF ModalRight
<1>4. CASE ~h.options.fade
  <2>1. Modals!Backdrop(h, "hidden") = Modals!Hidden(Modals!RemoveBackdrop(h))
    BY <1>1, <1>4 DEF Modals!Backdrop, Modals!Call, ModalOver
  <2> QED
    BY <1>1, <1>2, <2>1, HiddenRight
<1> QED
  BY <1>3, <1>4

LEMMA HideRight ==
    ASSUME WidgetsAssumption, NEW k, ModalRight(k), k.displayed
    PROVE  ModalRight(Modals!Hide(k))
<1>1. CASE ~k.isShown
  BY <1>1 DEF Modals!Hide
<1>2. CASE k.isShown
  <2> DEFINE h == [k EXCEPT !.isShown = FALSE, !.keys = FALSE, !.enforced = FALSE, !.clicks = FALSE]
             e == [h EXCEPT !.onElement = Modals!OnEnd(@, "hidden")]
  <2>0. ModalTyped(k) /\ ModalShown(k)
    BY <1>2 DEF ModalRight, ModalGone, ModalComing, ModalHiding, ModalLeaving
  <2>1. /\ ModalTyped(h) /\ ModalOver(h) /\ ~h.isShown /\ h.displayed /\ ~h.enforced
        /\ h.onBackdrop = {} /\ h.onElement = {}
    BY <2>0 DEF ModalTyped, Modals!Modal, ModalOver, ModalShown
  <2>2. Modals!Hide(k) \in {e, Modals!HideModal(h)}
    BY <1>2 DEF Modals!Hide
  <2> HIDE DEF h
  <2>3. ModalTyped(e) /\ ModalHiding(e)
    BY <2>1 DEF ModalTyped, Modals!Modal, ModalOver, ModalHiding, Modals!OnEnd
  <2> QED
    BY <2>1, <2>2, <2>3, HideModalRight DEF ModalRight
<1> QED
  BY <1>1, <1>2

LEMMA ShowRight ==
    ASSUME WidgetsAssumption, NEW k, ModalTyped(k), ModalGone(k)
    PROVE  ModalRight(Modals!Show(k))
<1> DEFINE p == [k EXCEPT !.original = k.padding,
                          !.padding  = IF k.options.long THEN "wider" ELSE k.padding]
           s == [p EXCEPT !.isShown = TRUE, !.open = TRUE, !.clicks = TRUE,
                          !.keys = p.options.keyboard]
           a == [s EXCEPT !.backdrops = s.backdrops + 1, !.backdrop = TRUE, !.clicks = TRUE]
           e == [a EXCEPT !.onBackdrop = Modals!OnEnd(@, "shown")]
<1>1. /\ ModalTyped(p) /\ p.backdrops = 0 /\ ~p.displayed /\ ~p.enforced /\ p.options = k.options
      /\ p.onBackdrop = {} /\ p.onElement = {}
      /\ p.padding = IF p.options.long THEN "wider" ELSE "own"
  BY DEF ModalTyped, Modals!Modal, ModalGone
<1>2. Modals!SetScrollbar(k) = p
  BY DEF Modals!SetScrollbar
<1>3. Modals!Show(k) = Modals!Backdrop([p EXCEPT !.isShown = TRUE, !.open = TRUE, !.clicks = TRUE,
                                                 !.keys = k.options.keyboard], "shown")
  BY <1>2 DEF Modals!Show, ModalGone
<1>4. Modals!Show(k) = Modals!Backdrop(s, "shown")
  BY <1>1, <1>3
<1> HIDE DEF p
<1>5. /\ ModalTyped(s) /\ s.backdrops = 0 /\ ~s.displayed /\ ~s.enforced /\ s.isShown /\ s.open
      /\ s.onBackdrop = {} /\ s.onElement = {}
      /\ s.padding = IF s.options.long THEN "wider" ELSE "own"
  BY <1>1, OptionFacts DEF ModalTyped, Modals!Modal
<1> HIDE DEF s
<1>6. ModalTyped(a) /\ ModalOver(a) /\ ~a.displayed /\ ~a.enforced /\ a.isShown /\ a.onBackdrop = {} /\ a.onElement = {}
  <2>1. a = [s EXCEPT !.backdrops = 1, !.backdrop = TRUE, !.clicks = TRUE]
    BY <1>5
  <2>2. a \in Modals!Modal /\ a.original = "own"
    <3>1. s \in Modals!Modal /\ s.original = "own" /\ 1 \in Nat
      BY <1>5 DEF ModalTyped
    <3> HIDE DEF a
    <3> QED
      BY <2>1, <3>1 DEF Modals!Modal
  <2>3. /\ a.backdrops = 1 /\ a.backdrop /\ a.open = s.open /\ a.padding = s.padding
        /\ a.options = s.options /\ a.displayed = s.displayed /\ a.enforced = s.enforced
        /\ a.isShown = s.isShown /\ a.onBackdrop = s.onBackdrop /\ a.onElement = s.onElement
    BY <1>5, <2>1 DEF ModalTyped, Modals!Modal
  <2> QED
    BY <1>5, <2>2, <2>3 DEF ModalTyped, ModalOver
<1>7. Modals!Backdrop(s, "shown") \in {e, Modals!ShowElement(a)}
  BY <1>5 DEF Modals!Backdrop, Modals!Call
<1> HIDE DEF a
<1>8. ModalTyped(e) /\ ModalComing(e)
  BY <1>6 DEF ModalTyped, Modals!Modal, ModalOver, ModalComing, Modals!OnEnd
<1> HIDE DEF e
<1> QED
  BY <1>4, <1>6, <1>7, <1>8, ShowElementRight DEF ModalRight

\* The ends of the three transitions.
LEMMA BackdropEndRight == ASSUME WidgetsAssumption, ModalRight(modal), Modals!BackdropEnd PROVE ModalRight(modal')
<1> DEFINE k == [modal EXCEPT !.onBackdrop = {}]
<1>1. PICK w \in modal.onBackdrop :
        modal' = IF w = "remove" THEN Modals!Hidden(Modals!RemoveBackdrop(k)) ELSE Modals!Call(k, w)
  BY DEF Modals!BackdropEnd, Modals!Ended
<1>2. /\ ModalTyped(k) /\ k.onBackdrop = {} /\ k.onElement = modal.onElement
      /\ k.isShown = modal.isShown /\ k.displayed = modal.displayed /\ k.enforced = modal.enforced
      /\ ModalOver(modal) => ModalOver(k)
  BY DEF ModalRight, ModalTyped, Modals!Modal, ModalOver
<1> HIDE DEF k
<1>3. CASE ModalComing(modal)
  <2>1. w = "shown" /\ modal' = Modals!ShowElement(k)
    BY <1>1, <1>3 DEF ModalComing, Modals!Call
  <2> QED
    BY <1>2, <1>3, <2>1, ShowElementRight DEF ModalComing
<1>4. CASE ModalLeaving(modal)
  <2>1. modal' = Modals!Hidden(Modals!RemoveBackdrop(k))
    BY <1>1, <1>4 DEF ModalLeaving
  <2> QED
    BY <1>2, <1>4, <2>1, HiddenRight DEF ModalLeaving
<1> QED
  BY <1>1, <1>3, <1>4 DEF ModalRight, ModalGone, ModalShown, ModalHiding

LEMMA ElementEndRight == ASSUME WidgetsAssumption, ModalRight(modal), Modals!ElementEnd PROVE ModalRight(modal')
<1> DEFINE k == [modal EXCEPT !.onElement = {}]
<1>1. modal.onElement # {} /\ modal' = Modals!HideModal(k)
  BY DEF Modals!ElementEnd, Modals!Ended, Modals!CanEnd
<1>2. ModalHiding(modal)
  BY <1>1 DEF ModalRight, ModalGone, ModalComing, ModalShown, ModalLeaving
<1>3. /\ ModalTyped(k) /\ k.onBackdrop = {} /\ k.onElement = {}
      /\ ~k.isShown /\ k.displayed /\ ~k.enforced /\ ModalOver(k)
  BY <1>2 DEF ModalRight, ModalTyped, Modals!Modal, ModalOver, ModalHiding
<1> HIDE DEF k
<1> QED
  BY <1>1, <1>3, HideModalRight

LEMMA ModalStep == ASSUME WidgetsAssumption, ModalRight(modal), [Modals!Next]_modal PROVE ModalRight(modal')
<1>0. modal \in Modals!Modal /\ modal.original = "own"
  BY DEF ModalRight, ModalTyped
<1>1. CASE Modals!Trigger
  <2> DEFINE k == [modal EXCEPT !.focus = "trigger"]
  <2>1. modal.backdrops = 0 /\ modal' = Modals!Toggle(k)
    BY <1>1 DEF Modals!Trigger
  <2>2. ModalTyped(k) /\ ModalGone(k)
    BY <1>0, <2>1 DEF ModalRight, ModalTyped, Modals!Modal, ModalGone, ModalComing, ModalShown, ModalHiding, ModalLeaving, ModalOver
  <2> HIDE DEF k
  <2> QED
    BY <2>1, <2>2, ShowRight DEF Modals!Toggle, ModalGone
<1>2. CASE Modals!Escape \/ Modals!Dismiss
  BY <1>2, HideRight DEF Modals!Escape, Modals!Dismiss
<1>3. CASE Modals!ClickInside \/ Modals!TabOut \/ Modals!DragOut \/ Modals!DialogEnd
  <2>1. PICK at \in {"trigger", "modal", "page"}, ignore \in BOOLEAN, onDialog \in SUBSET {"shown"} :
          modal' = [modal EXCEPT !.focus = at, !.ignore = ignore, !.onDialog = onDialog]
    <3>0. modal.focus \in {"trigger", "modal", "page"} /\ modal.ignore \in BOOLEAN /\ modal.onDialog \in SUBSET {"shown"}
      BY <1>0 DEF Modals!Modal
    <3>1. CASE Modals!ClickInside
      <4>1. modal' = [modal EXCEPT !.focus = "modal", !.ignore = modal.ignore, !.onDialog = modal.onDialog]
        BY <1>0, <3>1 DEF Modals!ClickInside, Modals!Modal
      <4> QED
        BY <3>0, <4>1
    <3>2. CASE Modals!TabOut
      <4>1. modal' = [modal EXCEPT !.focus = "page", !.ignore = modal.ignore, !.onDialog = modal.onDialog]
        BY <1>0, <3>2 DEF Modals!TabOut, Modals!Modal
      <4> QED
        BY <3>0, <4>1
    <3>3. CASE Modals!DragOut
      <4>1. PICK click \in BOOLEAN : modal' = [modal EXCEPT !.ignore = ~click]
        BY <3>3 DEF Modals!DragOut
      <4>2. modal' = [modal EXCEPT !.focus = modal.focus, !.ignore = ~click, !.onDialog = modal.onDialog]
        BY <1>0, <4>1 DEF Modals!Modal
      <4> QED
        BY <3>0, <4>2
    <3>4. CASE Modals!DialogEnd
      <4> DEFINE f == IF modal.displayed THEN "modal" ELSE modal.focus
      <4>1. modal' = [modal EXCEPT !.focus = f, !.ignore = modal.ignore, !.onDialog = {}]
        BY <1>0, <3>4 DEF Modals!DialogEnd, Modals!Modal, Modals!Ended
      <4>2. f \in {"trigger", "modal", "page"} /\ {} \in SUBSET {"shown"}
        BY <3>0
      <4> HIDE DEF f
      <4> QED
        BY <3>0, <4>1, <4>2
    <3> QED
      BY <1>3, <3>1, <3>2, <3>3, <3>4
  <2>2. /\ ModalTyped(modal')
        /\ modal'.options = modal.options /\ modal'.open = modal.open /\ modal'.backdrop = modal.backdrop
        /\ modal'.backdrops = modal.backdrops /\ modal'.padding = modal.padding
        /\ modal'.isShown = modal.isShown /\ modal'.displayed = modal.displayed
        /\ modal'.enforced = modal.enforced /\ modal'.onBackdrop = modal.onBackdrop
        /\ modal'.onElement = modal.onElement
    BY <1>0, <2>1 DEF ModalTyped, Modals!Modal
  <2> QED
    BY <2>2, FocusKeeps
<1>4. CASE Modals!ClickBeside
  <2> DEFINE a == [modal EXCEPT !.ignore = FALSE]
             b == [modal EXCEPT !.focus = "modal"]
  <2>1. modal.displayed /\ modal' \in {a, b, Modals!Hide(modal)}
    BY <1>4 DEF Modals!ClickBeside
  <2>2. ModalRight(a)
    <3>1. ModalTyped(a)
      BY <1>0 DEF ModalTyped, Modals!Modal
    <3> QED
      BY <1>0, <3>1, FocusKeeps DEF Modals!Modal
  <2>3. ModalRight(b)
    <3>1. ModalTyped(b)
      BY <1>0 DEF ModalTyped, Modals!Modal
    <3> QED
      BY <1>0, <3>1, FocusKeeps DEF Modals!Modal
  <2> HIDE DEF a, b
  <2> QED
    BY <2>1, <2>2, <2>3, HideRight
<1>5. CASE UNCHANGED modal
  BY <1>5
<1> QED
  BY <1>1, <1>2, <1>3, <1>4, <1>5, BackdropEndRight, ElementEndRight DEF Modals!Next

LEMMA ModalStart == ASSUME WidgetsAssumption, Modals!Init PROVE ModalRight(modal)
BY DEF Modals!Init, ModalRight, ModalTyped, Modals!Modal, ModalGone

LEMMA ModalAlways == ASSUME WidgetsAssumption PROVE WidgetsSpec => []ModalRight(modal)
<1>1. Modals!Init => ModalRight(modal)
  BY ModalStart
<1>2. ModalRight(modal) /\ [Modals!Next]_modal => ModalRight(modal)'
  BY ModalStep
<1> QED
  BY <1>1, <1>2, PTL DEF WidgetsSpec, Modals!Spec

LEMMA ModalAllGone == ModalRight(modal) => Modals!NotLeftBehind
BY DEF ModalRight, ModalTyped, Modals!Modal, ModalOver, ModalGone, ModalComing, ModalShown, ModalHiding, ModalLeaving, Modals!NotLeftBehind

\* However a tooltip or a modal is asked for and dismissed while it fades, for any
\* options: at rest nothing is left in the page of one that is not shown (hide,
\* backdrop, resetScrollbar), and what a modal adds is there while it is.
THEOREM NoneLeftBehind == ASSUME WidgetsAssumption PROVE WidgetsSpec => []NotLeftBehind
<1>1. TipRight(tip, <<>>, 0) /\ ModalRight(modal) => NotLeftBehind
  BY TipGone, ModalAllGone DEF NotLeftBehind
<1> QED
  BY <1>1, TipAlways, ModalAlways, PTL

-----------------------------------------------------------------------------
(* The scroll spy.                                                         *)

\* What it keeps is of one layout.
SpyKeeps(s) ==
    /\ s \in ScrollSpy!Spy
    /\ \E l \in Layouts : s.offsets = l.offsets /\ s.scrollHeight = l.height

\* The inductive invariant of the scroll spy: once an event has come since the
\* page is as it is, what it keeps has the height of the page.
SpyInv ==
    /\ SpyKeeps(spy)
    /\ spy.events # 0 => spy.scrollHeight = spy.layout.height
    /\ ScrollSpy!SpiesRight

LEMMA LayoutFacts ==
    ASSUME WidgetsAssumption, NEW l \in Layouts
    PROVE  /\ SpyWindow \in Nat /\ l.height \in Nat /\ ScrollSpy!Max(l) \in Nat
           /\ l.offsets \in Seq(Nat) /\ Len(l.offsets) \in Nat \ {0}
           /\ DOMAIN l.offsets = 1..Len(l.offsets) /\ l.offsets # <<>>
           /\ \A i \in DOMAIN l.offsets : l.offsets[i] \in Nat
           /\ \A i, j \in DOMAIN l.offsets : i < j => l.offsets[i] <= l.offsets[j]
<1>1. /\ SpyWindow \in Nat /\ l.height \in Nat /\ l.offsets \in Seq(Nat) /\ l.offsets # <<>>
      /\ \A i, j \in DOMAIN l.offsets : i < j => l.offsets[i] <= l.offsets[j]
  BY DEF WidgetsAssumption, ScrollSpy!SpyAssumption
<1>2. ScrollSpy!Max(l) \in Nat
  BY <1>1 DEF ScrollSpy!Max
<1>3. /\ Len(l.offsets) \in Nat \ {0} /\ DOMAIN l.offsets = 1..Len(l.offsets)
      /\ \A i \in DOMAIN l.offsets : l.offsets[i] \in Nat
  BY <1>1
<1> QED
  BY <1>1, <1>2, <1>3

\* From wherever the walk over the targets starts, it ends at the last that is not
\* below the top, or stays where it is when they all are.
LEMMA AtLast ==
    ASSUME WidgetsAssumption, NEW l \in Layouts, NEW top \in Nat, NEW active \in Nat
    PROVE  /\ ScrollSpy!At(l.offsets, top, active) \in Nat
           /\ top < l.offsets[1] => ScrollSpy!At(l.offsets, top, active) = active
           /\ top >= l.offsets[1] =>
                ScrollSpy!At(l.offsets, top, active) = ScrollSpy!At(l.offsets, top, ScrollSpy!Nil)
<1> DEFINE o == l.offsets
           n == Len(o)
           here == {i \in DOMAIN o : top >= o[i] /\ (i = n \/ top < o[i + 1])}
<1>1. /\ n \in Nat \ {0} /\ DOMAIN o = 1..n /\ \A i \in 1..n : o[i] \in Nat
      /\ \A i, j \in 1..n : i < j => o[i] <= o[j]
  BY LayoutFacts
<1> HIDE DEF o, n
<1>2. here = {} \/ (CHOOSE i \in here : TRUE) \in here
  OBVIOUS
<1>3. here \subseteq Nat
  BY <1>1
<1>4. top < o[1] => here = {}
  <2> SUFFICES ASSUME top < o[1], NEW i \in here PROVE FALSE
    OBVIOUS
  <2>1. i \in 1..n /\ top >= o[i] /\ o[i] \in Nat /\ o[1] \in Nat
    BY <1>1
  <2>2. i = 1 \/ o[1] <= o[i]
    BY <1>1, <2>1
  <2> QED
    BY <2>1, <2>2
<1>5. top >= o[1] => here # {}
  <2> SUFFICES ASSUME top >= o[1], here = {} PROVE FALSE
    OBVIOUS
  <2>1. top < o[n]
    <3>1. n \in DOMAIN o
      BY <1>1
    <3>2. top >= o[n] => n \in here
      BY <3>1
    <3> QED
      BY <1>1, <3>2
  <2>2. PICK j \in {k \in 1..n : top < o[k]} : \A k \in {k \in 1..n : top < o[k]} : j <= k
    <3>1. {k \in 1..n : top < o[k]} \subseteq Nat /\ {k \in 1..n : top < o[k]} # {}
      BY <1>1, <2>1
    <3> QED
      BY <3>1, LeastNatural
  <2>3. j # 1
    BY <1>1, <2>2
  <2>4. j - 1 \in 1..n /\ (j - 1) + 1 = j
    BY <1>1, <2>2, <2>3
  <2>5. ~(top < o[j - 1])
    BY <1>1, <2>2, <2>4
  <2>6. j - 1 \in here
    BY <1>1, <2>2, <2>4, <2>5
  <2> QED
    BY <2>6
<1> HIDE DEF here
<1>6. \A a : ScrollSpy!At(o, top, a) = IF here = {} THEN a ELSE CHOOSE i \in here : TRUE
  BY DEF ScrollSpy!At, here, n
<1> QED
  BY <1>1, <1>2, <1>3, <1>4, <1>5, <1>6 DEF o, ScrollSpy!Nil

\* One event at a place, by the offsets that were found before.
LEMMA ProcessRight ==
    ASSUME WidgetsAssumption, NEW s, SpyKeeps(s)
    PROVE  /\ SpyKeeps(ScrollSpy!Process(s))
           /\ ScrollSpy!Process(s).layout = s.layout /\ ScrollSpy!Process(s).top = s.top
           /\ ScrollSpy!Process(s).events = s.events
           /\ ScrollSpy!Process(s).scrollHeight = s.layout.height
           /\ s.scrollHeight = s.layout.height /\ ScrollSpy!ToldApart(s.layout) =>
                  ScrollSpy!Process(s).activeTarget = ScrollSpy!Right(s.layout, s.top)
<1> DEFINE r == IF s.scrollHeight # s.layout.height THEN ScrollSpy!Refresh(s) ELSE s
           at == ScrollSpy!At(s.offsets, s.top, s.activeTarget)
           active == CASE s.top >= ScrollSpy!Max(s.layout) -> Len(s.offsets)
                       [] s.top < ScrollSpy!Max(s.layout) /\ s.activeTarget # ScrollSpy!Nil
                            /\ s.offsets # <<>> /\ s.top < s.offsets[1] -> ScrollSpy!Nil
                       [] OTHER -> at
<1>1. /\ s.layout \in Layouts /\ s.top \in Nat /\ s.activeTarget \in Nat
      /\ s = [layout |-> s.layout, top |-> s.top, offsets |-> s.offsets,
              scrollHeight |-> s.scrollHeight, activeTarget |-> s.activeTarget,
              events |-> s.events]
  BY DEF SpyKeeps, ScrollSpy!Spy
<1>2. PICK l \in Layouts : s.offsets = l.offsets /\ s.scrollHeight = l.height
  BY DEF SpyKeeps
<1>3. /\ r \in ScrollSpy!Spy /\ r.layout = s.layout /\ r.activeTarget = s.activeTarget
      /\ r.top = s.top /\ r.events = s.events /\ r.scrollHeight = s.layout.height
      /\ \E k \in Layouts : r.offsets = k.offsets /\ r.scrollHeight = k.height
  <2>1. CASE s.scrollHeight # s.layout.height
    <3>1. r = [s EXCEPT !.offsets = s.layout.offsets, !.scrollHeight = s.layout.height]
      BY <2>1 DEF ScrollSpy!Refresh
    <3> QED
      BY <1>1, <3>1 DEF SpyKeeps, ScrollSpy!Spy
  <2>2. CASE s.scrollHeight = s.layout.height
    BY <1>2, <2>2 DEF SpyKeeps
  <2> QED
    BY <2>1, <2>2
<1>4. at \in Nat /\ Len(s.offsets) \in Nat /\ ScrollSpy!Max(s.layout) \in Nat
  BY <1>1, <1>2, AtLast, LayoutFacts
<1>5. active \in Nat
  <2> HIDE DEF at
  <2> QED
    BY <1>4 DEF ScrollSpy!Nil
<1>6. ScrollSpy!Process(s) = [r EXCEPT !.activeTarget = active]
  BY <1>3 DEF ScrollSpy!Process, ScrollSpy!Mark
<1>7. ASSUME s.scrollHeight = s.layout.height, ScrollSpy!ToldApart(s.layout)
      PROVE  active = ScrollSpy!Right(s.layout, s.top)
  <2>1. s.offsets = s.layout.offsets
    BY <1>2, <1>7 DEF ScrollSpy!ToldApart
  <2>2. s.offsets # <<>> /\ s.offsets[1] \in Nat
    BY <1>1, <2>1, LayoutFacts
  <2>3. /\ s.top < s.offsets[1] => ScrollSpy!At(s.offsets, s.top, ScrollSpy!Nil) = ScrollSpy!Nil
        /\ s.top < s.offsets[1] => at = s.activeTarget
        /\ s.top >= s.offsets[1] => at = ScrollSpy!At(s.offsets, s.top, ScrollSpy!Nil)
    <3>1. ScrollSpy!Nil \in Nat
      BY DEF ScrollSpy!Nil
    <3>2. /\ s.top < s.layout.offsets[1] =>
                ScrollSpy!At(s.layout.offsets, s.top, ScrollSpy!Nil) = ScrollSpy!Nil
          /\ s.top < s.layout.offsets[1] =>
                ScrollSpy!At(s.layout.offsets, s.top, s.activeTarget) = s.activeTarget
          /\ s.top >= s.layout.offsets[1] =>
                ScrollSpy!At(s.layout.offsets, s.top, s.activeTarget) =
                    ScrollSpy!At(s.layout.offsets, s.top, ScrollSpy!Nil)
      BY <1>1, <3>1, AtLast
    <3> QED
      BY <2>1, <3>2
  <2> HIDE DEF at
  <2> QED
    BY <1>1, <1>4, <2>1, <2>2, <2>3 DEF ScrollSpy!Right
<1> HIDE DEF r, active
<1>8. LET p == ScrollSpy!Process(s) IN
      /\ p \in ScrollSpy!Spy /\ p.layout = s.layout /\ p.top = s.top /\ p.events = s.events
      /\ p.activeTarget = active /\ p.offsets = r.offsets /\ p.scrollHeight = r.scrollHeight
  BY <1>3, <1>5, <1>6 DEF ScrollSpy!Spy
<1> QED
  BY <1>3, <1>7, <1>8 DEF SpyKeeps

\* An event: the second, by what the first has kept, is right.
LEMMA EventRight ==
    ASSUME WidgetsAssumption, NEW s, SpyKeeps(s), s.events # 0 => s.scrollHeight = s.layout.height,
           spy' = ScrollSpy!Event(s)
    PROVE  SpyInv'
<1> DEFINE n == IF s.events = 0 THEN 1 ELSE 2
           e == [s EXCEPT !.events = n]
           p == ScrollSpy!Process(e)
<1>1. /\ SpyKeeps(e) /\ e.layout = s.layout /\ e.top = s.top
      /\ e.scrollHeight = s.scrollHeight /\ e.events = n
  BY DEF SpyKeeps, ScrollSpy!Spy
<1>2. spy' = p
  BY DEF ScrollSpy!Event
<1>3. n = 2 => s.events # 0
  OBVIOUS
<1> HIDE DEF n, e
<1>4. /\ SpyKeeps(p) /\ p.layout = s.layout /\ p.top = s.top /\ p.events = n
      /\ p.scrollHeight = s.layout.height
      /\ s.scrollHeight = s.layout.height /\ ScrollSpy!ToldApart(s.layout) =>
             p.activeTarget = ScrollSpy!Right(s.layout, s.top)
  BY <1>1, ProcessRight
<1> HIDE DEF p
<1>5. SpyKeeps(spy)' /\ spy'.scrollHeight = spy'.layout.height
  BY <1>2, <1>4 DEF SpyKeeps
<1>6. spy'.events = 2 /\ ScrollSpy!ToldApart(spy'.layout)
      => spy'.activeTarget = ScrollSpy!Right(spy'.layout, spy'.top)
  BY <1>2, <1>3, <1>4
<1> QED
  BY <1>5, <1>6 DEF SpyInv, ScrollSpy!SpiesRight

LEMMA SpyStart == ASSUME WidgetsAssumption, ScrollSpy!Init PROVE SpyInv
<1>1. PICK l \in Layouts : spy = ScrollSpy!Process([layout |-> l, top |-> 0, offsets |-> l.offsets,
                                        scrollHeight |-> l.height, activeTarget |-> ScrollSpy!Nil,
                                        events |-> 1])
  BY DEF ScrollSpy!Init
<1> DEFINE s == [layout |-> l, top |-> 0, offsets |-> l.offsets, scrollHeight |-> l.height,
                 activeTarget |-> ScrollSpy!Nil, events |-> 1]
<1>2. SpyKeeps(s) /\ s.events = 1 /\ s.layout = l
  BY DEF SpyKeeps, ScrollSpy!Spy, ScrollSpy!Nil
<1>3. spy = ScrollSpy!Process(s)
  BY <1>1
<1> HIDE DEF s
<1>4. SpyKeeps(spy) /\ spy.events = 1 /\ spy.scrollHeight = spy.layout.height
  BY <1>2, <1>3, ProcessRight
<1> QED
  BY <1>4 DEF SpyInv, ScrollSpy!SpiesRight

LEMMA SpyStep == ASSUME WidgetsAssumption, SpyInv, [ScrollSpy!Next]_spy PROVE SpyInv'
<1>1. ASSUME NEW top \in ScrollSpy!Tops, ScrollSpy!Scroll(top) PROVE SpyInv'
  <2> DEFINE s == [spy EXCEPT !.top = top]
  <2>1. top \in Nat
    BY <1>1 DEF ScrollSpy!Tops
  <2>2. /\ SpyKeeps(s) /\ s.events = spy.events
        /\ s.scrollHeight = spy.scrollHeight /\ s.layout = spy.layout
    BY <2>1 DEF SpyInv, SpyKeeps, ScrollSpy!Spy
  <2>3. spy' = ScrollSpy!Event(s)
    BY <1>1 DEF ScrollSpy!Scroll
  <2> HIDE DEF s
  <2> QED
    BY <2>2, <2>3, EventRight DEF SpyInv
<1>2. ASSUME NEW l \in Layouts, ScrollSpy!Resize(l) PROVE SpyInv'
  <2> DEFINE top == IF spy.top > ScrollSpy!Max(l) THEN ScrollSpy!Max(l) ELSE spy.top
             s   == [spy EXCEPT !.layout = l, !.top = top, !.events = 0]
  <2>1. top \in Nat
    BY LayoutFacts DEF SpyInv, SpyKeeps, ScrollSpy!Spy
  <2>2. spy' = ScrollSpy!Event(s) \/ spy' = s
    BY <1>2 DEF ScrollSpy!Resize
  <2> HIDE DEF top
  <2>3. SpyKeeps(s) /\ s.events = 0
    <3>0. spy \in ScrollSpy!Spy
      BY DEF SpyInv, SpyKeeps
    <3>1. s \in ScrollSpy!Spy
      BY <2>1, <3>0, 0 \in 0..2 DEF ScrollSpy!Spy
    <3>2. s.events = 0 /\ s.offsets = spy.offsets /\ s.scrollHeight = spy.scrollHeight
      BY <3>0 DEF ScrollSpy!Spy
    <3> HIDE DEF s
    <3> QED
      BY <3>1, <3>2 DEF SpyInv, SpyKeeps
  <2> HIDE DEF s
  <2>4. CASE spy' = s
    BY <2>3, <2>4 DEF SpyInv, SpyKeeps, ScrollSpy!SpiesRight
  <2>5. CASE spy' = ScrollSpy!Event(s)
    BY <2>3, <2>5, EventRight
  <2> QED
    BY <2>2, <2>4, <2>5
<1>3. CASE UNCHANGED spy
  BY <1>3 DEF SpyInv, SpyKeeps, ScrollSpy!SpiesRight
<1> QED
  BY <1>1, <1>2, <1>3 DEF ScrollSpy!Next

LEMMA SpyAlways == ASSUME WidgetsAssumption PROVE WidgetsSpec => []SpyInv
<1>1. ScrollSpy!Init => SpyInv
  BY SpyStart
<1>2. SpyInv /\ [ScrollSpy!Next]_spy => SpyInv'
  BY SpyStep
<1> QED
  BY <1>1, <1>2, PTL DEF WidgetsSpec, ScrollSpy!Spec

\* However events follow on changes of the page: after the second event since the
\* page is as it is, the link that is marked is the one of the place it is
\* scrolled to (process, refresh).
THEOREM LinkIsRight == ASSUME WidgetsAssumption PROVE WidgetsSpec => []SpiesRight
<1>1. SpyInv => SpiesRight
  BY DEF SpyInv, SpiesRight
<1> QED
  BY <1>1, SpyAlways, PTL

-----------------------------------------------------------------------------
(* The affix.                                                              *)

\* The inductive invariant of the affix: the element is pinned where the bottom
\* was, and never went from the top to the bottom of the page.
AffixInv ==
    /\ affix \in Affix!Affix /\ affix.affixed # "null" /\ affix.top <= Affix!Max(affix.height)
    /\ affix.affixed = "top" => affix.top <= OffsetTop
    /\ affix.affixed = "bottom" =>
           affix.pinned = Affix!Bottom(affix.height) - Height /\ affix.top > OffsetTop
    /\ Affix!Belongs

\* One event, from where the element was left in a page that may have changed.
LEMMA CheckPositionRight ==
    ASSUME WidgetsAssumption, AffixInv, NEW h \in Heights, NEW top \in Nat, NEW settled \in BOOLEAN,
           top <= Affix!Max(h), settled => top = affix.top /\ h = affix.height,
           affix' = Affix!CheckPosition([affix EXCEPT !.height = h, !.top = top, !.settled = settled])
    PROVE  AffixInv'
<1> DEFINE s == [affix EXCEPT !.height = h, !.top = top, !.settled = settled]
           state == Affix!GetState(s)
<1>1. /\ {Window, Height, Pinned, OffsetTop, OffsetBottom} \subseteq Nat
      /\ h \in Nat /\ h - OffsetBottom > OffsetTop + Pinned + Height
      /\ affix.height \in Heights /\ affix.height \in Nat
      /\ affix.height - OffsetBottom > OffsetTop + Pinned + Height
  BY DEF WidgetsAssumption, Affix!AffixAssumption, AffixInv, Affix!Affix
<1>2. /\ s \in Affix!Affix /\ s.height = h /\ s.top = top /\ s.settled = settled
      /\ s.affixed = affix.affixed /\ s.pinned = affix.pinned
  BY DEF AffixInv, Affix!Affix
<1> HIDE DEF s
<1>3. /\ affix' \in Affix!Affix /\ affix'.height = h /\ affix'.top = top /\ affix'.settled = settled
      /\ affix'.affixed = state
      /\ affix'.pinned = IF state = "bottom" THEN h - OffsetBottom - Height ELSE 0
  <2>1. state \in Affix!States
    BY <1>2 DEF Affix!GetState, Affix!States, Affix!Affix
  <2>2. affix' = [s EXCEPT !.affixed = state,
                           !.pinned = IF state = "bottom" THEN h - OffsetBottom - Height ELSE 0]
    BY <1>2 DEF Affix!CheckPosition, Affix!Bottom, s
  <2>3. (IF state = "bottom" THEN h - OffsetBottom - Height ELSE 0) \in Nat
    BY <1>1
  <2> HIDE DEF state
  <2> QED
    BY <1>2, <2>1, <2>2, <2>3 DEF Affix!Affix
<1>4. /\ state # "null" /\ (state = "top" => top <= OffsetTop)
      /\ state = "bottom" => top > OffsetTop
  BY <1>1, <1>2 DEF AffixInv, Affix!GetState, Affix!Position, Affix!Collides, Affix!Bottom, Affix!Affix, Affix!States
<1>5. ASSUME settled
      PROVE  /\ top < OffsetTop => state = "top"
             /\ top > OffsetTop /\ top + Pinned + Height < h - OffsetBottom => state = "false"
             /\ top > OffsetTop /\ top + Pinned + Height > h - OffsetBottom => state = "bottom"
  BY <1>1, <1>2, <1>5 DEF AffixInv, Affix!GetState, Affix!Position, Affix!Collides, Affix!Bottom, Affix!Affix, Affix!States
<1> HIDE DEF state
<1> QED
  BY <1>1, <1>3, <1>4, <1>5 DEF AffixInv, Affix!Belongs, Affix!Bottom

LEMMA AffixStart == ASSUME WidgetsAssumption, Affix!Init PROVE AffixInv
<1>h. PICK h \in Heights : \E top \in 0..Affix!Max(h) :
        affix = Affix!CheckPosition([height |-> h, top |-> top, affixed |-> "null",
                                     pinned |-> 0, settled |-> FALSE])
  BY DEF Affix!Init
<1>1. PICK top \in 0..Affix!Max(h) :
        affix = Affix!CheckPosition([height |-> h, top |-> top, affixed |-> "null",
                                     pinned |-> 0, settled |-> FALSE])
  BY <1>h
<1>2. /\ {Window, Height, Pinned, OffsetTop, OffsetBottom} \subseteq Nat
      /\ h \in Nat /\ h - OffsetBottom > OffsetTop + Pinned + Height
  BY DEF WidgetsAssumption, Affix!AffixAssumption
<1>3. top \in Nat /\ top <= Affix!Max(h)
  BY <1>2 DEF Affix!Max
<1> DEFINE s == [height |-> h, top |-> top, affixed |-> "null", pinned |-> 0, settled |-> FALSE]
           state == Affix!GetState(s)
<1>4. /\ state \in Affix!States \ {"null"} /\ (state = "top" => top <= OffsetTop)
      /\ state = "bottom" => top > OffsetTop
  BY <1>2, <1>3 DEF Affix!GetState, Affix!States
<1>5. affix = [height |-> h, top |-> top, affixed |-> state,
               pinned |-> IF state = "bottom" THEN h - OffsetBottom - Height ELSE 0, settled |-> FALSE]
  BY <1>1 DEF Affix!CheckPosition, Affix!Bottom
<1> HIDE DEF state
<1> QED
  BY <1>2, <1>3, <1>4, <1>5 DEF AffixInv, Affix!Affix, Affix!Bottom, Affix!Belongs

LEMMA AffixStep == ASSUME WidgetsAssumption, AffixInv, [Affix!Next]_affix PROVE AffixInv'
<1>0. /\ Window \in Nat /\ Heights \subseteq Nat
      /\ affix \in [height : Heights, top : Nat, affixed : Affix!States, pinned : Nat, settled : BOOLEAN]
      /\ affix.top <= Affix!Max(affix.height)
  BY DEF WidgetsAssumption, Affix!AffixAssumption, AffixInv, Affix!Affix
<1>1. ASSUME NEW top \in Affix!Tops, Affix!Scroll(top) PROVE AffixInv'
  <2>1. top \in Nat
    BY <1>1 DEF Affix!Tops
  <2>2. [affix EXCEPT !.height = affix.height, !.top = top, !.settled = (top = affix.top)] =
        [affix EXCEPT !.top = top, !.settled = (top = affix.top)]
    BY <1>0
  <2> QED
    BY <1>0, <1>1, <2>1, <2>2, CheckPositionRight DEF Affix!Scroll
<1>2. ASSUME NEW h \in Heights, Affix!Click(h) PROVE AffixInv'
  <2> DEFINE top == IF affix.top > Affix!Max(h) THEN Affix!Max(h) ELSE affix.top
  <2>1. Affix!Max(h) \in Nat
    BY <1>0 DEF Affix!Max
  <2>2. top \in Nat /\ top <= Affix!Max(h) /\ (h = affix.height => top = affix.top)
    BY <1>0, <2>1
  <2>3. affix' = Affix!CheckPosition([affix EXCEPT !.height = h, !.top = top, !.settled = (h = affix.height)])
    BY <1>2 DEF Affix!Click
  <2> HIDE DEF top
  <2> QED
    BY <1>0, <2>2, <2>3, CheckPositionRight
<1>3. CASE UNCHANGED affix
  BY <1>3 DEF AffixInv, Affix!Belongs
<1> QED
  BY <1>1, <1>2, <1>3 DEF Affix!Next

LEMMA AffixAlways == ASSUME WidgetsAssumption PROVE WidgetsSpec => []AffixInv
<1>1. Affix!Init => AffixInv
  BY AffixStart
<1>2. AffixInv /\ [Affix!Next]_affix => AffixInv'
  BY AffixStep
<1> QED
  BY <1>1, <1>2, PTL DEF WidgetsSpec, Affix!Spec

\* However the page and its place in the window change: the second event that
\* finds them as they are has the element where it belongs (checkPosition).
THEOREM ElementBelongs == ASSUME WidgetsAssumption PROVE WidgetsSpec => []Belongs
<1>1. AffixInv => Belongs
  BY DEF AffixInv, Belongs
<1> QED
  BY <1>1, AffixAlways, PTL

-----------------------------------------------------------------------------
(* Types.                                                                  *)

LEMMA SayClassIsPanel == ASSUME NEW x \in Panel PROVE SayClass(x) \in Panel
<1> DEFINE e == (x.class = "in")
<1>1. e \in BOOLEAN
  OBVIOUS
<1>2. SayClass(x) = [x EXCEPT !.expanded = e]
  BY DEF SayClass
<1> HIDE DEF e
<1> QED
  BY <1>1, <1>2 DEF Panel

\* What is told to go stays a panel, with the object it has or without.
LEMMA HideIsPanel ==
    ASSUME NEW x \in Panel
    PROVE  Hide(x) \in Panel /\ HideNew(x) \in Panel /\ Forget(HideNew(x)) \in Panel
<1>1. ASSUME NEW y \in Panel PROVE Hide(y) \in Panel
  BY <1>1 DEF Hide, Panel, OnEnd
<1>2. [SayClass(x) EXCEPT !.data = TRUE] \in Panel
  BY SayClassIsPanel DEF Panel
<1>3. HideNew(x) \in Panel
  BY <1>1, <1>2 DEF HideNew
<1>4. ASSUME NEW y \in Panel PROVE Forget(y) \in Panel
  BY <1>4 DEF Forget, Panel
<1> QED
  BY <1>1, <1>3, <1>4

LEMMA PanelsTyped == ASSUME CollapseTypeOK, [CollapseNext]_panel PROVE CollapseTypeOK'
<1>1. ASSUME NEW p \in [Ids -> Panel] PROVE HideActives(p) \in [Ids -> Panel]
  <2> DEFINE new == Actives(p) # {} /\ ~p[First(Actives(p))].data
  <2>1. HideActives(p) = [i \in Ids |-> IF i \notin Actives(p) THEN p[i]
                                        ELSE IF new THEN Forget(HideNew(p[i])) ELSE HideNew(p[i])]
    BY DEF HideActives
  <2> HIDE DEF new
  <2> QED
    BY <1>1, <2>1, HideIsPanel
<1>2. ASSUME NEW p \in [Ids -> Panel], NEW i \in Ids PROVE TogglePanel(p, i) \in [Ids -> Panel]
  <2>1. ASSUME NEW y \in Panel PROVE Opening(y) \in Panel
    BY <2>1 DEF Opening, Panel, OnEnd
  <2>2. Opening(HideActives(p)[i]) \in Panel /\ Hide(p[i]) \in Panel
    BY <1>1, <1>2, <2>1, HideIsPanel
  <2> QED
    BY <1>1, <1>2, <2>2 DEF TogglePanel, Show
<1>3. ASSUME NEW i \in Ids, Click(i) PROVE panel' \in [Ids -> Panel]
  <2> DEFINE c == Construct(panel, i)
             t == TogglePanel(c, i)
  <2>0. c \in [Ids -> Panel]
    <3>1. \A j \in Ids : panel[j] \in Panel /\ SayClass(panel[j]) \in Panel
      BY SayClassIsPanel DEF CollapseTypeOK
    <3> QED
      BY <3>1 DEF Construct
  <2>1. t \in [Ids -> Panel]
    <3> HIDE DEF c
    <3> QED
      BY <1>2, <1>3, <2>0
  <2>2. panel' = [t EXCEPT ![i] = [t[i] EXCEPT !.data = TRUE]]
    BY <1>3 DEF Click
  <2> HIDE DEF t
  <2>3. [t[i] EXCEPT !.data = TRUE] \in Panel
    <3>1. t[i] \in Panel
      BY <2>1
    <3> QED
      BY <3>1 DEF Panel
  <2> QED
    BY <2>1, <2>2, <2>3
<1>4. ASSUME NEW i \in Ids, PanelEnds(i) PROVE panel' \in [Ids -> Panel]
  <2>1. panel[i] \in Panel
    BY DEF CollapseTypeOK
  <2>2. Complete(panel[i]) \in Panel
    BY <2>1 DEF Complete, Panel, Ended
  <2>3. panel' = [panel EXCEPT ![i] = Complete(panel[i])]
    BY <1>4 DEF PanelEnds
  <2> QED
    BY <2>2, <2>3 DEF CollapseTypeOK
<1> QED
  BY <1>3, <1>4 DEF CollapseNext, CollapseTypeOK

\* The panels keep their type whatever the markup has open.
LEMMA PanelsTypedAlways == WidgetsSpec => []CollapseTypeOK
<1>1. CollapseInit => CollapseTypeOK
  <2> SUFFICES ASSUME CollapseInit PROVE panel \in [Ids -> Panel]
    BY DEF CollapseTypeOK
  <2>1. PICK open : panel = [i \in Ids |-> NewPanel(i \in open)]
    BY DEF CollapseInit
  <2> DEFINE new(i) == NewPanel(i \in open)
  <2>2. ASSUME NEW i \in Ids PROVE new(i) \in Panel
    <3> DEFINE b == i \in open
    <3>1. b \in BOOLEAN
      OBVIOUS
    <3> HIDE DEF b
    <3>2. NewPanel(b) \in Panel
      BY <3>1 DEF NewPanel, Panel
    <3> QED
      BY <3>2 DEF b
  <2>3. panel = [i \in Ids |-> new(i)]
    BY <2>1
  <2> HIDE DEF new
  <2> QED
    BY <2>2, <2>3
<1>2. CollapseTypeOK /\ [CollapseNext]_panel => CollapseTypeOK'
  BY PanelsTyped
<1> QED
  BY <1>1, <1>2, PTL DEF WidgetsSpec, CollapseSpec

\* Every part of the pages keeps its type, for all there may be of each.
THEOREM PagesTypeCorrect == ASSUME BrowserAssumption PROVE PagesSpec => []TypesOK
<1>1. VisitsAssumption /\ DropdownsAssumption /\ WidgetsAssumption /\ MetricsAssumption
  BY DEF BrowserAssumption
<1>2. SpyInv /\ AffixInv /\ CarouselRight(carousel) /\ CollapseTypeOK /\ TipRight(tip, <<>>, 0) /\ ModalRight(modal)
      => WidgetsTypeOK
  BY DEF SpyInv, SpyKeeps, AffixInv, CarouselRight, Tips, TipRight, ModalRight, ModalTyped,
         WidgetsTypeOK,
         CarouselTypeOK, Tooltip!TypeOK, Modals!TypeOK, ScrollSpy!TypeOK, Affix!TypeOK
<1>3. WidgetsSpec => []WidgetsTypeOK
  BY <1>1, <1>2, SpyAlways, AffixAlways, CarouselAlways, PanelsTypedAlways, TipAlways, ModalAlways, PTL
<1>4. TypeOK /\ VisitsTypeOK /\ MenusTypeOK /\ WidgetsTypeOK /\ MetricsTypeOK => TypesOK
  BY DEF TypesOK
<1>5. Spec => []TypeOK
  BY TypeCorrect
<1>6. VisitsSpec => []VisitsTypeOK
  BY <1>1, VisitsTypeCorrect
<1>7. MenusSpec => []MenusTypeOK
  BY <1>1, MenusTypeCorrect
<1>8. MetricsSpec => []MetricsTypeOK
  BY <1>1, PageTypeCorrect
<1> QED
  BY <1>3, <1>4, <1>5, <1>6, <1>7, <1>8, PTL DEF PagesSpec
=============================================================================
