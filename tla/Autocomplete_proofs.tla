------------------------ MODULE Autocomplete_proofs ------------------------
(***************************************************************************)
(* What a search box keeps to, for all texts, suggestions and answers.     *)
(*                                                                         *)
(* The functions of the plugin are from an object to an object, and the    *)
(* bounds of the model only hold at the end of a handler: Loose is the     *)
(* type without them, and Sound what every function preserves.  A lemma    *)
(* for each function says so; the step of an event follows from those of   *)
(* the functions it calls.                                                 *)
(***************************************************************************)
EXTENDS Autocomplete, TLAPS

Loose == [options : Options, text : Texts, currentValue : Texts, suggestions : Lists,
          list : Lists, broken : BOOLEAN, visible : BOOLEAN, selectedIndex : Nat \cup {-1},
          onChangeInterval : BOOLEAN, cachedResponse : [Texts -> Lists \cup {Nothing}],
          badQueries : SUBSET Texts, requests : [Texts -> Nat], focused : BOOLEAN,
          killerFn : BOOLEAN, intervalId : BOOLEAN, location : Suggestions \cup {Nothing}]

\* An answer for the text of the box is what it suggests, or it suggests none.
Latest(b) ==
    b.cachedResponse[b.currentValue] # Nothing =>
        b.suggestions \in {<<>>, b.cachedResponse[b.currentValue]}

\* The empty text is never asked for.
NeverEmpty(b) == b.requests[Empty] = 0 /\ b.cachedResponse[Empty] = Nothing

InStep(b) == b.visible /\ ~b.broken => b.list = b.suggestions

Sound(b) == b \in Loose /\ Latest(b) /\ NeverEmpty(b) /\ InStep(b)

\* The inductive invariant.
SoundBox == Sound(box) /\ Within(box)

-----------------------------------------------------------------------------
LEMMA HideSound ==
    ASSUME NEW b, Sound(b) PROVE Sound(Hide(b))
BY DEF Sound, Loose, Latest, NeverEmpty, InStep, Hide

\* Whatever the box suggested: it suggests nothing when the page moves.
LEMMA SelectSound ==
    ASSUME NEW b, b \in Loose, NeverEmpty(b), NEW i, i + 1 \in DOMAIN b.suggestions
    PROVE  Sound(Select(b, i))
<1> DEFINE s == b.suggestions[i + 1]
<1>1. s \in Suggestions /\ ValueOf[s] \in Texts /\ <<>> \in Lists
  BY TextsAssumption DEF Loose, Lists
<1>2. /\ Hide(b) \in Loose /\ NeverEmpty(Hide(b)) /\ ~Hide(b).visible
      /\ Hide(b).suggestions = b.suggestions
  BY DEF Loose, NeverEmpty, Hide
<1>3. Sound(OnSelect(Hide(b), i))
  BY <1>1, <1>2 DEF Sound, Loose, Latest, NeverEmpty, InStep, OnSelect
<1> QED
  BY <1>3 DEF Select

LEMMA SelectAny ==
    ASSUME NEW b, b \in Loose, Latest(b), NeverEmpty(b), NEW i PROVE Sound(Select(b, i))
<1>1. Sound(Hide(b))
  BY DEF Sound, Loose, Latest, NeverEmpty, InStep, Hide
<1> QED
  BY <1>1, SelectSound DEF Select

LEMMA RenderSound ==
    ASSUME NEW b, b \in Loose, Latest(b), NeverEmpty(b) PROVE Sound(Render(b))
<1> DEFINE i == IF b.options.autoSelectFirst THEN 0 ELSE b.selectedIndex
<1>1. i \in Nat \cup {-1}
  BY DEF Loose
<1> HIDE DEF i
<1>2. Sound([b EXCEPT !.visible = TRUE, !.list = b.suggestions, !.broken = FALSE,
                      !.selectedIndex = i])
  BY <1>1 DEF Sound, Loose, Latest, NeverEmpty, InStep
<1> QED
  BY <1>2 DEF Render, i

\* Before the list is drawn it may be one of other suggestions.
LEMMA SuggestSound ==
    ASSUME NEW b, b \in Loose, Latest(b), NeverEmpty(b) PROVE Sound(Suggest(b))
<1> DEFINE exact == b.options.triggerSelectOnValidInput /\ IsExactMatch(b, b.currentValue)
<1>1. CASE b.suggestions = <<>>
  <2>1. Suggest(b) = NoSuggestions(b)
    BY <1>1 DEF Suggest
  <2>2. Sound(NoSuggestions(b))
    BY <1>1 DEF Sound, Loose, Latest, NeverEmpty, InStep, NoSuggestions
  <2> QED
    BY <2>1, <2>2
<1>2. CASE b.suggestions # <<>> /\ exact
  <2>1. Suggest(b) = Select(b, 0)
    BY <1>2 DEF Suggest
  <2> QED
    BY <2>1, SelectAny
<1>3. CASE b.suggestions # <<>> /\ ~exact
  <2>1. Suggest(b) = IF ~b.options.escapes /\ b.currentValue \in Unformattable
                     THEN [b EXCEPT !.broken = TRUE] ELSE Render(b)
    BY <1>3 DEF Suggest
  <2>2. Sound([b EXCEPT !.broken = TRUE])
    BY DEF Sound, Loose, Latest, NeverEmpty, InStep
  <2> QED
    BY <2>1, <2>2, RenderSound
<1> QED
  BY <1>1, <1>2, <1>3

\* The suggestions may be those of the text before.
LEMMA GetSuggestionsSound ==
    ASSUME NEW b, b \in Loose, NeverEmpty(b), InStep(b), b.currentValue # Empty
    PROVE  Sound(GetSuggestions(b, b.currentValue))
<1> DEFINE q == b.currentValue
<1>0. q \in Texts
  BY DEF Loose
<1>1. CASE b.cachedResponse[q] # Nothing
  <2> DEFINE c == [b EXCEPT !.suggestions = b.cachedResponse[q]]
  <2>1. c \in Loose /\ Latest(c) /\ NeverEmpty(c)
    BY <1>1 DEF Loose, Latest, NeverEmpty
  <2> QED
    BY <1>1, <2>1, SuggestSound DEF GetSuggestions
<1>2. CASE b.cachedResponse[q] = Nothing
  <2> DEFINE r == [b.requests EXCEPT ![q] = @ + 1]
  <2>1. r \in [Texts -> Nat] /\ r[Empty] = b.requests[Empty]
    BY <1>0, TextsAssumption DEF Loose
  <2> HIDE DEF r
  <2>2. Sound([b EXCEPT !.requests = r])
    BY <1>2, <2>1 DEF Sound, Loose, Latest, NeverEmpty, InStep
  <2>3. [b EXCEPT !.requests = r] = [b EXCEPT !.requests[q] = @ + 1]
    BY DEF Loose, r
  <2>4. Sound(b)
    BY <1>2 DEF Sound, Latest
  <2> QED
    BY <1>2, <2>2, <2>3, <2>4 DEF GetSuggestions
<1> QED
  BY <1>1, <1>2

LEMMA OnValueChangeSound ==
    ASSUME NEW b, Sound(b) PROVE Sound(OnValueChange(b))
<1> DEFINE c == [b EXCEPT !.onChangeInterval = FALSE, !.currentValue = b.text,
                          !.selectedIndex = -1]
           exact == b.options.triggerSelectOnValidInput /\ IsExactMatch(b, b.text)
<1>1. /\ c \in Loose /\ NeverEmpty(c) /\ InStep(c) /\ c.currentValue = b.text
      /\ c.suggestions = b.suggestions
  BY DEF Sound, Loose, NeverEmpty, InStep
<1>2. OnValueChange(b) = IF exact THEN Select(c, 0)
                         ELSE IF b.text = Empty THEN Hide(c) ELSE GetSuggestions(c, c.currentValue)
  BY <1>1 DEF OnValueChange
<1> HIDE DEF c
<1>3. CASE exact
  <2>1. 0 + 1 \in DOMAIN c.suggestions
    BY <1>1, <1>3 DEF IsExactMatch, Loose, Lists
  <2> QED
    BY <1>1, <1>2, <1>3, <2>1, SelectSound
<1>4. CASE ~exact /\ b.text = Empty
  <2>1. Sound(c)
    BY <1>1, <1>4 DEF Sound, Latest, NeverEmpty
  <2> QED
    BY <1>2, <1>4, <2>1, HideSound
<1>5. CASE ~exact /\ b.text # Empty
  BY <1>1, <1>2, <1>5, GetSuggestionsSound
<1> QED
  BY <1>3, <1>4, <1>5

LEMMA OnKeyUpSound ==
    ASSUME NEW b, Sound(b) PROVE Sound(OnKeyUp(b))
<1>1. \A v \in BOOLEAN : Sound([b EXCEPT !.onChangeInterval = v])
  BY DEF Sound, Loose, Latest, NeverEmpty, InStep
<1> QED
  BY <1>1, OnValueChangeSound DEF OnKeyUp

\* What is kept is the answer of the text asked for, which is not the empty one.
LEMMA ProcessResponseSound ==
    ASSUME NEW b, Sound(b), NEW q \in Texts, q # Empty, NEW r \in Lists
    PROVE  Sound(ProcessResponse(b, q, r))
<1> DEFINE k == Keep(b, q, r)
<1>1. k \in Loose /\ NeverEmpty(k) /\ InStep(k) /\ k.currentValue = b.currentValue
  BY TextsAssumption DEF Sound, Loose, NeverEmpty, InStep, Keep, Lists
<1>2. CASE q = b.currentValue
  <2> DEFINE c == [k EXCEPT !.suggestions = r]
  <2>1. k.cachedResponse[q] = r
    BY DEF Sound, Loose, Keep
  <2> HIDE DEF k
  <2>2. c \in Loose /\ Latest(c) /\ NeverEmpty(c)
    BY <1>1, <1>2, <2>1 DEF Loose, Latest, NeverEmpty
  <2>3. Sound(Suggest(c))
    BY <2>2, SuggestSound
  <2> QED
    BY <1>2, <2>3 DEF ProcessResponse, k
<1>3. CASE q # b.currentValue
  <2>1. Latest(k)
    BY <1>3 DEF Sound, Loose, Latest, Keep
  <2> QED
    BY <1>1, <1>3, <2>1 DEF ProcessResponse, Sound
<1> QED
  BY <1>2, <1>3

LEMMA AdjustScrollSound ==
    ASSUME NEW b, Sound(b), NEW i \in Nat PROVE Sound(AdjustScroll(b, i))
<1>1. Sound(Activate(b, i)) /\ Activate(b, i).suggestions = b.suggestions
  BY DEF Sound, Loose, Latest, NeverEmpty, InStep, Activate
<1>2. CASE i + 1 \in DOMAIN b.list \cap DOMAIN b.suggestions
  <2>1. ValueOf[b.suggestions[i + 1]] \in Texts
    BY <1>2, TextsAssumption DEF Sound, Loose, Lists
  <2>2. Sound([Activate(b, i) EXCEPT !.text = ValueOf[b.suggestions[i + 1]]])
    BY <1>1, <2>1 DEF Sound, Loose, Latest, NeverEmpty, InStep
  <2> QED
    BY <1>2, <2>2 DEF AdjustScroll
<1> QED
  BY <1>1, <1>2 DEF AdjustScroll

LEMMA OnKeyPressSound ==
    ASSUME NEW b, Sound(b), NEW key \in Keys PROVE Sound(OnKeyPress(b, key))
<1>1. Sound([b EXCEPT !.text = b.currentValue])
  BY DEF Sound, Loose, Latest, NeverEmpty, InStep
<1>2. Sound(Suggest(b))
  BY SuggestSound DEF Sound
<1>3. Sound(MoveUp(b))
  <2>1. CASE b.selectedIndex > 0
    <3>1. b.selectedIndex - 1 \in Nat
      BY <2>1 DEF Sound, Loose
    <3> QED
      BY <2>1, <3>1, AdjustScrollSound DEF MoveUp
  <2>2. CASE b.selectedIndex = 0
    <3>1. Sound([b EXCEPT !.selectedIndex = -1, !.text = b.currentValue])
      BY DEF Sound, Loose, Latest, NeverEmpty, InStep
    <3> QED
      BY <2>2, <3>1 DEF MoveUp
  <2>3. CASE b.selectedIndex = -1
    BY <2>3 DEF MoveUp
  <2> QED
    BY <2>1, <2>2, <2>3 DEF Sound, Loose
<1>4. Sound(MoveDown(b))
  <2>1. b.selectedIndex + 1 \in Nat
    BY DEF Sound, Loose
  <2> QED
    BY <2>1, AdjustScrollSound DEF MoveDown
<1>5. Sound(Hide([b EXCEPT !.text = b.currentValue])) /\ Sound(Hide(b))
  BY <1>1, HideSound
<1>6. Sound(Select(b, b.selectedIndex))
  BY SelectAny DEF Sound
<1> QED
  BY <1>2, <1>3, <1>4, <1>5, <1>6 DEF OnKeyPress, Keys

-----------------------------------------------------------------------------
LEMMA InitSound == Init => Sound(box)
<1> SUFFICES ASSUME NEW o \in Options, box = NewBox(o) PROVE Sound(box)
  BY DEF Init
<1>1. <<>> \in Lists
  BY DEF Lists
<1> QED
  BY <1>1, TextsAssumption DEF NewBox, Sound, Loose, Latest, NeverEmpty, InStep

LEMMA NextSound == ASSUME Sound(box), [Next]_box PROVE Sound(box')
<1> USE DEF Becomes
\* What no part of Sound is about.
<1>0. \A v \in BOOLEAN : /\ Sound([box EXCEPT !.focused = v]) /\ Sound([box EXCEPT !.intervalId = v])
  BY DEF Sound, Loose, Latest, NeverEmpty, InStep
<1>1. CASE OnFocus
  BY <1>0, <1>1, OnValueChangeSound DEF OnFocus
<1>2. CASE OnBlur
  <2>1. \A b : Sound(b) => Sound([b EXCEPT !.focused = FALSE, !.killerFn = TRUE])
    BY DEF Sound, Loose, Latest, NeverEmpty, InStep
  <2> QED
    BY <1>2, <2>1, OnKeyUpSound DEF OnBlur
<1>3. CASE KeyUp
  BY <1>3, OnKeyUpSound DEF KeyUp
<1>4. CASE Timer
  BY <1>4, OnValueChangeSound DEF Timer
<1>5. CASE MouseOut
  BY <1>5 DEF MouseOut, Sound, Loose, Latest, NeverEmpty, InStep
<1>6. CASE ClickAway
  BY <1>6 DEF ClickAway, Sound, Loose, Latest, NeverEmpty, InStep
<1>7. CASE KillSuggestions
  <2>1. Sound([box EXCEPT !.text = box.currentValue])
    BY DEF Sound, Loose, Latest, NeverEmpty, InStep
  <2>2. \A b : Sound(b) => Sound([b EXCEPT !.intervalId = FALSE])
    BY DEF Sound, Loose, Latest, NeverEmpty, InStep
  <2> QED
    BY <1>7, <2>1, <2>2, HideSound DEF KillSuggestions
<1>8. ASSUME NEW t \in Texts, Edit(t) PROVE Sound(box')
  <2>1. Sound([box EXCEPT !.text = t])
    BY DEF Sound, Loose, Latest, NeverEmpty, InStep
  <2> QED
    BY <1>8, <2>1, OnKeyUpSound DEF Edit
<1>9. ASSUME NEW key \in Keys, KeyDown(key) PROVE Sound(box')
  BY <1>9, OnKeyPressSound DEF KeyDown
<1>10. ASSUME NEW q \in Texts, box.requests[q] > 0 
       PROVE  q # Empty /\ Sound([box EXCEPT !.requests[q] = @ - 1])
  <2> DEFINE r == [box.requests EXCEPT ![q] = @ - 1]
  <2>1. q # Empty /\ r \in [Texts -> Nat] /\ r[Empty] = box.requests[Empty]
    BY <1>10, TextsAssumption DEF Sound, Loose, NeverEmpty
  <2> HIDE DEF r
  <2>2. Sound([box EXCEPT !.requests = r])
    BY <2>1 DEF Sound, Loose, Latest, NeverEmpty, InStep
  <2>3. [box EXCEPT !.requests = r] = [box EXCEPT !.requests[q] = @ - 1]
    BY DEF Sound, Loose, r
  <2> QED
    BY <2>1, <2>2, <2>3
<1>11. ASSUME NEW q \in Texts, Answer(q) PROVE Sound(box')
  <2> DEFINE b == [box EXCEPT !.requests[q] = @ - 1]
  <2>1. PICK r \in AnswersTo[box.options][q] : box' = ProcessResponse(b, q, r)
    BY <1>11 DEF Answer
  <2>2. r \in Lists
    BY AnswersAssumption DEF Sound, Loose, Lists
  <2>3. Sound(b) /\ q # Empty
    BY <1>10, <1>11 DEF Answer
  <2> HIDE DEF b
  <2> QED
    BY <2>1, <2>2, <2>3, ProcessResponseSound
<1>12. ASSUME NEW q \in Texts, Failure(q) PROVE Sound(box')
  BY <1>10, <1>12 DEF Failure
<1>13. ASSUME NEW i \in 0..MaxIndex, MouseOver(i) PROVE Sound(box')
  <2>1. i \in Nat
    BY BoundsAssumption
  <2> QED
    BY <1>13, <2>1 DEF MouseOver, Activate, Sound, Loose, Latest, NeverEmpty, InStep
<1>14. ASSUME NEW i \in 0..MaxIndex, Click(i) PROVE Sound(box')
  BY <1>14, SelectAny DEF Click, Sound
<1>15. CASE UNCHANGED box
  BY <1>15
<1> QED
  BY <1>1, <1>2, <1>3, <1>4, <1>5, <1>6, <1>7, <1>8, <1>9, <1>11, <1>12, <1>13, <1>14, <1>15 DEF Next

\* Every event ends within the bounds.
LEMMA NextWithin == ASSUME Within(box), [Next]_box PROVE Within(box')
BY DEF Next, OnFocus, OnBlur, KeyUp, Timer, MouseOut, ClickAway, KillSuggestions, Edit,
       KeyDown, Answer, Failure, MouseOver, Click, Becomes

LEMMA InitWithin == Init => Within(box)
BY BoundsAssumption DEF Init, NewBox, Within, Roomy

LEMMA SoundAlways == Spec => []SoundBox
<1>1. Init => SoundBox
  BY InitSound, InitWithin DEF SoundBox
<1>2. SoundBox /\ [Next]_box => SoundBox'
  BY NextSound, NextWithin DEF SoundBox
<1> QED
  BY <1>1, <1>2, PTL DEF Spec

LEMMA WithinBox == ASSUME SoundBox PROVE TypeOK
<1>1. box.selectedIndex \in -1..MaxIndex
  BY BoundsAssumption DEF SoundBox, Sound, Loose, Within
<1>2. box.requests \in [Texts -> 0..MaxRequests]
  <2>1. ASSUME NEW q \in Texts PROVE box.requests[q] \in 0..MaxRequests
    <3>1. box.requests[q] \in Nat
      BY DEF SoundBox, Sound, Loose
    <3>2. box.requests[q] <= MaxRequests
      BY DEF SoundBox, Within, Roomy
    <3> QED
      BY <3>1, <3>2, BoundsAssumption
  <2> QED
    BY <2>1 DEF SoundBox, Sound, Loose
<1> QED
  BY <1>1, <1>2 DEF TypeOK, Box, SoundBox, Sound, Loose

\* Every handler leaves an object of the type it found.
THEOREM TypeCorrect == Spec => []TypeOK
<1>1. SoundBox => TypeOK
  BY WithinBox
<1> QED
  BY <1>1, SoundAlways, PTL

\* The suggestions are none or those of the text the box stands at, however late
\* and in whatever order the answers come.
THEOREM AnswersLatest == Spec => []LatestAnswer
<1>1. SoundBox => LatestAnswer
  BY DEF SoundBox, Sound, Latest, LatestAnswer
<1> QED
  BY <1>1, SoundAlways, PTL

\* What is drawn is what the keys and clicks select from.
THEOREM ListsInStep == Spec => []ListInStep
<1>1. SoundBox => ListInStep
  BY DEF SoundBox, Sound, InStep, ListInStep
<1> QED
  BY <1>1, SoundAlways, PTL

-----------------------------------------------------------------------------
(* What the page moves to.                                                 *)

\* From b to c the page stays, or moves to what has the name t.
MovesBy(b, c, t) ==
    c.location # b.location =>
        b.options.triggerSelectOnValidInput /\ Lower[ValueOf[c.location]] = Lower[t]

LEMMA SelectMoves ==
    ASSUME NEW b, b \in Loose, NEW i
    PROVE  Select(b, i).location = IF i + 1 \in DOMAIN b.suggestions THEN b.suggestions[i + 1]
                                   ELSE b.location
<1>1. Hide(b) \in Loose /\ Hide(b).suggestions = b.suggestions /\ Hide(b).location = b.location
  BY DEF Hide, Loose
<1>2. OnSelect(Hide(b), i).location = b.suggestions[i + 1]
  BY <1>1 DEF OnSelect, Loose
<1> QED
  BY <1>1, <1>2 DEF Select

LEMMA SuggestMoves ==
    ASSUME NEW b, b \in Loose PROVE MovesBy(b, Suggest(b), b.currentValue)
<1> DEFINE exact == b.options.triggerSelectOnValidInput /\ IsExactMatch(b, b.currentValue)
<1>1. CASE b.suggestions # <<>> /\ exact
  <2>1. Suggest(b) = Select(b, 0)
    BY <1>1 DEF Suggest
  <2>2. Suggest(b).location = IF 0 + 1 \in DOMAIN b.suggestions THEN b.suggestions[0 + 1]
                              ELSE b.location
    BY <2>1, SelectMoves
  <2>3. Suggest(b).location \in {b.suggestions[1], b.location}
    BY <2>2
  <2> QED
    BY <2>3, <1>1 DEF MovesBy, IsExactMatch
<1>2. CASE b.suggestions = <<>>
  BY <1>2 DEF Suggest, NoSuggestions, MovesBy, Loose
<1>3. CASE b.suggestions # <<>> /\ ~exact
  BY <1>3 DEF Suggest, Render, MovesBy, Loose
<1> QED
  BY <1>1, <1>2, <1>3

LEMMA GetSuggestionsMoves ==
    ASSUME NEW b, b \in Loose, NEW q \in Texts
    PROVE  MovesBy(b, GetSuggestions(b, q), b.currentValue)
<1> DEFINE c == [b EXCEPT !.suggestions = b.cachedResponse[q]]
<1>1. CASE b.cachedResponse[q] # Nothing
  <2>1. c \in Loose /\ c.location = b.location /\ c.currentValue = b.currentValue
        /\ c.options = b.options
    BY <1>1 DEF Loose
  <2>2. MovesBy(c, Suggest(c), c.currentValue)
    BY <2>1, SuggestMoves
  <2>3. GetSuggestions(b, q) = Suggest(c)
    BY <1>1 DEF GetSuggestions
  <2> QED
    BY <2>1, <2>2, <2>3 DEF MovesBy
<1>2. CASE b.cachedResponse[q] = Nothing
  BY <1>2 DEF GetSuggestions, MovesBy, Loose
<1> QED
  BY <1>1, <1>2

LEMMA OnValueChangeMoves ==
    ASSUME NEW b, b \in Loose PROVE MovesBy(b, OnValueChange(b), b.text)
<1> DEFINE c == [b EXCEPT !.onChangeInterval = FALSE, !.currentValue = b.text,
                          !.selectedIndex = -1]
<1>1. c \in Loose /\ c.location = b.location /\ c.currentValue = b.text
      /\ c.options = b.options /\ c.suggestions = b.suggestions /\ b.text \in Texts
  BY DEF Loose
<1> HIDE DEF c
<1>2. CASE b.options.triggerSelectOnValidInput /\ IsExactMatch(b, b.text)
  <2>1. OnValueChange(b) = Select(c, 0)
    BY <1>2 DEF OnValueChange, c
  <2>2. Select(c, 0).location = IF 0 + 1 \in DOMAIN c.suggestions THEN c.suggestions[0 + 1]
                                ELSE c.location
    BY <1>1, SelectMoves
  <2>3. OnValueChange(b).location \in {b.suggestions[1], b.location}
    BY <2>1, <2>2, <1>1
  <2> QED
    BY <2>3, <1>2 DEF MovesBy, IsExactMatch
<1>3. CASE ~(b.options.triggerSelectOnValidInput /\ IsExactMatch(b, b.text))
  <2>1. OnValueChange(b) \in {Hide(c), GetSuggestions(c, b.text)}
    BY <1>3 DEF OnValueChange, c
  <2>2. Hide(c).location = b.location
    BY <1>1 DEF Hide, Loose
  <2>3. MovesBy(c, GetSuggestions(c, b.text), b.text)
    BY <1>1, GetSuggestionsMoves
  <2> QED
    BY <2>1, <2>2, <2>3, <1>1 DEF MovesBy
<1> QED
  BY <1>2, <1>3

LEMMA OnKeyUpMoves ==
    ASSUME NEW b, b \in Loose PROVE MovesBy(b, OnKeyUp(b), b.text)
<1>1. MovesBy(b, OnValueChange(b), b.text)
  BY OnValueChangeMoves
<1>2. \A v : [b EXCEPT !.onChangeInterval = v].location = b.location
  BY DEF Loose
<1> QED
  BY <1>1, <1>2 DEF OnKeyUp, MovesBy

LEMMA ProcessResponseMoves ==
    ASSUME NEW b, b \in Loose, NEW q \in Texts, NEW r \in Lists
    PROVE  MovesBy(b, ProcessResponse(b, q, r), b.currentValue)
<1> DEFINE c == [Keep(b, q, r) EXCEPT !.suggestions = r]
<1>1. Keep(b, q, r).location = b.location
  BY DEF Keep, Loose
<1>2. c \in Loose /\ c.location = b.location /\ c.currentValue = b.currentValue
      /\ c.options = b.options
  BY DEF Keep, Loose
<1> HIDE DEF c
<1>3. MovesBy(c, Suggest(c), b.currentValue)
  BY <1>2, SuggestMoves
<1>4. ProcessResponse(b, q, r) \in {Suggest(c), Keep(b, q, r)}
  BY DEF ProcessResponse, c
<1> QED
  BY <1>1, <1>2, <1>3, <1>4 DEF MovesBy

LEMMA AdjustScrollStays ==
    ASSUME NEW b, b \in Loose, NEW i PROVE AdjustScroll(b, i).location = b.location
BY DEF AdjustScroll, Activate, Loose

\* A key moves to the selection of an open list, or opens a list of one.
LEMMA OnKeyPressMoves ==
    ASSUME NEW b, b \in Loose, NEW key \in Keys, OnKeyPress(b, key).location # b.location
    PROVE  \/ MovesBy(b, OnKeyPress(b, key), b.currentValue)
           \/ /\ b.visible /\ b.selectedIndex + 1 \in DOMAIN b.suggestions
              /\ OnKeyPress(b, key).location = b.suggestions[b.selectedIndex + 1]
<1>1. CASE ~b.visible
  BY <1>1, SuggestMoves DEF OnKeyPress, MovesBy
<1>2. CASE b.visible /\ key \in {"TAB", "RETURN"}
  <2>1. Hide(b).location = b.location
    BY DEF Hide, Loose
  <2>2. OnKeyPress(b, key) = Select(b, b.selectedIndex)
    BY <1>2, <2>1 DEF OnKeyPress
  <2> QED
    BY <1>2, <2>2, SelectMoves
<1>3. CASE b.visible /\ key = "ESC"
  <2>1. Hide([b EXCEPT !.text = b.currentValue]).location = b.location
    BY DEF Hide, Loose
  <2> QED
    BY <1>3, <2>1 DEF OnKeyPress
<1>4. CASE b.visible /\ key = "UP"
  <2>1. [b EXCEPT !.selectedIndex = -1, !.text = b.currentValue].location = b.location
    BY DEF Loose
  <2>2. MoveUp(b).location = b.location
    BY <2>1, AdjustScrollStays DEF MoveUp, Loose
  <2> QED
    BY <1>4, <2>2 DEF OnKeyPress
<1>5. CASE b.visible /\ key = "DOWN"
  <2>1. MoveDown(b).location = b.location
    BY AdjustScrollStays DEF MoveDown
  <2> QED
    BY <1>5, <2>1 DEF OnKeyPress
<1>6. CASE b.visible /\ key = "other"
  BY <1>6 DEF OnKeyPress
<1> QED
  BY <1>1, <1>2, <1>3, <1>4, <1>5, <1>6 DEF Keys

\* The suggestion an open list has at the place is the one that is drawn there.
LEMMA SelectedShown ==
    ASSUME SoundBox, box.visible, ~box.broken, NEW i \in Int, i + 1 \in DOMAIN box.suggestions,
           box'.location = box.suggestions[i + 1], i = box.selectedIndex \/ Click(i)
    PROVE  Moves
<1>1. box.list = box.suggestions
  BY DEF SoundBox, Sound, InStep
<1>2. box.selectedIndex \in Int
  BY DEF SoundBox, Sound, Loose
<1>3. i + 1 = box.selectedIndex + 1 \/ Click((i + 1) - 1)
  BY <1>2
<1> QED
  BY <1>1, <1>3 DEF Moves

LEMMA NamedMoves ==
    ASSUME NEW t \in Texts, t \in {box.text, box.currentValue} \/ Edit(t),
           MovesBy(box, box', t), box'.location # box.location
    PROVE  Moves
BY DEF MovesBy, Moves

LEMMA NextMoves ==
    ASSUME SoundBox, [Next]_box, box'.location # box.location PROVE box.broken \/ Moves
<1> USE DEF Becomes
<1>0. Sound(box) /\ box \in Loose /\ box.text \in Texts /\ box.currentValue \in Texts
  BY DEF SoundBox, Sound, Loose
<1>1. CASE OnFocus
  <2> DEFINE b == [box EXCEPT !.focused = TRUE]
  <2>1. b \in Loose /\ b.location = box.location /\ b.text = box.text /\ b.options = box.options
    BY <1>0 DEF Loose
  <2> HIDE DEF b
  <2>2. box' = OnValueChange(b)
    BY <1>1, <2>1 DEF OnFocus, b
  <2>3. MovesBy(box, box', box.text)
    BY <2>1, <2>2, OnValueChangeMoves DEF MovesBy
  <2> QED
    BY <1>0, <2>3, NamedMoves
<1>2. CASE OnBlur
  <2>1. PICK b \in {OnKeyUp(box), box} : box' = [b EXCEPT !.focused = FALSE, !.killerFn = TRUE]
    BY <1>2 DEF OnBlur
  <2>2. b \in Loose
    BY <1>0, OnKeyUpSound DEF Sound
  <2>3. box'.location = b.location
    BY <2>1, <2>2 DEF Loose
  <2>4. MovesBy(box, OnKeyUp(box), box.text)
    BY <1>0, OnKeyUpMoves
  <2>5. MovesBy(box, box', box.text)
    BY <2>3, <2>4 DEF MovesBy
  <2> QED
    BY <1>0, <2>5, NamedMoves
<1>3. CASE KeyUp
  <2>1. MovesBy(box, box', box.text)
    BY <1>0, <1>3, OnKeyUpMoves DEF KeyUp
  <2> QED
    BY <1>0, <2>1, NamedMoves
<1>4. CASE Timer
  <2>1. MovesBy(box, box', box.text)
    BY <1>0, <1>4, OnValueChangeMoves DEF Timer
  <2> QED
    BY <1>0, <2>1, NamedMoves
<1>5. CASE MouseOut \/ ClickAway
  BY <1>0, <1>5 DEF MouseOut, ClickAway, Loose
<1>6. CASE KillSuggestions
  <2>1. Hide([box EXCEPT !.text = box.currentValue]) \in Loose
        /\ Hide([box EXCEPT !.text = box.currentValue]).location = box.location
    BY <1>0 DEF Hide, Loose
  <2>2. PICK b \in Loose : b.location = box.location /\ box' = [b EXCEPT !.intervalId = FALSE]
    BY <1>0, <1>6, <2>1 DEF KillSuggestions
  <2> QED
    BY <2>2 DEF Loose
<1>7. ASSUME NEW t \in Texts, Edit(t) PROVE Moves
  <2> DEFINE b == [box EXCEPT !.text = t]
  <2>1. b \in Loose /\ b.location = box.location /\ b.text = t /\ b.options = box.options
    BY <1>0 DEF Loose
  <2>2. box' = OnKeyUp(b)
    BY <1>7 DEF Edit
  <2> HIDE DEF b
  <2>3. MovesBy(box, box', t)
    BY <2>1, <2>2, OnKeyUpMoves DEF MovesBy
  <2> QED
    BY <1>7, <2>3, NamedMoves
<1>8. ASSUME NEW key \in Keys, KeyDown(key) PROVE box.broken \/ Moves
  <2>1. box' = OnKeyPress(box, key)
    BY <1>8 DEF KeyDown
  <2>2. CASE MovesBy(box, box', box.currentValue)
    BY <1>0, <2>2, NamedMoves
  <2>3. CASE /\ box.visible /\ box.selectedIndex + 1 \in DOMAIN box.suggestions
             /\ box'.location = box.suggestions[box.selectedIndex + 1]
    <3>1. box.selectedIndex \in Int
      BY <1>0 DEF Loose
    <3> QED
      BY <2>3, <3>1, SelectedShown
  <2> QED
    BY <1>0, <2>1, <2>2, <2>3, OnKeyPressMoves
<1>9. ASSUME NEW q \in Texts, Answer(q) PROVE Moves
  <2> DEFINE b == [box EXCEPT !.requests[q] = @ - 1]
  <2>1. PICK r \in AnswersTo[box.options][q] : box' = ProcessResponse(b, q, r)
    BY <1>9 DEF Answer
  <2>2. r \in Lists
    BY <1>0, AnswersAssumption DEF Loose, Lists
  <2>3. box.requests[q] > 0 /\ box.requests \in [Texts -> Nat]
    BY <1>0, <1>9 DEF Answer, Loose
  <2>4. [box.requests EXCEPT ![q] = @ - 1] \in [Texts -> Nat]
    BY <2>3
  <2>5. b = [box EXCEPT !.requests = [box.requests EXCEPT ![q] = @ - 1]]
    BY <1>0 DEF Loose
  <2>6. b \in Loose /\ b.location = box.location /\ b.currentValue = box.currentValue
        /\ b.options = box.options
    BY <1>0, <2>4, <2>5 DEF Loose
  <2> HIDE DEF b
  <2>7. MovesBy(box, box', box.currentValue)
    BY <2>1, <2>2, <2>6, ProcessResponseMoves DEF MovesBy
  <2> QED
    BY <1>0, <2>7, NamedMoves
<1>10. ASSUME NEW q \in Texts, Failure(q) PROVE FALSE
  BY <1>0, <1>10 DEF Failure, Loose
<1>11. ASSUME NEW i \in 0..MaxIndex, MouseOver(i) PROVE FALSE
  BY <1>0, <1>11 DEF MouseOver, Activate, Loose
<1>12. ASSUME NEW i \in 0..MaxIndex, Click(i) PROVE box.broken \/ Moves
  <2>1. box.visible /\ box' = Select(box, i) /\ i \in Int
    BY <1>12, BoundsAssumption DEF Click
  <2>2. i + 1 \in DOMAIN box.suggestions /\ box'.location = box.suggestions[i + 1]
    BY <1>0, <2>1, SelectMoves
  <2> QED
    BY <1>12, <2>1, <2>2, SelectedShown
<1>13. ~UNCHANGED box
  OBVIOUS
<1> QED
  BY <1>1, <1>2, <1>3, <1>4, <1>5, <1>6, <1>7, <1>8, <1>9, <1>10, <1>11, <1>12, <1>13 DEF Next

\* The page moves to nothing its user has not seen or typed the name of.
THEOREM MovesToWhatIsShown == Spec => MovesToShown
<1>1. SoundBox /\ [Next]_box => [box'.location # box.location => box.broken \/ Moves]_box
  BY NextMoves
<1> QED
  BY <1>1, SoundAlways, PTL DEF Spec, MovesToShown

=============================================================================
