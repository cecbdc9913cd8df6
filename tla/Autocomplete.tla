---------------------------- MODULE Autocomplete ----------------------------
(***************************************************************************)
(* One search box of the page (src/static/jquery.autocomplete.js).  `box`  *)
(* is the plugin's object for one input, with the text of the input, what  *)
(* its list shows and the requests under way.  A handler of the plugin is  *)
(* an action; a function that handlers call is an operator from the object *)
(* as it finds it to the object as it leaves it.  Hints are left out: the  *)
(* page has no onHint.                                                     *)
(***************************************************************************)
EXTENDS Integers, Sequences

CONSTANTS
    Texts,          \* what an input may hold
    Empty,          \* the text of no characters, the one below minChars
    Lower,          \* Lower[t]: t in lower case
    StartsWith,     \* pairs <<q, p>> such that q begins with p
    Unformattable,  \* texts highlightMatch can make no regular expression of
    Suggestions,    \* what a list may offer
    ValueOf,        \* ValueOf[s]: the text of suggestion s
    Options,        \* the options of the boxes of the page
    AnswersTo,      \* AnswersTo[o][q]: the lists the service of box o may answer q with
    Nothing,        \* no response, no suggestion
    MaxRequests,    \* bound: requests under way for one query
    MaxIndex        \* bound: how far a selection may run off its list

ASSUME TextsAssumption ==
    /\ Empty \in Texts
    /\ Lower \in [Texts -> Texts]
    /\ ValueOf \in [Suggestions -> Texts]
    /\ Nothing \notin Suggestions /\ Nothing \notin Seq(Suggestions)
ASSUME AnswersAssumption ==
    \A o \in Options : \A q \in Texts : AnswersTo[o][q] \subseteq Seq(Suggestions)
ASSUME OptionsAssumption ==
    Options \subseteq [deferRequestBy : BOOLEAN, autoSelectFirst : BOOLEAN,
                       triggerSelectOnValidInput : BOOLEAN, escapes : BOOLEAN]
ASSUME BoundsAssumption == MaxRequests \in Nat /\ MaxIndex \in Nat

VARIABLE box

Keys  == {"ESC", "TAB", "RETURN", "UP", "DOWN", "other"}
Lists == Seq(Suggestions)

Box == [options          : Options,
        text             : Texts,                    \* that.el.val()
        currentValue     : Texts,
        suggestions      : Lists,
        list             : Lists,                    \* as rendered; <<>>: the notice
        broken           : BOOLEAN,                  \* the last rendering threw
        visible          : BOOLEAN,
        selectedIndex    : -1..MaxIndex,
        onChangeInterval : BOOLEAN,                  \* it runs
        cachedResponse   : [Texts -> Lists \cup {Nothing}],
        badQueries       : SUBSET Texts,
        requests         : [Texts -> 0..MaxRequests],
        focused          : BOOLEAN,
        killerFn         : BOOLEAN,                  \* it listens to the document
        intervalId       : BOOLEAN,                  \* killSuggestions is due
        location         : Suggestions \cup {Nothing}]  \* what moveTo was called for

NewBox(o) ==
    [options |-> o, text |-> Empty, currentValue |-> Empty, suggestions |-> <<>>,
     list |-> <<>>, broken |-> FALSE, visible |-> FALSE, selectedIndex |-> -1,
     onChangeInterval |-> FALSE, cachedResponse |-> [q \in Texts |-> Nothing],
     badQueries |-> {}, requests |-> [q \in Texts |-> 0], focused |-> FALSE,
     killerFn |-> FALSE, intervalId |-> FALSE, location |-> Nothing]

-----------------------------------------------------------------------------
(* The functions of the plugin.                                            *)

Hide(b) == [b EXCEPT !.visible = FALSE, !.selectedIndex = -1, !.onChangeInterval = FALSE]

\* The suggestion at index i, counted from 0, becomes the value, and the page moves.
OnSelect(b, i) ==
    LET s == b.suggestions[i + 1]
    IN [b EXCEPT !.currentValue = ValueOf[s], !.text = ValueOf[s],
                 !.suggestions = <<>>, !.location = s]

\* Where there is no such suggestion onSelect throws, once the list is hidden.
Select(b, i) == IF i + 1 \in DOMAIN b.suggestions THEN OnSelect(Hide(b), i) ELSE Hide(b)

\* Mutant: to begin with the query is enough.
IsPrefixMatch(b, query) ==
    /\ Len(b.suggestions) = 1
    /\ <<Lower[ValueOf[b.suggestions[1]]], Lower[query]>> \in StartsWith

IsExactMatch(b, query) ==
    /\ Len(b.suggestions) = 1
    /\ Lower[ValueOf[b.suggestions[1]]] = Lower[query]

\* The notice leaves the selection as it is.
NoSuggestions(b) == [b EXCEPT !.visible = TRUE, !.list = <<>>, !.broken = FALSE]

Render(b) ==
    [b EXCEPT !.visible = TRUE, !.list = b.suggestions, !.broken = FALSE,
              !.selectedIndex = IF b.options.autoSelectFirst THEN 0 ELSE b.selectedIndex]

\* Mutant: an empty list is not drawn at all.
SuggestSome(b) == IF b.suggestions = <<>> THEN [b EXCEPT !.visible = TRUE] ELSE Render(b)

\* A formatResult that throws leaves the list there was.
Suggest(b) ==
    CASE b.suggestions = <<>> -> NoSuggestions(b)
      [] /\ b.suggestions # <<>>
         /\ b.options.triggerSelectOnValidInput /\ IsExactMatch(b, b.currentValue) ->
            Select(b, 0)
      [] /\ b.suggestions # <<>>
         /\ ~(b.options.triggerSelectOnValidInput /\ IsExactMatch(b, b.currentValue)) ->
            IF ~b.options.escapes /\ b.currentValue \in Unformattable
            THEN [b EXCEPT !.broken = TRUE]
            ELSE Render(b)

IsBadQuery(b, q) == \E p \in b.badQueries : <<q, p>> \in StartsWith

\* abortAjax forgets the request before, which goes on.
GetSuggestions(b, q) ==
    IF b.cachedResponse[q] # Nothing
    THEN Suggest([b EXCEPT !.suggestions = b.cachedResponse[q]])
    ELSE IF IsBadQuery(b, q) THEN b ELSE [b EXCEPT !.requests[q] = @ + 1]

OnValueChange(b) ==
    LET c == [b EXCEPT !.onChangeInterval = FALSE, !.currentValue = b.text,
                       !.selectedIndex = -1]
    IN IF b.options.triggerSelectOnValidInput /\ IsExactMatch(b, b.text) THEN Select(c, 0)
       ELSE IF b.text = Empty THEN Hide(c)
       ELSE GetSuggestions(c, b.text)

\* keyup, of a key that is not an arrow, and the change and input events.
OnKeyUp(b) ==
    IF b.currentValue = b.text THEN [b EXCEPT !.onChangeInterval = FALSE]
    ELSE IF b.options.deferRequestBy THEN [b EXCEPT !.onChangeInterval = TRUE]
    ELSE OnValueChange(b)

\* The list as processResponse leaves it, and what it keeps for later.
Keep(b, q, r) ==
    [b EXCEPT !.cachedResponse[q] = r,
              !.badQueries = IF r = <<>> THEN @ \cup {q} ELSE @]

\* Mutant: an answer is shown whatever the query has become.
ProcessLate(b, q, r) == Suggest([Keep(b, q, r) EXCEPT !.suggestions = r])

ProcessResponse(b, q, r) ==
    IF q = b.currentValue
    THEN Suggest([Keep(b, q, r) EXCEPT !.suggestions = r])
    ELSE Keep(b, q, r)

Activate(b, i) == [b EXCEPT !.selectedIndex = i]

\* The text follows the selection when the list has such an item.
AdjustScroll(b, i) ==
    IF i + 1 \in DOMAIN b.list \cap DOMAIN b.suggestions
    THEN [Activate(b, i) EXCEPT !.text = ValueOf[b.suggestions[i + 1]]]
    ELSE Activate(b, i)

\* Mutant: above the first there is one more.
MoveUpPast(b) == AdjustScroll(b, b.selectedIndex - 1)

MoveUp(b) ==
    CASE b.selectedIndex = -1 -> b
      [] b.selectedIndex = 0 -> [b EXCEPT !.selectedIndex = -1, !.text = b.currentValue]
      [] b.selectedIndex > 0 -> AdjustScroll(b, b.selectedIndex - 1)

MoveDown(b) ==
    IF b.selectedIndex = Len(b.suggestions) - 1 THEN b
    ELSE AdjustScroll(b, b.selectedIndex + 1)

\* keydown.
OnKeyPress(b, key) ==
    IF ~b.visible
    THEN IF key = "DOWN" /\ b.currentValue # Empty THEN Suggest(b) ELSE b
    ELSE CASE key = "ESC"  -> Hide([b EXCEPT !.text = b.currentValue])
           [] key \in {"TAB", "RETURN"} ->
                 IF b.selectedIndex = -1 THEN Hide(b) ELSE Select(b, b.selectedIndex)
           [] key = "UP"    -> MoveUp(b)
           [] key = "DOWN"  -> MoveDown(b)
           [] key = "other" -> b

-----------------------------------------------------------------------------
(* The events.                                                             *)

\* Every request is under way for as long as the network takes.
Roomy(b) == \A q \in Texts : b.requests[q] <= MaxRequests
Within(b) == Roomy(b) /\ b.selectedIndex <= MaxIndex

Becomes(b) == Within(b) /\ box' = b

OnFocus ==
    /\ ~box.focused
    /\ LET b == [box EXCEPT !.focused = TRUE]
       IN Becomes(IF b.text # Empty THEN OnValueChange(b) ELSE b)

\* A text that was changed by hand has its change event first.
OnBlur ==
    /\ box.focused
    /\ \E changed \in BOOLEAN :
           LET b == IF changed THEN OnKeyUp(box) ELSE box
           IN Becomes([b EXCEPT !.focused = FALSE, !.killerFn = TRUE])

\* Typing: the input event, and the keyup of the key.
Edit(t) ==
    /\ box.focused /\ t # box.text
    /\ Becomes(OnKeyUp([box EXCEPT !.text = t]))

KeyDown(key) == box.focused /\ Becomes(OnKeyPress(box, key))
KeyUp        == box.focused /\ Becomes(OnKeyUp(box))

\* onChangeInterval fires.
Timer == box.onChangeInterval /\ Becomes(OnValueChange(box))

Answer(q) ==
    /\ box.requests[q] > 0
    /\ \E r \in AnswersTo[box.options][q] :
           Becomes(ProcessResponse([box EXCEPT !.requests[q] = @ - 1], q, r))

\* onSearchError does nothing: the list stays as it is.
Failure(q) ==
    /\ box.requests[q] > 0
    /\ Becomes([box EXCEPT !.requests[q] = @ - 1])

MouseOver(i) == box.visible /\ i + 1 \in DOMAIN box.list /\ Becomes(Activate(box, i))
MouseOut     == box.visible /\ Becomes([box EXCEPT !.selectedIndex = -1])
Click(i)     == box.visible /\ i + 1 \in DOMAIN box.list /\ Becomes(Select(box, i))

\* A click elsewhere in the document, after the box was left.
ClickAway == box.killerFn /\ Becomes([box EXCEPT !.killerFn = FALSE, !.intervalId = TRUE])

\* The interval killSuggestions has set.
KillSuggestions ==
    /\ box.intervalId
    /\ LET b == IF box.visible THEN Hide([box EXCEPT !.text = box.currentValue]) ELSE box
       IN Becomes([b EXCEPT !.intervalId = FALSE])

Init == \E o \in Options : box = NewBox(o)

Next ==
    \/ OnFocus \/ OnBlur \/ KeyUp \/ Timer \/ MouseOut \/ ClickAway \/ KillSuggestions
    \/ \E t \in Texts : Edit(t)
    \/ \E key \in Keys : KeyDown(key)
    \/ \E q \in Texts : Answer(q) \/ Failure(q)
    \/ \E i \in 0..MaxIndex : MouseOver(i) \/ Click(i)

Spec == Init /\ [][Next]_box

-----------------------------------------------------------------------------
(* Properties.                                                             *)

TypeOK == box \in Box

\* However late answers arrive, and in whatever order, the suggestions of a
\* box are none or those of the query it stands at, once that one has been
\* answered (processResponse, getSuggestions).
LatestAnswer ==
    LET answer == box.cachedResponse[box.currentValue]
    IN box.visible /\ answer # Nothing => box.suggestions \in {<<>>, answer}

\* What the list on the page offers is what its keys and clicks select from,
\* unless the last rendering threw half way (suggest, select, activate).
ListInStep == box.visible /\ ~box.broken => box.list = box.suggestions

\* The page moves to nothing its user has not seen: the suggestion is in the
\* list as it was shown, at the place that was selected or clicked on, or its
\* name is, but for case, the text that was typed (select, onValueChange).
Moves ==
    LET s == box'.location
    IN \/ /\ box.visible
          /\ \E i \in DOMAIN box.list : box.list[i] = s /\ (i = box.selectedIndex + 1 \/ Click(i - 1))
       \/ /\ box.options.triggerSelectOnValidInput
          /\ \E t \in Texts : /\ t \in {box.text, box.currentValue} \/ Edit(t)
                              /\ Lower[ValueOf[s]] = Lower[t]
MovesToShown == [][box'.location # box.location => box.broken \/ Moves]_box
=============================================================================
