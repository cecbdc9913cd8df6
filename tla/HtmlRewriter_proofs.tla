------------------------- MODULE HtmlRewriter_proofs -------------------------
(***************************************************************************)
(* That tags are where they were asked for, once, and that the page is     *)
(* well formed when their ranges nest: for any text, tags and offsets.     *)
(***************************************************************************)
EXTENDS HtmlRewriter, Lists_proofs

\* The tag of an item.
Of(p) == tags[retval[p].of]

\* Where it is, and what is left there.
Phase ==
    /\ pc \in {"add", "collect"} =>
           stop = -1 /\ order = 0 /\ retval = <<>> /\ \A o \in Stops : closes[o] = {}
    /\ pc = "add" => next = 1 /\ \A o \in Stops : opens[o] = {}
    /\ pc \notin {"add", "collect"} => next = Len(tags) + 1
    /\ pc \in {"copy", "close", "open"} => stop \in Stops
    /\ pc \in {"copy", "close"} => order = 0
    /\ TextBefore(Len(retval)) = pos
    /\ IF stop < 0 THEN pos = 0 ELSE IF pc = "copy" THEN pos <= NextStop ELSE pos = NextStop
    /\ \A o \in Stops : o < stop \/ (o = stop /\ pc \in {"stops", "done"}) => opens[o] = {}
    /\ pc = "done" => \A o \in Stops : o > stop => opens[o] = {} /\ closes[o] = {}

\* What is left to close is to come, but for tags that close where they open, or
\* before, beyond the end of the text.
ClosesLeft ==
    \A o \in Stops : \A e \in closes[o] :
        \/ o > stop \/ (o = stop /\ pc \in {"copy", "close"})
        \/ tags[e.tag].close <= tags[e.tag].open /\ tags[e.tag].close > Size

\* Each tag is once among those to open, or on the page.
OpensOnce ==
    /\ \A o \in Stops : \A i, j \in opens[o] : tags[i] = tags[j] => i = j
    /\ \A i \in 1..next - 1 : tags[i].open >= 0 =>
           \/ \E j \in opens[tags[i].open] : tags[j] = tags[i]
           \/ \E p \in Items("open") : Of(p) = tags[i]

TextItems == \A p \in Items("text") : retval[p].of = TextBefore(p)

\* What is open is closed, or left to close.
OpenItems ==
    \A p \in Items("open") :
        /\ Of(p).open \in Stops /\ Of(p).open <= stop
        /\ TextBefore(p) = Within(Of(p).open)
        /\ \A i \in opens[Of(p).open] : tags[i] # Of(p)
        /\ \A q \in Items("open") : Of(q) = Of(p) => q = p
        /\ Of(p).close >= 0 => \/ \E q \in Items("close") : retval[q].of = retval[p].of
                               \/ \E e \in closes[Of(p).close] : e.at = p

CloseItems ==
    \A q \in Items("close") :
        /\ \E p \in Items("open") : retval[p].of = retval[q].of
        /\ Of(q).open < Of(q).close \/ (Of(q).open = Of(q).close /\ Of(q).open <= Size)
               => TextBefore(q) = Within(Of(q).close)
        /\ \A r \in Items("close") : retval[r].of = retval[q].of => r = q
        /\ \A o \in Stops : \A e \in closes[o] : e.tag # retval[q].of

Entries ==
    \A o \in Stops : \A e \in closes[o] :
        /\ e.at \in Items("open") /\ retval[e.at].of = e.tag
        /\ \A f \in closes[o] : e.at = f.at => e = f

PlaceInv == TypeOK /\ Phase /\ ClosesLeft /\ OpensOnce /\ TextItems /\ OpenItems /\ CloseItems /\ Entries

-----------------------------------------------------------------------------
Here(o) == Cardinality({t \in ToSet(tags) : t.open = o})

\* The orders that are given out are those that the keys have room for.
Counted == \A o \in Stops : Cardinality(opens[o]) + (IF o = stop THEN order ELSE 0) <= Here(o)

\* What is opened later was asked for at a later offset, or at the same and
\* closes no later.
InOrder ==
    /\ \A o \in Stops : \A e \in closes[o] :
           /\ e.order >= 1 /\ e.order <= Here(tags[e.tag].open)
           /\ tags[e.tag].open = stop =>
                  /\ e.order <= order
                  /\ \A i \in opens[stop] : tags[i].close <= o
    /\ \A o, u \in Stops : \A e \in closes[o] : \A f \in closes[u] : e.at < f.at =>
           \/ tags[e.tag].open < tags[f.tag].open
           \/ tags[e.tag].open = tags[f.tag].open /\ e.order < f.order /\ u <= o

\* A tag closes after it opens, and after what was opened in between.
ClosedInside ==
    \A p \in Items("open") : \A q \in Items("close") : retval[q].of = retval[p].of =>
        /\ p < q
        /\ \A r \in Items("open") : p < r /\ r < q =>
               \E u \in Items("close") : retval[u].of = retval[r].of /\ u < q

NestInv == PlaceInv /\ Counted /\ InOrder /\ (Nestable /\ NoneEmpty /\ KeysFit => ClosedInside)

-----------------------------------------------------------------------------
(* Offsets, and what a page is with one item more.                         *)

LEMMA StopsFacts == ASSUME RewriterAssumption, NEW o \in Stops PROVE o \in Nat
<1>1. \A r \in Ranges : r[1] \in Int /\ r[2] \in Int
  BY DEF RewriterAssumption
<1> QED
  BY <1>1 DEF Stops, Offsets

LEMMA TagFacts ==
    ASSUME RewriterAssumption, TypeOK, NEW i \in DOMAIN tags
    PROVE  /\ tags[i].open \in Int /\ tags[i].close \in Int
           /\ tags[i].open >= 0 => tags[i].open \in Stops
           /\ tags[i].close >= 0 => tags[i].close \in Stops
<1>1. tags[i] \in Tag /\ <<tags[i].open, tags[i].close>> \in Ranges
  BY DEF TypeOK
<1>2. tags[i].open \in Offsets /\ tags[i].close \in Offsets
  BY <1>1 DEF Offsets
<1> QED
  BY <1>1, <1>2 DEF Tag, Stops

\* t is the page s with x put after it.
Longer(s, t, x) ==
    /\ Len(s) \in Nat /\ Len(t) = Len(s) + 1 /\ DOMAIN t = 1..Len(s) + 1 /\ DOMAIN s = 1..Len(s)
    /\ \A p \in 1..Len(s) :
           t[p] = s[p] /\ Cardinality(Held(t, Chars, p)) = Cardinality(Held(s, Chars, p))
    /\ t[Len(s) + 1] = x
    /\ Cardinality(Held(t, Chars, Len(s) + 1)) =
           Cardinality(Held(s, Chars, Len(s))) + IF x \in Chars THEN 1 ELSE 0
    /\ \A w : {p \in DOMAIN t : t[p].what = w} =
                 {p \in DOMAIN s : s[p].what = w} \cup IF x.what = w THEN {Len(s) + 1} ELSE {}

LEMMA AppendIsLonger ==
    ASSUME NEW S, NEW s \in Seq(S), NEW x \in S
    PROVE  Append(s, x) \in Seq(S) /\ Longer(s, Append(s, x), x)
<1> DEFINE t == Append(s, x)
           n == Len(s)
<1>1. /\ t \in Seq(S) /\ n \in Nat /\ Len(t) = n + 1 /\ DOMAIN t = 1..n + 1 /\ DOMAIN s = 1..n
      /\ \A p \in 1..n : t[p] = s[p]
      /\ t[n + 1] = x
  OBVIOUS
<1> HIDE DEF t, n
<1>2. \A p \in 0..n : Held(t, Chars, p) = Held(s, Chars, p)
  BY <1>1 DEF Held
<1>3. Cardinality(Held(t, Chars, n + 1)) = Cardinality(Held(s, Chars, n)) + IF x \in Chars THEN 1 ELSE 0
  <2>1. /\ Cardinality(Held(t, Chars, n)) \in 0..n
        /\ x \in Chars => Cardinality(Held(t, Chars, n + 1)) = Cardinality(Held(t, Chars, n)) + 1
        /\ x \notin Chars => Cardinality(Held(t, Chars, n + 1)) = Cardinality(Held(t, Chars, n))
    BY <1>1, HeldFacts
  <2>2. Held(t, Chars, n) = Held(s, Chars, n)
    BY <1>1, <1>2
  <2> QED
    BY <2>1, <2>2
<1>4. \A w : {p \in DOMAIN t : t[p].what = w} =
                {p \in DOMAIN s : s[p].what = w} \cup IF x.what = w THEN {n + 1} ELSE {}
  BY <1>1
<1>5. \A p \in 1..n : Held(t, Chars, p) = Held(s, Chars, p)
  BY <1>1, <1>2
<1>6. Longer(s, t, x)
  BY <1>1, <1>3, <1>4, <1>5 DEF Longer, n
<1> QED
  BY <1>1, <1>6 DEF t

\* What a step that writes one item makes of the items there are.
LEMMA OneWritten ==
    ASSUME TypeOK, NEW x \in Item, retval' = Append(retval, x), NEW n, n = Len(retval)
    PROVE  /\ retval' \in Seq(Item) /\ n \in Nat /\ Len(retval') = n + 1
           /\ DOMAIN retval = 1..n /\ DOMAIN retval' = 1..n + 1
           /\ \A p \in 1..n : retval'[p] = retval[p] /\ TextBefore(p)' = TextBefore(p)
           /\ retval'[n + 1] = x
           /\ TextBefore(n + 1)' = TextBefore(n) + IF x \in Chars THEN 1 ELSE 0
           /\ \A w : Items(w)' = Items(w) \cup IF x.what = w THEN {n + 1} ELSE {}
           /\ \A w : Items(w) \subseteq 1..n
<1>1. retval' \in Seq(Item) /\ Longer(retval, retval', x)
  BY AppendIsLonger DEF TypeOK
<1>2. \A w : Items(w) = {p \in DOMAIN retval : retval[p].what = w}
      /\ Items(w)' = {p \in DOMAIN retval' : retval'[p].what = w}
  BY DEF Items
<1>3. \A p : /\ TextBefore(p) = Cardinality(Held(retval, Chars, p))
             /\ TextBefore(p)' = Cardinality(Held(retval', Chars, p))
  BY DEF TextBefore
<1>4. /\ n \in Nat /\ Len(retval') = n + 1 /\ DOMAIN retval = 1..n /\ DOMAIN retval' = 1..n + 1
      /\ retval'[n + 1] = x /\ \A p \in 1..n : retval'[p] = retval[p]
  BY <1>1 DEF Longer
<1>5. \A p \in 1..n : TextBefore(p)' = TextBefore(p)
  BY <1>1, <1>3 DEF Longer
<1>6. TextBefore(n + 1)' = TextBefore(n) + IF x \in Chars THEN 1 ELSE 0
  BY <1>1, <1>3 DEF Longer
<1>7. \A w : Items(w)' = Items(w) \cup IF x.what = w THEN {n + 1} ELSE {}
  BY <1>1, <1>2 DEF Longer
<1>8. \A w : Items(w) \subseteq 1..n
  BY <1>2, <1>4
<1> QED
  BY <1>1, <1>4, <1>5, <1>6, <1>7, <1>8

LEMMA CharsFacts ==
    /\ \A k \in 1..Size : [what |-> "text", of |-> k] \in Chars
    /\ \A i : [what |-> "open", of |-> i] \notin Chars /\ [what |-> "close", of |-> i] \notin Chars
    /\ \A i \in DOMAIN tags : /\ [what |-> "open", of |-> i] \in Item
                              /\ [what |-> "close", of |-> i] \in Item
BY DEF Chars, Item

-----------------------------------------------------------------------------
(* The steps that write nothing.                                           *)

LEMMA NothingWritten ==
    ASSUME retval = <<>>, \A o \in Stops : closes[o] = {}
    PROVE  /\ \A w : Items(w) = {}
           /\ ClosesLeft /\ TextItems /\ OpenItems /\ CloseItems /\ Entries
           /\ ClosedInside /\ InOrder
<1>1. \A w : Items(w) = {}
  BY DEF Items
<1> QED
  BY <1>1 DEF ClosesLeft, TextItems, OpenItems, CloseItems, Entries, ClosedInside, InOrder

LEMMA NoText ==
    ASSUME retval = <<>>
    PROVE  TextBefore(Len(retval)) = 0
<1>1. Len(retval) = 0
  OBVIOUS
<1>2. Cardinality(Held(retval, Chars, 0)) = 0
  BY HeldFacts
<1> QED
  BY <1>1, <1>2 DEF TextBefore

LEMMA InitPlaces == ASSUME RewriterAssumption, Init PROVE PlaceInv
<1>1. TypeOK
  <2>1. tags \in Seq(Tag) /\ retval \in Seq(Item) /\ Len(tags) = 0 /\ DOMAIN tags = {}
    BY DEF Init
  <2>2. opens \in [Stops -> SUBSET DOMAIN tags] /\ closes \in [Stops -> SUBSET Entry]
    BY DEF Init
  <2> QED
    BY <2>1, <2>2 DEF Init, TypeOK, RewriterAssumption
<1>2. TextBefore(Len(retval)) = 0
  BY NoText DEF Init
<1>3. Phase
  BY <1>2 DEF Phase, Init
<1>4. OpensOnce
  BY DEF OpensOnce, Init
<1> QED
  BY <1>1, <1>3, <1>4, NothingWritten DEF Init, PlaceInv

LEMMA AddKeeps == ASSUME RewriterAssumption, PlaceInv, Add PROVE PlaceInv'
<1>1. PICK t \in Tag : /\ <<t.open, t.close>> \in Ranges /\ tags' = Append(tags, t)
  <2>1. PICK r \in Ranges, l \in Labels : tags' = Append(tags, [label |-> l, open |-> r[1], close |-> r[2]])
    BY DEF Add
  <2> DEFINE t == [label |-> l, open |-> r[1], close |-> r[2]]
  <2>2. r[1] \in Int /\ r[2] \in Int /\ r = <<r[1], r[2]>>
    BY DEF RewriterAssumption
  <2>3. t.open = r[1] /\ t.close = r[2] /\ t \in Tag
    BY <2>2 DEF Tag
  <2> QED
    BY <2>1, <2>2, <2>3
<1>2. /\ retval = <<>> /\ next = 1
      /\ \A o \in Stops : closes[o] = {} /\ opens[o] = {}
      /\ UNCHANGED <<pc, next, opens, closes, stop, order, pos, retval>> /\ pc = "add"
  BY DEF Add, PlaceInv, Phase
<1>3. TypeOK'
  <2>1. /\ tags' \in Seq(Tag) /\ Len(tags') = Len(tags) + 1 /\ Len(tags') <= MaxTags
        /\ DOMAIN tags' = 1..Len(tags) + 1 /\ Len(tags) \in Nat
        /\ \A i \in 1..Len(tags) : tags'[i] = tags[i]
        /\ tags'[Len(tags) + 1] = t
    BY <1>1 DEF Add, PlaceInv, TypeOK, RewriterAssumption
  <2>2. \A i \in DOMAIN tags' : <<tags'[i].open, tags'[i].close>> \in Ranges
    <3>1. \A i \in 1..Len(tags) : <<tags[i].open, tags[i].close>> \in Ranges
      BY DEF PlaceInv, TypeOK
    <3>2. \A i \in DOMAIN tags' : i \in 1..Len(tags) \/ i = Len(tags) + 1
      BY <2>1
    <3> QED
      BY <1>1, <2>1, <3>1, <3>2
  <2>3. opens' \in [Stops -> SUBSET DOMAIN tags'] /\ closes' \in [Stops -> SUBSET Entry']
    BY <1>2 DEF PlaceInv, TypeOK
  <2>4. retval' \in Seq(Item')
    BY <1>2
  <2> QED
    BY <1>2, <2>1, <2>2, <2>3, <2>4 DEF PlaceInv, TypeOK
<1>4. TextBefore(Len(retval))' = 0
  BY <1>2, NoText DEF TextBefore
<1>5. Phase'
  BY <1>2, <1>4 DEF PlaceInv, Phase
<1>6. OpensOnce'
  BY <1>2 DEF OpensOnce
<1>7. /\ ClosesLeft' /\ TextItems' /\ OpenItems' /\ CloseItems' /\ Entries'
  <2>1. (\A w : Items(w) = {})'
    BY <1>2 DEF Items
  <2> QED
    BY <1>2, <2>1 DEF ClosesLeft, TextItems, OpenItems, CloseItems, Entries
<1> QED
  BY <1>3, <1>5, <1>6, <1>7 DEF PlaceInv

LEMMA GenerateKeeps == ASSUME PlaceInv, Generate PROVE PlaceInv'
<1>1. TypeOK'
  BY DEF PlaceInv, TypeOK, Generate, Entry, Item
<1>2. Phase'
  BY DEF PlaceInv, Phase, Generate, TextBefore, NextStop
<1> QED
  BY <1>1, <1>2 DEF PlaceInv, Generate, ClosesLeft, OpensOnce, TextItems, OpenItems, CloseItems, Entries,
                    Items, Of, TextBefore

LEMMA AddOpenKeeps == ASSUME RewriterAssumption, PlaceInv, AddOpen PROVE PlaceInv'
<1> DEFINE t == tags[next]
<1>1. /\ pc = "collect" /\ next \in DOMAIN tags /\ next' = next + 1 /\ next \in Nat \ {0}
      /\ DOMAIN tags = 1..Len(tags) /\ Len(tags) \in Nat
      /\ UNCHANGED <<tags, pc, closes, stop, order, pos, retval>>
      /\ retval = <<>> /\ \A o \in Stops : closes[o] = {}
      /\ opens' = IF t.open < 0 \/ \E i \in opens[t.open] : tags[i] = t
                  THEN opens ELSE [opens EXCEPT ![t.open] = @ \cup {next}]
  BY DEF AddOpen, PlaceInv, Phase, TypeOK
<1>2. t.open \in Int /\ (t.open >= 0 => t.open \in Stops)
  BY <1>1, TagFacts DEF PlaceInv
<1>3. /\ DOMAIN opens = Stops /\ DOMAIN opens' = Stops
      /\ \A o \in Stops : opens[o] \subseteq DOMAIN tags /\ \A i \in opens[o] : tags[i].open = o
  BY <1>1 DEF PlaceInv, TypeOK
<1>4. \/ /\ opens' = opens
         /\ t.open < 0 \/ \E i \in opens[t.open] : tags[i] = t
      \/ /\ t.open \in Stops /\ ~ \E i \in opens[t.open] : tags[i] = t
         /\ \A o \in Stops : opens'[o] = opens[o] \cup IF o = t.open THEN {next} ELSE {}
  <2>1. CASE t.open < 0 \/ \E i \in opens[t.open] : tags[i] = t
    BY <1>1, <2>1
  <2>2. CASE ~(t.open < 0 \/ \E i \in opens[t.open] : tags[i] = t)
    <3>1. t.open \in Stops /\ opens' = [opens EXCEPT ![t.open] = @ \cup {next}]
      BY <1>1, <1>2, <2>2
    <3> QED
      BY <1>3, <2>2, <3>1
  <2> QED
    BY <2>1, <2>2
<1>5. \A o \in Stops : opens'[o] \subseteq DOMAIN tags /\ \A i \in opens'[o] : tags[i].open = o
  BY <1>1, <1>3, <1>4
<1>6. TypeOK'
  <2>1. opens' \in [Stops -> SUBSET DOMAIN tags']
    <3>1. opens \in [Stops -> SUBSET DOMAIN tags]
      BY DEF PlaceInv, TypeOK
    <3>2. opens' = opens \/ opens' = [opens EXCEPT ![t.open] = @ \cup {next}]
      BY <1>1
    <3> HIDE DEF t
    <3> QED
      BY <1>1, <3>1, <3>2
  <2>2. next' \in 1..Len(tags') + 1
    BY <1>1
  <2>3. Item' = Item /\ Entry' = Entry
    BY <1>1 DEF Item, Entry
  <2>4. closes' \in [Stops -> SUBSET Entry'] /\ retval' \in Seq(Item')
    BY <1>1, <2>3 DEF PlaceInv, TypeOK
  <2> QED
    BY <1>1, <1>5, <2>1, <2>2, <2>4 DEF PlaceInv, TypeOK
<1>7. Phase'
  <2>1. \A o \in Stops : ~(o < stop) /\ o # stop
    BY <1>1, StopsFacts DEF PlaceInv, Phase
  <2> QED
    BY <1>1, <2>1 DEF PlaceInv, Phase, TextBefore, NextStop
<1>8. OpensOnce'
  <2>1. (\A o \in Stops : \A i, j \in opens[o] : tags[i] = tags[j] => i = j)'
    BY <1>1, <1>4 DEF PlaceInv, OpensOnce
  <2>2. ASSUME NEW i \in 1..next, tags[i].open >= 0
        PROVE  \E j \in opens'[tags[i].open] : tags[j] = tags[i]
    <3>1. tags[i].open \in Stops
      <4>1. i \in DOMAIN tags
        BY <1>1
      <4> QED
        BY <2>2, <4>1, TagFacts DEF PlaceInv
    <3>2. CASE i = next
      BY <1>2, <1>4, <2>2, <3>1, <3>2
    <3>3. CASE i # next
      <4>1. i \in 1..next - 1 /\ Items("open") = {}
        BY <1>1, <3>3 DEF Items
      <4>2. PICK j \in opens[tags[i].open] : tags[j] = tags[i]
        BY <2>2, <4>1 DEF PlaceInv, OpensOnce
      <4>3. j \in opens'[tags[i].open]
        BY <1>4, <3>1
      <4> QED
        BY <4>2, <4>3
    <3> QED
      BY <3>2, <3>3
  <2>3. next' - 1 = next
    BY <1>1
  <2> QED
    BY <1>1, <2>1, <2>2, <2>3 DEF OpensOnce
<1>9. /\ ClosesLeft' /\ TextItems' /\ OpenItems' /\ CloseItems' /\ Entries'
  <2>1. (\A w : Items(w) = {})'
    BY <1>1 DEF Items
  <2> QED
    BY <1>1, <2>1 DEF ClosesLeft, TextItems, OpenItems, CloseItems, Entries
<1> QED
  BY <1>6, <1>7, <1>8, <1>9 DEF PlaceInv

\* What is said of the page itself stays so.
LEMMA PageKept ==
    ASSUME PlaceInv, UNCHANGED <<tags, next, opens, closes, retval>>, stop' = stop \/ stop' > stop,
           stop \in Int, stop' \in Int, RewriterAssumption
    PROVE  OpensOnce' /\ TextItems' /\ OpenItems' /\ CloseItems' /\ Entries'
<1>1. \A p : TextBefore(p)' = TextBefore(p) /\ Of(p)' = Of(p)
  BY DEF TextBefore, Of
<1>2. \A w : Items(w)' = Items(w)
  BY DEF Items
<1>3. OpensOnce' /\ TextItems' /\ CloseItems' /\ Entries'
  BY <1>1, <1>2 DEF PlaceInv, OpensOnce, TextItems, CloseItems, Entries
<1>4. \A o \in Stops : o <= stop => o <= stop'
  BY StopsFacts
<1>5. OpenItems'
  BY <1>1, <1>2, <1>4 DEF PlaceInv, OpenItems
<1> QED
  BY <1>3, <1>5

LEMMA StopFacts ==
    ASSUME RewriterAssumption, TypeOK PROVE stop \in Int /\ pos \in Int /\ Size \in Nat
BY StopsFacts DEF TypeOK, RewriterAssumption

LEMMA OpensAddedKeeps == ASSUME RewriterAssumption, PlaceInv, OpensAdded PROVE PlaceInv'
<1>1. TypeOK'
  BY DEF PlaceInv, TypeOK, OpensAdded, Entry, Item
<1>2. Phase'
  <2>1. \A o \in Stops : ~(o < stop) /\ o # stop
    BY StopsFacts DEF PlaceInv, Phase, OpensAdded
  <2>2. next = Len(tags) + 1
    BY DEF PlaceInv, TypeOK, OpensAdded
  <2> QED
    BY <2>1, <2>2 DEF PlaceInv, Phase, OpensAdded, TextBefore, NextStop
<1>3. ClosesLeft'
  BY DEF PlaceInv, Phase, OpensAdded, ClosesLeft
<1>4. OpensOnce' /\ TextItems' /\ OpenItems' /\ CloseItems' /\ Entries'
  BY StopFacts, PageKept DEF OpensAdded, PlaceInv
<1> QED
  BY <1>1, <1>2, <1>3, <1>4 DEF PlaceInv

LEMMA StopKeeps == ASSUME RewriterAssumption, PlaceInv, Stop PROVE PlaceInv'
<1>1. /\ pc = "stops" /\ pc' = "copy" /\ order' = 0 /\ stop' \in StopsLeft
      /\ \A p \in StopsLeft : stop' <= p
      /\ UNCHANGED <<tags, next, opens, closes, pos, retval>>
  BY DEF Stop
<1>2. stop' \in Stops /\ stop' > stop /\ stop' \in Nat /\ stop \in Int /\ Size \in Nat /\ pos \in Int
  BY <1>1, StopsFacts, StopFacts DEF StopsLeft, PlaceInv
<1>3. TypeOK'
  BY <1>1, <1>2 DEF PlaceInv, TypeOK, Entry, Item
<1>4. \A o \in Stops : o > stop /\ o < stop' => opens[o] = {} /\ closes[o] = {}
  <2> TAKE o \in Stops
  <2>1. o \in Nat /\ (o < stop' => o \notin StopsLeft)
    BY <1>1, <1>2, StopsFacts
  <2> QED
    BY <2>1 DEF StopsLeft
<1>5. Phase'
  <2>1. pos <= NextStop'
    BY <1>1, <1>2 DEF PlaceInv, Phase, NextStop, Within
  <2>2. \A o \in Stops : o < stop' => opens[o] = {}
    <3> TAKE o \in Stops
    <3>1. o \in Nat /\ (o < stop \/ o = stop \/ o > stop)
      BY <1>2, StopsFacts
    <3> QED
      BY <1>1, <1>4, <3>1 DEF PlaceInv, Phase
  <2> QED
    BY <1>1, <1>2, <2>1, <2>2 DEF PlaceInv, Phase, TextBefore
<1>6. ClosesLeft'
  <2> SUFFICES ASSUME NEW o \in Stops, NEW e \in closes[o], o < stop'
               PROVE  tags[e.tag].close <= tags[e.tag].open /\ tags[e.tag].close > Size
    <3>1. \A o \in Stops : o < stop' \/ o = stop' \/ o > stop'
      BY <1>2, StopsFacts
    <3> QED
      BY <1>1, <3>1 DEF ClosesLeft
  <2>1. o \in Nat /\ ~(o > stop)
    BY <1>4, StopsFacts
  <2> QED
    BY <1>1, <1>2, <2>1 DEF PlaceInv, ClosesLeft
<1>7. OpensOnce' /\ TextItems' /\ OpenItems' /\ CloseItems' /\ Entries'
  BY <1>1, <1>2, PageKept
<1> QED
  BY <1>3, <1>5, <1>6, <1>7 DEF PlaceInv

LEMMA LoopEndsKeeps == ASSUME RewriterAssumption, PlaceInv, LoopEnds PROVE PlaceInv'
<1>1. UNCHANGED <<tags, next, opens, closes, stop, order, pos, retval>>
  BY DEF LoopEnds
<1>2. stop \in Int /\ pos \in Int /\ Size \in Nat
  BY StopFacts DEF PlaceInv
<1>3. TypeOK'
  BY DEF PlaceInv, TypeOK, LoopEnds, Entry, Item
<1>4. Phase'
  <2>1. stop \in Stops /\ stop \in Nat /\ NextStop \in Int
    BY <1>2, StopsFacts DEF PlaceInv, Phase, LoopEnds, NextStop, Within
  <2>2. pc = "copy" => pos = NextStop
    BY <1>2, <2>1 DEF PlaceInv, Phase, LoopEnds
  <2> QED
    BY <1>1, <2>1, <2>2 DEF PlaceInv, Phase, LoopEnds, TextBefore, NextStop
<1>5. ClosesLeft'
  BY <1>1 DEF PlaceInv, ClosesLeft, LoopEnds
<1>6. OpensOnce' /\ TextItems' /\ OpenItems' /\ CloseItems' /\ Entries'
  BY <1>1, <1>2, PageKept
<1> QED
  BY <1>3, <1>4, <1>5, <1>6 DEF PlaceInv

LEMMA GeneratedKeeps == ASSUME RewriterAssumption, PlaceInv, Generated PROVE PlaceInv'
<1>1. UNCHANGED <<tags, next, opens, closes, stop, order, pos, retval>>
  BY DEF Generated
<1>2. stop \in Int /\ pos \in Int /\ Size \in Nat
  BY StopFacts DEF PlaceInv
<1>3. TypeOK'
  BY DEF PlaceInv, TypeOK, Generated, Entry, Item
<1>4. Phase'
  <2>1. \A o \in Stops : o > stop => opens[o] = {} /\ closes[o] = {}
    BY DEF Generated, StopsLeft
  <2> QED
    BY <1>1, <2>1 DEF PlaceInv, Phase, Generated, TextBefore, NextStop
<1>5. ClosesLeft'
  BY <1>1 DEF PlaceInv, ClosesLeft, Generated
<1>6. OpensOnce' /\ TextItems' /\ OpenItems' /\ CloseItems' /\ Entries'
  BY <1>1, <1>2, PageKept
<1> QED
  BY <1>3, <1>4, <1>5, <1>6 DEF PlaceInv

-----------------------------------------------------------------------------
(* The steps that write.                                                   *)

LEMMA CopyKeeps == ASSUME RewriterAssumption, PlaceInv, Copy PROVE PlaceInv'
<1> DEFINE n == Len(retval)
           x == [what |-> "text", of |-> pos + 1]
<1>1. /\ pc = "copy" /\ pos < NextStop /\ retval' = Append(retval, x) /\ pos' = pos + 1
      /\ UNCHANGED <<tags, pc, next, opens, closes, stop, order>>
  BY DEF Copy
<1>2. stop \in Nat /\ pos \in Nat /\ Size \in Nat /\ pos + 1 \in 1..Size /\ NextStop \in Int
  <2>1. stop \in Stops
    BY <1>1 DEF PlaceInv, Phase
  <2> QED
    BY <1>1, <2>1, StopsFacts DEF PlaceInv, TypeOK, RewriterAssumption, NextStop, Within
<1>3. x \in Chars /\ x \in Item /\ x.what = "text" /\ x.of = pos + 1
  BY <1>2 DEF Chars, Item
<1>4. PICK m : m = Len(retval)
  OBVIOUS
<1>5. /\ retval' \in Seq(Item) /\ m \in Nat /\ Len(retval') = m + 1
      /\ DOMAIN retval = 1..m /\ DOMAIN retval' = 1..m + 1
      /\ \A p \in 1..m : retval'[p] = retval[p] /\ TextBefore(p)' = TextBefore(p)
      /\ retval'[m + 1] = x /\ TextBefore(m + 1)' = TextBefore(m) + 1
      /\ Items("text")' = Items("text") \cup {m + 1}
      /\ Items("open")' = Items("open") /\ Items("close")' = Items("close")
      /\ \A w : Items(w) \subseteq 1..m
  <2> HIDE DEF x
  <2>1. /\ retval' \in Seq(Item) /\ m \in Nat /\ Len(retval') = m + 1
        /\ DOMAIN retval = 1..m /\ DOMAIN retval' = 1..m + 1
        /\ \A p \in 1..m : retval'[p] = retval[p] /\ TextBefore(p)' = TextBefore(p)
        /\ retval'[m + 1] = x
        /\ TextBefore(m + 1)' = TextBefore(m) + IF x \in Chars THEN 1 ELSE 0
        /\ \A w : Items(w)' = Items(w) \cup IF x.what = w THEN {m + 1} ELSE {}
        /\ \A w : Items(w) \subseteq 1..m
    BY <1>1, <1>3, <1>4, OneWritten DEF PlaceInv
  <2> QED
    BY <2>1, <1>3
<1>6. TextBefore(m) = pos
  BY <1>4 DEF PlaceInv, Phase
<1>7. TypeOK'
  <2>1. Item' = Item /\ Entry' = [tag : DOMAIN tags, order : Nat, at : DOMAIN retval'] /\ DOMAIN retval \subseteq DOMAIN retval'
    BY <1>1, <1>5 DEF Item, Entry
  <2>2. Entry \subseteq Entry'
    BY <2>1 DEF Entry
  <2>3. closes' \in [Stops -> SUBSET Entry'] /\ retval' \in Seq(Item')
    BY <1>1, <1>5, <2>1, <2>2 DEF PlaceInv, TypeOK
  <2> QED
    BY <1>1, <1>2, <2>3 DEF PlaceInv, TypeOK
<1>8. Phase'
  <2>1. TextBefore(Len(retval))' = pos'
    BY <1>1, <1>5, <1>6
  <2>2. pos' <= NextStop' /\ NextStop' = NextStop
    BY <1>1, <1>2 DEF NextStop
  <2> QED
    BY <1>1, <1>2, <2>1, <2>2 DEF PlaceInv, Phase
<1>9. ClosesLeft'
  BY <1>1 DEF PlaceInv, ClosesLeft
<1>10. \A w : \A p \in Items(w) : Of(p)' = Of(p) /\ retval'[p] = retval[p] /\ TextBefore(p)' = TextBefore(p)
  BY <1>1, <1>5 DEF Of
<1>11. TextItems'
  BY <1>3, <1>5, <1>6, <1>10 DEF PlaceInv, TextItems
<1>12. OpensOnce' /\ OpenItems' /\ CloseItems' /\ Entries'
  BY <1>1, <1>5, <1>10 DEF PlaceInv, OpensOnce, OpenItems, CloseItems, Entries
<1> QED
  BY <1>7, <1>8, <1>9, <1>11, <1>12 DEF PlaceInv

\* What Close does for an entry: m is the length of the page before.
Closed(e, m) ==
    /\ pc = "close" /\ UNCHANGED <<tags, pc, next, opens, stop, order, pos>>
    /\ stop \in Stops /\ stop \in Nat /\ pos = NextStop /\ NextStop = Within(stop)
    /\ e \in closes[stop] /\ \A f \in closes[stop] : ClosesBefore(e, f)
    /\ closes \in [Stops -> SUBSET Entry] /\ e \in Entry
    /\ closes' = [closes EXCEPT ![stop] = @ \ {e}]
    /\ \A o \in Stops : closes'[o] = closes[o] \ IF o = stop THEN {e} ELSE {}
    /\ \A o \in Stops : \A f \in closes[o] : f \in Entry /\ tags[f.tag].close = o
    /\ e.tag \in DOMAIN tags /\ e.at \in Items("open") /\ retval[e.at].of = e.tag /\ tags[e.tag].close = stop
    /\ m = Len(retval)
    /\ retval' \in Seq(Item) /\ m \in Nat /\ Len(retval') = m + 1
    /\ DOMAIN retval = 1..m /\ DOMAIN retval' = 1..m + 1
    /\ \A p \in 1..m : retval'[p] = retval[p] /\ TextBefore(p)' = TextBefore(p)
    /\ retval'[m + 1] = [what |-> "close", of |-> e.tag] /\ TextBefore(m + 1)' = TextBefore(m)
    /\ Items("close")' = Items("close") \cup {m + 1}
    /\ Items("open")' = Items("open") /\ Items("text")' = Items("text")
    /\ \A w : Items(w) \subseteq 1..m

LEMMA CloseCloses ==
    ASSUME RewriterAssumption, PlaceInv, Close
    PROVE  \E e, m : Closed(e, m)
<1>1. PICK e \in closes[stop] :
          /\ \A f \in closes[stop] : ClosesBefore(e, f)
          /\ closes' = [closes EXCEPT ![stop] = @ \ {e}]
          /\ retval' = Append(retval, [what |-> "close", of |-> e.tag])
  BY Zenon DEF Close
<1> DEFINE x == [what |-> "close", of |-> e.tag]
<1>2. pc = "close" /\ UNCHANGED <<tags, pc, next, opens, stop, order, pos>>
  BY DEF Close
<1>3. stop \in Stops /\ stop \in Nat /\ pos = NextStop /\ NextStop = Within(stop)
  <2>1. stop \in Stops
    BY <1>2 DEF PlaceInv, Phase
  <2>2. stop \in Nat
    BY <2>1, StopsFacts
  <2> QED
    BY <1>2, <2>1, <2>2 DEF PlaceInv, Phase, NextStop
<1>4. /\ closes \in [Stops -> SUBSET Entry] /\ e \in Entry
      /\ \A o \in Stops : closes'[o] = closes[o] \ IF o = stop THEN {e} ELSE {}
      /\ \A o \in Stops : \A f \in closes[o] : f \in Entry /\ tags[f.tag].close = o
  BY <1>1, <1>3 DEF PlaceInv, TypeOK
<1>5. e.tag \in DOMAIN tags /\ e.at \in Items("open") /\ retval[e.at].of = e.tag /\ tags[e.tag].close = stop
  BY <1>1, <1>3, <1>4 DEF Entry, PlaceInv, Entries
<1>6. x \in Item /\ x \notin Chars /\ x.what = "close" /\ x.of = e.tag
  BY <1>5, CharsFacts
<1>7. PICK m : m = Len(retval)
  OBVIOUS
<1>8. /\ retval' \in Seq(Item) /\ m \in Nat /\ Len(retval') = m + 1
      /\ DOMAIN retval = 1..m /\ DOMAIN retval' = 1..m + 1
      /\ \A p \in 1..m : retval'[p] = retval[p] /\ TextBefore(p)' = TextBefore(p)
      /\ retval'[m + 1] = x /\ TextBefore(m + 1)' = TextBefore(m)
      /\ Items("close")' = Items("close") \cup {m + 1}
      /\ Items("open")' = Items("open") /\ Items("text")' = Items("text")
      /\ \A w : Items(w) \subseteq 1..m
  <2>1. retval' = Append(retval, x)
    BY <1>1
  <2> HIDE DEF x
  <2>2. /\ retval' \in Seq(Item) /\ m \in Nat /\ Len(retval') = m + 1
        /\ DOMAIN retval = 1..m /\ DOMAIN retval' = 1..m + 1
        /\ \A p \in 1..m : retval'[p] = retval[p] /\ TextBefore(p)' = TextBefore(p)
        /\ retval'[m + 1] = x
        /\ TextBefore(m + 1)' = TextBefore(m) + IF x \in Chars THEN 1 ELSE 0
        /\ \A w : Items(w)' = Items(w) \cup IF x.what = w THEN {m + 1} ELSE {}
        /\ \A w : Items(w) \subseteq 1..m
    BY <2>1, <1>6, <1>7, OneWritten DEF PlaceInv
  <2>3. TextBefore(m) = pos /\ pos \in Int
    BY <1>7, StopFacts DEF PlaceInv, Phase
  <2>4. TextBefore(m + 1)' = TextBefore(m)
    BY <2>2, <2>3, <1>6
  <2>5. /\ Items("close")' = Items("close") \cup {m + 1}
        /\ Items("open")' = Items("open") /\ Items("text")' = Items("text")
    BY <2>2, <1>6
  <2> QED
    BY <2>2, <2>4, <2>5
<1>9. Closed(e, m)
  BY <1>1, <1>2, <1>3, <1>4, <1>5, <1>7, <1>8 DEF Closed
<1> QED
  BY <1>9

LEMMA CloseKeeps == ASSUME RewriterAssumption, PlaceInv, Close PROVE PlaceInv'
<1>0. PICK e, m : Closed(e, m)
  BY CloseCloses
<1> DEFINE x == [what |-> "close", of |-> e.tag]
<1>1. e \in closes[stop] /\ closes' = [closes EXCEPT ![stop] = @ \ {e}]
  BY <1>0 DEF Closed
<1>2. pc = "close" /\ UNCHANGED <<tags, pc, next, opens, stop, order, pos>>
  BY <1>0 DEF Closed
<1>3. stop \in Stops /\ stop \in Nat /\ pos = NextStop /\ NextStop = Within(stop)
  BY <1>0 DEF Closed
<1>4. /\ closes \in [Stops -> SUBSET Entry] /\ e \in Entry
      /\ \A o \in Stops : closes'[o] = closes[o] \ IF o = stop THEN {e} ELSE {}
      /\ \A o \in Stops : \A f \in closes[o] : f \in Entry /\ tags[f.tag].close = o
  BY <1>0 DEF Closed
<1>5. e.tag \in DOMAIN tags /\ e.at \in Items("open") /\ retval[e.at].of = e.tag /\ tags[e.tag].close = stop
  BY <1>0 DEF Closed
<1>6. x.what = "close" /\ x.of = e.tag
  OBVIOUS
<1>7. m = Len(retval)
  BY <1>0 DEF Closed
<1>8. /\ retval' \in Seq(Item) /\ m \in Nat /\ Len(retval') = m + 1
      /\ DOMAIN retval = 1..m /\ DOMAIN retval' = 1..m + 1
      /\ \A p \in 1..m : retval'[p] = retval[p] /\ TextBefore(p)' = TextBefore(p)
      /\ retval'[m + 1] = x /\ TextBefore(m + 1)' = TextBefore(m)
      /\ Items("close")' = Items("close") \cup {m + 1}
      /\ Items("open")' = Items("open") /\ Items("text")' = Items("text")
      /\ \A w : Items(w) \subseteq 1..m
  BY <1>0 DEF Closed
<1>9. TextBefore(m) = pos
  BY <1>7 DEF PlaceInv, Phase
<1>10. TypeOK'
  <2>1. Item' = Item /\ Entry' = [tag : DOMAIN tags, order : Nat, at : DOMAIN retval'] /\ DOMAIN retval \subseteq DOMAIN retval'
    BY <1>2, <1>8 DEF Item, Entry
  <2>2. Entry \subseteq Entry'
    BY <2>1 DEF Entry
  <2>3. closes' \in [Stops -> SUBSET Entry'] /\ retval' \in Seq(Item')
    BY <1>1, <1>3, <1>4, <1>8, <2>1, <2>2
  <2> QED
    BY <1>2, <1>4, <2>3 DEF PlaceInv, TypeOK
<1>11. Phase'
  <2>1. TextBefore(Len(retval))' = pos'
    BY <1>2, <1>8, <1>9
  <2> QED
    BY <1>2, <2>1 DEF PlaceInv, Phase, NextStop
<1>12. ClosesLeft'
  BY <1>2, <1>4 DEF PlaceInv, ClosesLeft
<1>13. \A w : \A p \in Items(w) : Of(p)' = Of(p) /\ retval'[p] = retval[p] /\ TextBefore(p)' = TextBefore(p)
  BY <1>2, <1>8 DEF Of
<1>14. TextItems' /\ OpensOnce'
  BY <1>2, <1>8, <1>13 DEF PlaceInv, OpensOnce, TextItems
<1>15. Entries'
  <2>1. \A o \in Stops : closes'[o] \subseteq closes[o]
    BY <1>4
  <2> QED
    BY <2>1, <1>8, <1>13 DEF PlaceInv, Entries
<1>16. OpenItems'
  <2> SUFFICES ASSUME NEW p \in Items("open"), Of(p).close >= 0
               PROVE  \/ \E q \in Items("close")' : retval'[q].of = retval[p].of
                      \/ \E f \in closes'[Of(p).close] : f.at = p
    BY <1>2, <1>8, <1>13 DEF PlaceInv, OpenItems
  <2>1. CASE \E q \in Items("close") : retval[q].of = retval[p].of
    BY <2>1, <1>8, <1>13
  <2>2. CASE \E f \in closes[Of(p).close] : f.at = p
    <3>1. PICK f \in closes[Of(p).close] : f.at = p
      BY <2>2
    <3>2. Of(p).close \in Stops
      <4>1. p \in DOMAIN retval /\ retval[p].what = "open"
        BY DEF Items
      <4>2. retval[p] \in Item
        BY <4>1 DEF PlaceInv, TypeOK
      <4>3. retval[p].of \in DOMAIN tags
        BY <4>1, <4>2 DEF Item, Chars
      <4> QED
        BY <4>3, TagFacts DEF Of, PlaceInv
    <3>3. CASE f = e
      BY <3>1, <3>3, <1>5, <1>6, <1>8
    <3>4. CASE f # e
      BY <3>1, <3>2, <3>4, <1>4
    <3> QED
      BY <3>3, <3>4
  <2> QED
    BY <2>1, <2>2 DEF PlaceInv, OpenItems
<1>17. CloseItems'
  <2>1. ASSUME NEW o \in Stops, NEW f \in closes'[o] PROVE f \in closes[o] /\ f.tag # e.tag
    <3>1. f \in closes[o] /\ (o = stop => f # e) /\ tags[f.tag].close = o
      BY <2>1, <1>4
    <3>2. f.at \in Items("open") /\ retval[f.at].of = f.tag
      BY <2>1, <3>1 DEF PlaceInv, Entries
    <3>3. f.tag = e.tag => f.at = e.at
      BY <3>2, <1>5 DEF PlaceInv, OpenItems, Of
    <3> QED
      BY <3>1, <3>3, <1>1, <1>3, <1>5 DEF PlaceInv, Entries
  <2>2. \A r \in Items("close") : retval[r].of # e.tag
    BY <1>1, <1>3 DEF PlaceInv, CloseItems
  <2>3. ASSUME NEW q \in Items("close")
        PROVE  /\ \E p \in Items("open")' : retval'[p].of = retval'[q].of
               /\ Of(q)'.open < Of(q)'.close \/ (Of(q)'.open = Of(q)'.close /\ Of(q)'.open <= Size)
                      => TextBefore(q)' = Within(Of(q)'.close)
               /\ \A r \in Items("close")' : retval'[r].of = retval'[q].of => r = q
               /\ \A o \in Stops : \A f \in closes'[o] : f.tag # retval'[q].of
    <3>1. /\ Of(q)' = Of(q) /\ retval'[q] = retval[q] /\ TextBefore(q)' = TextBefore(q)
      BY <1>13, <2>3
    <3>2. \E p \in Items("open")' : retval'[p].of = retval'[q].of
      BY <3>1, <1>8, <1>13 DEF PlaceInv, CloseItems
    <3>3. \A r \in Items("close")' : retval'[r].of = retval'[q].of => r = q
      BY <3>1, <2>2, <1>6, <1>8, <1>13 DEF PlaceInv, CloseItems
    <3>4. \A o \in Stops : \A f \in closes'[o] : f.tag # retval'[q].of
      BY <3>1, <2>1 DEF PlaceInv, CloseItems
    <3> QED
      BY <3>1, <3>2, <3>3, <3>4 DEF PlaceInv, CloseItems
  <2>4. /\ \E p \in Items("open")' : retval'[p].of = retval'[m + 1].of
        /\ TextBefore(m + 1)' = Within(Of(m + 1)'.close)
        /\ \A r \in Items("close")' : retval'[r].of = retval'[m + 1].of => r = m + 1
        /\ \A o \in Stops : \A f \in closes'[o] : f.tag # retval'[m + 1].of
    <3>1. retval'[m + 1].of = e.tag /\ Of(m + 1)' = tags[e.tag]
      BY <1>2, <1>6, <1>8 DEF Of
    <3>2. \A r \in Items("close") : retval'[r].of # e.tag
      BY <2>2, <1>13
    <3>3. \E p \in Items("open")' : retval'[p].of = e.tag
      BY <1>5, <1>8, <1>13
    <3>4. \A r \in Items("close")' : retval'[r].of = e.tag => r = m + 1
      BY <3>2, <1>8
    <3> QED
      BY <3>1, <3>3, <3>4, <2>1, <1>3, <1>5, <1>8, <1>9
  <2> QED
    BY <2>3, <2>4, <1>8 DEF CloseItems
<1> QED
  BY <1>10, <1>11, <1>12, <1>14, <1>15, <1>16, <1>17 DEF PlaceInv

\* What Open does for the i-th tag: P is where it is opened.
Shut(i) == tags[i].close >= 0 /\ pos >= tags[i].close
Opened(i, P) ==
    /\ i \in opens[stop] /\ i \in DOMAIN tags /\ tags[i].open = stop
    /\ \A j \in opens[stop] : OpensBefore(i, j)
    /\ opens' = [opens EXCEPT ![stop] = @ \ {i}]
    /\ Len(retval) \in Nat /\ P \in Nat /\ DOMAIN retval = 1..Len(retval) /\ Len(retval) < P
    /\ retval' \in Seq(Item) /\ Len(retval') = P /\ DOMAIN retval' = 1..P
    /\ \A p \in 1..Len(retval) : retval'[p] = retval[p] /\ TextBefore(p)' = TextBefore(p)
    /\ retval'[P] = [what |-> "open", of |-> i] /\ TextBefore(P)' = pos
    /\ Items("open")' = Items("open") \cup {P} /\ Items("text")' = Items("text")
    /\ \A w : Items(w) \subseteq 1..Len(retval)
    /\ Shut(i) => /\ Len(retval) < P - 1
                  /\ Items("close")' = Items("close") \cup {P - 1}
                  /\ retval'[P - 1] = [what |-> "close", of |-> i] /\ TextBefore(P - 1)' = pos
    /\ ~Shut(i) => Items("close")' = Items("close")
    /\ closes' = IF tags[i].close < 0 \/ Shut(i) THEN closes
                 ELSE [closes EXCEPT ![tags[i].close] = @ \cup
                          {[tag |-> i, order |-> order + 1, at |-> P]}]
    /\ order' = order + 1 /\ UNCHANGED <<tags, pc, next, stop, pos>>

LEMMA OpenOpens ==
    ASSUME RewriterAssumption, PlaceInv, Open
    PROVE  \E i, P : Opened(i, P)
<1>1. PICK i \in opens[stop] :
          /\ \A j \in opens[stop] : OpensBefore(i, j)
          /\ opens' = [opens EXCEPT ![stop] = @ \ {i}]
          /\ retval' = Append(IF Shut(i) THEN Append(retval, [what |-> "close", of |-> i]) ELSE retval,
                              [what |-> "open", of |-> i])
          /\ closes' = IF tags[i].close < 0 \/ Shut(i) THEN closes
                       ELSE [closes EXCEPT ![tags[i].close] = @ \cup
                                {[tag |-> i, order |-> order + 1, at |-> Len(retval')]}]
  BY Zenon DEF Open, Shut
<1> DEFINE xo == [what |-> "open", of |-> i]
           xc == [what |-> "close", of |-> i]
<1>2. /\ pc = "open" /\ order' = order + 1 /\ UNCHANGED <<tags, pc, next, stop, pos>>
      /\ stop \in Stops /\ i \in DOMAIN tags /\ tags[i].open = stop
  BY <1>1 DEF Open, PlaceInv, Phase, TypeOK
<1>3. /\ xo \in Item /\ xo \notin Chars /\ xo.what = "open" /\ xo.of = i
      /\ xc \in Item /\ xc \notin Chars /\ xc.what = "close" /\ xc.of = i
  BY <1>2, CharsFacts
<1>4. TextBefore(Len(retval)) = pos /\ pos \in Int /\ retval \in Seq(Item)
  BY StopFacts DEF PlaceInv, Phase, TypeOK
<1>5. \A w : /\ Items(w) = {p \in DOMAIN retval : retval[p].what = w}
             /\ Items(w)' = {p \in DOMAIN retval' : retval'[p].what = w}
  BY DEF Items
<1>6. \A p : /\ TextBefore(p) = Cardinality(Held(retval, Chars, p))
             /\ TextBefore(p)' = Cardinality(Held(retval', Chars, p))
  BY DEF TextBefore
<1>7. \A w : Items(w) \subseteq 1..Len(retval)
  BY <1>4, <1>5
<1> HIDE DEF xo, xc
<1>8. CASE ~Shut(i)
  <2>1. retval' \in Seq(Item) /\ Longer(retval, retval', xo)
    BY <1>1, <1>3, <1>4, <1>8, AppendIsLonger DEF xo
  <2>2. PICK P : P = Len(retval) + 1
    OBVIOUS
  <2>3. /\ Len(retval) \in Nat /\ P \in Nat /\ DOMAIN retval = 1..Len(retval) /\ Len(retval) < P
        /\ Len(retval') = P /\ DOMAIN retval' = 1..P /\ retval'[P] = xo
        /\ \A p \in 1..Len(retval) : retval'[p] = retval[p]
    BY <2>1, <2>2 DEF Longer
  <2>4. \A p \in 1..Len(retval) : TextBefore(p)' = TextBefore(p)
    BY <2>1, <1>6 DEF Longer
  <2>5. TextBefore(P)' = pos
    <3>1. Cardinality(Held(retval', Chars, Len(retval) + 1)) = pos + 0
      BY <2>1, <1>3, <1>4, <1>6 DEF Longer
    <3> QED
      BY <3>1, <2>2, <1>4, <1>6
  <2>6. \A w : Items(w)' = Items(w) \cup IF xo.what = w THEN {P} ELSE {}
    BY <2>1, <2>2, <1>5 DEF Longer
  <2>7. Items("open")' = Items("open") \cup {P} /\ Items("text")' = Items("text") /\ Items("close")' = Items("close")
    BY <2>6, <1>3
  <2>8. Opened(i, P)
    BY <1>1, <1>2, <1>7, <1>8, <2>1, <2>3, <2>4, <2>5, <2>7 DEF Opened, xo
  <2> QED
    BY <2>8
<1>9. CASE Shut(i)
  <2>1. PICK page : page = Append(retval, xc)
    OBVIOUS
  <2>2. page \in Seq(Item) /\ Longer(retval, page, xc)
    BY <1>3, <1>4, <2>1, AppendIsLonger
  <2>3. retval' = Append(page, xo)
    BY <1>1, <1>9, <2>1 DEF xo, xc
  <2>4. retval' \in Seq(Item) /\ Longer(page, retval', xo)
    BY <1>3, <2>2, <2>3, AppendIsLonger
  <2>5. PICK P : P = Len(retval) + 2
    OBVIOUS
  <2>6. /\ Len(retval) \in Nat /\ P \in Nat /\ DOMAIN retval = 1..Len(retval) /\ Len(retval) < P - 1
        /\ Len(page) = P - 1 /\ Len(retval) + 1 = P - 1 /\ Len(page) + 1 = P
    BY <2>2, <2>5 DEF Longer
  <2>7. Len(retval') = P /\ DOMAIN retval' = 1..P /\ retval'[P] = xo
    BY <2>4, <2>6 DEF Longer
  <2>8. /\ \A p \in 1..Len(retval) : /\ retval'[p] = retval[p]
                                     /\ TextBefore(p)' = TextBefore(p)
        /\ retval'[P - 1] = xc
    <3>1. /\ \A p \in 1..Len(retval) :
                /\ page[p] = retval[p]
                /\ Cardinality(Held(page, Chars, p)) = Cardinality(Held(retval, Chars, p))
          /\ page[P - 1] = xc
      BY <2>2, <2>6 DEF Longer
    <3>2. \A p \in 1..P - 1 : /\ retval'[p] = page[p]
                              /\ Cardinality(Held(retval', Chars, p)) = Cardinality(Held(page, Chars, p))
      BY <2>4, <2>6 DEF Longer
    <3>3. \A p \in 1..Len(retval) : p \in 1..P - 1
      BY <2>6
    <3>4. P - 1 \in 1..P - 1
      BY <2>6
    <3> QED
      BY <3>1, <3>2, <3>3, <3>4, <1>6
  <2>9. TextBefore(P - 1)' = pos /\ TextBefore(P)' = pos
    <3>1. Cardinality(Held(page, Chars, P - 1)) = pos
      BY <2>2, <2>6, <1>3, <1>4, <1>6 DEF Longer
    <3>2. Cardinality(Held(retval', Chars, P - 1)) = Cardinality(Held(page, Chars, P - 1))
      BY <2>4, <2>6 DEF Longer
    <3>3. Cardinality(Held(retval', Chars, P)) = pos + 0
      BY <2>4, <2>6, <3>1, <1>3 DEF Longer
    <3> QED
      BY <3>1, <3>2, <3>3, <1>4, <1>6
  <2>10. /\ Items("open")' = Items("open") \cup {P} /\ Items("text")' = Items("text")
         /\ Items("close")' = Items("close") \cup {P - 1}
    <3>1. \A w : {p \in DOMAIN page : page[p].what = w} = Items(w) \cup IF xc.what = w THEN {P - 1} ELSE {}
      BY <2>2, <2>6, <1>5 DEF Longer
    <3>2. \A w : Items(w)' = {p \in DOMAIN page : page[p].what = w} \cup IF xo.what = w THEN {P} ELSE {}
      BY <2>4, <2>6, <1>5 DEF Longer
    <3> QED
      BY <3>1, <3>2, <1>3
  <2>11. Len(retval) < P
    BY <2>6
  <2>12. closes' = IF tags[i].close < 0 \/ Shut(i) THEN closes
                   ELSE [closes EXCEPT ![tags[i].close] = @ \cup
                            {[tag |-> i, order |-> order + 1, at |-> P]}]
    BY <1>1, <1>9
  <2>13. Opened(i, P)
    BY <1>1, <1>2, <1>7, <1>9, <2>4, <2>6, <2>7, <2>8, <2>9, <2>10, <2>11, <2>12 DEF Opened, xo, xc
  <2> QED
    BY <2>13
<1> QED
  BY <1>8, <1>9

LEMMA OpenKeeps == ASSUME RewriterAssumption, PlaceInv, Open PROVE PlaceInv'
<1>1. PICK i, P : Opened(i, P)
  BY OpenOpens
<1> DEFINE t == tags[i]
           m == Len(retval)
           new == [tag |-> i, order |-> order + 1, at |-> P]
<1>2. pc = "open" /\ UNCHANGED <<tags, pc, next, stop, pos>> /\ order' = order + 1
  BY <1>1 DEF Open, Opened
<1>3. stop \in Stops /\ stop \in Nat /\ pos = Within(stop) /\ pos \in Nat /\ Size \in Nat
  <2>1. stop \in Stops
    BY <1>2 DEF PlaceInv, Phase
  <2>2. stop \in Nat
    BY <2>1, StopsFacts
  <2> QED
    BY <1>2, <2>1, <2>2 DEF PlaceInv, Phase, TypeOK, NextStop, RewriterAssumption
<1>4. /\ i \in opens[stop] /\ i \in DOMAIN tags /\ t.open = stop /\ t.close \in Int
      /\ t.close >= 0 => t.close \in Stops
      /\ opens \in [Stops -> SUBSET DOMAIN tags] /\ closes \in [Stops -> SUBSET Entry]
      /\ opens' = [opens EXCEPT ![stop] = @ \ {i}]
      /\ \A o \in Stops : opens'[o] = opens[o] \ IF o = stop THEN {i} ELSE {}
  BY <1>1, <1>3, TagFacts DEF Opened, PlaceInv, TypeOK
<1>5. \/ closes' = closes /\ (t.close >= 0 => Shut(i))
      \/ /\ ~Shut(i) /\ t.close \in Stops /\ closes' = [closes EXCEPT ![t.close] = @ \cup {new}]
         /\ \A o \in Stops : closes'[o] = closes[o] \cup IF o = t.close THEN {new} ELSE {}
  <2>1. CASE t.close < 0 \/ Shut(i)
    BY <1>1, <1>4, <2>1 DEF Opened
  <2>2. CASE ~(t.close < 0 \/ Shut(i))
    <3>1. t.close \in Stops /\ closes' = [closes EXCEPT ![t.close] = @ \cup {new}]
      BY <1>1, <1>4, <2>2 DEF Opened
    <3> HIDE DEF new, t
    <3> QED
      BY <3>1, <1>4, <2>2
  <2> QED
    BY <2>1, <2>2
<1>6. \A o \in Stops : /\ closes[o] \subseteq closes'[o]
                       /\ \A e \in closes'[o] : e \in closes[o] \/ (e = new /\ o = t.close /\ ~Shut(i))
  BY <1>5
<1>7. /\ m \in Nat /\ P \in Nat /\ m < P /\ DOMAIN retval = 1..m /\ DOMAIN retval' = 1..P /\ Len(retval') = P
      /\ retval' \in Seq(Item) /\ retval'[P].what = "open" /\ retval'[P].of = i /\ TextBefore(P)' = pos
      /\ \A w : Items(w) \subseteq 1..m
      /\ Items("open")' = Items("open") \cup {P} /\ Items("text")' = Items("text")
      /\ Shut(i) => /\ m < P - 1 /\ Items("close")' = Items("close") \cup {P - 1}
                    /\ retval'[P - 1].of = i /\ TextBefore(P - 1)' = pos
      /\ ~Shut(i) => Items("close")' = Items("close")
  BY <1>1 DEF Opened
<1>8. \A w : \A p \in Items(w) : Of(p)' = Of(p) /\ retval'[p] = retval[p] /\ TextBefore(p)' = TextBefore(p)
  BY <1>1, <1>2, <1>7 DEF Of, Opened
<1>9. Of(P)' = t /\ (Shut(i) => Of(P - 1)' = t)
  BY <1>2, <1>7 DEF Of
<1>10. \A p \in Items("open") : Of(p) # t /\ retval[p].of # i
  BY <1>4 DEF PlaceInv, OpenItems, Of
<1>11. \A q \in Items("close") : retval[q].of # i
  BY <1>10 DEF PlaceInv, CloseItems
<1>12. ASSUME NEW o \in Stops, NEW e \in closes[o] PROVE e.tag # i /\ e.at # P
  <2>1. e.at \in Items("open") /\ retval[e.at].of = e.tag
    BY DEF PlaceInv, Entries
  <2>2. e.tag # i
    BY <2>1, <1>10
  <2>3. e.at \in 1..m /\ m \in Nat /\ m < P
    BY <2>1, <1>7
  <2>4. e.at # P
    BY <2>3
  <2> QED
    BY <2>2, <2>4
<1>13. new.tag = i /\ new.order = order + 1 /\ new.at = P
  OBVIOUS
<1> HIDE DEF new, t, m
<1>14. TypeOK'
  <2>1. Item' = Item /\ Entry' = [tag : DOMAIN tags, order : Nat, at : DOMAIN retval'] /\ DOMAIN retval \subseteq DOMAIN retval'
    BY <1>2, <1>7 DEF Item, Entry
  <2>2. Entry \subseteq Entry'
    BY <2>1 DEF Entry
  <2>3. new \in Entry'
    BY <2>1, <1>4, <1>7 DEF new, PlaceInv, TypeOK
  <2>4. closes' \in [Stops -> SUBSET Entry']
    BY <2>2, <2>3, <1>4, <1>5
  <2>5. opens' \in [Stops -> SUBSET DOMAIN tags]
    BY <1>3, <1>4
  <2>6. \A o \in Stops : /\ \A j \in opens'[o] : tags[j].open = o
                         /\ \A e \in closes'[o] : tags[e.tag].close = o
    BY <1>4, <1>6, <1>13 DEF PlaceInv, TypeOK, t
  <2>7. order' \in Nat
    BY <1>2 DEF PlaceInv, TypeOK
  <2> QED
    BY <1>2, <1>7, <2>1, <2>4, <2>5, <2>6, <2>7 DEF PlaceInv, TypeOK
<1>15. Phase'
  <2>1. TextBefore(Len(retval))' = pos'
    BY <1>2, <1>7
  <2>2. pos' = NextStop'
    BY <1>2, <1>3 DEF NextStop
  <2>3. \A o \in Stops : o < stop => opens'[o] = {}
    BY <1>4 DEF PlaceInv, Phase
  <2> QED
    BY <1>2, <1>3, <2>1, <2>2, <2>3 DEF PlaceInv, Phase
<1>16. ClosesLeft'
  <2> SUFFICES ASSUME NEW o \in Stops, NEW e \in closes'[o]
               PROVE  o > stop \/ (tags[e.tag].close <= tags[e.tag].open /\ tags[e.tag].close > Size)
    BY <1>2 DEF ClosesLeft
  <2>1. CASE e \in closes[o]
    BY <1>2, <2>1 DEF PlaceInv, ClosesLeft
  <2>2. CASE e = new /\ o = t.close /\ ~Shut(i)
    <3>1. tags[e.tag] = t /\ pos < t.close
      BY <1>3, <1>4, <1>13, <2>2, StopsFacts DEF t, Shut
    <3> QED
      BY <1>3, <1>4, <2>2, <3>1 DEF Within
  <2> QED
    BY <1>6, <2>1, <2>2
<1>17. OpensOnce'
  <2>1. (\A o \in Stops : \A j, k \in opens[o] : tags[j] = tags[k] => j = k)'
    BY <1>2, <1>4 DEF PlaceInv, OpensOnce
  <2>2. ASSUME NEW j \in 1..next - 1, tags[j].open >= 0
        PROVE  \/ \E k \in opens'[tags[j].open] : tags[k] = tags[j]
               \/ \E p \in Items("open")' : Of(p)' = tags[j]
    <3>1. CASE \E p \in Items("open") : Of(p) = tags[j]
      BY <3>1, <1>7, <1>8
    <3>2. CASE \E k \in opens[tags[j].open] : tags[k] = tags[j]
      <4>1. PICK k \in opens[tags[j].open] : tags[k] = tags[j]
        BY <3>2
      <4>2. CASE k = i
        BY <4>1, <4>2, <1>7, <1>9 DEF t
      <4>3. CASE k # i
        <5>1. tags[j].open \in Stops
          <6>1. j \in DOMAIN tags
            BY <2>2 DEF PlaceInv, TypeOK
          <6> QED
            BY <6>1, <2>2, TagFacts DEF PlaceInv
        <5> QED
          BY <4>1, <4>3, <5>1, <1>4
      <4> QED
        BY <4>2, <4>3
    <3> QED
      BY <2>2, <3>1, <3>2 DEF PlaceInv, OpensOnce
  <2> QED
    BY <1>2, <2>1, <2>2 DEF OpensOnce
<1>18. TextItems'
  BY <1>7, <1>8 DEF PlaceInv, TextItems
<1>19. Entries'
  <2> SUFFICES ASSUME NEW o \in Stops, NEW e \in closes'[o]
               PROVE  /\ e.at \in Items("open")' /\ retval'[e.at].of = e.tag
                      /\ \A f \in closes'[o] : e.at = f.at => e = f
    BY DEF Entries
  <2>1. e.at \in Items("open")' /\ retval'[e.at].of = e.tag
    BY <1>6, <1>7, <1>8, <1>13 DEF PlaceInv, Entries
  <2>2. \A f \in closes'[o] : e.at = f.at => e = f
    BY <1>6, <1>12, <1>13 DEF PlaceInv, Entries
  <2> QED
    BY <2>1, <2>2
<1>20. OpenItems'
  <2>1. ASSUME NEW p \in Items("open")
        PROVE  /\ Of(p).open \in Stops /\ Of(p).open <= stop
               /\ TextBefore(p)' = Within(Of(p).open)
               /\ \A j \in opens'[Of(p).open] : tags[j] # Of(p)
               /\ \A q \in Items("open")' : Of(q)' = Of(p) => q = p
               /\ Of(p).close >= 0 => \/ \E q \in Items("close")' : retval'[q].of = retval[p].of
                                      \/ \E e \in closes'[Of(p).close] : e.at = p
    <3>1. /\ Of(p).open \in Stops /\ Of(p).open <= stop
          /\ TextBefore(p)' = Within(Of(p).open)
      BY <1>8 DEF PlaceInv, OpenItems
    <3>2. \A j \in opens'[Of(p).open] : tags[j] # Of(p)
      BY <3>1, <1>4 DEF PlaceInv, OpenItems
    <3>3. \A q \in Items("open")' : Of(q)' = Of(p) => q = p
      BY <1>7, <1>8, <1>9, <1>10 DEF PlaceInv, OpenItems
    <3>4. ASSUME Of(p).close >= 0
          PROVE  \/ \E q \in Items("close")' : retval'[q].of = retval[p].of
                 \/ \E e \in closes'[Of(p).close] : e.at = p
      <4>1. CASE \E q \in Items("close") : retval[q].of = retval[p].of
        BY <4>1, <1>7, <1>8
      <4>2. CASE \E e \in closes[Of(p).close] : e.at = p
        <5>1. Of(p).close \in Stops
          <6>1. retval[p].of \in DOMAIN tags
            <7>1. p \in DOMAIN retval /\ retval[p].what = "open"
              BY DEF Items
            <7>2. retval[p] \in Item
              BY <7>1 DEF PlaceInv, TypeOK
            <7> QED
              BY <7>1, <7>2 DEF Item, Chars
          <6> QED
            BY <6>1, <3>4, TagFacts DEF Of, PlaceInv
        <5> QED
          BY <4>2, <5>1, <1>6
      <4> QED
        BY <3>4, <4>1, <4>2 DEF PlaceInv, OpenItems
    <3> QED
      BY <3>1, <3>2, <3>3, <3>4
  <2>2. /\ t.open \in Stops /\ t.open <= stop
        /\ TextBefore(P)' = Within(t.open)
        /\ \A j \in opens'[t.open] : tags[j] # t
        /\ \A q \in Items("open")' : Of(q)' = t => q = P
        /\ t.close >= 0 => \/ \E q \in Items("close")' : retval'[q].of = i
                           \/ \E e \in closes'[t.close] : e.at = P
    <3>1. \A j \in opens'[t.open] : tags[j] # t
      BY <1>3, <1>4 DEF PlaceInv, OpensOnce, t
    <3>2. \A q \in Items("open")' : Of(q)' = t => q = P
      BY <1>7, <1>8, <1>10
    <3>3. t.close >= 0 => \/ \E q \in Items("close")' : retval'[q].of = i
                          \/ \E e \in closes'[t.close] : e.at = P
      BY <1>5, <1>7, <1>13
    <3> QED
      BY <3>1, <3>2, <3>3, <1>3, <1>4, <1>7
  <2>3. \A p \in Items("open") : Of(p)' = Of(p) /\ retval'[p] = retval[p]
    BY <1>8
  <2>4. \A p \in Items("open")' : p \in Items("open") \/ p = P
    BY <1>7
  <2>5. retval'[P].of = i /\ Of(P)' = t /\ stop' = stop /\ tags' = tags
    BY <1>2, <1>7, <1>9
  <2> QED
    BY <2>1, <2>2, <2>3, <2>4, <2>5 DEF OpenItems
<1>21. CloseItems'
  <2>1. ASSUME NEW q \in Items("close")
        PROVE  /\ \E p \in Items("open")' : retval'[p].of = retval[q].of
               /\ Of(q).open < Of(q).close \/ (Of(q).open = Of(q).close /\ Of(q).open <= Size)
                      => TextBefore(q)' = Within(Of(q).close)
               /\ \A r \in Items("close")' : retval'[r].of = retval[q].of => r = q
               /\ \A o \in Stops : \A e \in closes'[o] : e.tag # retval[q].of
    <3>1. \E p \in Items("open")' : retval'[p].of = retval[q].of
      BY <1>7, <1>8 DEF PlaceInv, CloseItems
    <3>2. Of(q).open < Of(q).close \/ (Of(q).open = Of(q).close /\ Of(q).open <= Size)
              => TextBefore(q)' = Within(Of(q).close)
      BY <1>8 DEF PlaceInv, CloseItems
    <3>3. \A r \in Items("close")' : retval'[r].of = retval[q].of => r = q
      BY <1>7, <1>8, <1>11 DEF PlaceInv, CloseItems
    <3>4. \A o \in Stops : \A e \in closes'[o] : e.tag # retval[q].of
      BY <1>6, <1>11, <1>13 DEF PlaceInv, CloseItems
    <3> QED
      BY <3>1, <3>2, <3>3, <3>4
  <2>2. ASSUME Shut(i)
        PROVE  /\ \E p \in Items("open")' : retval'[p].of = i
               /\ t.open < t.close \/ (t.open = t.close /\ t.open <= Size)
                      => TextBefore(P - 1)' = Within(t.close)
               /\ \A r \in Items("close")' : retval'[r].of = i => r = P - 1
               /\ \A o \in Stops : \A e \in closes'[o] : e.tag # i
    <3>1. \E p \in Items("open")' : retval'[p].of = i
      BY <1>7
    <3>2. pos >= t.close /\ pos <= stop
      BY <2>2, <1>3 DEF Shut, Within, t
    <3>3. t.open < t.close \/ (t.open = t.close /\ t.open <= Size) => TextBefore(P - 1)' = Within(t.close)
      BY <3>2, <2>2, <1>3, <1>4, <1>7
    <3>4. \A r \in Items("close")' : retval'[r].of = i => r = P - 1
      BY <2>2, <1>7, <1>8, <1>11
    <3>5. \A o \in Stops : \A e \in closes'[o] : e.tag # i
      BY <2>2, <1>6, <1>12
    <3> QED
      BY <3>1, <3>3, <3>4, <3>5
  <2>3. \A q \in Items("close") : Of(q)' = Of(q) /\ retval'[q] = retval[q]
    BY <1>8
  <2> QED
    BY <2>1, <2>2, <2>3, <1>7, <1>9 DEF CloseItems
<1> QED
  BY <1>14, <1>15, <1>16, <1>17, <1>18, <1>19, <1>20, <1>21 DEF PlaceInv

LEMMA StutterPlaces == ASSUME PlaceInv, UNCHANGED vars PROVE PlaceInv'
BY DEF vars, PlaceInv, TypeOK, Entry, Item, Phase, NextStop, ClosesLeft, OpensOnce, TextItems, OpenItems,
       CloseItems, Entries, Items, Of, TextBefore

LEMMA PlacesKept == ASSUME RewriterAssumption, PlaceInv, Next PROVE PlaceInv'
BY AddKeeps, GenerateKeeps, AddOpenKeeps, OpensAddedKeeps, StopKeeps, CopyKeeps, CloseKeeps, OpenKeeps,
   LoopEndsKeeps, GeneratedKeeps DEF Next

\* While a page is written, tags are where they are asked for.
THEOREM PlaceInvariant == ASSUME RewriterAssumption PROVE Spec => []PlaceInv
<1>1. Init => PlaceInv
  BY InitPlaces
<1>2. PlaceInv /\ [Next]_vars => PlaceInv'
  BY PlacesKept, StutterPlaces
<1> QED
  BY <1>1, <1>2, PTL DEF Spec

\* The state of the rewriter has its types (src/rewriter.h:104): offsets stay in
\* the text, and what is left at an offset is of tags asked for there.
THEOREM TypeCorrect == ASSUME RewriterAssumption PROVE Spec => []TypeOK
BY PlaceInvariant, PTL DEF PlaceInv

LEMMA PlacesGive == ASSUME RewriterAssumption, PlaceInv PROVE Placed
<1> SUFFICES ASSUME pc = "done" PROVE Placed
  BY DEF Placed
<1>1. \A o \in Stops : /\ opens[o] = {}
                       /\ \A e \in closes[o] : tags[e.tag].close <= tags[e.tag].open /\ tags[e.tag].close > Size
  <2> TAKE o \in Stops
  <2>1. o \in Nat /\ stop \in Int /\ (o < stop \/ o = stop \/ o > stop)
    BY StopsFacts, StopFacts DEF PlaceInv
  <2> QED
    BY <2>1 DEF PlaceInv, Phase, ClosesLeft
<1>2. ASSUME NEW t \in ToSet(tags), t.open >= 0
      PROVE  /\ Once("open", t, t.open)
             /\ t.open < t.close \/ (t.open = t.close /\ t.open <= Size) => Once("close", t, t.close)
  <2>1. PICK i \in DOMAIN tags : tags[i] = t
    BY <1>2 DEF ToSet
  <2>2. /\ t.open \in Int /\ t.close \in Int /\ t.open \in Stops
        /\ t.close >= 0 => t.close \in Stops
    BY <1>2, <2>1, TagFacts DEF PlaceInv
  <2>3. PICK p \in Items("open") : Of(p) = t
    <3>1. i \in 1..next - 1
      BY <2>1 DEF PlaceInv, TypeOK, Phase
    <3>2. tags[i].open >= 0 /\ opens[tags[i].open] = {}
      BY <1>1, <1>2, <2>1, <2>2
    <3> QED
      BY <2>1, <3>1, <3>2 DEF PlaceInv, OpensOnce
  <2>4. TextBefore(p) = Within(t.open) /\ \A q \in Items("open") : Of(q) = t => q = p
    BY <2>3 DEF PlaceInv, OpenItems
  <2>5. Once("open", t, t.open)
    BY <2>3, <2>4 DEF Once, Of
  <2>6. ASSUME t.open < t.close \/ (t.open = t.close /\ t.open <= Size)
        PROVE  Once("close", t, t.close)
    <3>1. t.close >= 0 /\ t.close \in Stops /\ Size \in Nat /\ t.open \in Nat
      BY <2>2, <2>6, StopsFacts DEF RewriterAssumption
    <3>2. PICK q \in Items("close") : retval[q].of = retval[p].of
      <4>1. ASSUME NEW e \in closes[t.close], e.at = p PROVE FALSE
        <5>1. tags[e.tag] = t
          BY <2>3, <3>1, <4>1 DEF PlaceInv, Entries, Of
        <5>2. t.close <= t.open /\ t.close > Size
          BY <1>1, <3>1, <4>1, <5>1
        <5> QED
          BY <2>2, <2>6, <3>1, <5>2
      <4> QED
        BY <2>3, <3>1, <4>1 DEF PlaceInv, OpenItems
    <3>3. Of(q) = t
      BY <2>3, <3>2 DEF Of
    <3>4. TextBefore(q) = Within(t.close)
      BY <2>6, <3>3 DEF PlaceInv, CloseItems
    <3>5. ASSUME NEW r \in Items("close"), Of(r) = t PROVE r = q
      <4>1. PICK u \in Items("open") : retval[u].of = retval[r].of
        BY DEF PlaceInv, CloseItems
      <4>2. u = p
        BY <2>4, <3>5, <4>1 DEF Of
      <4> QED
        BY <3>2, <4>1, <4>2 DEF PlaceInv, CloseItems
    <3> QED
      BY <3>3, <3>4, <3>5 DEF Once, Of
  <2> QED
    BY <2>5, <2>6
<1> QED
  BY <1>2 DEF PlaceInv, TextItems, Placed

\* Generate writes the text in its order, and each tag that was asked for once
\* where it was asked for (src/rewriter.cc:110-168), however often it was added.
THEOREM TagsPlaced == ASSUME RewriterAssumption PROVE Spec => []Placed
BY PlaceInvariant, PlacesGive, PTL

-----------------------------------------------------------------------------
(* Nesting: the tags that are left to close are in the order of their keys.  *)

Fits == Nestable /\ NoneEmpty /\ KeysFit

LEMMA HereFacts == ASSUME TypeOK, NEW o PROVE IsFiniteSet({t \in ToSet(tags) : t.open = o}) /\ Here(o) \in Nat
<1>1. DOMAIN tags = 1..Len(tags) /\ Len(tags) \in Nat
  BY DEF TypeOK
<1>2. IsFiniteSet(DOMAIN tags)
  BY <1>1, FS_Interval
<1>3. IsFiniteSet(ToSet(tags))
  BY <1>2, ImageFinite DEF ToSet
<1>4. IsFiniteSet({t \in ToSet(tags) : t.open = o})
  BY <1>3, FS_Subset
<1> QED
  BY <1>4, FS_CardinalityType DEF Here

\* As many tags are to be opened at an offset as there are different ones.
LEMMA OpensFew ==
    ASSUME TypeOK, OpensOnce, NEW o \in Stops
    PROVE  IsFiniteSet(opens[o]) /\ Cardinality(opens[o]) \in Nat /\ Cardinality(opens[o]) <= Here(o)
<1> DEFINE S == opens[o]
           T == {t \in ToSet(tags) : t.open = o}
           f == [i \in S |-> tags[i]]
<1>1. \A i \in S : i \in DOMAIN tags /\ tags[i].open = o
  BY DEF TypeOK
<1>2. \A i \in S : tags[i] \in T
  BY <1>1 DEF ToSet
<1>3. f \in [S -> T]
  BY <1>2
<1>4. \A i, j \in S : f[i] = f[j] => i = j
  BY DEF OpensOnce
<1>5. f \in Injection(S, T)
  <2> HIDE DEF f, S, T
  <2> QED
    BY <1>3, <1>4, Fun_IsInj
<1>6. IsFiniteSet(T) /\ Here(o) = Cardinality(T)
  BY HereFacts DEF Here
<1>7. IsFiniteSet(S) /\ Cardinality(S) <= Cardinality(T)
  <2> HIDE DEF f, S, T
  <2> QED
    BY <1>5, <1>6, FS_Injection
<1> QED
  BY <1>6, <1>7, FS_CardinalityType

LEMMA OpensFewer ==
    TypeOK /\ OpensOnce =>
        \A o \in Stops : Cardinality(opens[o]) \in Nat /\ Cardinality(opens[o]) <= Here(o)
BY OpensFew

LEMMA WrappedFits ==
    ASSUME RewriterAssumption, NEW k \in Nat, k < IntHalf
    PROVE  Wrapped(k) = k
<1> DEFINE M == 2 * IntHalf
<1>1. IntHalf \in Nat /\ M \in Nat /\ M # 0 /\ k + IntHalf \in Nat /\ k + IntHalf < M
  BY DEF RewriterAssumption
<1> HIDE DEF M
<1>2. (k + IntHalf) % M = k + IntHalf
  BY <1>1
<1>3. (k + IntHalf) % (2 * IntHalf) = k + IntHalf
  BY <1>2 DEF M
<1> QED
  BY <1>1, <1>3 DEF Wrapped

\* With the keys that fit, what was opened first has the smaller key.
LEMMA KeysOrdered ==
    ASSUME RewriterAssumption, TypeOK, KeysFit,
           NEW e \in Entry, tags[e.tag].open \in Stops, e.order \in 1..Here(tags[e.tag].open),
           NEW f \in Entry, tags[f.tag].open \in Stops, f.order \in 1..Here(tags[f.tag].open),
           \/ tags[e.tag].open < tags[f.tag].open
           \/ tags[e.tag].open = tags[f.tag].open /\ e.order < f.order
    PROVE  Key(e) < Key(f)
<1> DEFINE a == tags[e.tag].open
           b == tags[f.tag].open
<1>1. a \in Nat /\ b \in Nat /\ OrderBits \in Nat /\ e.order \in Nat /\ f.order \in Nat
  BY StopsFacts DEF RewriterAssumption, Entry
<1>2. Here(a) \in Nat /\ Here(b) \in Nat
  BY HereFacts
<1>3. /\ Here(a) < OrderBits /\ a * OrderBits + Here(a) < IntHalf
      /\ Here(b) < OrderBits /\ b * OrderBits + Here(b) < IntHalf
  <2>1. Here(a) # 0 /\ Here(b) # 0
    BY <1>1, <1>2
  <2> QED
    BY <2>1 DEF KeysFit, Here
<1>4. PICK ka \in Nat, kb \in Nat : ka = a * OrderBits /\ kb = b * OrderBits
  BY <1>1
<1>5. a < b => ka + OrderBits <= kb
  <2> HIDE DEF a, b
  <2> SUFFICES ASSUME a < b PROVE ka + OrderBits <= kb
    OBVIOUS
  <2>1. (b - a) \in Nat /\ (b - a) >= 1 /\ b = a + (b - a)
    BY <1>1
  <2>2. \A x, y, z \in Nat : y >= 1 => x * z + z <= (x + y) * z
    OBVIOUS
  <2> QED
    BY <1>1, <1>4, <2>1, <2>2
<1>6. a = b => ka = kb
  BY <1>4
<1>7. Key(e) = ka + e.order
  <2>1. ka + e.order \in Nat /\ ka + e.order < IntHalf
    BY <1>1, <1>2, <1>3, <1>4 DEF RewriterAssumption
  <2> QED
    BY <2>1, <1>4, WrappedFits DEF Key
<1>8. Key(f) = kb + f.order
  <2>1. kb + f.order \in Nat /\ kb + f.order < IntHalf
    BY <1>1, <1>2, <1>3, <1>4 DEF RewriterAssumption
  <2> QED
    BY <2>1, <1>4, WrappedFits DEF Key
<1>9. e.order < OrderBits
  BY <1>1, <1>2, <1>3
<1> HIDE DEF a, b
<1>10. a < b \/ (a = b /\ e.order < f.order)
  BY DEF a, b
<1> QED
  BY <1>1, <1>4, <1>5, <1>6, <1>7, <1>8, <1>9, <1>10

\* Before there is a page, it is enough to count.
LEMMA NothingNested ==
    ASSUME RewriterAssumption, retval' = <<>>, \A o \in Stops : closes'[o] = {}, stop' = -1, TypeOK', OpensOnce',
           PlaceInv'
    PROVE  NestInv'
<1>1. (\A w : Items(w) = {})'
  BY DEF Items
<1>2. InOrder' /\ ClosedInside'
  BY <1>1 DEF InOrder, ClosedInside
<1>3. \A o \in Stops : o # stop'
  BY StopsFacts
<1>4. (\A o \in Stops : Cardinality(opens[o]) \in Nat /\ Cardinality(opens[o]) <= Here(o))'
  BY OpensFewer, PTL
<1> QED
  BY <1>2, <1>3, <1>4 DEF NestInv, Counted

LEMMA InitNests == ASSUME RewriterAssumption, Init PROVE NestInv
<1>1. PlaceInv
  BY InitPlaces
<1>2. \A o \in Stops : o # stop
  BY StopsFacts DEF Init
<1>3. Counted
  BY <1>1, <1>2, OpensFewer DEF PlaceInv, Counted
<1> QED
  BY <1>1, <1>3, NothingWritten DEF Init, NestInv

LEMMA EarlyNests ==
    ASSUME RewriterAssumption, NestInv, Add \/ Generate \/ AddOpen \/ OpensAdded
    PROVE  NestInv'
<1>1. PlaceInv'
  BY AddKeeps, GenerateKeeps, AddOpenKeeps, OpensAddedKeeps DEF NestInv
<1>2. retval' = <<>> /\ stop' = -1 /\ \A o \in Stops : closes'[o] = {}
  BY DEF NestInv, PlaceInv, Phase, Add, Generate, AddOpen, OpensAdded
<1> QED
  BY <1>1, <1>2, NothingNested DEF PlaceInv

\* A step that leaves the page and the tags alone.
LEMMA NestKept ==
    ASSUME NestInv, PlaceInv', UNCHANGED <<tags, opens, closes, stop, order, retval>>
    PROVE  NestInv'
<1>1. /\ \A o : Here(o)' = Here(o) /\ \A w : Items(w)' = Items(w)
      /\ Nestable' = Nestable /\ NoneEmpty' = NoneEmpty /\ KeysFit' = KeysFit
  BY DEF Here, Items, Nestable, NoneEmpty, KeysFit
<1> QED
  BY <1>1 DEF NestInv, Counted, InOrder, ClosedInside

LEMMA StopNests == ASSUME RewriterAssumption, NestInv, Stop PROVE NestInv'
<1>1. PlaceInv'
  BY StopKeeps DEF NestInv
<1>2. /\ order' = 0 /\ stop' \in Stops /\ stop' > stop /\ stop' \in Nat /\ stop \in Int
      /\ UNCHANGED <<tags, opens, closes, retval>>
  BY StopsFacts, StopFacts DEF Stop, StopsLeft, NestInv, PlaceInv
<1>3. /\ \A o : Here(o)' = Here(o) /\ \A w : Items(w)' = Items(w)
      /\ Nestable' = Nestable /\ NoneEmpty' = NoneEmpty /\ KeysFit' = KeysFit
  BY <1>2 DEF Here, Items, Nestable, NoneEmpty, KeysFit
<1>4. Counted'
  <2>1. \A o \in Stops : Cardinality(opens[o]) \in Nat /\ Cardinality(opens[o]) <= Here(o)
    BY OpensFewer DEF NestInv, PlaceInv
  <2> QED
    BY <1>2, <1>3, <2>1 DEF Counted
<1>5. InOrder'
  <2>1. ASSUME NEW o \in Stops, NEW e \in closes[o] PROVE tags[e.tag].open # stop'
    <3>1. e.at \in Items("open") /\ retval[e.at].of = e.tag
      BY DEF NestInv, PlaceInv, Entries
    <3>2. tags[e.tag].open \in Stops /\ tags[e.tag].open <= stop
      BY <3>1 DEF NestInv, PlaceInv, OpenItems, Of
    <3>3. tags[e.tag].open \in Nat
      BY <3>2, StopsFacts
    <3> QED
      BY <1>2, <3>2, <3>3
  <2> QED
    BY <1>2, <1>3, <2>1 DEF NestInv, InOrder
<1>6. ClosedInside' = ClosedInside
  BY <1>2, <1>3 DEF ClosedInside
<1> QED
  BY <1>1, <1>3, <1>4, <1>5, <1>6 DEF NestInv

LEMMA CopyNests == ASSUME RewriterAssumption, NestInv, Copy PROVE NestInv'
<1> DEFINE x == [what |-> "text", of |-> pos + 1]
<1>1. PlaceInv'
  BY CopyKeeps DEF NestInv
<1>2. /\ retval' = Append(retval, x) /\ UNCHANGED <<tags, opens, closes, stop, order>>
  BY DEF Copy
<1>3. PICK m : m = Len(retval)
  OBVIOUS
<1>4. x \in Item /\ x.what = "text"
  <2>1. stop \in Nat /\ pos \in Nat /\ Size \in Nat /\ pos < NextStop
    <3>1. stop \in Stops
      BY DEF Copy, NestInv, PlaceInv, Phase
    <3> QED
      BY <3>1, StopsFacts DEF NestInv, PlaceInv, TypeOK, RewriterAssumption, Copy
  <2>2. pos + 1 \in 1..Size
    BY <2>1 DEF NextStop, Within
  <2> QED
    BY <2>2, CharsFacts DEF Item
<1> HIDE DEF x
<1>5. /\ \A p \in 1..m : retval'[p] = retval[p]
      /\ Items("open") \subseteq 1..m /\ Items("close") \subseteq 1..m
      /\ Items("open")' = Items("open") /\ Items("close")' = Items("close")
  <2>1. /\ \A p \in 1..m : retval'[p] = retval[p]
        /\ \A w : Items(w)' = Items(w) \cup IF x.what = w THEN {m + 1} ELSE {}
        /\ \A w : Items(w) \subseteq 1..m
    BY <1>2, <1>3, <1>4, OneWritten DEF NestInv, PlaceInv
  <2> QED
    BY <1>4, <2>1
<1>6. /\ \A o : Here(o)' = Here(o)
      /\ Nestable' = Nestable /\ NoneEmpty' = NoneEmpty /\ KeysFit' = KeysFit
  BY <1>2 DEF Here, Nestable, NoneEmpty, KeysFit
<1>7. Counted' /\ InOrder'
  BY <1>2, <1>6 DEF NestInv, Counted, InOrder
<1>8. ClosedInside => ClosedInside'
  BY <1>5 DEF ClosedInside
<1> QED
  BY <1>1, <1>6, <1>7, <1>8 DEF NestInv

LEMMA CloseNests == ASSUME RewriterAssumption, NestInv, Close PROVE NestInv'
<1>1. PICK e, m : Closed(e, m)
  BY CloseCloses DEF NestInv
<1>2. PlaceInv /\ PlaceInv'
  BY CloseKeeps DEF NestInv
<1>3. /\ \A o \in Stops : closes'[o] \subseteq closes[o]
      /\ UNCHANGED <<tags, opens, stop, order>>
      /\ \A o : Here(o)' = Here(o)
      /\ Nestable' = Nestable /\ NoneEmpty' = NoneEmpty /\ KeysFit' = KeysFit
  BY <1>1 DEF Closed, Here, Nestable, NoneEmpty, KeysFit
<1>4. Counted' /\ InOrder'
  BY <1>3 DEF NestInv, Counted, InOrder
<1>5. /\ stop \in Stops /\ stop \in Nat /\ e \in Entry /\ e \in closes[stop] /\ m \in Nat
      /\ e.at \in Items("open") /\ retval[e.at].of = e.tag
      /\ tags[e.tag].close = stop /\ e.tag \in DOMAIN tags /\ pc = "close"
      /\ \A p \in 1..m : retval'[p] = retval[p]
      /\ retval'[m + 1].of = e.tag
      /\ Items("close")' = Items("close") \cup {m + 1} /\ Items("open")' = Items("open")
      /\ \A w : Items(w) \subseteq 1..m
  BY <1>1 DEF Closed
<1>6. ASSUME Fits, NEW r \in Items("open"), e.at < r
      PROVE  \E u \in Items("close") : retval[u].of = retval[r].of
  <2>1. \A i \in DOMAIN tags : /\ 0 <= tags[i].open /\ tags[i].open < tags[i].close
                               /\ tags[i].open \in Int /\ tags[i].close \in Int
                               /\ tags[i].open \in Stops /\ tags[i].close \in Stops
    <3>1. \A i \in DOMAIN tags : tags[i] \in ToSet(tags)
      BY DEF ToSet
    <3>2. \A i \in DOMAIN tags : 0 <= tags[i].open /\ tags[i].open < tags[i].close
      BY <1>6, <3>1 DEF Fits, NoneEmpty
    <3> QED
      BY <1>2, <3>2, TagFacts DEF PlaceInv
  <2>2. retval[r].of \in DOMAIN tags
    <3>1. r \in DOMAIN retval /\ retval[r].what = "open"
      BY DEF Items
    <3>2. retval[r] \in Item
      BY <1>2, <3>1 DEF PlaceInv, TypeOK
    <3> QED
      BY <3>1, <3>2 DEF Item, Chars
  <2>3. ASSUME NEW f \in closes[Of(r).close], f.at = r PROVE FALSE
    <3> DEFINE u == Of(r).close
    <3>1. u \in Stops /\ u \in Nat /\ f \in Entry /\ f.tag = retval[r].of /\ tags[f.tag] = Of(r)
      <4>1. u \in Stops
        BY <2>1, <2>2 DEF Of
      <4>2. f \in Entry
        BY <4>1, <2>3, <1>2 DEF PlaceInv, TypeOK
      <4>3. f.tag = retval[r].of
        BY <4>1, <2>3, <1>2 DEF PlaceInv, Entries
      <4> QED
        BY <4>1, <4>2, <4>3, StopsFacts DEF Of
    <3>2. /\ tags[e.tag].open \in Nat /\ tags[e.tag].open \in Stops /\ tags[e.tag].open < stop
          /\ tags[f.tag].open \in Nat /\ tags[f.tag].open \in Stops /\ tags[f.tag].open < u
          /\ tags[f.tag].open <= stop /\ tags[f.tag].close = u
      <4>1. Of(r).open <= stop
        BY <1>2 DEF PlaceInv, OpenItems
      <4> QED
        BY <4>1, <3>1, <2>1, <2>2, <1>5
    <3>3. \/ tags[e.tag].open < tags[f.tag].open
          \/ tags[e.tag].open = tags[f.tag].open /\ e.order < f.order /\ u <= stop
      BY <3>1, <2>3, <1>5, <1>6 DEF NestInv, InOrder
    <3>4. /\ e.order >= 1 /\ e.order <= Here(tags[e.tag].open)
          /\ f.order >= 1 /\ f.order <= Here(tags[f.tag].open)
      BY <3>1, <2>3, <1>5 DEF NestInv, InOrder
    <3>5. tags[f.tag].open < stop
      <4>1. tags[f.tag].open = stop => f.order <= 0
        <5>1. order = 0
          BY <1>2, <1>5 DEF PlaceInv, Phase
        <5> QED
          BY <5>1, <3>1, <2>3 DEF NestInv, InOrder
      <4>2. f.order \in Nat
        BY <3>1 DEF Entry
      <4> QED
        BY <4>1, <4>2, <3>2, <3>4, <1>5
    <3>6. u >= stop
      BY <3>1, <3>2, <2>3, <1>2, <1>5 DEF PlaceInv, ClosesLeft
    <3>7. CASE u = stop
      <4>1. Key(e) < Key(f)
        <5>1. e.order \in 1..Here(tags[e.tag].open) /\ f.order \in 1..Here(tags[f.tag].open)
          <6>1. Here(tags[e.tag].open) \in Nat /\ Here(tags[f.tag].open) \in Nat
            BY <1>2, HereFacts DEF PlaceInv
          <6>2. e.order \in Nat /\ f.order \in Nat
            BY <3>1, <1>5 DEF Entry
          <6> QED
            BY <6>1, <6>2, <3>4
        <5>2. TypeOK /\ KeysFit
          BY <1>2, <1>6 DEF PlaceInv, Fits
        <5> QED
          BY <5>1, <5>2, <3>1, <3>2, <3>3, <1>5, KeysOrdered
      <4>2. ClosesBefore(e, f)
        BY <3>7, <2>3, <1>1 DEF Closed
      <4>3. Key(e) \in Int /\ Key(f) \in Int
        BY <3>1, <3>2, <1>5 DEF Key, Wrapped, Entry, RewriterAssumption
      <4> QED
        BY <4>1, <4>2, <4>3 DEF ClosesBefore
    <3>8. CASE u > stop
      <4>1. tags[e.tag].open < tags[f.tag].open
        BY <3>1, <3>3, <3>8, <1>5
      <4>2. tags[e.tag] \in ToSet(tags) /\ tags[f.tag] \in ToSet(tags)
        BY <3>1, <2>2, <1>5 DEF ToSet
      <4>3. \/ Disjoint(tags[e.tag], tags[f.tag])
            \/ Inside(tags[e.tag], tags[f.tag]) \/ Inside(tags[f.tag], tags[e.tag])
        BY <4>2, <1>6 DEF Fits, Nestable
      <4> QED
        BY <4>1, <4>3, <3>1, <3>2, <3>5, <3>8, <1>5 DEF Disjoint, Inside
    <3> QED
      BY <3>1, <3>6, <3>7, <3>8, <1>5
  <2>4. Of(r).close >= 0
    BY <2>1, <2>2 DEF Of
  <2> QED
    BY <2>3, <2>4, <1>2 DEF PlaceInv, OpenItems
<1>7. ASSUME Fits, ClosedInside PROVE ClosedInside'
  <2> SUFFICES ASSUME NEW p \in Items("open"), NEW q \in Items("close")', retval'[q].of = retval[p].of
               PROVE  /\ p < q
                      /\ \A r \in Items("open") : p < r /\ r < q =>
                             \E u \in Items("close")' : retval'[u].of = retval[r].of /\ u < q
    BY <1>5 DEF ClosedInside
  <2>1. CASE q \in Items("close")
    BY <2>1, <1>5, <1>7 DEF ClosedInside
  <2>2. CASE q = m + 1
    <3>1. p = e.at
      BY <2>2, <1>2, <1>5 DEF PlaceInv, OpenItems, Of
    <3>2. p < q
      BY <2>2, <1>5
    <3>3. \A r \in Items("open") : p < r =>
              \E u \in Items("close")' : retval'[u].of = retval[r].of /\ u < q
      BY <3>1, <2>2, <1>5, <1>6, <1>7
    <3> QED
      BY <3>2, <3>3
  <2> QED
    BY <2>1, <2>2, <1>5
<1> QED
  BY <1>2, <1>3, <1>4, <1>7 DEF NestInv, Fits

LEMMA OpenNests == ASSUME RewriterAssumption, NestInv, Open PROVE NestInv'
<1>1. PICK i, P : Opened(i, P)
  BY OpenOpens DEF NestInv
<1>2. PlaceInv /\ PlaceInv'
  BY OpenKeeps DEF NestInv
<1> DEFINE t == tags[i]
           new == [tag |-> i, order |-> order + 1, at |-> P]
<1>3. /\ pc = "open" /\ stop \in Stops /\ stop \in Nat /\ pos = Within(stop) /\ pos \in Nat /\ Size \in Nat
      /\ order \in Nat /\ order' = order + 1 /\ UNCHANGED <<tags, stop>>
  <2>1. pc = "open" /\ stop \in Stops
    BY <1>2 DEF PlaceInv, Phase, Open
  <2>2. stop \in Nat
    BY <2>1, StopsFacts
  <2>3. pos = NextStop
    BY <1>2, <2>1, <2>2 DEF PlaceInv, Phase
  <2> QED
    BY <1>1, <1>2, <2>1, <2>2, <2>3 DEF PlaceInv, TypeOK, NextStop, Opened, RewriterAssumption
<1>4. /\ i \in opens[stop] /\ i \in DOMAIN tags /\ t.open = stop /\ t.close \in Int
      /\ t.close >= 0 => t.close \in Stops
      /\ \A j \in opens[stop] : OpensBefore(i, j) /\ j \in DOMAIN tags /\ tags[j].close \in Int
      /\ opens \in [Stops -> SUBSET DOMAIN tags] /\ closes \in [Stops -> SUBSET Entry]
      /\ \A o \in Stops : opens'[o] = opens[o] \ IF o = stop THEN {i} ELSE {}
  <2>1. i \in opens[stop] /\ opens' = [opens EXCEPT ![stop] = @ \ {i}] /\ \A j \in opens[stop] : OpensBefore(i, j)
    BY <1>1 DEF Opened
  <2>2. opens \in [Stops -> SUBSET DOMAIN tags] /\ closes \in [Stops -> SUBSET Entry]
        /\ \A j \in opens[stop] : tags[j].open = stop
    BY <1>2, <1>3 DEF PlaceInv, TypeOK
  <2>3. \A j \in opens[stop] : j \in DOMAIN tags
    BY <1>3, <2>2
  <2>4. \A j \in DOMAIN tags : tags[j].close \in Int /\ (tags[j].close >= 0 => tags[j].close \in Stops)
    BY <1>2, TagFacts DEF PlaceInv
  <2> QED
    BY <1>3, <2>1, <2>2, <2>3, <2>4
<1>5. \A o \in Stops : \A e \in closes'[o] : e \in closes[o] \/ (e = new /\ o = t.close)
  <2>1. closes' = IF t.close < 0 \/ Shut(i) THEN closes ELSE [closes EXCEPT ![t.close] = @ \cup {new}]
    BY <1>1 DEF Opened
  <2> HIDE DEF new, t
  <2> QED
    BY <2>1, <1>4
<1>6. /\ P \in Nat /\ Len(retval) \in Nat /\ Len(retval) < P
      /\ \A p \in 1..Len(retval) : retval'[p] = retval[p]
      /\ \A w : Items(w) \subseteq 1..Len(retval)
      /\ Items("open")' = Items("open") \cup {P} /\ retval'[P].of = i
      /\ ~Shut(i) => Items("close")' = Items("close")
  BY <1>1 DEF Opened
<1>7. new.tag = i /\ new.order = order + 1 /\ new.at = P
  OBVIOUS
<1>8. /\ \A o : Here(o)' = Here(o) /\ Here(o) \in Nat
      /\ Nestable' = Nestable /\ NoneEmpty' = NoneEmpty /\ KeysFit' = KeysFit
  BY <1>2, <1>3, HereFacts DEF Here, Nestable, NoneEmpty, KeysFit, PlaceInv
<1> HIDE DEF new, t
<1>9. /\ \A o \in Stops : IsFiniteSet(opens[o]) /\ Cardinality(opens[o]) \in Nat
      /\ Cardinality(opens'[stop]) = Cardinality(opens[stop]) - 1
  <2>1. \A o \in Stops : IsFiniteSet(opens[o]) /\ Cardinality(opens[o]) \in Nat
    BY <1>2, OpensFew DEF PlaceInv
  <2>2. opens'[stop] = opens[stop] \ {i}
    BY <1>3, <1>4
  <2>3. IsFiniteSet(opens[stop]) /\ i \in opens[stop]
    BY <1>3, <1>4, <2>1
  <2>4. Cardinality(opens[stop] \ {i}) = Cardinality(opens[stop]) - 1
    BY <2>3, FS_RemoveElement
  <2> QED
    BY <2>1, <2>2, <2>4
<1>10. Cardinality(opens[stop]) >= 1 /\ order + 1 <= Here(stop)
  <2>1. Cardinality(opens'[stop]) \in Nat
    <3>1. opens'[stop] = opens[stop] \ {i}
      BY <1>3, <1>4
    <3>2. IsFiniteSet(opens'[stop])
      BY <3>1, <1>3, <1>9, FS_RemoveElement
    <3> QED
      BY <3>2, FS_CardinalityType
  <2>2. Cardinality(opens[stop]) \in Nat /\ Cardinality(opens'[stop]) = Cardinality(opens[stop]) - 1
    BY <1>3, <1>9
  <2>3. Cardinality(opens[stop]) + order <= Here(stop)
    BY <1>3 DEF NestInv, Counted
  <2> QED
    BY <2>1, <2>2, <2>3, <1>3, <1>8
<1>11. Counted'
  <2> SUFFICES ASSUME NEW o \in Stops
               PROVE  Cardinality(opens'[o]) + (IF o = stop THEN order + 1 ELSE 0) <= Here(o)
    BY <1>3, <1>8 DEF Counted
  <2>1. Cardinality(opens[o]) + (IF o = stop THEN order ELSE 0) <= Here(o)
    BY DEF NestInv, Counted
  <2>2. CASE o = stop
    BY <2>1, <2>2, <1>3, <1>8, <1>9
  <2>3. CASE o # stop
    BY <2>1, <2>3, <1>4
  <2> QED
    BY <2>2, <2>3
<1>12. ASSUME NEW o \in Stops, NEW e \in closes[o]
       PROVE  /\ e.at \in 1..Len(retval) /\ e.order \in Nat /\ e.at < P
              /\ tags[e.tag].open \in Nat /\ tags[e.tag].open <= stop
  <2>1. e \in Entry
    BY <1>4, <1>12
  <2>2. e.at \in Items("open") /\ retval[e.at].of = e.tag
    BY <1>2, <1>12 DEF PlaceInv, Entries
  <2>3. tags[e.tag].open \in Stops /\ tags[e.tag].open <= stop
    BY <1>2, <2>2 DEF PlaceInv, OpenItems, Of
  <2> QED
    BY <2>1, <2>2, <2>3, <1>6, StopsFacts DEF Entry
<1>13. InOrder'
  <2>1. ASSUME NEW o \in Stops, NEW e \in closes'[o]
        PROVE  /\ e.order >= 1 /\ e.order <= Here(tags[e.tag].open)
               /\ tags[e.tag].open = stop =>
                      /\ e.order <= order + 1
                      /\ \A j \in opens'[stop] : tags[j].close <= o
    <3>1. CASE e \in closes[o]
      <4>1. /\ e.order >= 1 /\ e.order <= Here(tags[e.tag].open)
            /\ tags[e.tag].open = stop => e.order <= order /\ \A j \in opens[stop] : tags[j].close <= o
        BY <3>1 DEF NestInv, InOrder
      <4>2. e.order \in Nat
        BY <3>1, <1>12
      <4>3. opens'[stop] \subseteq opens[stop]
        BY <1>3, <1>4
      <4> QED
        BY <4>1, <4>2, <4>3, <1>3
    <3>2. CASE e = new /\ o = t.close
      <4>1. \A j \in opens'[stop] : tags[j].close <= t.close
        BY <1>3, <1>4 DEF OpensBefore, t
      <4> QED
        BY <3>2, <4>1, <1>3, <1>4, <1>7, <1>10 DEF t
    <3> QED
      BY <2>1, <3>1, <3>2, <1>5
  <2>2. ASSUME NEW o \in Stops, NEW u \in Stops, NEW e \in closes'[o], NEW f \in closes'[u], e.at < f.at
        PROVE  \/ tags[e.tag].open < tags[f.tag].open
               \/ tags[e.tag].open = tags[f.tag].open /\ e.order < f.order /\ u <= o
    <3>1. CASE e \in closes[o] /\ f \in closes[u]
      BY <2>2, <3>1 DEF NestInv, InOrder
    <3>2. CASE e \in closes[o] /\ f = new /\ u = t.close
      <4>1. tags[e.tag].open = stop => e.order <= order /\ u <= o
        BY <3>2, <1>4 DEF NestInv, InOrder, t
      <4>2. tags[e.tag].open \in Nat /\ tags[e.tag].open <= stop /\ e.order \in Nat
        BY <3>2, <1>12
      <4> QED
        BY <4>1, <4>2, <3>2, <1>3, <1>4, <1>7 DEF t
    <3>3. CASE e = new
      <4>1. e.at = P
        BY <3>3, <1>7
      <4>2. f.at <= P
        <5>1. f \in closes[u] => f.at < P /\ f.at \in Nat
          BY <1>12
        <5> QED
          BY <5>1, <2>2, <1>5, <1>6, <1>7
      <4>3. f.at \in Nat
        <5>1. f \in closes[u] => f.at \in Nat
          BY <1>12
        <5> QED
          BY <5>1, <2>2, <1>5, <1>6, <1>7
      <4> QED
        BY <2>2, <4>1, <4>2, <4>3, <1>6
    <3> QED
      BY <2>2, <3>1, <3>2, <3>3, <1>5
  <2>3. (\A o \in Stops : \A e \in closes[o] :
            /\ e.order >= 1 /\ e.order <= Here(tags[e.tag].open)
            /\ tags[e.tag].open = stop =>
                   /\ e.order <= order
                   /\ \A j \in opens[stop] : tags[j].close <= o)'
    BY <2>1, <1>3, <1>8
  <2>4. (\A o, u \in Stops : \A e \in closes[o] : \A f \in closes[u] : e.at < f.at =>
            \/ tags[e.tag].open < tags[f.tag].open
            \/ tags[e.tag].open = tags[f.tag].open /\ e.order < f.order /\ u <= o)'
    BY <2>2, <1>3
  <2> QED
    BY <2>3, <2>4 DEF InOrder
<1>14. ASSUME Fits, ClosedInside PROVE ClosedInside'
  <2>1. ~Shut(i)
    <3>1. t \in ToSet(tags)
      BY <1>4 DEF ToSet, t
    <3>2. t.open < t.close
      BY <1>14, <3>1 DEF Fits, NoneEmpty
    <3> QED
      BY <3>2, <1>3, <1>4 DEF Shut, Within, t
  <2>2. ASSUME NEW q \in Items("close") PROVE retval[q].of # i
    <3>1. PICK p \in Items("open") : retval[p].of = retval[q].of
      BY <1>2 DEF PlaceInv, CloseItems
    <3>2. Of(p) # tags[i]
      BY <1>2, <1>4 DEF PlaceInv, OpenItems, t
    <3> QED
      BY <3>1, <3>2 DEF Of
  <2> SUFFICES ASSUME NEW p \in Items("open")', NEW q \in Items("close"), retval'[q].of = retval'[p].of
               PROVE  /\ p < q
                      /\ \A r \in Items("open")' : p < r /\ r < q =>
                             \E u \in Items("close") : retval'[u].of = retval'[r].of /\ u < q
    BY <2>1, <1>6 DEF ClosedInside
  <2>3. p \in Items("open")
    BY <2>2, <1>6
  <2>4. \A r \in Items("open")' : r < q => r \in Items("open")
    <3>1. q < P /\ q \in Nat
      BY <1>6
    <3> QED
      BY <3>1, <1>6
  <2>5. \A r \in Items("open") : retval'[r] = retval[r]
    BY <1>6
  <2>6. \A r \in Items("close") : retval'[r] = retval[r]
    BY <1>6
  <2> QED
    BY <2>3, <2>4, <2>5, <2>6, <1>14 DEF ClosedInside
<1> QED
  BY <1>2, <1>8, <1>11, <1>13, <1>14 DEF NestInv, Fits

LEMMA NestsKept == ASSUME RewriterAssumption, NestInv, [Next]_vars PROVE NestInv'
<1>1. CASE Add \/ Generate \/ AddOpen \/ OpensAdded
  BY <1>1, EarlyNests
<1>2. CASE LoopEnds
  BY <1>2, LoopEndsKeeps, NestKept DEF NestInv, LoopEnds
<1>3. CASE Generated
  BY <1>3, GeneratedKeeps, NestKept DEF NestInv, Generated
<1>4. CASE UNCHANGED vars
  <2>1. PlaceInv'
    BY <1>4, StutterPlaces DEF NestInv
  <2> QED
    BY <1>4, <2>1, NestKept DEF vars
<1> QED
  BY <1>1, <1>2, <1>3, <1>4, StopNests, CopyNests, CloseNests, OpenNests DEF Next

\* While a page is written, what is open is closed in the order of the keys.
THEOREM NestInvariant == ASSUME RewriterAssumption PROVE Spec => []NestInv
<1>1. Init => NestInv
  BY InitNests
<1>2. NestInv /\ [Next]_vars => NestInv'
  BY NestsKept
<1> QED
  BY <1>1, <1>2, PTL DEF Spec

LEMMA NestsGive == ASSUME RewriterAssumption, NestInv PROVE Nested
<1> SUFFICES ASSUME pc = "done", Fits PROVE WellFormed
  BY DEF Nested, Fits
<1>1. PlaceInv /\ ClosedInside
  BY DEF NestInv, Fits
<1>2. ASSUME NEW q \in Items("close")
      PROVE  \E p \in Items("open") : retval[p].of = retval[q].of
  BY <1>1 DEF PlaceInv, CloseItems
<1>3. ASSUME NEW p \in Items("open"), NEW u \in Items("open"), retval[p].of = retval[u].of
      PROVE  p = u
  BY <1>1, <1>3 DEF PlaceInv, OpenItems, Of
<1>4. ASSUME NEW p \in Items("open")
      PROVE  \E q \in Items("close") : retval[q].of = retval[p].of
  <2>1. retval[p].of \in DOMAIN tags
    <3>1. p \in DOMAIN retval /\ retval[p].what = "open"
      BY DEF Items
    <3>2. retval[p] \in Item
      BY <1>1, <3>1 DEF PlaceInv, TypeOK
    <3> QED
      BY <3>1, <3>2 DEF Item, Chars
  <2>2. 0 <= Of(p).open /\ Of(p).open < Of(p).close /\ Of(p).open \in Int /\ Of(p).close \in Int
    <3>1. Of(p) \in ToSet(tags)
      BY <2>1 DEF ToSet, Of
    <3> QED
      BY <1>1, <2>1, <3>1, TagFacts DEF Fits, NoneEmpty, PlaceInv, Of
  <2>3. Of(p).close \in Stops /\ Of(p).close >= 0
    BY <1>1, <2>1, <2>2, TagFacts DEF PlaceInv, Of
  <2>4. ASSUME NEW e \in closes[Of(p).close], e.at = p PROVE FALSE
    <3>1. tags[e.tag] = Of(p)
      BY <1>1, <2>3, <2>4 DEF PlaceInv, Entries, Of
    <3>2. Of(p).close > stop
      BY <1>1, <2>2, <2>3, <2>4, <3>1 DEF PlaceInv, ClosesLeft
    <3> QED
      BY <1>1, <2>3, <2>4, <3>2 DEF PlaceInv, Phase
  <2> QED
    BY <1>1, <2>3, <2>4 DEF PlaceInv, OpenItems
<1>5. PICK opener \in [Items("close") -> Items("open")] :
          \A q \in Items("close") : retval[opener[q]].of = retval[q].of
  <2> DEFINE f == [q \in Items("close") |-> CHOOSE p \in Items("open") : retval[p].of = retval[q].of]
  <2>1. \A q \in Items("close") : f[q] \in Items("open") /\ retval[f[q]].of = retval[q].of
    BY <1>2
  <2>2. f \in [Items("close") -> Items("open")]
    BY <2>1
  <2> QED
    BY <2>1, <2>2
<1>6. \A p \in Items("open") : \E q \in Items("close") : opener[q] = p
  BY <1>3, <1>4, <1>5
<1>7. \A q \in Items("close") :
          /\ opener[q] < q
          /\ NameOf[tags[retval[opener[q]].of].label] = NameOf[tags[retval[q].of].label]
  BY <1>1, <1>5 DEF ClosedInside
<1>8. ASSUME NEW q \in Items("close"), NEW r \in Items("close"), q # r
      PROVE  /\ opener[q] # opener[r]
             /\ opener[q] < opener[r] /\ opener[r] < q => r < q
  <2>1. \A u \in Items("close") : retval[u].of = retval[r].of => u = r
    BY <1>1 DEF PlaceInv, CloseItems
  <2>2. opener[q] # opener[r]
    BY <1>5, <1>8, <2>1
  <2>3. ASSUME opener[q] < opener[r], opener[r] < q PROVE r < q
    <3>1. PICK u \in Items("close") : retval[u].of = retval[opener[r]].of /\ u < q
      BY <1>1, <1>5, <2>3 DEF ClosedInside
    <3> QED
      BY <3>1, <1>5, <2>1
  <2> QED
    BY <2>2, <2>3
<1> QED
  BY <1>6, <1>7, <1>8 DEF WellFormed

\* Tags are nested correctly on a page (src/rewriter.cc:34), whatever the order
\* they were added in: when their ranges nest, none is empty and their keys fit
\* an int (src/rewriter.cc:91).
THEOREM PageNested == ASSUME RewriterAssumption PROVE Spec => []Nested
BY NestInvariant, NestsGive, PTL
=============================================================================
