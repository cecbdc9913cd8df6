---------------------------- MODULE HtmlRewriter ----------------------------
(***************************************************************************)
(* The text of a page (src/rewriter.cc): tags are collected in any order   *)
(* while a file is parsed, and Generate puts them into the text of the     *)
(* file. A page is a sequence of items, each a character of the file, or a *)
(* tag that is opened or closed.                                           *)
(***************************************************************************)
EXTENDS Integers, Sequences, FiniteSets, SequencesExt, Lists

CONSTANTS
    Labels,     \* the name of a tag with its attributes
    NameOf,     \* the name of each label
    Size,       \* characters of the file
    Ranges,     \* pairs of offsets a tag may be asked for
    MaxTags,    \* bound: tags of the file
    OrderBits,  \* 2^10: what the key of a closing tag has for the order
    IntHalf     \* 2^31: keys are signed integers

\* The tags of a file can be beyond its end: the text of a file that cannot be
\* read is replaced (FormatSource in src/renderer.cc).
ASSUME RewriterAssumption ==
    /\ Size \in Nat /\ MaxTags \in Nat /\ OrderBits \in Nat \ {0} /\ IntHalf \in Nat \ {0}
    /\ Ranges \subseteq (Int \X Int)
    /\ Labels = DOMAIN NameOf

VARIABLES
    tags,     \* HtmlRewriter::tags_
    pc, next, \* Generate: where it is, and the tag it is at
    opens,    \* at each offset, the tags to open that are left
    closes,   \* at each offset, what to close that is left
    stop,     \* the offset it is at
    order,    \* how many tags it has opened there
    pos,      \* characters copied
    retval    \* the page

vars == <<tags, pc, next, opens, closes, stop, order, pos, retval>>

Offsets == {r[1] : r \in Ranges} \cup {r[2] : r \in Ranges}
Stops   == {o \in Offsets : o >= 0}

-----------------------------------------------------------------------------
Add ==
    /\ pc = "add" /\ Len(tags) < MaxTags
    /\ \E r \in Ranges, l \in Labels :
           tags' = Append(tags, [label |-> l, open |-> r[1], close |-> r[2]])
    /\ UNCHANGED <<pc, next, opens, closes, stop, order, pos, retval>>

Generate ==
    /\ pc = "add"
    /\ pc' = "collect"
    /\ UNCHANGED <<tags, next, opens, closes, stop, order, pos, retval>>

\* Mutant: tags that are there already are added again.
AddOpenAgain ==
    /\ pc = "collect" /\ next <= Len(tags)
    /\ LET t == tags[next]
       IN opens' = IF t.open < 0 THEN opens ELSE [opens EXCEPT ![t.open] = @ \cup {next}]
    /\ next' = next + 1
    /\ UNCHANGED <<tags, pc, closes, stop, order, pos, retval>>

AddOpen ==
    /\ pc = "collect" /\ next <= Len(tags)
    /\ LET t == tags[next]
       IN opens' = IF t.open < 0 \/ \E i \in opens[t.open] : tags[i] = t
                   THEN opens
                   ELSE [opens EXCEPT ![t.open] = @ \cup {next}]
    /\ next' = next + 1
    /\ UNCHANGED <<tags, pc, closes, stop, order, pos, retval>>

OpensAdded ==
    /\ pc = "collect" /\ next > Len(tags)
    /\ pc' = "stops"
    /\ UNCHANGED <<tags, next, opens, closes, stop, order, pos, retval>>

-----------------------------------------------------------------------------
(* The offsets, each in its turn: the text up to it, what closes there, what  *)
(* opens there.  A multimap is a set, gone through in the order of its keys.  *)

StopsLeft == {o \in Stops : o > stop /\ (opens[o] # {} \/ closes[o] # {})}

Stop ==
    /\ pc = "stops"
    /\ \E o \in StopsLeft : (\A p \in StopsLeft : o <= p) /\ stop' = o
    /\ pc' = "copy" /\ order' = 0
    /\ UNCHANGED <<tags, next, opens, closes, pos, retval>>

\* Mutant: an offset is taken to be within the text.
NextStopAtOffset == stop

\* Copying stops at the end of the text, if that comes first.
Within(offset) == IF offset < Size THEN offset ELSE Size
NextStop == Within(stop)

Copy ==
    /\ pc = "copy" /\ pos < NextStop
    /\ retval' = Append(retval, [what |-> "text", of |-> pos + 1])
    /\ pos' = pos + 1
    /\ UNCHANGED <<tags, pc, next, opens, closes, stop, order>>

\* (tag->open << 10) + order, in an int.
Wrapped(k) == ((k + IntHalf) % (2 * IntHalf)) - IntHalf

\* Mutant: the order among tags opened at the same offset is forgotten.
KeyOfOffset(e) == Wrapped(tags[e.tag].open * OrderBits)

Key(e) == Wrapped(tags[e.tag].open * OrderBits + e.order)

\* The largest key first, and those that are equal as they were added.
ClosesBefore(e, f) == Key(e) > Key(f) \/ (Key(e) = Key(f) /\ e.at <= f.at)

Close ==
    /\ pc = "close"
    /\ \E e \in closes[stop] :
           /\ \A f \in closes[stop] : ClosesBefore(e, f)
           /\ closes' = [closes EXCEPT ![stop] = @ \ {e}]
           /\ retval' = Append(retval, [what |-> "close", of |-> e.tag])
    /\ UNCHANGED <<tags, pc, next, opens, stop, order, pos>>

\* The one that closes last first, and those that close together as they were
\* added.
OpensBefore(i, j) ==
    tags[i].close > tags[j].close \/ (tags[i].close = tags[j].close /\ i <= j)

\* One that closes where it opens, or before, is closed first; what else closes
\* is left to its offset, with the place on the page where it was opened.
Open ==
    /\ pc = "open"
    /\ \E i \in opens[stop] :
           LET t    == tags[i]
               shut == t.close >= 0 /\ pos >= t.close
               page == IF shut THEN Append(retval, [what |-> "close", of |-> i]) ELSE retval
           IN /\ \A j \in opens[stop] : OpensBefore(i, j)
              /\ opens' = [opens EXCEPT ![stop] = @ \ {i}]
              /\ retval' = Append(page, [what |-> "open", of |-> i])
              /\ closes' = IF t.close < 0 \/ shut THEN closes
                           ELSE [closes EXCEPT ![t.close] = @ \cup
                                    {[tag |-> i, order |-> order + 1, at |-> Len(retval')]}]
    /\ order' = order + 1
    /\ UNCHANGED <<tags, pc, next, stop, pos>>

LoopEnds ==
    /\ \/ pc = "copy"  /\ pos >= NextStop    /\ pc' = "close"
       \/ pc = "close" /\ closes[stop] = {}  /\ pc' = "open"
       \/ pc = "open"  /\ opens[stop] = {}   /\ pc' = "stops"
    /\ UNCHANGED <<tags, next, opens, closes, stop, order, pos, retval>>

\* The tags are gone. The text after the last of them is not copied.
Generated ==
    /\ pc = "stops" /\ StopsLeft = {}
    /\ pc' = "done"
    /\ UNCHANGED <<tags, next, opens, closes, stop, order, pos, retval>>

Init ==
    /\ tags = <<>> /\ pc = "add" /\ next = 1
    /\ opens = [o \in Stops |-> {}] /\ closes = [o \in Stops |-> {}]
    /\ stop = -1 /\ order = 0 /\ pos = 0 /\ retval = <<>>

Next ==
    \/ Add \/ Generate \/ AddOpen \/ OpensAdded
    \/ Stop \/ Copy \/ Close \/ Open \/ LoopEnds \/ Generated

Spec == Init /\ [][Next]_vars

-----------------------------------------------------------------------------
Tag   == [label : Labels, open : Int, close : Int]
Entry == [tag : DOMAIN tags, order : Nat, at : DOMAIN retval]
Chars == [what : {"text"}, of : 1..Size]
Item  == Chars \cup [what : {"open", "close"}, of : DOMAIN tags]

TypeOK ==
    /\ pc \in {"add", "collect", "stops", "copy", "close", "open", "done"}
    /\ tags \in Seq(Tag) /\ Len(tags) <= MaxTags /\ next \in 1..Len(tags) + 1
    /\ \A i \in DOMAIN tags : <<tags[i].open, tags[i].close>> \in Ranges
    /\ opens \in [Stops -> SUBSET DOMAIN tags] /\ closes \in [Stops -> SUBSET Entry]
    /\ \A o \in Stops : /\ \A i \in opens[o] : tags[i].open = o
                        /\ \A e \in closes[o] : tags[e.tag].close = o
    /\ stop \in Stops \cup {-1} /\ order \in Nat /\ pos \in 0..Size
    /\ retval \in Seq(Item)

\* Ranges of code are apart or one inside the other.
Disjoint(s, t) == s.close <= t.open \/ t.close <= s.open
Inside(s, t)   == t.open <= s.open /\ s.close <= t.close
Nestable == \A s, t \in ToSet(tags) : Disjoint(s, t) \/ Inside(s, t) \/ Inside(t, s)

NoneEmpty == \A t \in ToSet(tags) : 0 <= t.open /\ t.open < t.close

\* The keys of the tags that were added are in the order of their offsets.
KeysFit ==
    \A o \in Stops :
        LET here == Cardinality({t \in ToSet(tags) : t.open = o})
        IN here # 0 => here < OrderBits /\ o * OrderBits + here < IntHalf

Items(what) == {p \in DOMAIN retval : retval[p].what = what}

\* Each tag that opens is closed by one of its name that comes later, and no
\* two cross: what opens between a tag and the one that closes it closes there.
WellFormed ==
    \E opener \in [Items("close") -> Items("open")] :
        /\ \A p \in Items("open") : \E q \in Items("close") : opener[q] = p
        /\ \A q \in Items("close") :
               /\ opener[q] < q
               /\ NameOf[tags[retval[opener[q]].of].label] = NameOf[tags[retval[q].of].label]
        /\ \A q, r \in Items("close") :
               q # r => /\ opener[q] # opener[r]
                        /\ opener[q] < opener[r] /\ opener[r] < q => r < q

\* "HTML TAGS need to be nested correctly" (src/rewriter.cc:34): the page is
\* well formed when the ranges of its tags nest, there is code in all of them
\* and their keys do not overflow.
Nested == pc = "done" /\ Nestable /\ NoneEmpty /\ KeysFit => WellFormed

\* The characters up to the p-th item of the page.
TextBefore(p) == Cardinality(Held(retval, Chars, p))

\* One item of the page is this of a tag, after the text before an offset.
Once(what, t, offset) ==
    \E p \in Items(what) :
        /\ tags[retval[p].of] = t
        /\ TextBefore(p) = Within(offset)
        /\ \A q \in Items(what) : tags[retval[q].of] = t => q = p

\* The text comes first to last, each character once, up to the last tag. Each
\* tag is opened once however often it was added, after the characters before
\* its range, and closed once, after those in it. (Not an empty one beyond the
\* end of the text: what closes there has been written when it is added.)
Placed ==
    pc = "done" =>
        /\ \A p \in Items("text") : retval[p].of = TextBefore(p)
        /\ \A t \in ToSet(tags) : t.open >= 0 =>
               /\ Once("open", t, t.open)
               /\ t.open < t.close \/ (t.open = t.close /\ t.open <= Size)
                      => Once("close", t, t.close)

\* The same of empty ranges, such as the lines between #ifdef and #endif when
\* there are none.
EmptyNested == pc = "done" /\ Nestable /\ KeysFit
                 /\ (\A t \in ToSet(tags) : 0 <= t.open /\ t.open <= t.close)
               => WellFormed
=============================================================================
