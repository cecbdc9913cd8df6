----------------------------- MODULE ScrollSpy -----------------------------
(***************************************************************************)
(* The scroll spy of bootstrap.js marks the link whose target the page is  *)
(* scrolled to.  It keeps where the targets are until it finds, while it   *)
(* handles an event, that the height of the page has changed.              *)
(***************************************************************************)
EXTENDS Integers, Sequences

CONSTANTS
    Layouts,   \* where the targets can be, [offsets, height]
    Window     \* the height of the window

\* refresh() sorts the targets.
SpyAssumption ==
    /\ Window \in Nat
    /\ \A l \in Layouts :
        /\ l.height \in Nat /\ l.offsets \in Seq(Nat) /\ l.offsets # <<>>
        /\ \A i, j \in DOMAIN l.offsets : i < j => l.offsets[i] <= l.offsets[j]

VARIABLE spy

Nil == 0 \* no target
Max(l) == IF l.height > Window THEN l.height - Window ELSE 0

Spy == [layout       : Layouts,   \* of the page
        top          : Nat,       \* scrollTop, and the option offset
        offsets      : {l.offsets : l \in Layouts},
        scrollHeight : {l.height : l \in Layouts},
        activeTarget : Nat,
        events       : 0..2]    \* history: those since the page is as it is, 2 at most

-----------------------------------------------------------------------------
Refresh(s) == [s EXCEPT !.offsets = s.layout.offsets, !.scrollHeight = s.layout.height]

\* The link whose target is the last not below the top.
At(offsets, top, active) ==
    LET here == {i \in DOMAIN offsets :
                   top >= offsets[i] /\ (i = Len(offsets) \/ top < offsets[i + 1])}
    IN IF here = {} THEN active ELSE CHOOSE i \in here : TRUE

Mark(s) ==
    CASE s.top >= Max(s.layout) -> Len(s.offsets)
      [] s.top < Max(s.layout) /\ s.activeTarget # Nil /\ s.offsets # <<>> /\ s.top < s.offsets[1] -> Nil
      [] OTHER -> At(s.offsets, s.top, s.activeTarget)

\* Mutant: the offsets are never found anew.
ProcessOld(s) == [s EXCEPT !.activeTarget = Mark(s)]

\* It goes by the offsets it found before it refreshed them.
Process(s) ==
    LET r == IF s.scrollHeight # s.layout.height THEN Refresh(s) ELSE s
    IN [r EXCEPT !.activeTarget = Mark(s)]

Event(s) == Process([s EXCEPT !.events = IF @ = 0 THEN 1 ELSE 2])

Scroll(top) == top <= Max(spy.layout) /\ spy' = Event([spy EXCEPT !.top = top])

\* The page changes; the browser keeps the top within it, and says so.
Resize(l) ==
    LET top == IF spy.top > Max(l) THEN Max(l) ELSE spy.top
        s   == [spy EXCEPT !.layout = l, !.top = top, !.events = 0]
    IN l # spy.layout /\ spy' = IF top # spy.top THEN Event(s) ELSE s

Init == \E l \in Layouts :
    spy = Process([layout |-> l, top |-> 0, offsets |-> l.offsets, scrollHeight |-> l.height,
                   activeTarget |-> Nil, events |-> 1])

Tops == 0..(CHOOSE m \in {l.height : l \in Layouts} : \A l \in Layouts : l.height <= m)
Next == (\E top \in Tops : Scroll(top)) \/ (\E l \in Layouts : Resize(l))
Spec == Init /\ [][Next]_spy

-----------------------------------------------------------------------------
TypeOK == spy \in Spy

\* Whatever the page has been, once two events have come since it is as it is
\* the link that is marked is the one of the place it is scrolled to: the first
\* may only find that the height has changed.  Targets that move while the height
\* stays are not noticed (process).
ToldApart(l) == \A k \in Layouts : k.height = l.height => k = l
Right(l, top) == IF top >= Max(l) THEN Len(l.offsets) ELSE At(l.offsets, top, Nil)
SpiesRight ==
    spy.events = 2 /\ ToldApart(spy.layout) => spy.activeTarget = Right(spy.layout, spy.top)
=============================================================================
