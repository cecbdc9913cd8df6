------------------------------ MODULE Carousel ------------------------------
(***************************************************************************)
(* A carousel of bootstrap.js: items of which one is active, an interval   *)
(* that goes to the next, and requests for an item, which wait while       *)
(* another slides in.                                                      *)
(***************************************************************************)
EXTENDS Integers, Sequences, Transition

CONSTANTS Items, Wrap, MaxQueue  \* bound: requests that wait

VARIABLE carousel

CarouselAssumption == Items \in Nat \ {0} /\ Wrap \in BOOLEAN /\ MaxQueue \in Nat

Index == 0..(Items - 1)

Carousel == [active    : Index,
             indicator : Index,
             sliding   : BOOLEAN,
             next      : SUBSET Index,      \* the items that slide in
             waits     : SUBSET {"slid"},
             slid      : BOOLEAN,           \* the timeout of its event is due
             to        : Seq(Index),        \* handlers of slid.bs.carousel, one for each
             interval  : BOOLEAN,
             paused    : BOOLEAN]

-----------------------------------------------------------------------------
\* By an event it leaves `paused` as it is.
Cycle(k, event) ==
    [k EXCEPT !.paused = event /\ k.paused, !.interval = ~(event /\ k.paused)]

Pause(k, event) == [k EXCEPT !.paused = ~event \/ k.paused, !.interval = FALSE]

\* eq() of a negative index counts from the end.
GetItemForDirection(k, direction) ==
    LET wraps == \/ direction = "prev" /\ k.active = 0
                 \/ direction = "next" /\ k.active = Items - 1
    IN IF wraps /\ ~Wrap THEN k.active
       ELSE (k.active + IF direction = "next" THEN 1 ELSE -1) % Items

\* The item that is active already ends what is taken for a slide.
Slide(k, next) ==
    IF next = k.active THEN [k EXCEPT !.sliding = FALSE]
    ELSE LET s == [k EXCEPT !.sliding = TRUE, !.indicator = next, !.next = @ \cup {next},
                            !.waits = OnEnd(@, "slid")]
         IN IF k.interval THEN Cycle(Pause(s, FALSE), FALSE) ELSE s

\* Mutant: a request does not wait for the slide before it.
ToAtOnce(k, pos) ==
    IF k.active = pos THEN Cycle(Pause(k, FALSE), FALSE) ELSE Slide(k, pos)

To(k, pos) ==
    IF k.sliding THEN [k EXCEPT !.to = Append(@, pos)]
    ELSE IF k.active = pos THEN Cycle(Pause(k, FALSE), FALSE)
    ELSE Slide(k, pos)

NextItem(k) == IF k.sliding THEN k ELSE Slide(k, GetItemForDirection(k, "next"))
PrevItem(k) == IF k.sliding THEN k ELSE Slide(k, GetItemForDirection(k, "prev"))

\* The item slid in; slid.bs.carousel comes later.
SlidIn(k) ==
    [k EXCEPT !.waits = Ended(@), !.active = CHOOSE i \in k.next : TRUE, !.next = {},
              !.sliding = FALSE, !.slid = TRUE]

\* Every request that waits is made again, in their order.
Slid(k) ==
    LET after[i \in 0..Len(k.to)] ==
            IF i = 0 THEN [k EXCEPT !.to = <<>>, !.slid = FALSE] ELSE To(after[i - 1], k.to[i])
    IN after[Len(k.to)]

-----------------------------------------------------------------------------
\* Made by a page that rides it, or by a click.
CarouselInit ==
    carousel = [active |-> 0, indicator |-> 0, sliding |-> FALSE, next |-> {}, waits |-> {},
                slid |-> FALSE, to |-> <<>>, interval |-> TRUE, paused |-> FALSE]

Arrow       == carousel' = NextItem(carousel) \/ carousel' = PrevItem(carousel)
Interval    == carousel.interval /\ carousel' = NextItem(carousel)
SlideTo     == Len(carousel.to) < MaxQueue /\ \E pos \in Index : carousel' = To(carousel, pos)
MouseEnter  == carousel' = Pause(carousel, TRUE)
MouseLeave  == carousel' = Cycle(carousel, TRUE)
Stop        == carousel' = Pause(carousel, FALSE)
Start       == carousel' = Cycle(carousel, FALSE)
SlideEnds   == CanEnd(carousel.waits) /\ carousel' = SlidIn(carousel)
SlidEvent   == carousel.slid /\ carousel' = Slid(carousel)

CarouselNext == \/ Arrow \/ Interval \/ SlideTo \/ MouseEnter \/ MouseLeave \/ Stop \/ Start
        \/ SlideEnds \/ SlidEvent

CarouselSpec == CarouselInit /\ [][CarouselNext]_carousel

-----------------------------------------------------------------------------
CarouselTypeOK == carousel \in Carousel

\* Requests made while an item slides in are not lost, and none makes a second
\* item slide in: at rest the indicator is at the item that is shown, and what
\* waits waits for a slide that goes on, or for its event (to, slide).
Settled ==
    LET k == carousel
    IN /\ ~k.sliding => k.indicator = k.active /\ k.next = {} /\ k.waits = {}
       /\ k.sliding => k.next = {k.indicator}
       /\ k.to # <<>> => k.sliding \/ k.slid
=============================================================================
