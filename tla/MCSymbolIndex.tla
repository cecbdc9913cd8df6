---------------------------- MODULE MCSymbolIndex ---------------------------
(* SymbolIndex for TLC: three files, one of them with a path that is too    *)
(* long, and sizes that are written modulo 3.                               *)
EXTENDS SymbolIndex

MCPlaces     == 1..4
MCPlaceFile  == <<1, 1, 2, 3>>
MCPathLength == <<1, 2, 3>>
MCNames      == 1..5
MCNameLength == <<2, 1, 2, 2, 3>>
MCHashOf     == <<20, 10, 40, 10, 30>>
MCHashes     == {10, 20, 35, 40}
MCKinds      == 1..2

P(object, location, name, kind) ==
    [object |-> object, location |-> location, name |-> name, kind |-> kind]

MCProviders ==
    {P(1, 1, 1, 1), P(1, 2, 1, 1), P(1, 3, 1, 2), P(2, 2, 2, 1),
     P(3, 3, 3, 1), P(3, 4, 4, 1), P(3, 3, 5, 1)}
MCUses == {<<1, 2>>, <<3, 3>>}

Q(prefix, matches) == [prefix |-> prefix, matches |-> matches]
MCQueries == {Q(0, {1, 2, 3, 4}), Q(2, {1, 3, 4}), Q(1, {2, 4}), Q(3, {5})}

\* The operators of Lists are those of the libraries.
ASSUME ListsAreThose ==
    \A S \in SUBSET (1..4) :
        /\ SortedSeq(S, LAMBDA a, b : a > b) = SetToSortSeq(S, LAMBDA a, b : a > b)
        /\ \A s \in UNION {[1..n -> 1..4] : n \in 0..4} :
               Selected(s, S) = SelectSeq(s, LAMBDA x : x \in S)
=============================================================================
