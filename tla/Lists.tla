-------------------------------- MODULE Lists --------------------------------
(***************************************************************************)
(* What std::sort, std::map and a loop with a condition make of a set or a *)
(* sequence.  They are SetToSortSeq and SelectSeq of the libraries, which  *)
(* the prover knows nothing of, said by counting what comes before.        *)
(***************************************************************************)
EXTENDS Naturals, Sequences, FiniteSets

\* The elements of S, those that are less first.  No two are as much.
SortedSeq(S, Less(_,_)) ==
    [i \in 1..Cardinality(S) |-> CHOOSE x \in S : Cardinality({y \in S : Less(y, x)}) = i - 1]

\* The places up to the i-th of s that hold a member of S.
Held(s, S, i) == {j \in 1..i : s[j] \in S}

\* The entries of s that are in S, in their order.
Selected(s, S) ==
    [k \in 1..Cardinality(Held(s, S, Len(s))) |->
        s[CHOOSE i \in Held(s, S, Len(s)) : Cardinality(Held(s, S, i)) = k]]
=============================================================================
