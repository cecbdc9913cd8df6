----------------------------- MODULE HashLookup -----------------------------
(***************************************************************************)
(* The loop of GetHashData (server/db/binarysymbols.go): a binary search   *)
(* for a hash in the sorted table of hashes, one iteration at a time.      *)
(* Positions in the table count from 0, as in the code.                    *)
(***************************************************************************)
EXTENDS Naturals, Sequences

VARIABLES table, wanted, minindex, maxindex, outcome

vars == <<table, wanted, minindex, maxindex, outcome>>

Sorted(t) ==
    t \in Seq(Nat) /\ \A i, j \in 1..Len(t) : i <= j => t[i] <= t[j]

At(i)   == table[i + 1]
ToCheck == minindex + ((maxindex - minindex) \div 2)

Init ==
    /\ table = <<>> /\ wanted = 0
    /\ minindex = 0 /\ maxindex = 0
    /\ outcome = "none"

Start(t, h) ==
    /\ outcome # "searching" /\ outcome' = "searching"
    /\ table' = t /\ wanted' = h
    /\ minindex' = 0 /\ maxindex' = Len(t)

Searching == outcome = "searching" /\ minindex < maxindex

Hit ==
    /\ Searching /\ At(ToCheck) = wanted
    /\ outcome' = "found"
    /\ UNCHANGED <<table, wanted, minindex, maxindex>>

GoRight ==
    /\ Searching /\ wanted > At(ToCheck)
    /\ minindex' = ToCheck + 1
    /\ UNCHANGED <<table, wanted, maxindex, outcome>>

\* Mutant: the entry below the middle is left out with the middle.
GoLeftTooFar ==
    /\ Searching /\ wanted < At(ToCheck)
    /\ maxindex' = IF ToCheck > minindex THEN ToCheck - 1 ELSE ToCheck
    /\ UNCHANGED <<table, wanted, minindex, outcome>>

\* Mutant: the upper bound is taken to be part of the range.
GoLeftStuck ==
    /\ Searching /\ wanted < At(ToCheck)
    /\ maxindex' = ToCheck + 1
    /\ UNCHANGED <<table, wanted, minindex, outcome>>

GoLeft ==
    /\ Searching /\ wanted < At(ToCheck)
    /\ maxindex' = ToCheck
    /\ UNCHANGED <<table, wanted, minindex, outcome>>

Miss ==
    /\ outcome = "searching" /\ minindex >= maxindex
    /\ outcome' = "missing"
    /\ UNCHANGED <<table, wanted, minindex, maxindex>>

Loop == Hit \/ GoRight \/ GoLeft \/ Miss

\* The variables of a call are gone when it returns.
Return ==
    /\ outcome \in {"found", "missing"} /\ outcome' = "none"
    /\ table' = <<>> /\ wanted' = 0
    /\ minindex' = 0 /\ maxindex' = 0

\* The caller may ask for any hash, in a table that is sorted.
Next ==
    \/ /\ Start(table', wanted')
       /\ Sorted(table') /\ wanted' \in Nat
    \/ Loop
    \/ Return

Spec == Init /\ [][Next]_vars

-----------------------------------------------------------------------------
\* A search ends on an entry that has the hash, and gives up only when no
\* entry has it.
LookupRight ==
    /\ outcome = "found" => At(ToCheck) = wanted /\ ToCheck < Len(table)
    /\ outcome = "missing" => \A i \in 1..Len(table) : table[i] # wanted

\* Every iteration that does not end the loop leaves less to search.
Continue == GoRight \/ GoLeft
Left == maxindex - minindex
LookupShrinks == [][Continue => Left' < Left]_vars

\* What has been left out of the range on either side is not the hash.
LookupInv ==
    /\ Sorted(table)
    /\ wanted \in Nat /\ minindex \in Nat /\ maxindex \in Nat
    /\ outcome \in {"none", "searching", "found", "missing"}
    /\ maxindex <= Len(table)
    /\ outcome = "none" => maxindex = 0 /\ table = <<>>
    /\ \A i \in 1..Len(table) : i <= minindex => table[i] < wanted
    /\ \A i \in 1..Len(table) : i > maxindex => table[i] > wanted
    /\ outcome = "found" => minindex < maxindex /\ At(ToCheck) = wanted
    /\ outcome = "missing" => minindex >= maxindex
=============================================================================
