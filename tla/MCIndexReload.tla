--------------------------- MODULE MCIndexReload ---------------------------
(* Small instances of IndexReload for TLC.  The configurations follow some *)
(* of the files of the index besides the sentinel: "files", which sbexr    *)
(* writes first and the server maps late, "symbol-details", the other way  *)
(* round, and "hash-details", which is mapped last.                        *)
EXTENDS IndexReload

\* History: the version that sbexr was being run for, and not the newest, when
\* it was last replaced by a new one; 0 for none.
VARIABLE overtaken

Overtaken ==
    IF upgrades' = upgrades THEN overtaken
    ELSE IF dpc = "run" /\ tag # known THEN tag ELSE 0

\* Bound: the versions there are when a run of sbexr is killed, or once it was.
MaxKilledKnown == 2

HistoryInit == Init /\ overtaken = 0

HistoryNext ==
    /\ Next
    /\ overtaken' = Overtaken
    /\ kills' = 0 \/ known' <= MaxKilledKnown

HistorySpec == HistoryInit /\ [][HistoryNext]_<<vars, overtaken>>

FairHistorySpec == HistorySpec /\ Fairness

\* Every version ends up being served whole, when no run of sbexr fails: the
\* driver does not come back to an older version whose run has failed.  Nor does
\* it to those older than the one a new sbexr has overtaken: that one is done when
\* its run ends, and the driver stops there when it starts again from the newest.
VersionsServed ==
    <>[](kills = 0 /\ faults = 0 /\ watched \in 1..known /\ watched >= overtaken => Whole)
=============================================================================
