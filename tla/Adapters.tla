------------------------------ MODULE Adapters ------------------------------
(***************************************************************************)
(* What src/static/local.js makes of the answers of the search service.    *)
(* An entry has a name, a hash and kinds; an entry of a tree has a name, a *)
(* directory or a file, or none of them when it is the root.               *)
(***************************************************************************)
EXTENDS Naturals, Sequences, SequencesExt

CONSTANTS Missing,  \* a field that is not there
          Root      \* "(project root)"

EntryName(e) ==
    CASE e.name # Missing -> e.name
      [] e.name = Missing /\ e.dir # Missing -> e.dir
      [] e.name = Missing /\ e.dir = Missing /\ e.file # Missing -> e.file
      [] e.name = Missing /\ e.dir = Missing /\ e.file = Missing -> Root

\* A suggestion for each kind of each entry, in their order.
AdaptSymbolResult(entries) ==
    IF entries = Missing THEN <<>>
    ELSE FlattenSeq([i \in DOMAIN entries |->
           [j \in DOMAIN entries[i].kinds |->
              [value |-> EntryName(entries[i]), hash |-> entries[i].hash,
               index |-> j - 1, kind |-> entries[i].kinds[j]]]])

AdaptFileResult(entries) ==
    IF entries = Missing THEN <<>>
    ELSE [i \in DOMAIN entries |->
            [value |-> EntryName(entries[i]), href |-> entries[i].href]]

=============================================================================
