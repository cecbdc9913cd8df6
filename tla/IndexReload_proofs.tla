------------------------- MODULE IndexReload_proofs -------------------------
(***************************************************************************)
(* That a settled server serves a complete index, for any files, versions  *)
(* and numbers of upgrades, kills and faults.                              *)
(***************************************************************************)
EXTENDS IndexReload, Lists_proofs

\* The processes are where they can be together.
Together ==
    /\ spc # "off" => dpc = "run"
    /\ dpc \in {"run", "flip"} => tag # 0
    /\ dpc = "flip" => committed # {}
    /\ spc = "write" => opened \subseteq WriteOrder[group]
    /\ upc = "idle" => maps = NoHandler
    /\ Loaded => \A f \in DataFiles : handler[f] # NoView

\* No file, and no time of one that the server keeps, is of a run to come; and
\* while sbexr writes, no sentinel is whole that the run under way has written.
NotAhead ==
    /\ \A v \in Versions : \A f \in Files : content[v][f].run <= run
    /\ info <= 3 * run + 2 /\ changed <= 3 * run + 2
    /\ spc \in {"open", "write"} =>
           /\ \A v \in Versions : content[v][Sentinel] # [run |-> run, part |-> "whole"]
           /\ info < 3 * run + 2 /\ changed < 3 * run + 2

\* The links are not being moved under the server.
Still == watched = Latest => dpc # "flip"

\* The watched tag is the index that run r wrote of version v, all of it.
DiskIs(v, r) == \A f \in Files : Version(f) = v /\ content[v][f] = [run |-> r, part |-> "whole"]

\* Views that are of the index on disk if that has the time they are kept with.
Follows(views, time) ==
    \A v \in Versions : \A r \in Nat :
        Still /\ DiskIs(v, r) /\ time = 3 * r + 2 =>
            \A f \in DataFiles :
                views[f] # NoView => views[f] = [version |-> v, run |-> r, part |-> "whole"]

ReloadInv == TypeOK /\ Together /\ NotAhead /\ Follows(maps, info) /\ Follows(handler, changed)

-----------------------------------------------------------------------------
(* The constants.                                                          *)

LEMMA FilesFacts ==
    /\ DataFiles \subseteq Files /\ Sentinel \in Files /\ Sentinel \notin DataFiles
    /\ Files \ DataFiles = {Sentinel}
<1>1. DOMAIN Mmapped = 1..6
  BY DEF Mmapped
<1>2. \A i \in 1..6 : Mmapped[i] # Sentinel
  BY DEF Mmapped, Sentinel
<1>3. Sentinel \notin DataFiles
  BY <1>1, <1>2, FilesAssumption DEF Range
<1> QED
  BY <1>3 DEF Files

LEMMA GroupFacts ==
    /\ WriteOrder \in [1..6 -> SUBSET Files] /\ Len(WriteOrder) = 6 /\ DOMAIN WriteOrder = 1..6
    /\ \A g \in 1..5 : Sentinel \notin WriteOrder[g]
<1>1. WriteOrder \in [1..6 -> SUBSET Files] /\ DOMAIN WriteOrder = 1..6
  BY DEF WriteOrder
<1>2. Len(WriteOrder) = 6
  BY <1>1
<1>3. \A g \in 1..5 : Sentinel \notin Written[g]
  BY DEF Written, Sentinel
<1> QED
  BY <1>1, <1>2, <1>3 DEF WriteOrder

\* There is a newest version among some.
LEMMA MaxIsOne ==
    ASSUME NEW n \in Nat, NEW S, S \subseteq 1..n, S # {}
    PROVE  Max(S) \in S
<1> DEFINE bounds == {m \in Nat : \A x \in S : x <= m}
<1>1. bounds \subseteq Nat /\ bounds # {}
  <2>1. n \in bounds
    OBVIOUS
  <2> QED
    BY <2>1
<1>2. PICK m \in bounds : \A k \in bounds : m <= k
  BY <1>1, LeastNatural
<1>3. m \in S
  <2> SUFFICES ASSUME m \notin S PROVE FALSE
    OBVIOUS
  <2>1. PICK x \in S : TRUE
    OBVIOUS
  <2>2. m \in Nat /\ m - 1 \in Nat /\ \A y \in S : y <= m - 1
    BY <1>2, <2>1
  <2> QED
    BY <1>2, <2>2
<1> QED
  BY <1>2, <1>3 DEF Max

-----------------------------------------------------------------------------
(* What changes nothing for the server.                                    *)

LEMMA DiskKept ==
    ASSUME UNCHANGED <<content, link, watched>>
    PROVE  \A v, r : DiskIs(v, r)' = DiskIs(v, r)
BY DEF DiskIs, Version

LEMMA FollowsKept ==
    ASSUME ReloadInv, UNCHANGED <<content, link, serverVars>>, dpc = "flip" => dpc' = "flip"
    PROVE  Follows(maps, info)' /\ Follows(handler, changed)'
<1>1. Still' => Still
  BY DEF Still, serverVars
<1>2. \A v, r : DiskIs(v, r)' = DiskIs(v, r)
  BY DiskKept DEF serverVars
<1> QED
  BY <1>1, <1>2 DEF ReloadInv, Follows, serverVars

\* The time of the index on disk, when all of it is of one run.
LEMMA TimeOfDisk ==
    ASSUME NEW v \in Versions, NEW r \in Nat, DiskIs(v, r)
    PROVE  /\ ModTime = 3 * r + 2
           /\ \A f \in Files : Version(f) = v /\ Behind(f) = [run |-> r, part |-> "whole"]
<1>1. v # 0
  BY ConstantsAssumption DEF Versions
<1>2. \A f \in Files : Version(f) = v /\ Behind(f) = [run |-> r, part |-> "whole"]
  BY <1>1 DEF DiskIs, Behind
<1>3. Behind(Sentinel) = [run |-> r, part |-> "whole"]
  BY <1>2, FilesFacts
<1> QED
  BY <1>2, <1>3 DEF ModTime

LEMMA BehindFacts ==
    ASSUME TypeOK, NEW f \in Files
    PROVE  /\ \/ Version(f) = 0 /\ Behind(f) = Absent
              \/ Version(f) \in Versions /\ Behind(f) = content[Version(f)][f]
           /\ Behind(f) \in Contents
<1>1. Version(f) \in 0..MaxVersion
  BY ConstantsAssumption DEF Version, TypeOK, Versions
<1>2. CASE Version(f) = 0
  BY <1>2 DEF Behind, Absent, Contents
<1>3. CASE Version(f) # 0
  <2>1. Version(f) \in Versions
    BY <1>1, <1>3, ConstantsAssumption DEF Versions
  <2>2. Behind(f) = content[Version(f)][f]
    BY <1>3 DEF Behind
  <2> QED
    BY <2>1, <2>2 DEF TypeOK
<1> QED
  BY <1>2, <1>3

\* Nothing the server keeps follows from a time before the run under way.
LEMMA TimeFacts ==
    ASSUME ReloadInv
    PROVE  /\ ModTime \in Nat /\ ModTime <= 3 * run + 2
           /\ spc \in {"open", "write"} => ModTime < 3 * run + 2
<1>1. Sentinel \in Files /\ run \in Nat
  BY FilesFacts DEF ReloadInv, TypeOK
<1>2. /\ \/ Behind(Sentinel) = Absent
         \/ \E v \in Versions : Behind(Sentinel) = content[v][Sentinel]
      /\ Behind(Sentinel) \in Contents
  BY <1>1, BehindFacts DEF ReloadInv
<1>3. Behind(Sentinel).run <= run
  BY <1>1, <1>2 DEF ReloadInv, NotAhead, Absent
<1>4. spc \in {"open", "write"} => Behind(Sentinel) # [run |-> run, part |-> "whole"]
  BY <1>1, <1>2 DEF ReloadInv, NotAhead, Absent
<1>5. spc \in {"open", "write"} /\ Behind(Sentinel).run = run => Behind(Sentinel).part # "whole"
  BY <1>2, <1>4 DEF Contents
<1> DEFINE r == Behind(Sentinel).run
           p == IF Behind(Sentinel).part = "whole" THEN 2 ELSE IF Behind(Sentinel).part = "some" THEN 1 ELSE 0
<1>6. ModTime = 3 * r + p /\ r \in Nat /\ p \in 0..2
  BY <1>2 DEF ModTime, Contents
<1>7. spc \in {"open", "write"} => r < run \/ p < 2
  BY <1>3, <1>5, <1>6, <1>1
<1> HIDE DEF r, p
<1>8. r <= run
  BY <1>3 DEF r
<1> QED
  BY <1>1, <1>6, <1>7, <1>8

-----------------------------------------------------------------------------
(* The driver.                                                             *)

LEMMA WakeUpKeeps == ASSUME ReloadInv, WakeUp PROVE ReloadInv'
<1>1. TypeOK'
  <2>1. PICK k \in known..MaxVersion :
            known' = k /\ needs' = needs \cup ((known + 1)..k) /\ tag' = k
    BY DEF WakeUp
  <2>2. k \in Nat /\ known \in Nat /\ known >= 1 /\ known <= k /\ k <= MaxVersion
    BY ConstantsAssumption DEF ReloadInv, TypeOK, Versions
  <2>3. known' \in Versions /\ tag' \in 0..known' /\ needs' \subseteq 1..known' /\ committed \subseteq 1..known'
    BY <2>1, <2>2, ConstantsAssumption DEF ReloadInv, TypeOK, Versions
  <2> QED
    BY <2>3 DEF ReloadInv, TypeOK, WakeUp, sbexrVars, serverVars
<1>2. Together' /\ NotAhead'
  BY DEF ReloadInv, Together, NotAhead, WakeUp, sbexrVars, serverVars, Loaded
<1>3. Follows(maps, info)' /\ Follows(handler, changed)'
  BY FollowsKept DEF WakeUp, sbexrVars, serverVars
<1> QED
  BY <1>1, <1>2, <1>3 DEF ReloadInv

LEMMA UpgradeKeeps == ASSUME ReloadInv, Upgrade PROVE ReloadInv'
<1>1. TypeOK'
  BY ConstantsAssumption DEF ReloadInv, TypeOK, Upgrade, sbexrVars, serverVars
<1>2. Together' /\ NotAhead'
  BY DEF ReloadInv, Together, NotAhead, Upgrade, sbexrVars, serverVars, Loaded
<1>3. Follows(maps, info)' /\ Follows(handler, changed)'
  BY FollowsKept DEF Upgrade, sbexrVars, serverVars
<1> QED
  BY <1>1, <1>2, <1>3 DEF ReloadInv

LEMMA GoToSleepKeeps == ASSUME ReloadInv, GoToSleep PROVE ReloadInv'
<1>1. TypeOK'
  BY DEF ReloadInv, TypeOK, GoToSleep, sbexrVars, serverVars
<1>2. Together' /\ NotAhead'
  BY DEF ReloadInv, Together, NotAhead, GoToSleep, sbexrVars, serverVars, Loaded
<1>3. Follows(maps, info)' /\ Follows(handler, changed)'
  BY FollowsKept DEF GoToSleep, sbexrVars, serverVars
<1> QED
  BY <1>1, <1>2, <1>3 DEF ReloadInv

\* Every run that was is before the one that starts.
LEMMA RunSbexrKeeps == ASSUME ReloadInv, RunSbexr PROVE ReloadInv'
<1>1. TypeOK'
  BY GroupFacts DEF ReloadInv, TypeOK, RunSbexr, serverVars
<1>2. Together'
  BY DEF ReloadInv, Together, RunSbexr, serverVars, Loaded, Done
<1>3. run \in Nat /\ info \in Nat /\ changed \in Nat /\ Sentinel \in Files
  BY FilesFacts DEF ReloadInv, TypeOK
<1>4. /\ run' = run + 1 /\ UNCHANGED <<content, info, changed>>
  BY DEF RunSbexr, serverVars
<1>5. \A v \in Versions, f \in Files : content[v][f].run \in Nat /\ content[v][f].run <= run
  BY DEF ReloadInv, NotAhead, TypeOK, Contents
<1>6. \A v \in Versions : content[v][Sentinel] # [run |-> run + 1, part |-> "whole"]
  BY <1>3, <1>5
<1>7. NotAhead'
  BY <1>3, <1>4, <1>5, <1>6 DEF ReloadInv, NotAhead
<1>8. Follows(maps, info)' /\ Follows(handler, changed)'
  BY FollowsKept DEF RunSbexr, serverVars
<1> QED
  BY <1>1, <1>2, <1>7, <1>8 DEF ReloadInv

LEMMA CompletedKeeps == ASSUME ReloadInv, Completed PROVE ReloadInv'
<1>1. tag \in 1..known
  BY DEF ReloadInv, Together, TypeOK, Completed, Versions
<1>2. TypeOK'
  BY <1>1 DEF ReloadInv, TypeOK, Completed, serverVars
<1>3. Together' /\ NotAhead'
  BY <1>1 DEF ReloadInv, Together, NotAhead, Completed, serverVars, Loaded
<1>4. Follows(maps, info)' /\ Follows(handler, changed)'
  BY FollowsKept DEF Completed, serverVars
<1> QED
  BY <1>2, <1>3, <1>4 DEF ReloadInv

LEMMA FailedKeeps == ASSUME ReloadInv, Failed PROVE ReloadInv'
<1>1. tag \in 1..known /\ known \in Nat
  BY DEF ReloadInv, Together, TypeOK, Failed, Versions
<1>2. TypeOK'
  BY <1>1 DEF ReloadInv, TypeOK, Failed, sbexrVars, serverVars
<1>3. Together' /\ NotAhead'
  BY DEF ReloadInv, Together, NotAhead, Failed, sbexrVars, serverVars, Loaded
<1>4. Follows(maps, info)' /\ Follows(handler, changed)'
  BY FollowsKept DEF Failed, sbexrVars, serverVars
<1> QED
  BY <1>2, <1>3, <1>4 DEF ReloadInv

\* A link that moves is one of "latest", and its tag is not still.
LEMMA FlipLinkKeeps == ASSUME ReloadInv, NEW f \in Files, FlipLink(f) PROVE ReloadInv'
<1>1. Max(committed) \in committed
  <2>1. known \in Nat /\ committed \subseteq 1..known /\ committed # {}
    BY DEF ReloadInv, TypeOK, Together, FlipLink, Versions
  <2> QED
    BY <2>1, MaxIsOne
<1>2. link' \in [Files -> 0..MaxVersion]
  <2>1. PICK newest \in Versions : newest = Max(committed)
    <3>1. committed \subseteq Versions
      BY ConstantsAssumption DEF ReloadInv, TypeOK, Versions
    <3> QED
      BY <1>1, <3>1, Zenon
  <2>2. link' = [link EXCEPT ![f] = newest] /\ link \in [Files -> 0..MaxVersion]
    BY <2>1 DEF FlipLink, ReloadInv, TypeOK
  <2>3. newest \in 0..MaxVersion
    BY ConstantsAssumption DEF Versions
  <2> QED
    BY <2>2, <2>3
<1>3. TypeOK'
  BY <1>2 DEF ReloadInv, TypeOK, FlipLink, sbexrVars, serverVars
<1>4. Together' /\ NotAhead'
  BY DEF ReloadInv, Together, NotAhead, FlipLink, sbexrVars, serverVars, Loaded
<1>5. ASSUME Still' PROVE \A v, r : DiskIs(v, r)' = DiskIs(v, r)
  BY <1>5 DEF Still, DiskIs, Version, FlipLink, serverVars
<1>6. Still' = Still /\ UNCHANGED <<maps, info, handler, changed>>
  BY DEF Still, FlipLink, serverVars
<1>7. Follows(maps, info)' /\ Follows(handler, changed)'
  BY <1>5, <1>6 DEF ReloadInv, Follows
<1> QED
  BY <1>3, <1>4, <1>7 DEF ReloadInv

\* A server that starts has loaded nothing.
LEMMA StartKeeps ==
    ASSUME ReloadInv, ServerStarts
    PROVE  /\ watched' = watched /\ upc' = "idle" /\ info' = 0 /\ changed' = 0
           /\ maps' = NoHandler /\ handler' = NoHandler
           /\ maps' \in [DataFiles -> Views] /\ handler' \in [DataFiles -> Views]
           /\ ~Loaded' /\ Follows(maps, info)' /\ Follows(handler, changed)'
<1>1. /\ watched' = watched /\ upc' = "idle" /\ info' = 0 /\ changed' = 0
      /\ maps' = NoHandler /\ handler' = NoHandler
  BY DEF ServerStarts
<1>2. NoHandler \in [DataFiles -> Views] /\ \A f \in DataFiles : NoHandler[f] = NoView
  BY DEF NoHandler, Views
<1> QED
  BY <1>1, <1>2 DEF Loaded, Follows

LEMMA RestartServerKeeps == ASSUME ReloadInv, RestartServer PROVE ReloadInv'
<1>1. ServerStarts
  BY DEF RestartServer
<1>2. tag \in 1..known /\ known \in Nat
  BY DEF ReloadInv, Together, TypeOK, RestartServer, Versions
<1>3. TypeOK'
  BY <1>1, <1>2, StartKeeps DEF ReloadInv, TypeOK, RestartServer, sbexrVars
<1>4. Together'
  BY <1>1, StartKeeps DEF ReloadInv, Together, RestartServer, sbexrVars
<1>5. NotAhead'
  BY <1>1, StartKeeps DEF ReloadInv, NotAhead, RestartServer, sbexrVars, TypeOK
<1> QED
  BY <1>1, <1>3, <1>4, <1>5, StartKeeps DEF ReloadInv

-----------------------------------------------------------------------------
(* sbexr.                                                                  *)

LEMMA KilledKeeps == ASSUME ReloadInv, Killed PROVE ReloadInv'
<1>1. TypeOK'
  BY ConstantsAssumption DEF ReloadInv, TypeOK, Killed, driverVars, serverVars
<1>2. Together' /\ NotAhead'
  BY DEF ReloadInv, Together, NotAhead, Killed, driverVars, serverVars, Loaded
<1>3. Follows(maps, info)' /\ Follows(handler, changed)'
  BY FollowsKept DEF Killed, driverVars, serverVars
<1> QED
  BY <1>1, <1>2, <1>3 DEF ReloadInv

\* What is written is written into the version of the driver, and by the run
\* under way: an index that is whole then was so before, unless it is of this run.
LEMMA WritingFollows ==
    ASSUME ReloadInv, UNCHANGED <<link, driverVars, serverVars>>, spc \in {"open", "write"},
           \A v \in Versions : \A f \in Files :
               \/ content'[v][f] = content[v][f]
               \/ content'[v][f].part # "whole"
               \/ content'[v][f].run = run
    PROVE  Follows(maps, info)' /\ Follows(handler, changed)'
<1>1. Still' = Still /\ UNCHANGED <<maps, info, handler, changed, watched, link>>
  BY DEF Still, driverVars, serverVars
<1>2. ASSUME NEW v \in Versions, NEW r \in Nat, DiskIs(v, r)', r # run PROVE DiskIs(v, r)
  BY <1>1, <1>2 DEF DiskIs, Version
<1>3. run \in Nat /\ info # 3 * run + 2 /\ changed # 3 * run + 2
  BY DEF ReloadInv, NotAhead, TypeOK
<1> QED
  BY <1>1, <1>2, <1>3 DEF ReloadInv, Follows

LEMMA OpenGroupKeeps == ASSUME ReloadInv, OpenGroup PROVE ReloadInv'
<1>1. opened' \subseteq WriteOrder[group] /\ opened' \subseteq Files /\ faults' \in 0..MaxFaults
  BY ConstantsAssumption, GroupFacts DEF ReloadInv, TypeOK, OpenGroup
<1>2. /\ spc = "open" /\ spc' = "write" /\ dpc = "run" /\ tag \in Versions /\ run \in Nat
      /\ UNCHANGED <<link, driverVars, run, group, kills, serverVars>>
  BY ConstantsAssumption DEF ReloadInv, TypeOK, Together, OpenGroup, Versions
<1>3. content' \in [Versions -> [Files -> Contents]]
  BY <1>1, <1>2 DEF ReloadInv, TypeOK, OpenGroup, Contents
<1>4. \A v \in Versions : \A f \in Files :
          content'[v][f] \in {content[v][f], [run |-> run, part |-> "empty"]}
  BY <1>1, <1>2 DEF ReloadInv, TypeOK, OpenGroup
<1>5. TypeOK'
  BY <1>1, <1>2, <1>3 DEF ReloadInv, TypeOK, driverVars, serverVars
<1>6. Together'
  BY <1>1, <1>2 DEF ReloadInv, Together, driverVars, serverVars, Loaded
<1>7. NotAhead'
  <2>1. \A v \in Versions : \A f \in Files : content'[v][f].run <= run
    BY <1>2, <1>4 DEF ReloadInv, NotAhead
  <2>2. \A v \in Versions : content'[v][Sentinel] # [run |-> run, part |-> "whole"]
    BY <1>2, <1>4, FilesFacts DEF ReloadInv, NotAhead
  <2> QED
    BY <1>2, <2>1, <2>2 DEF ReloadInv, NotAhead, serverVars
<1>8. Follows(maps, info)' /\ Follows(handler, changed)'
  BY <1>2, <1>4, WritingFollows
<1> QED
  BY <1>5, <1>6, <1>7, <1>8 DEF ReloadInv

LEMMA FlushSomeKeeps == ASSUME ReloadInv, NEW g \in Files, FlushSome(g) PROVE ReloadInv'
<1>1. /\ spc = "write" /\ UNCHANGED <<link, driverVars, sbexrVars, serverVars>>
      /\ content' = [content EXCEPT ![tag][g] = [run |-> @.run, part |-> "some"]]
  BY DEF FlushSome
<1>2. dpc = "run" /\ tag \in Versions
  BY <1>1, ConstantsAssumption DEF ReloadInv, TypeOK, Together, Versions
<1>3. content' \in [Versions -> [Files -> Contents]]
  BY <1>1, <1>2 DEF ReloadInv, TypeOK, Contents
<1>4. \A v \in Versions : \A f \in Files :
          \/ content'[v][f] = content[v][f]
          \/ content'[v][f].run = content[v][f].run /\ content'[v][f].part = "some"
  BY <1>1, <1>2 DEF ReloadInv, TypeOK, Contents
<1>5. TypeOK'
  BY <1>1, <1>3 DEF ReloadInv, TypeOK, driverVars, sbexrVars, serverVars
<1>6. Together'
  BY <1>1 DEF ReloadInv, Together, driverVars, sbexrVars, serverVars, Loaded
<1>7. NotAhead'
  <2>1. \A v \in Versions : \A f \in Files : content'[v][f].run <= run
    BY <1>4 DEF ReloadInv, NotAhead
  <2>2. \A v \in Versions : content'[v][Sentinel] # [run |-> run, part |-> "whole"]
    BY <1>1, <1>4, FilesFacts DEF ReloadInv, NotAhead
  <2> QED
    BY <1>1, <2>1, <2>2 DEF ReloadInv, NotAhead, sbexrVars, serverVars
<1>8. Follows(maps, info)' /\ Follows(handler, changed)'
  BY <1>1, <1>4, WritingFollows
<1> QED
  BY <1>5, <1>6, <1>7, <1>8 DEF ReloadInv

LEMMA CloseGroupKeeps == ASSUME ReloadInv, CloseGroup PROVE ReloadInv'
<1>1. PICK whole \in SUBSET opened :
         /\ faults' \in 0..MaxFaults
         /\ content' = [content EXCEPT ![tag] =
              [f \in Files |-> IF f \in whole THEN [run |-> run, part |-> "whole"] ELSE @[f]]]
  <2>1. PICK whole \in SUBSET opened :
           /\ \/ whole = opened /\ UNCHANGED faults
              \/ /\ faults < MaxFaults /\ faults' = faults + 1
                 /\ \E f \in opened : whole = opened \ {f}
           /\ content' = [content EXCEPT ![tag] =
                [f \in Files |-> IF f \in whole THEN [run |-> run, part |-> "whole"] ELSE @[f]]]
    BY Zenon DEF CloseGroup
  <2>2. faults' = faults \/ (faults < MaxFaults /\ faults' = faults + 1)
    BY <2>1
  <2>3. faults' \in 0..MaxFaults
    BY <2>2, ConstantsAssumption DEF ReloadInv, TypeOK
  <2> QED
    BY <2>1, <2>3
<1>2. /\ spc = "write" /\ dpc = "run" /\ tag \in Versions /\ run \in Nat /\ opened' = {}
      /\ UNCHANGED <<link, driverVars, run, kills, serverVars>>
  BY ConstantsAssumption DEF ReloadInv, TypeOK, Together, CloseGroup, Versions
<1>3. /\ group \in 1..6 /\ group' \in 1..6
      /\ spc' \in {"open", "exit"} /\ (spc' = "open" => group \in 1..5)
  BY GroupFacts DEF ReloadInv, TypeOK, CloseGroup
<1>4. content' \in [Versions -> [Files -> Contents]]
  BY <1>1, <1>2 DEF ReloadInv, TypeOK, Contents
<1>5. /\ \A v \in Versions : \A f \in Files :
             content'[v][f] \in {content[v][f], [run |-> run, part |-> "whole"]}
      /\ \A v \in Versions : \A f \in Files \ whole : content'[v][f] = content[v][f]
  BY <1>1, <1>2 DEF ReloadInv, TypeOK
<1>6. TypeOK'
  BY <1>1, <1>2, <1>3, <1>4, GroupFacts DEF ReloadInv, TypeOK, driverVars, serverVars
<1>7. Together'
  BY <1>2, <1>3 DEF ReloadInv, Together, driverVars, serverVars, Loaded
<1>8. NotAhead'
  <2>1. \A v \in Versions : \A f \in Files : content'[v][f].run <= run
    BY <1>2, <1>5 DEF ReloadInv, NotAhead
  <2>2. spc' = "open" => Sentinel \notin whole
    BY <1>1, <1>2, <1>3, GroupFacts DEF ReloadInv, Together
  <2>3. spc' = "open" => \A v \in Versions : content'[v][Sentinel] # [run |-> run, part |-> "whole"]
    BY <1>2, <1>5, <2>2, FilesFacts DEF ReloadInv, NotAhead
  <2> QED
    BY <1>2, <1>3, <2>1, <2>3 DEF ReloadInv, NotAhead, serverVars
<1>9. Follows(maps, info)' /\ Follows(handler, changed)'
  BY <1>2, <1>5, WritingFollows
<1> QED
  BY <1>6, <1>7, <1>8, <1>9 DEF ReloadInv

-----------------------------------------------------------------------------
(* The server.                                                             *)

LEMMA NothingMapped == ASSUME ReloadInv, upc = "idle" PROVE \A f \in DataFiles : maps[f] = NoView
BY DEF ReloadInv, Together, NoHandler

LEMMA NoHandlerTyped == NoHandler \in [DataFiles -> Views] /\ \A f \in DataFiles : NoHandler[f] = NoView
BY DEF NoHandler, Views

LEMMA StatKeeps == ASSUME ReloadInv, Stat PROVE ReloadInv'
<1>1. /\ upc = "idle" /\ upc' = "load" /\ info' = ModTime
      /\ UNCHANGED <<content, link, driverVars, sbexrVars, watched, maps, handler, changed>>
  BY DEF Stat
<1>2. TypeOK'
  BY <1>1, TimeFacts DEF ReloadInv, TypeOK, driverVars, sbexrVars
<1>3. Together'
  BY <1>1 DEF ReloadInv, Together, driverVars, sbexrVars, Loaded
<1>4. NotAhead'
  BY <1>1, TimeFacts DEF ReloadInv, NotAhead, sbexrVars
<1>5. \A v, r : DiskIs(v, r)' = DiskIs(v, r)
  BY <1>1, DiskKept
<1>6. Still' = Still
  BY <1>1 DEF Still, driverVars
<1>7. Follows(maps, info)' /\ Follows(handler, changed)'
  BY <1>1, <1>5, <1>6, NothingMapped DEF ReloadInv, Follows
<1> QED
  BY <1>2, <1>3, <1>4, <1>7 DEF ReloadInv

\* A file mapped from the index that is on disk is of that index.
LEMMA MapFileKeeps == ASSUME ReloadInv, MapFile PROVE ReloadInv'
<1>1. /\ upc = "load" /\ UNCHANGED <<info, handler, changed, watched>>
      /\ UNCHANGED <<content, link, driverVars, sbexrVars>>
  BY DEF MapFile
<1>2. PICK f \in DataFiles :
          \/ upc' = "idle" /\ maps' = NoHandler
          \/ /\ Behind(f).part \notin {"absent", "empty"} /\ upc' = upc
             /\ maps' = [maps EXCEPT ![f] =
                  [version |-> Version(f), run |-> Behind(f).run, part |-> Behind(f).part]]
  BY Zenon DEF MapFile
<1>3. f \in Files /\ maps \in [DataFiles -> Views]
  BY FilesFacts DEF ReloadInv, TypeOK
<1>4. \A v, r : DiskIs(v, r)' = DiskIs(v, r)
  BY <1>1, DiskKept
<1>5. Still' = Still
  BY <1>1 DEF Still, driverVars
<1>6. maps' \in [DataFiles -> Views] /\ upc' \in {"idle", "load"} /\ (upc' = "idle" => maps' = NoHandler)
  <2>1. CASE upc' = "idle" /\ maps' = NoHandler
    BY <2>1, NoHandlerTyped
  <2>2. CASE /\ Behind(f).part \notin {"absent", "empty"} /\ upc' = upc
             /\ maps' = [maps EXCEPT ![f] =
                  [version |-> Version(f), run |-> Behind(f).run, part |-> Behind(f).part]]
    <3>1. Version(f) \in Versions /\ Behind(f) \in Contents
      BY <1>3, <2>2, BehindFacts DEF ReloadInv, Absent
    <3>2. [version |-> Version(f), run |-> Behind(f).run, part |-> Behind(f).part] \in Views
      BY <2>2, <3>1 DEF Views, Contents
    <3> QED
      BY <1>1, <1>3, <2>2, <3>2
  <2> QED
    BY <1>2, <2>1, <2>2
<1>7. TypeOK'
  BY <1>1, <1>6 DEF ReloadInv, TypeOK, driverVars, sbexrVars
<1>8. Together' /\ NotAhead'
  BY <1>1, <1>6 DEF ReloadInv, Together, NotAhead, driverVars, sbexrVars, Loaded
<1>9. Follows(handler, changed)'
  BY <1>1, <1>4, <1>5 DEF ReloadInv, Follows
<1>10. ASSUME NEW v \in Versions, NEW r \in Nat, Still, DiskIs(v, r), info = 3 * r + 2,
              NEW g \in DataFiles, maps'[g] # NoView
       PROVE  maps'[g] = [version |-> v, run |-> r, part |-> "whole"]
  <2>1. CASE maps' = NoHandler
    BY <1>10, <2>1, NoHandlerTyped
  <2>2. CASE maps' = [maps EXCEPT ![f] =
                  [version |-> Version(f), run |-> Behind(f).run, part |-> Behind(f).part]]
    <3>1. Version(f) = v /\ Behind(f) = [run |-> r, part |-> "whole"]
      BY <1>3, <1>10, TimeOfDisk
    <3>2. maps' = [maps EXCEPT ![f] = [version |-> v, run |-> r, part |-> "whole"]]
      BY <2>2, <3>1
    <3>3. maps[g] # NoView => maps[g] = [version |-> v, run |-> r, part |-> "whole"]
      BY <1>10 DEF ReloadInv, Follows
    <3> QED
      BY <1>3, <1>10, <3>2, <3>3
  <2> QED
    BY <1>2, <2>1, <2>2
<1>11. Follows(maps, info)'
  BY <1>1, <1>4, <1>5, <1>10 DEF Follows
<1> QED
  BY <1>7, <1>8, <1>9, <1>11 DEF ReloadInv

LEMMA WalkSymbolsKeeps == ASSUME ReloadInv, WalkSymbols PROVE ReloadInv'
<1>1. /\ Mapped = DataFiles /\ upc' = "idle" /\ maps' = NoHandler
      /\ (handler' = maps /\ changed' = info) \/ UNCHANGED <<handler, changed>>
      /\ UNCHANGED <<content, link, driverVars, sbexrVars, watched, info>>
  BY DEF WalkSymbols
<1>2. \A f \in DataFiles : maps[f] # NoView
  BY <1>1 DEF Mapped
<1>3. TypeOK'
  BY <1>1, NoHandlerTyped DEF ReloadInv, TypeOK, driverVars, sbexrVars
<1>4. Together'
  BY <1>1, <1>2 DEF ReloadInv, Together, driverVars, sbexrVars, Loaded
<1>5. NotAhead'
  BY <1>1 DEF ReloadInv, NotAhead, sbexrVars
<1>6. \A v, r : DiskIs(v, r)' = DiskIs(v, r)
  BY <1>1, DiskKept
<1>7. Still' = Still
  BY <1>1 DEF Still, driverVars
<1>8. Follows(maps, info)' /\ Follows(handler, changed)'
  BY <1>1, <1>6, <1>7, NoHandlerTyped DEF ReloadInv, Follows
<1> QED
  BY <1>3, <1>4, <1>5, <1>8 DEF ReloadInv

LEMMA BusErrorKeeps == ASSUME ReloadInv, BusError PROVE ReloadInv'
<1>1. ServerStarts /\ UNCHANGED <<content, link, driverVars, sbexrVars>>
  BY DEF BusError
<1>2. TypeOK'
  BY <1>1, StartKeeps DEF ReloadInv, TypeOK, driverVars, sbexrVars
<1>3. Together'
  BY <1>1, StartKeeps DEF ReloadInv, Together, driverVars, sbexrVars
<1>4. NotAhead'
  BY <1>1, StartKeeps DEF ReloadInv, NotAhead, sbexrVars, TypeOK
<1> QED
  BY <1>1, <1>2, <1>3, <1>4, StartKeeps DEF ReloadInv

-----------------------------------------------------------------------------
(* The invariant.                                                          *)

LEMMA ReloadInit == ASSUME Init PROVE ReloadInv
<1>1. TypeOK
  BY ConstantsAssumption, GroupFacts, NoHandlerTyped DEF Init, TypeOK, Versions, Contents, Absent
<1>2. Together /\ Follows(maps, info) /\ Follows(handler, changed)
  BY NoHandlerTyped DEF Init, Together, Follows, Loaded
<1>3. NotAhead
  BY DEF Init, NotAhead, Absent
<1> QED
  BY <1>1, <1>2, <1>3 DEF ReloadInv

LEMMA ReloadNext == ASSUME ReloadInv, [Next]_vars PROVE ReloadInv'
<1>1. CASE UNCHANGED vars
  <2>1. Follows(maps, info)' /\ Follows(handler, changed)'
    BY <1>1, FollowsKept DEF vars, driverVars, sbexrVars, serverVars
  <2>2. TypeOK'
    BY <1>1 DEF ReloadInv, TypeOK, vars, driverVars, sbexrVars, serverVars
  <2>3. Together' /\ NotAhead'
    BY <1>1 DEF ReloadInv, Together, NotAhead, Loaded, vars, driverVars, sbexrVars, serverVars
  <2> QED
    BY <2>1, <2>2, <2>3 DEF ReloadInv
<1>2. CASE Driver
  BY <1>2, WakeUpKeeps, GoToSleepKeeps, RunSbexrKeeps, CompletedKeeps, FailedKeeps,
     RestartServerKeeps, FlipLinkKeeps DEF Driver
<1>3. CASE Upgrade \/ Killed \/ Sbexr \/ \E f \in Files : FlushSome(f)
  BY <1>3, UpgradeKeeps, KilledKeeps, OpenGroupKeeps, CloseGroupKeeps, FlushSomeKeeps DEF Sbexr
<1>4. CASE Server \/ BusError
  BY <1>4, StatKeeps, MapFileKeeps, WalkSymbolsKeeps, BusErrorKeeps DEF Server
<1> QED
  BY <1>1, <1>2, <1>3, <1>4 DEF Next

\* What is served, and what is loaded, follows the index on disk when that has
\* the time the server keeps; no file is of a run to come.
THEOREM ReloadInvariant == Spec => []ReloadInv
<1> QED
  BY ReloadInit, ReloadNext, PTL DEF Spec

\* Every variable of the publication of an index has its type.
THEOREM ReloadTypeCorrect == Spec => []TypeOK
<1>1. ReloadInv => TypeOK
  BY DEF ReloadInv
<1> QED
  BY <1>1, ReloadInvariant, PTL

\* Once the index on disk is complete and the server finds nothing newer, what
\* it serves is the six files of one run, none of them changed since: for any
\* overlap of loads and writes, and any number of runs of sbexr that are killed
\* or leave a file out.
THEOREM ServedIsWhole == Spec => []SettledWhole
<1>1. ASSUME ReloadInv PROVE SettledWhole
  <2> SUFFICES ASSUME DiskWhole, Still, Loaded, changed = ModTime PROVE Whole
    BY DEF SettledWhole, Still
  <2>1. PICK v \in Versions, r \in 1..run : DiskIs(v, r)
    BY DEF DiskWhole, DiskIs
  <2>2. r \in Nat /\ run \in Nat
    BY <1>1 DEF ReloadInv, TypeOK
  <2>3. changed = 3 * r + 2
    BY <2>1, <2>2, TimeOfDisk
  <2>4. \A f \in DataFiles : handler[f] # NoView
    BY <1>1 DEF ReloadInv, Together
  <2>5. \A f \in DataFiles : handler[f] = [version |-> v, run |-> r, part |-> "whole"]
    BY <1>1, <2>1, <2>2, <2>3, <2>4 DEF ReloadInv, Follows
  <2>6. \A f \in DataFiles : content[v][f] = [run |-> r, part |-> "whole"]
    BY <2>1, FilesFacts DEF DiskIs
  <2> QED
    BY <2>5, <2>6 DEF Whole, Intact
<1> QED
  BY <1>1, ReloadInvariant, PTL
=============================================================================
