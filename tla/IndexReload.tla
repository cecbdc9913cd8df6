----------------------------- MODULE IndexReload -----------------------------
(***************************************************************************)
(* How an index gets from sbexr to the server, file by file.               *)
(*                                                                         *)
(* sbexr (Indexer::OutputBinaryIndex) rewrites the files of a version's    *)
(* index in place, the sentinel last.  The driver (utils/kernel) runs it   *)
(* for the versions that need it, moves the "latest" links, one per file,  *)
(* to the newest version, and kills the server, which is started again.    *)
(* The server (SingleDirTagSet.Update and LoadSymbols) maps the files one  *)
(* by one when the sentinel is newer than the one it knows, and keeps the  *)
(* mappings: they show whatever the files become.                          *)
(*                                                                         *)
(* The module follows one tag of the server, "watched": a version, or      *)
(* Latest, whose files are the links.  A file is the run of sbexr that     *)
(* wrote it and how much of it is there.                                   *)
(***************************************************************************)
EXTENDS Naturals, Sequences, FiniteSetsExt, Functions

CONSTANTS
    DataFiles,    \* the files of an index, besides the sentinel
    MaxVersion,   \* bound: versions are 1..MaxVersion, a later one is newer
    Latest,       \* the tag that is made of links
    MaxUpgrades,  \* bound: times a new sbexr makes every index out of date
    MaxKills,     \* bound: runs of sbexr that do not end well
    MaxFaults     \* bound: files sbexr fails to open or to fill, unnoticed

Versions == 1..MaxVersion

ASSUME ConstantsAssumption ==
    /\ MaxVersion \in Nat \ {0} /\ Latest \notin Nat
    /\ MaxUpgrades \in Nat /\ MaxKills \in Nat /\ MaxFaults \in Nat

VARIABLES
    content,   \* the files of each version
    link,      \* the version each "latest" link leads to, 0 for none
    \* the driver
    dpc, known, needs, committed, tag, toflip, upgrades,
    \* sbexr
    spc, run, group, opened, kills, faults,
    \* the server
    watched, upc, info, maps, handler, changed

driverVars == <<dpc, known, needs, committed, tag, toflip, upgrades>>
sbexrVars  == <<spc, run, group, opened, kills, faults>>
serverVars == <<watched, upc, info, maps, handler, changed>>
vars       == <<content, link, driverVars, sbexrVars, serverVars>>

Sentinel == "symbols.json"

\* The order of the files in OutputBinaryIndex, a pair being written together,
\* and in LoadSymbols.  An instance follows those in DataFiles.
Written == << {"files"}, {"symbol-details", "details"}, {"hash-details"},
              {"snippets"}, {"strings"}, {Sentinel} >>
Mmapped == << "details", "symbol-details", "snippets", "strings", "files",
              "hash-details" >>

ASSUME FilesAssumption ==
    DataFiles \subseteq Range(Mmapped) /\ "symbol-details" \in DataFiles

Files == DataFiles \cup {Sentinel}

\* Mutant: the sentinel is written first.
WriteOrderSentinelFirst ==
    [g \in 1..6 |-> (IF g = 1 THEN {Sentinel} ELSE Written[g - 1]) \cap Files]

WriteOrder == [g \in 1..6 |-> Written[g] \cap Files]

\* Truncated and nothing there yet, a part of it there, all of it there.
Absent == [run |-> 0, part |-> "absent"]

NoView == [version |-> 0, run |-> 0, part |-> "absent"]

-----------------------------------------------------------------------------
(* The driver.                                                             *)

\* UpdateKernel may bring a new release.  The loop starts from the newest.
WakeUp ==
    /\ dpc = "sleep"
    /\ dpc' = "check"
    /\ \E k \in known..MaxVersion :
         known' = k /\ needs' = needs \cup ((known + 1)..k) /\ tag' = k
    /\ UNCHANGED <<content, link, committed, toflip, upgrades, sbexrVars, serverVars>>

\* A new sbexr is installed: NeedsUpdating() is true of every version.
Upgrade ==
    /\ upgrades < MaxUpgrades
    /\ upgrades' = upgrades + 1
    /\ needs' = 1..known
    /\ UNCHANGED <<content, link, dpc, known, committed, tag, toflip, sbexrVars,
                   serverVars>>

\* Mutant: only the newest version is ever looked at.
DoneAfterNewest == tag = 0 \/ tag \notin needs \/ tag # known

\* The loop ends at the oldest version, at the first one up to date, and when
\* the newest one has to be done again.
Done == tag = 0 \/ tag \notin needs \/ (tag # known /\ known \in needs)

GoToSleep ==
    /\ dpc = "check" /\ Done
    /\ dpc' = "sleep"
    /\ UNCHANGED <<content, link, known, needs, committed, tag, toflip, upgrades,
                   sbexrVars, serverVars>>

RunSbexr ==
    /\ dpc = "check" /\ ~Done
    /\ dpc' = "run"
    /\ spc' = "open" /\ run' = run + 1 /\ group' = 1 /\ opened' = {}
    /\ UNCHANGED <<content, link, known, needs, committed, tag, toflip, upgrades, kills,
                   faults, serverVars>>

\* The version is marked as done and its tree moved into place; then the links
\* are made again, for the files that the newest version has.
Completed ==
    /\ dpc = "run" /\ spc = "exit"
    /\ spc' = "off"
    /\ needs' = needs \ {tag} /\ committed' = committed \cup {tag}
    /\ dpc' = "flip"
    /\ toflip' = {f \in Files : content[Max(committed')][f] # Absent}
    /\ UNCHANGED <<content, link, known, tag, upgrades, run, group, opened, kills,
                   faults, serverVars>>

\* A run that fails is left alone: the loop goes on with an older version.
Failed ==
    /\ dpc = "run" /\ spc = "off"
    /\ dpc' = "check" /\ tag' = tag - 1
    /\ UNCHANGED <<content, link, known, needs, committed, toflip, upgrades, sbexrVars,
                   serverVars>>

\* UpdateLatest: one link at a time, in whatever order the directory lists.
FlipLink(f) ==
    /\ dpc = "flip" /\ f \in toflip
    /\ toflip' = toflip \ {f}
    /\ link' = [link EXCEPT ![f] = Max(committed)]
    /\ UNCHANGED <<content, dpc, known, needs, committed, tag, upgrades, sbexrVars,
                   serverVars>>

NoHandler == [f \in DataFiles |-> NoView]

ServerStarts ==
    /\ upc' = "idle" /\ info' = 0 /\ changed' = 0
    /\ maps' = NoHandler /\ handler' = NoHandler
    /\ UNCHANGED watched

\* Mutant: the server is left running.
RestartForgotten ==
    /\ dpc = "flip" /\ toflip = {}
    /\ dpc' = "check" /\ tag' = tag - 1
    /\ UNCHANGED <<content, link, known, needs, committed, toflip, upgrades, sbexrVars,
                   serverVars>>

RestartServer ==
    /\ dpc = "flip" /\ toflip = {}
    /\ dpc' = "check" /\ tag' = tag - 1
    /\ ServerStarts
    /\ UNCHANGED <<content, link, known, needs, committed, toflip, upgrades, sbexrVars>>

-----------------------------------------------------------------------------
(* sbexr, writing the index of version "tag".                              *)

\* std::ofstream::open truncates a file that is there.  Nobody looks whether
\* it did: a file that cannot be opened stays what it was.
OpenGroup ==
    /\ spc = "open"
    /\ spc' = "write"
    /\ \/ opened' = WriteOrder[group] /\ UNCHANGED faults
       \/ /\ faults < MaxFaults /\ faults' = faults + 1
          /\ \E f \in WriteOrder[group] : opened' = WriteOrder[group] \ {f}
    /\ content' = [content EXCEPT ![tag] =
         [f \in Files |-> IF f \in opened' THEN [run |-> run, part |-> "empty"] ELSE @[f]]]
    /\ UNCHANGED <<link, driverVars, run, group, kills, serverVars>>

\* The stream's buffer is written out as it fills.
FlushSome(f) ==
    /\ spc = "write" /\ f \in opened /\ content[tag][f].part = "empty"
    /\ content' = [content EXCEPT ![tag][f] = [run |-> @.run, part |-> "some"]]
    /\ UNCHANGED <<link, driverVars, sbexrVars, serverVars>>

\* The files are complete when they are closed, unless a write has failed.
CloseGroup ==
    /\ spc = "write"
    /\ \E whole \in SUBSET opened :
         /\ \/ whole = opened /\ UNCHANGED faults
            \/ /\ faults < MaxFaults /\ faults' = faults + 1
               /\ \E f \in opened : whole = opened \ {f}
         /\ content' = [content EXCEPT ![tag] =
              [f \in Files |-> IF f \in whole THEN [run |-> run, part |-> "whole"] ELSE @[f]]]
    /\ opened' = {}
    /\ IF group < Len(WriteOrder) THEN spc' = "open" /\ group' = group + 1
                                  ELSE spc' = "exit" /\ group' = group
    /\ UNCHANGED <<link, driverVars, run, kills, serverVars>>

\* sbexr dies, or exits with an error, while it writes the index or later.
Killed ==
    /\ dpc = "run" /\ spc # "off" /\ kills < MaxKills
    /\ kills' = kills + 1 /\ spc' = "off" /\ opened' = {}
    /\ UNCHANGED <<content, link, driverVars, run, group, faults, serverVars>>

-----------------------------------------------------------------------------
(* The server.                                                             *)

\* The file a name of the watched tag leads to.
Version(f) == IF watched = Latest THEN link[f] ELSE watched
Behind(f)  == IF Version(f) = 0 THEN Absent ELSE content[Version(f)][f]

\* The modification time of the sentinel: truncating it, writing to it and
\* closing it are three.
ModTime == 3 * Behind(Sentinel).run + CASE Behind(Sentinel).part = "whole" -> 2
                                        [] Behind(Sentinel).part = "some"  -> 1
                                        [] OTHER                           -> 0

Loaded == handler # NoHandler

\* SingleDirTagSet.Update finds a sentinel that is newer.
Stat ==
    /\ upc = "idle" /\ Behind(Sentinel) # Absent
    /\ ~Loaded \/ ModTime > changed
    /\ upc' = "load" /\ info' = ModTime
    /\ UNCHANGED <<content, link, driverVars, sbexrVars, watched, maps, handler, changed>>

Mapped == {f \in DataFiles : maps[f] # NoView}

\* The first in the order that is not mapped.
IsNext(f) == \E i \in DOMAIN Mmapped :
    /\ f = Mmapped[i] /\ f \in DataFiles \ Mapped
    /\ \A j \in 1..(i - 1) : Mmapped[j] \notin DataFiles \ Mapped

\* Mutant: an empty file is mapped to an empty slice.
MapFileEmpty ==
    /\ upc = "load"
    /\ \E f \in DataFiles : LET now == Behind(f) IN
         /\ IsNext(f)
         /\ IF now.part = "absent"
            THEN upc' = "idle" /\ maps' = NoHandler
            ELSE upc' = upc /\ maps' = [maps EXCEPT ![f] =
                   [version |-> Version(f), run |-> now.run, part |-> now.part]]
    /\ UNCHANGED <<content, link, driverVars, sbexrVars, watched, info, handler, changed>>

\* Mapping a file that is not there, or is empty, fails and with it the load.
MapFile ==
    /\ upc = "load"
    /\ \E f \in DataFiles : LET now == Behind(f) IN
         /\ IsNext(f)
         /\ IF now.part \in {"absent", "empty"}
            THEN upc' = "idle" /\ maps' = NoHandler
            ELSE upc' = upc /\ maps' = [maps EXCEPT ![f] =
                   [version |-> Version(f), run |-> now.run, part |-> now.part]]
    /\ UNCHANGED <<content, link, driverVars, sbexrVars, watched, info, handler, changed>>

\* What a mapping shows is the file as it was mapped, unless it has been
\* truncated or written to since.
Intact(f, view) == content[view.version][f] = [run |-> view.run, part |-> view.part]

\* ForEachSymbol walks the names; it finds an error only in a file cut short.
WalkSymbols ==
    /\ upc = "load" /\ Mapped = DataFiles
    /\ upc' = "idle" /\ maps' = NoHandler
    /\ \/ handler' = maps /\ changed' = info
       \/ /\ LET view == maps["symbol-details"] IN
               view.part = "some" \/ ~Intact("symbol-details", view)
          /\ UNCHANGED <<handler, changed>>
    /\ UNCHANGED <<content, link, driverVars, sbexrVars, watched, info>>

\* Touching a mapping of a file that has been truncated is a bus error, which
\* the Go runtime does not survive.
BusError ==
    /\ \E f \in DataFiles : \E view \in {handler[f], maps[f]} \ {NoView} : ~Intact(f, view)
    /\ ServerStarts
    /\ UNCHANGED <<content, link, driverVars, sbexrVars>>

-----------------------------------------------------------------------------
Init ==
    /\ content = [v \in Versions |-> [f \in Files |-> Absent]]
    /\ link = [f \in Files |-> 0]
    /\ dpc = "sleep" /\ known = 1 /\ needs = {1} /\ committed = {}
    /\ tag = 0 /\ toflip = {} /\ upgrades = 0
    /\ spc = "off" /\ run = 0 /\ group = 1 /\ opened = {} /\ kills = 0 /\ faults = 0
    /\ watched \in Versions \cup {Latest}
    /\ upc = "idle" /\ info = 0 /\ changed = 0 /\ maps = NoHandler /\ handler = NoHandler

Driver == WakeUp \/ GoToSleep \/ RunSbexr \/ Completed \/ Failed \/ RestartServer
          \/ \E f \in Files : FlipLink(f)
Sbexr  == OpenGroup \/ CloseGroup
Server == Stat \/ MapFile \/ WalkSymbols

Next ==
    \/ Driver \/ Upgrade
    \/ Sbexr \/ Killed \/ \E f \in Files : FlushSome(f)
    \/ Server \/ BusError

\* The driver and the server loop for ever; sbexr goes on unless it is killed.
Fairness == WF_vars(Driver) /\ WF_vars(Sbexr) /\ WF_vars(Server)

Spec     == Init /\ [][Next]_vars
FairSpec == Spec /\ Fairness

-----------------------------------------------------------------------------
(* Properties.                                                             *)

Views    == [version: Versions, run: Nat, part: {"some", "whole"}] \cup {NoView}
Contents == [run: Nat, part: {"absent", "empty", "some", "whole"}]

TypeOK ==
    /\ content \in [Versions -> [Files -> Contents]]
    /\ link \in [Files -> 0..MaxVersion]
    /\ dpc \in {"sleep", "check", "run", "flip"}
    /\ known \in Versions /\ needs \subseteq 1..known /\ committed \subseteq 1..known
    /\ tag \in 0..known /\ toflip \subseteq Files /\ upgrades \in 0..MaxUpgrades
    /\ spc \in {"off", "open", "write", "exit"} /\ run \in Nat
    /\ group \in DOMAIN WriteOrder /\ opened \subseteq Files
    /\ kills \in 0..MaxKills /\ faults \in 0..MaxFaults
    /\ watched \in Versions \cup {Latest}
    /\ upc \in {"idle", "load"} /\ info \in Nat /\ changed \in Nat
    /\ maps \in [DataFiles -> Views] /\ handler \in [DataFiles -> Views]

\* The mappings show one complete index: the six files of one run.
Whole == \E v \in Versions : \E r \in 1..run : \A f \in DataFiles :
           /\ handler[f] = [version |-> v, run |-> r, part |-> "whole"]
           /\ Intact(f, handler[f])

\* The index on disk is complete: all of its files, the sentinel too, written
\* by one run.
DiskWhole == \E v \in Versions : \E r \in 1..run : \A f \in Files :
               Version(f) = v /\ content[v][f] = [run |-> r, part |-> "whole"]

\* When the index on disk is complete and the server finds nothing newer to
\* load, what it serves is complete too, however the load and the writing
\* overlapped.  The links are left out while they are being moved: a load then
\* may take the new sentinel for a mixture of files.
SettledWhole ==
    /\ DiskWhole /\ (watched = Latest => dpc # "flip")
    /\ upc = "idle" /\ Loaded /\ changed = ModTime
    => Whole

\* "latest" ends up showing the newest version, whole, whatever is killed.
LatestServed ==
    watched = Latest =>
        <>[](faults = 0 => Whole /\ \A f \in DataFiles : handler[f].version = known)
=============================================================================
