----------------------------- MODULE TagServer -----------------------------
(***************************************************************************)
(* The index server: server/main.go (Updater) and server/db/tagset.go.     *)
(*                                                                         *)
(* One goroutine, the Updater, loops over the tags it finds on disk.  It   *)
(* (re)loads an index whose sentinel file has a modification time newer    *)
(* than the one recorded for the tag, swaps the handler in under the tag's *)
(* write lock, and registers the urls of the tags that have none yet.      *)
(* Request goroutines search the tag's handler under its read lock, or ask *)
(* for the page of one symbol.                                             *)
(*                                                                         *)
(* An index is abstracted to the number of the publication that wrote it   *)
(* and to the modification time of its sentinel.  How its files are        *)
(* written and mapped is the business of IndexReload.                      *)
(***************************************************************************)
EXTENDS Naturals, FiniteSets, GoRWMutex

CONSTANTS
    Tags,         \* the tags of both tag sets, "tree" and "symbol"
    SymbolTags,   \* those of the "symbol" set: binary indexes, with pages
    NoTag,        \* not a tag
    Clients,      \* connections; each carries one request at a time
    Prefixes,     \* lengths of the literal prefix of a query
    LongestName,  \* the length of the longest symbol of each publication
    MaxPublish,   \* bound: publications, over all tags
    MaxFaults,    \* bound: failed reads of a directory or of an index
    MaxRestarts,  \* bound: restarts of the server
    Relinking     \* whether a link may be moved to an index written earlier

ASSUME ConstantsAssumption ==
    /\ SymbolTags \subseteq Tags
    /\ NoTag \notin Tags
    /\ Prefixes \subseteq Nat
    /\ MaxPublish \in Nat /\ MaxFaults \in Nat /\ MaxRestarts \in Nat
    /\ LongestName \in [1..MaxPublish -> Nat \ {0}]
    /\ Relinking \in BOOLEAN

VARIABLES
    disk,        \* the index published for each tag
    published,   \* number of publications so far
    handler,     \* Tag.Handler: the index loaded, NoIndex for nil
    changed,     \* Tag.Changed: ModTime() of the sentinel when last loaded
    registered,  \* Tag.Registered
    pager,       \* phandler: what the page url of the tag is bound to
    lock,        \* Tag.Mutex
    upc,         \* where the Updater is
    tagset,      \* the set of tags it is updating
    todo,        \* tags of the directory listing it has not looked at yet
    cur,         \* the tag being reloaded
    info,        \* ModTime() of that tag's sentinel, as Stat returned it
    fresh,       \* the index just loaded for it
    pc,          \* where each client is
    req,         \* the request of each client
    got,         \* the publication its answer was computed from
    seen,        \* history: newest publication each tag has answered with
    floor,       \* history: "seen" of the tag when the request was made
    faults, restarts

diskVars == <<disk, published>>
tagVars  == <<handler, changed, registered, pager>>
updVars  == <<upc, tagset, todo, cur, info, fresh>>
cliVars  == <<pc, req, got, seen, floor>>
limits   == <<faults, restarts>>
vars     == <<diskVars, tagVars, lock, updVars, cliVars, limits>>

NoIndex == [gen |-> 0, mtime |-> 0]
Index   == [gen: 0..MaxPublish, mtime: 0..MaxPublish]

Requests  == [kind: {"none", "search", "page"}, tag: Tags \cup {NoTag},
              prefix: Prefixes \cup {0}]
NoRequest == [kind |-> "none", tag |-> NoTag, prefix |-> 0]

Larger(a, b) == IF a > b THEN a ELSE b

-----------------------------------------------------------------------------
(* The disk, as sbexr and utils/kernel change it.                          *)

\* An index is written for tag t, or the "latest" links are moved to another
\* one.  Time is counted in publications; a link that is moved may lead to a
\* sentinel written at any earlier time.
Publish(t) ==
    \E m \in IF Relinking THEN 1..(published + 1) ELSE {published + 1} :
        /\ published < MaxPublish
        /\ published' = published + 1
        /\ disk' = [disk EXCEPT ![t] = [gen |-> published + 1, mtime |-> m]]
        /\ UNCHANGED <<tagVars, lock, updVars, cliVars, limits>>

\* The driver removes the index files of a tag it no longer keeps.
Remove(t) ==
    /\ disk[t] # NoIndex
    /\ disk' = [disk EXCEPT ![t] = NoIndex]
    /\ UNCHANGED <<published, tagVars, lock, updVars, cliVars, limits>>

-----------------------------------------------------------------------------
(* The Updater goroutine.                                                  *)

OnDisk == {t \in Tags : disk[t] # NoIndex}

InSet(t) == (t \in SymbolTags) <=> (tagset = "symbol")

Fault == faults < MaxFaults /\ faults' = faults + 1

\* Each set lists the directory anew; when that fails it sees no file.
ReadDir ==
    /\ upc = "idle"
    /\ upc' = "scan"
    /\ \/ todo' = {t \in OnDisk : InSet(t)} /\ UNCHANGED faults
       \/ todo' = {} /\ Fault
    /\ UNCHANGED <<diskVars, tagVars, lock, tagset, cur, info, fresh, cliVars, restarts>>

\* Stat succeeds and the tag is new, or its sentinel is newer than the one
\* last loaded: the loader runs next.
NeedsLoad(t) == handler[t] = NoIndex \/ disk[t].mtime > changed[t]

StatNewer(t) ==
    /\ upc = "scan" /\ t \in todo
    /\ disk[t] # NoIndex /\ NeedsLoad(t)
    /\ upc' = "load"
    /\ todo' = todo \ {t}
    /\ cur' = t
    /\ info' = disk[t].mtime
    /\ UNCHANGED <<diskVars, tagVars, lock, tagset, fresh, cliVars, limits>>

\* The sentinel is gone by now, or is not newer.
StatSkip(t) ==
    /\ upc = "scan" /\ t \in todo
    /\ ~(disk[t] # NoIndex /\ NeedsLoad(t))
    /\ todo' = todo \ {t}
    /\ UNCHANGED <<diskVars, tagVars, lock, tagset, upc, cur, info, fresh, cliVars, limits>>

\* Mutant: a failed load is recorded as if it had succeeded.
LoadFailsRecorded ==
    /\ upc = "load"
    /\ \/ disk[cur] = NoIndex /\ UNCHANGED faults
       \/ disk[cur] # NoIndex /\ Fault
    /\ changed' = [changed EXCEPT ![cur] = info]
    /\ upc' = "scan"
    /\ UNCHANGED <<diskVars, handler, registered, pager, lock, tagset, todo, cur, info,
                   fresh, cliVars, restarts>>

\* The loader reads what is on disk now, which may be newer than what Stat
\* saw.  A failed load leaves Changed alone: the next cycle tries again.
LoadFails ==
    /\ upc = "load"
    /\ \/ disk[cur] = NoIndex /\ UNCHANGED faults
       \/ disk[cur] # NoIndex /\ Fault
    /\ upc' = "scan"
    /\ UNCHANGED <<diskVars, tagVars, lock, tagset, todo, cur, info, fresh, cliVars, restarts>>

\* Mutant: the time of the load is recorded, not that of the sentinel.
LoadFirstNow ==
    /\ upc = "load" /\ disk[cur] # NoIndex /\ handler[cur] = NoIndex
    /\ handler' = [handler EXCEPT ![cur] = disk[cur]]
    /\ changed' = [changed EXCEPT ![cur] = published + 1]
    /\ upc' = "scan"
    /\ UNCHANGED <<diskVars, registered, pager, lock, tagset, todo, cur, info, fresh,
                   cliVars, limits>>

\* Mutant: one Tag is made for the whole directory, so that every tag that is
\* already there serves the index loaded last.
LoadFirstAliased ==
    /\ upc = "load" /\ disk[cur] # NoIndex /\ handler[cur] = NoIndex
    /\ handler' = [t \in Tags |-> IF t = cur \/ handler[t] # NoIndex
                                 THEN disk[cur] ELSE NoIndex]
    /\ changed' = [changed EXCEPT ![cur] = info]
    /\ upc' = "scan"
    /\ UNCHANGED <<diskVars, registered, pager, lock, tagset, todo, cur, info, fresh,
                   cliVars, limits>>

\* A tag seen for the first time enters the map with no lock taken: no url
\* leads to it yet.
LoadFirst ==
    /\ upc = "load" /\ disk[cur] # NoIndex /\ handler[cur] = NoIndex
    /\ handler' = [handler EXCEPT ![cur] = disk[cur]]
    /\ changed' = [changed EXCEPT ![cur] = info]
    /\ upc' = "scan"
    /\ UNCHANGED <<diskVars, registered, pager, lock, tagset, todo, cur, info, fresh,
                   cliVars, limits>>

\* Mutant: the old handler is dropped before the new one is there.
LoadAgainDropsOld ==
    /\ upc = "load" /\ disk[cur] # NoIndex /\ handler[cur] # NoIndex
    /\ fresh' = disk[cur]
    /\ handler' = [handler EXCEPT ![cur] = NoIndex]
    /\ lock' = [lock EXCEPT ![cur] = AnnounceLock(@)]
    /\ upc' = "lock"
    /\ UNCHANGED <<diskVars, changed, registered, pager, tagset, todo, cur, info, cliVars,
                   limits>>

LoadAgain ==
    /\ upc = "load" /\ disk[cur] # NoIndex /\ handler[cur] # NoIndex
    /\ fresh' = disk[cur]
    /\ lock' = [lock EXCEPT ![cur] = AnnounceLock(@)]
    /\ upc' = "lock"
    /\ UNCHANGED <<diskVars, tagVars, tagset, todo, cur, info, cliVars, limits>>

\* Mutant: the handler is swapped with no regard to its readers.
AcquireNoWait ==
    /\ upc = "lock"
    /\ lock' = [lock EXCEPT ![cur] = Hold(@)]
    /\ upc' = "swap"
    /\ UNCHANGED <<diskVars, tagVars, tagset, todo, cur, info, fresh, cliVars, limits>>

AcquireLock ==
    /\ upc = "lock" /\ CanHold(lock[cur])
    /\ lock' = [lock EXCEPT ![cur] = Hold(@)]
    /\ upc' = "swap"
    /\ UNCHANGED <<diskVars, tagVars, tagset, todo, cur, info, fresh, cliVars, limits>>

\* The old handler is dropped, never told to Delete() its mappings.
Swap ==
    /\ upc = "swap"
    /\ handler' = [handler EXCEPT ![cur] = fresh]
    /\ upc' = "unlock"
    /\ UNCHANGED <<diskVars, changed, registered, pager, lock, tagset, todo, cur, info,
                   fresh, cliVars, limits>>

\* Mutant: Unlock is forgotten.
ReleaseKeepsLock ==
    /\ upc = "unlock"
    /\ changed' = [changed EXCEPT ![cur] = info]
    /\ upc' = "scan"
    /\ UNCHANGED <<diskVars, handler, registered, pager, lock, tagset, todo, cur, info,
                   fresh, cliVars, limits>>

ReleaseLock ==
    /\ upc = "unlock"
    /\ lock' = [lock EXCEPT ![cur] = Unlock(@)]
    /\ changed' = [changed EXCEPT ![cur] = info]
    /\ upc' = "scan"
    /\ UNCHANGED <<diskVars, handler, registered, pager, tagset, todo, cur, info, fresh,
                   cliVars, limits>>

\* The trees are updated first, the symbols next, then urls are registered.
NextTagSet ==
    /\ upc = "scan" /\ todo = {} /\ tagset = "tree"
    /\ upc' = "idle" /\ tagset' = "symbol"
    /\ UNCHANGED <<diskVars, tagVars, lock, todo, cur, info, fresh, cliVars, limits>>

ScanDone ==
    /\ upc = "scan" /\ todo = {} /\ tagset = "symbol"
    /\ upc' = "register"
    /\ UNCHANGED <<diskVars, tagVars, lock, tagset, todo, cur, info, fresh, cliVars, limits>>

\* Mutant: a url is registered for a tag that has nothing loaded.
AddHandlerUnloaded(t) ==
    /\ upc = "register" /\ ~registered[t]
    /\ registered' = [registered EXCEPT ![t] = TRUE]
    /\ pager' = IF t \in SymbolTags THEN [pager EXCEPT ![t] = handler[t]]
                                    ELSE pager
    /\ UNCHANGED <<diskVars, handler, changed, lock, updVars, cliVars, limits>>

\* The page url is bound to the handler of this moment, not to the tag.
AddHandler(t) ==
    /\ upc = "register" /\ handler[t] # NoIndex /\ ~registered[t]
    /\ registered' = [registered EXCEPT ![t] = TRUE]
    /\ pager' = IF t \in SymbolTags THEN [pager EXCEPT ![t] = handler[t]]
                                    ELSE pager
    /\ UNCHANGED <<diskVars, handler, changed, lock, updVars, cliVars, limits>>

\* Every url is there: the Updater sleeps, then starts over.
Sleep ==
    /\ upc = "register"
    /\ \A t \in Tags : handler[t] # NoIndex => registered[t]
    /\ upc' = "idle" /\ tagset' = "tree"
    /\ UNCHANGED <<diskVars, tagVars, lock, todo, cur, info, fresh, cliVars, limits>>

Updater ==
    \/ ReadDir
    \/ \E t \in Tags : StatNewer(t) \/ StatSkip(t) \/ AddHandler(t)
    \/ LoadFails \/ LoadFirst \/ LoadAgain
    \/ AcquireLock \/ Swap \/ ReleaseLock
    \/ NextTagSet \/ ScanDone \/ Sleep

-----------------------------------------------------------------------------
(* The request goroutines.                                                 *)

\* A ping and a body that does not decode return before the lock is asked for
\* and change nothing.
Search(c, t, n) ==
    /\ pc[c] = "idle" /\ registered[t]
    /\ req' = [req EXCEPT ![c] = [kind |-> "search", tag |-> t, prefix |-> n]]
    /\ floor' = [floor EXCEPT ![c] = seen[t]]
    /\ lock' = [lock EXCEPT ![t] = RLock(@, c)]
    /\ pc' = [pc EXCEPT ![c] = "rlock"]
    /\ UNCHANGED <<diskVars, tagVars, updVars, got, seen, limits>>

\* The offset table has an entry for each name length from 0 to the longest
\* name's; the index into it is clamped to the number of entries, one more
\* than the last that can be read.
Entries(g) == LongestName[g] + 1
StartEntry(g, n) == IF n < Entries(g) THEN n ELSE Entries(g)
StartsInTable(r, g) ==
    r.tag \in SymbolTags => StartEntry(g, r.prefix) < Entries(g)

HasReadLock(c) == pc[c] = "rlock" /\ c \in lock[req[c].tag].active

Scan(c) ==
    /\ HasReadLock(c)
    /\ LET g == handler[req[c].tag].gen IN
         /\ StartsInTable(req[c], g)
         /\ got' = [got EXCEPT ![c] = g]
    /\ pc' = [pc EXCEPT ![c] = "scanned"]
    /\ UNCHANGED <<diskVars, tagVars, lock, updVars, req, seen, floor, limits>>

\* An index out of range panics.  net/http recovers and drops the connection;
\* the call to RUnlock was not deferred and never happens.
Panic(c) ==
    /\ HasReadLock(c)
    /\ ~StartsInTable(req[c], handler[req[c].tag].gen)
    /\ pc' = [pc EXCEPT ![c] = "dead"]
    /\ UNCHANGED <<diskVars, tagVars, lock, updVars, req, got, seen, floor, limits>>

\* Mutant: RUnlock is forgotten.
AnswerKeepsLock(c) ==
    /\ pc[c] = "scanned"
    /\ seen' = [seen EXCEPT ![req[c].tag] = Larger(@, got[c])]
    /\ pc' = [pc EXCEPT ![c] = "idle"]
    /\ req' = [req EXCEPT ![c] = NoRequest]
    /\ got' = [got EXCEPT ![c] = 0]
    /\ floor' = [floor EXCEPT ![c] = 0]
    /\ UNCHANGED <<diskVars, tagVars, lock, updVars, limits>>

\* The lock is released and the answer sent.
Answer(c) ==
    /\ pc[c] = "scanned"
    /\ lock' = [lock EXCEPT ![req[c].tag] = RUnlock(@, c)]
    /\ seen' = [seen EXCEPT ![req[c].tag] = Larger(@, got[c])]
    /\ pc' = [pc EXCEPT ![c] = "idle"]
    /\ req' = [req EXCEPT ![c] = NoRequest]
    /\ got' = [got EXCEPT ![c] = 0]
    /\ floor' = [floor EXCEPT ![c] = 0]
    /\ UNCHANGED <<diskVars, tagVars, updVars, limits>>

\* The details of one symbol, from the handler the url is bound to, no lock
\* taken.
HandlePage(c, t) ==
    /\ pc[c] = "idle" /\ registered[t] /\ t \in SymbolTags
    /\ req' = [req EXCEPT ![c] = [kind |-> "page", tag |-> t, prefix |-> 0]]
    /\ got' = [got EXCEPT ![c] = pager[t].gen]
    /\ floor' = [floor EXCEPT ![c] = seen[t]]
    /\ pc' = [pc EXCEPT ![c] = "page"]
    /\ UNCHANGED <<diskVars, tagVars, lock, updVars, seen, limits>>

PageSent(c) ==
    /\ pc[c] = "page"
    /\ pc' = [pc EXCEPT ![c] = "idle"]
    /\ req' = [req EXCEPT ![c] = NoRequest]
    /\ got' = [got EXCEPT ![c] = 0]
    /\ floor' = [floor EXCEPT ![c] = 0]
    /\ UNCHANGED <<diskVars, tagVars, lock, updVars, seen, limits>>

Request(c) ==
    \/ \E t \in Tags : HandlePage(c, t) \/ \E n \in Prefixes : Search(c, t, n)
    \/ Scan(c) \/ Panic(c) \/ Answer(c) \/ PageSent(c)

-----------------------------------------------------------------------------
All(v)        == [t \in Tags |-> v]
AllClients(v) == [c \in Clients |-> v]

Init ==
    /\ disk = All(NoIndex) /\ published = 0
    /\ handler = All(NoIndex) /\ changed = All(0)
    /\ registered = All(FALSE) /\ pager = All(NoIndex)
    /\ lock = All(FreeMutex)
    /\ upc = "idle" /\ tagset = "tree" /\ todo = {}
    /\ cur = NoTag /\ info = 0 /\ fresh = NoIndex
    /\ pc = AllClients("idle") /\ req = AllClients(NoRequest)
    /\ got = AllClients(0) /\ floor = AllClients(0) /\ seen = All(0)
    /\ faults = 0 /\ restarts = 0

\* utils/kernel kills the server after it has published, and it is started
\* again: all it knew is gone.
Restart ==
    /\ restarts < MaxRestarts
    /\ restarts' = restarts + 1
    /\ handler' = All(NoIndex) /\ changed' = All(0)
    /\ registered' = All(FALSE) /\ pager' = All(NoIndex)
    /\ lock' = All(FreeMutex)
    /\ upc' = "idle" /\ tagset' = "tree" /\ todo' = {}
    /\ cur' = NoTag /\ info' = 0 /\ fresh' = NoIndex
    /\ pc' = AllClients("idle") /\ req' = AllClients(NoRequest)
    /\ got' = AllClients(0) /\ floor' = AllClients(0)
    /\ UNCHANGED <<diskVars, seen, faults>>

Next ==
    \/ \E t \in Tags : Publish(t) \/ Remove(t)
    \/ Updater
    \/ \E c \in Clients : Request(c)
    \/ Restart

\* The goroutines run: the Updater never stops looping, and a request that can
\* go on does.  Nothing obliges anyone to publish or to ask.
Fairness ==
    /\ WF_vars(Updater)
    /\ \A c \in Clients : WF_vars(Scan(c) \/ Panic(c) \/ Answer(c) \/ PageSent(c))

Spec     == Init /\ [][Next]_vars
FairSpec == Spec /\ Fairness

-----------------------------------------------------------------------------
(* Properties.                                                             *)

TypeOK ==
    /\ disk \in [Tags -> Index] /\ published \in 0..MaxPublish
    /\ handler \in [Tags -> Index] /\ pager \in [Tags -> Index]
    /\ changed \in [Tags -> 0..MaxPublish]
    /\ registered \in [Tags -> BOOLEAN]
    /\ lock \in [Tags -> RWMutexes(Clients)]
    /\ upc \in {"idle", "scan", "load", "lock", "swap", "unlock", "register"}
    /\ tagset \in {"tree", "symbol"}
    /\ todo \in SUBSET Tags /\ cur \in Tags \cup {NoTag}
    /\ upc \in {"load", "lock", "swap", "unlock"} => cur \in Tags
    /\ info \in 0..MaxPublish /\ fresh \in Index
    /\ pc \in [Clients -> {"idle", "rlock", "scanned", "page", "dead"}]
    /\ req \in [Clients -> Requests]
    /\ got \in [Clients -> 0..MaxPublish]
    /\ seen \in [Tags -> 0..MaxPublish]
    /\ floor \in [Clients -> 0..MaxPublish]
    /\ faults \in 0..MaxFaults /\ restarts \in 0..MaxRestarts

\* A goroutine counts as a reader of a tag exactly while it is searching it,
\* or for ever when it panicked there; it is made to wait only by the Updater,
\* and only by the reload of that very tag.
InLock(c, t) == req[c].kind = "search" /\ req[c].tag = t

ReaderAccounted(t, c) ==
    /\ InLock(c, t) <=> c \in lock[t].active \/ c \in lock[t].blocked
    /\ c \in lock[t].blocked => pc[c] = "rlock" /\ c \notin lock[t].active

ReadersAccounted == \A t \in Tags, c \in Clients : ReaderAccounted(t, c)

WriterAccounted ==
    \A t \in Tags :
        /\ lock[t].writer # "none" <=> upc \in {"lock", "swap", "unlock"} /\ cur = t
        /\ lock[t].blocked # {} => lock[t].writer # "none"

LocksAccounted == ReadersAccounted /\ WriterAccounted

\* While the handler of a tag is replaced no search of it is under way.
Searching(c, t) == (HasReadLock(c) \/ pc[c] = "scanned") /\ req[c].tag = t

SwapAlone ==
    [][\A t \in Tags :
         handler[t] # NoIndex /\ handler'[t] # handler[t] /\ restarts' = restarts
           => \A c \in Clients : ~Searching(c, t)]_vars

\* The time recorded for a tag is never later than that of the index it was
\* loaded from: a publication that lands between Stat and the load is loaded
\* once more rather than missed.
ChangedNotAhead ==
    \A t \in Tags : changed[t] <= handler[t].mtime

\* A search never answers from an older publication than one its tag had
\* already answered from when the request was made.
SearchNeverOlder ==
    \A c \in Clients : pc[c] = "scanned" => got[c] >= floor[c]

\* Whatever is published is eventually served, removed, or replaced.
ChangesServed ==
    \A t \in Tags : \A g \in 1..MaxPublish :
        disk[t].gen = g ~> handler[t].gen = g \/ disk[t].gen # g

\* Every search is answered.
SearchesAnswered ==
    \A c \in Clients : pc[c] = "rlock" ~> pc[c] # "rlock"

\* The server keeps the promise of TagStore to the clients that search it.
Store == INSTANCE TagStore WITH
    Nobody <- NoTag,
    newest <- published,
    served <- [t \in Tags |-> handler[t].gen],
    asked  <- [c \in Clients |->
                 IF req[c].kind = "search" THEN req[c].tag ELSE NoTag],
    answer <- [c \in Clients |-> IF req[c].kind = "search" THEN got[c] ELSE 0]

ImplementsStore == Store!Spec

\* A page shows nothing older than the answers its tag has already given.
PageShowsResult ==
    \A c \in Clients : pc[c] = "page" => got[c] >= floor[c]

-----------------------------------------------------------------------------
(* The inductive invariant behind the safety properties.                   *)

Loaded(i) == i.gen # 0

\* Publications only advance along disk -> fresh -> handler -> seen.
OrderedAt(t) ==
    /\ disk[t] # NoIndex <=> Loaded(disk[t])
    /\ handler[t] # NoIndex <=> Loaded(handler[t])
    /\ handler[t].gen <= published /\ disk[t].gen <= published
    /\ seen[t] <= published
    /\ Loaded(disk[t]) => handler[t].gen <= disk[t].gen /\ seen[t] <= disk[t].gen
    /\ Loaded(handler[t]) => seen[t] <= handler[t].gen
    /\ registered[t] => Loaded(handler[t])

GenerationsOrdered == \A t \in Tags : OrderedAt(t)

UpdaterOK ==
    /\ upc \in {"lock", "swap", "unlock"} =>
         /\ Loaded(handler[cur]) /\ Loaded(fresh)
         /\ handler[cur].gen <= fresh.gen /\ fresh.gen <= published
         /\ Loaded(disk[cur]) => fresh.gen <= disk[cur].gen
         /\ fresh # NoIndex
    /\ upc = "lock" => lock[cur].writer = "waiting"
    /\ upc \in {"swap", "unlock"} => lock[cur].writer = "held" /\ lock[cur].active = {}

ClientOK(c) ==
    /\ pc[c] \in {"rlock", "scanned", "dead"} <=> req[c].kind = "search"
    /\ req[c].kind # "none" => req[c].tag \in Tags /\ Loaded(handler[req[c].tag])
    /\ req[c].kind = "search" => floor[c] <= seen[req[c].tag]
    /\ pc[c] \in {"scanned", "dead"} => c \in lock[req[c].tag].active
    /\ pc[c] = "scanned" =>
         got[c] # 0 /\ floor[c] <= got[c] /\ got[c] <= handler[req[c].tag].gen
    /\ pc[c] \notin {"scanned", "page"} => got[c] = 0

ClientsOK == \A c \in Clients : ClientOK(c)

\* When no link is moved back, a sentinel is as new as its publication.
TimesOrdered ==
    /\ \A t \in Tags :
         /\ disk[t].mtime = disk[t].gen /\ handler[t].mtime = handler[t].gen
         /\ changed[t] <= handler[t].gen
    /\ upc = "load" => info <= published
    /\ upc = "load" /\ Loaded(disk[cur]) => info <= disk[cur].gen
    /\ fresh.mtime = fresh.gen
    /\ upc \in {"lock", "swap"} => info <= fresh.gen
    /\ upc = "unlock" => info <= handler[cur].gen

\* An answer under way, what its tag serves, what the Updater holds and what is
\* on disk are in the order of their publications, and the locks are where the
\* goroutines say they are.
ServerInv ==
    /\ TypeOK /\ GenerationsOrdered /\ UpdaterOK
    /\ ReadersAccounted /\ WriterAccounted /\ ClientsOK
=============================================================================
