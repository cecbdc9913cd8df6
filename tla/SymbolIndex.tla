---------------------------- MODULE SymbolIndex -----------------------------
(***************************************************************************)
(* The index of symbols: what the indexer records of the code             *)
(* (src/indexer.cc), the binary files it writes (src/cindex.h) and what    *)
(* the server finds in them by name and by hash                            *)
(* (server/db/binarysymbols.go).                                           *)
(*                                                                         *)
(* A place is a range of a file. An offset into a file is the number of    *)
(* the entry it falls on, counted from 1; files of more than 2^32 bytes    *)
(* are left out. A kind stands for a kind, a linkage and an access.        *)
(***************************************************************************)
EXTENDS Integers, Sequences, FiniteSets, FiniteSetsExt, SequencesExt, Lists

CONSTANTS
    Places, PlaceFile,   \* ranges, in order, and the file of each (0: none)
    PathLength,          \* of each file
    Names, NameLength,   \* numbered in the order of their bytes
    HashOf, Hashes,      \* the hash of each name; the hashes asked for
    Kinds,
    Providers,           \* what may be declared or defined
    Uses,                \* pairs of a target and its user
    Queries,             \* a literal prefix and the names that match
    Skips,               \* how many results a client has already
    MaxRecords,          \* bound: records made before the index is written
    MaxResults,          \* kMaxResults (30)
    Word                 \* 2^16: sizes are written in 16 bits

\* The indexer is never given an empty name (src/ast.h), and a name contains
\* the literal prefix of the expressions it matches.
ASSUME IndexAssumption ==
    /\ Places \subseteq Nat /\ Names \subseteq Nat /\ Kinds \subseteq Nat
    /\ Word \in Nat /\ MaxResults \in Nat \ {0} /\ Skips \subseteq Nat
    /\ Hashes \subseteq Nat /\ IsFiniteSet(Providers) /\ IsFiniteSet(Uses)
    /\ PlaceFile \in [Places -> {0} \cup DOMAIN PathLength]
    /\ \A f \in DOMAIN PathLength : f # 0 /\ PathLength[f] \in Nat
    /\ NameLength \in [Names -> Nat \ {0}] /\ HashOf \in [Names -> Nat]
    /\ Providers \subseteq
           [object : Places, location : Places, name : Names, kind : Kinds]
    /\ Uses \subseteq Places \X Places
    /\ \A q \in Queries :
           q.prefix \in Nat /\ \A n \in q.matches : n \in Names /\ q.prefix <= NameLength[n]

VARIABLES
    defines, declares, users,      \* Indexer::index_
    index,                         \* the files written
    pc, query, skip,               \* the request being served
    offset, matched, data,         \* HandleSearch: the scan and its results
    page,                          \* HandlePage: the symbol it shows
    table, wanted, minindex, maxindex, outcome   \* GetHashData

indexer == <<defines, declares, users, index>>
search  == <<query, skip, offset, matched, data>>
lookup  == <<table, wanted, minindex, maxindex, outcome>>
vars    == <<indexer, pc, search, page, lookup>>

Lookup == INSTANCE HashLookup

-----------------------------------------------------------------------------
(* The indexer, while sbexr walks the code.                                *)

HasFile(place) == PlaceFile[place] # 0
Recorded == Cardinality(defines) + Cardinality(declares)
                + MapThenSumSet(LAMBDA u : users[u], Uses)

Indexing == pc = "index" /\ Recorded < MaxRecords

RecordUse ==
    /\ Indexing
    /\ \E u \in Uses :
           /\ HasFile(u[1]) /\ HasFile(u[2])
           /\ users' = [users EXCEPT ![u] = @ + 1]
    /\ UNCHANGED <<defines, declares, index, pc, search, page, lookup>>

\* Recording the same again adds nothing that OutputBinaryIndex keeps.
RecordDefines ==
    /\ Indexing
    /\ \E p \in Providers :
           /\ HasFile(p.object) /\ HasFile(p.location)
           /\ defines' = defines \cup {p}
    /\ UNCHANGED <<declares, users, index, pc, search, page, lookup>>

RecordDeclares ==
    /\ Indexing
    /\ \E p \in Providers :
           /\ HasFile(p.object) /\ HasFile(p.location)
           /\ declares' = declares \cup {p}
    /\ UNCHANGED <<defines, users, index, pc, search, page, lookup>>

-----------------------------------------------------------------------------
(* OutputBinaryIndex: symbols by name, scored, sorted and written.         *)

Provided   == defines \cup declares
NamesSeen  == {p.name : p \in Provided}
KindsOf(n) == {p.kind : p \in {q \in Provided : q.name = n}}
Objects(n, k) ==
    {p.object : p \in {q \in Provided : q.name = n /\ q.kind = k}}

\* The users of what has a name, once for each kind it has it as.
Appearances(n) ==
    {a \in KindsOf(n) \X Uses : a[2][1] \in Objects(n, a[1]) /\ users[a[2]] > 0}
UserFiles(n)   == {PlaceFile[a[2][2]] : a \in Appearances(n)}
TimesUsed(n)   == Cardinality(UNION {{a} \X (1..users[a[2]]) : a \in Appearances(n)})

\* (files.size() << 32) + appearances
ScoreLess(m, n) ==
    LET fm == Cardinality(UserFiles(m))  fn == Cardinality(UserFiles(n))
    IN fm < fn \/ (fm = fn /\ TimesUsed(m) < TimesUsed(n))

SymbolLess(m, n) ==
    CASE NameLength[m] # NameLength[n] -> NameLength[m] < NameLength[n]
      [] NameLength[m] = NameLength[n] /\ (ScoreLess(m, n) \/ ScoreLess(n, m))
             -> ScoreLess(m, n)
      [] OTHER -> m < n

Fits(n) == NameLength[n] < Word /\ Cardinality(KindsOf(n)) < Word

Symbols == SortedSeq({n \in NamesSeen : Fits(n)}, SymbolLess)

\* Mutant: sizes are not checked against 16 bits.
ListedUnchecked(recorded, n, k) ==
    {p.location : p \in {q \in recorded : q.name = n /\ q.object \in Objects(n, k)}}

\* All that is defined (or declared) under a name by the objects that have
\* the name as this kind, once for each place; too many is none.
Listed(recorded, n, k) ==
    LET at == {p.location : p \in
                  {q \in recorded : q.name = n /\ q.object \in Objects(n, k)}}
    IN IF Cardinality(at) < Word THEN at ELSE {}

AllFiles ==
    {PlaceFile[p.location] : p \in Provided} \cup UNION {UserFiles(n) : n \in NamesSeen}

PathFits(f) == PathLength[f] < Word

\* Mutant: files that are left out move the offsets of the rest.
FileOffsetOfAll(order, f) ==
    Cardinality({i \in 1..Len(order) : \E j \in i..Len(order) : order[j] = f})

\* The files are in the order of their addresses, whatever that is. One whose
\* path is too long has the offset of the file written after it.
FileOffset(order, f) ==
    1 + Cardinality({i \in 1..Len(order) : PathFits(order[i])
                         /\ \E j \in 1..Len(order) : order[j] = f /\ i < j})

Located(places, order) ==
    {[place |-> at, path |-> FileOffset(order, PlaceFile[at])] : at \in places}

Detail(n, order) ==
    LET kinds == SortedSeq(KindsOf(n), LAMBDA k, l : k < l)
    IN [name |-> n, hash |-> HashOf[n],
        kinds |-> [i \in 1..Len(kinds) |->
            [kind  |-> kinds[i],
             defs  |-> Located(Listed(defines, n, kinds[i]), order),
             decls |-> Located(Listed(declares, n, kinds[i]), order)]]]

HashLess(a, b) == a.hash < b.hash \/ (a.hash = b.hash /\ a.detail < b.detail)

\* Mutant: the table is left in the order of the symbols.
HashesUnsorted(symbols) ==
    [i \in 1..Len(symbols) |-> [hash |-> HashOf[symbols[i]], detail |-> i]]

HashTable(symbols) ==
    SortedSeq({[hash |-> HashOf[symbols[i]], detail |-> i] :
                   i \in 1..Len(symbols)}, HashLess)

\* Entry i of symbol-details and entry i of details are of the same symbol.
BinaryIndex(order) ==
    [symbols |-> Symbols,
     details |-> [i \in 1..Len(Symbols) |-> Detail(Symbols[i], order)],
     files   |-> Selected(order, {f \in AllFiles : PathFits(f)}),
     hashes  |-> HashTable(Symbols)]

OutputBinaryIndex ==
    /\ pc = "index"
    /\ \E order \in SetToSeqs(AllFiles) : index' = BinaryIndex(order)
    /\ pc' = "written"
    /\ UNCHANGED <<defines, declares, users, search, page, lookup>>

-----------------------------------------------------------------------------
(* The server: loading, and what it reads of a detail.                     *)

\* A file with nothing in it cannot be mapped.
Mappable == index.symbols # <<>> /\ index.files # <<>>

LoadSymbols ==
    /\ pc = "written" /\ Mappable
    /\ pc' = "ready"
    /\ UNCHANGED <<indexer, search, page, lookup>>

LoadFails ==
    /\ pc = "written" /\ ~Mappable
    /\ pc' = "failed"
    /\ UNCHANGED <<indexer, search, page, lookup>>

\* minoffsets: for each length up to the longest, the first name as long.
MaxLength == Max({NameLength[index.symbols[i]] : i \in 1..Len(index.symbols)})
MinOffset(length) ==
    SelectInSeq(index.symbols, LAMBDA n : NameLength[n] >= length)

\* GetDetails steps over the providers of a kind by the sum of two 16 bit
\* numbers, so what follows a kind with 2^16 of them or more is not found.
Readable(d) ==
    \A i \in 1..Len(index.details[d].kinds) - 1 :
        LET kind == index.details[d].kinds[i]
        IN Cardinality(kind.defs) + Cardinality(kind.decls) < Word

InRange(d) ==
    \A kind \in ToSet(index.details[d].kinds) :
        \A p \in kind.defs \cup kind.decls : p.path <= Len(index.files)

Listing(providers, defined) ==
    {[place |-> p.place, path |-> index.files[p.path], defined |-> defined] :
         p \in providers}

\* GetSymbolDetails: what it may return for a detail. Past a kind that cannot
\* be stepped over it is whatever the bytes there happen to mean.
NoPage == [status |-> "none", name |-> 0, hash |-> 0, listed |-> {}]

SymbolDetails(d) ==
    LET detail == index.details[d]
        Answer(status, listed) == [status |-> status, name |-> detail.name,
                                   hash |-> detail.hash, listed |-> listed]
    IN IF Readable(d)
       THEN IF InRange(d)
            THEN {Answer("shown", UNION {Listing(k.defs, TRUE) \cup Listing(k.decls, FALSE) :
                                             k \in ToSet(detail.kinds)})}
            ELSE {Answer("error", {})}
       ELSE {Answer("error", {}), Answer("garbled", {})}

-----------------------------------------------------------------------------
(* HandleSearch: a scan of the names, one name at a time.                  *)

NoQuery == [prefix |-> 0, matches |-> {}]

HandleSearch ==
    /\ pc = "ready"
    /\ \E q \in Queries, s \in Skips :
           /\ q.prefix <= MaxLength
           /\ query' = q /\ skip' = s
           /\ offset' = MinOffset(q.prefix)
    /\ pc' = "search"
    /\ UNCHANGED <<indexer, matched, data, page, lookup>>

\* The table of offsets has no entry for a prefix longer than every name. The
\* server recovers; what becomes of the lock it held is in TagServer.
SearchPanics ==
    /\ pc = "ready"
    /\ \E q \in Queries : q.prefix > MaxLength
    /\ pc' = "done"
    /\ UNCHANGED <<indexer, search, page, lookup>>

Here     == index.symbols[offset]
Scanning == pc = "search" /\ offset <= Len(index.symbols)

NoMatch ==
    /\ Scanning /\ Here \notin query.matches
    /\ offset' = offset + 1
    /\ UNCHANGED <<indexer, pc, query, skip, matched, data, page, lookup>>

SkipResult ==
    /\ Scanning /\ Here \in query.matches /\ matched + 1 <= skip
    /\ offset' = offset + 1 /\ matched' = matched + 1
    /\ UNCHANGED <<indexer, pc, query, skip, data, page, lookup>>

\* Mutant: the limit does not count the results that were skipped.
ReturnResultForgetsSkip ==
    /\ Scanning /\ Here \in query.matches /\ matched + 1 > skip
    /\ \E r \in SymbolDetails(offset) :
           r.status # "error" /\ data' = Append(data, r)
    /\ offset' = offset + 1 /\ matched' = matched + 1
    /\ pc' = IF matched' >= MaxResults THEN "done" ELSE "search"
    /\ UNCHANGED <<indexer, query, skip, page, lookup>>

\* The limit is on names that match, and looked at when one is returned.
ReturnResult ==
    /\ Scanning /\ Here \in query.matches /\ matched + 1 > skip
    /\ \E r \in SymbolDetails(offset) :
           r.status # "error" /\ data' = Append(data, r)
    /\ offset' = offset + 1 /\ matched' = matched + 1
    /\ pc' = IF matched' >= MaxResults + skip THEN "done" ELSE "search"
    /\ UNCHANGED <<indexer, query, skip, page, lookup>>

DropResult ==
    /\ Scanning /\ Here \in query.matches /\ matched + 1 > skip
    /\ \E r \in SymbolDetails(offset) : r.status = "error"
    /\ offset' = offset + 1 /\ matched' = matched + 1
    /\ UNCHANGED <<indexer, pc, query, skip, data, page, lookup>>

SearchEnds ==
    /\ pc = "search" /\ offset > Len(index.symbols)
    /\ pc' = "done"
    /\ UNCHANGED <<indexer, search, page, lookup>>

-----------------------------------------------------------------------------
(* HandlePage: a symbol by its hash.                                       *)

HandlePage ==
    /\ pc = "ready"
    /\ \E h \in Hashes :
           Lookup!Start([i \in 1..Len(index.hashes) |-> index.hashes[i].hash], h)
    /\ pc' = "lookup"
    /\ UNCHANGED <<indexer, search, page>>

LookUp ==
    /\ pc = "lookup" /\ Lookup!Loop
    /\ UNCHANGED <<indexer, pc, search, page>>

PageFound ==
    /\ pc = "lookup" /\ outcome = "found"
    /\ page' \in SymbolDetails(index.hashes[Lookup!ToCheck + 1].detail)
    /\ pc' = "done"
    /\ UNCHANGED <<indexer, search, lookup>>

PageMissing ==
    /\ pc = "lookup" /\ outcome = "missing"
    /\ pc' = "done"
    /\ UNCHANGED <<indexer, search, page, lookup>>

\* The answer is sent and the variables of the request are gone.
Respond ==
    /\ pc = "done" /\ pc' = "ready"
    /\ query' = NoQuery /\ skip' = 0
    /\ offset' = 0 /\ matched' = 0 /\ data' = <<>>
    /\ page' = NoPage
    /\ IF outcome = "none" THEN UNCHANGED lookup ELSE Lookup!Return
    /\ UNCHANGED indexer

-----------------------------------------------------------------------------
Init ==
    /\ defines = {} /\ declares = {} /\ users = [u \in Uses |-> 0]
    /\ index = [symbols |-> <<>>, details |-> <<>>, files |-> <<>>, hashes |-> <<>>]
    /\ pc = "index"
    /\ query = NoQuery /\ skip = 0
    /\ offset = 0 /\ matched = 0 /\ data = <<>>
    /\ page = NoPage
    /\ Lookup!Init

Serve ==
    \/ NoMatch \/ SkipResult \/ ReturnResult \/ DropResult \/ SearchEnds
    \/ LookUp \/ PageFound \/ PageMissing \/ Respond

Next ==
    \/ RecordUse \/ RecordDefines \/ RecordDeclares \/ OutputBinaryIndex
    \/ LoadSymbols \/ LoadFails
    \/ HandleSearch \/ SearchPanics \/ HandlePage
    \/ Serve

Spec == Init /\ [][Next]_vars

\* A request that has started runs on.
FairSpec == Spec /\ WF_vars(Serve)

-----------------------------------------------------------------------------
Result == [status : {"none", "shown", "error", "garbled"},
           name : {0} \cup Names, hash : {0} \cup {HashOf[n] : n \in Names},
           listed : SUBSET [place : Places, path : DOMAIN PathLength,
                            defined : BOOLEAN]]

\* Sizes fit in 16 bits, offsets of paths are within the file or just past it.
DetailOK(d) ==
    \A kind \in ToSet(d.kinds) :
        /\ Cardinality(kind.defs) < Word /\ Cardinality(kind.decls) < Word
        /\ \A p \in kind.defs \cup kind.decls : p.path \in 1..Len(index.files) + 1

TypeOK ==
    /\ defines \subseteq Providers /\ declares \subseteq Providers
    /\ users \in [Uses -> Nat]
    /\ pc \in {"index", "written", "failed", "ready", "search", "lookup", "done"}
    /\ Len(index.details) = Len(index.symbols)
    /\ Len(index.hashes) = Len(index.symbols)
    /\ \A d \in ToSet(index.details) : DetailOK(d) /\ Len(d.kinds) < Word
    /\ query \in Queries \cup {NoQuery} /\ skip \in Skips \cup {0}
    /\ offset \in 0..Len(index.symbols) + 1 /\ matched \in Nat
    /\ Len(data) <= MaxResults /\ \A r \in ToSet(data) : r \in Result
    /\ page \in Result

\* A page of results is exactly the next MaxResults of all the names that
\* match, in the order of the index: starting at the first name as long as the
\* prefix misses none. (Where no detail fails to read: HandleSearch then drops
\* the result, and goes on to the next.)
SearchExact ==
    (pc = "done" /\ query # NoQuery /\ \A d \in 1..Len(index.details) :
                                            Readable(d) /\ InRange(d))
    => LET all == Selected(index.symbols, query.matches)
       IN [i \in 1..Len(data) |-> data[i].name]
            = SubSeq(all, skip + 1, Min({Len(all), skip + MaxResults}))

\* Answers to a search or on a page.
Answers == {page} \cup ToSet(data)

Recordings(name) ==
    {[place |-> p.location, defined |-> TRUE]  : p \in {q \in defines : q.name = name}} \cup
    {[place |-> p.location, defined |-> FALSE] : p \in {q \in declares : q.name = name}}

Faithful(listed, recordings) ==
    /\ \A l \in listed :
           /\ [place |-> l.place, defined |-> l.defined] \in recordings
           /\ PathFits(PlaceFile[l.place]) => l.path = PlaceFile[l.place]
    /\ \A c \in recordings :
           Cardinality({e \in recordings : e.defined = c.defined}) < Word
               => \E l \in listed : l.place = c.place /\ l.defined = c.defined

\* What is listed for a symbol was recorded under its name, and at the path of
\* its own file, unless that path is too long to be written. Everything
\* recorded is listed, unless there is too much of it for 16 bits.
ListedRight ==
    \A r \in Answers : r.status = "shown" => Faithful(r.listed, Recordings(r.name))

\* A page shows a symbol that has the hash asked for, and says that there is
\* none only when no name in the index has it.
PageRight ==
    (pc = "done" /\ outcome # "none") =>
        /\ page.status # "none" =>
               page.hash = wanted /\ HashOf[page.name] = wanted
        /\ outcome = "missing" =>
               \A n \in ToSet(index.symbols) : HashOf[n] # wanted

\* The search of the hashes is that of HashLookup: it is only ever given a
\* sorted table, so what is proved of HashLookup is true of it here.
LookupSpec == Lookup!Spec

\* Every request that is being served is answered.
RequestsAnswered == (pc \in {"search", "lookup"}) ~> (pc = "done")

\* "Sorted by shortest symbol first. Within shortest symbol, sorted by best
\* symbol." (src/cindex.h:39), the higher score being the better one
\* (src/indexer.cc:415).
BestFirst ==
    pc = "written" => \A i, j \in 1..Len(index.symbols) :
        LET m == index.symbols[i]  n == index.symbols[j]
        IN i < j /\ NameLength[m] = NameLength[n] => ~ScoreLess(m, n)
=============================================================================
