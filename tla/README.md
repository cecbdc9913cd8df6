# sbexr in TLA+

sbexr indexes C and C++ code with clang and serves the result as browsable,
searchable pages. This directory holds TLA+ models of the parts of it whose
correctness is hard to see or to test, the TLC configurations that check them
on small instances, and proofs, checked by TLAPS, of what holds for instances
of any size.

## 1. The system

| component | source | state | operations |
|---|---|---|---|
| Tag server | `server/db/tagset.go`, `server/main.go`, `server/db/binarysymbols.go` | per tag: handler, time of its sentinel, registered or not, read/write lock; the page urls | `TagSet.Update`, `AddHandlers`, `Tag.HandleSearch`, `HandlePage` |
| Index publication | `src/indexer.cc` (`OutputBinaryIndex`), `src/sbexr.cc`, `utils/kernel` | index files of each version, the "latest" links, the completed files | writing the files, the driver's loop, `UpdateLatest`, `RestartServer` |
| Binary index format | `src/cindex.h`, `src/indexer.cc`, `server/db/binarysymbols.go` | records and offsets in six files | `OutputBinaryIndex`; `LoadSymbols`, `HandleSearch`, `GetSymbolDetails`, `GetHashData` |
| Indexer | `src/indexer.h`, `src/indexer.cc`, `src/ast.h` | symbols, their kinds, definitions, declarations and uses | `RecordDefines`, `RecordDeclares`, `RecordUse`, `RecordException`, `OutputBinaryIndex`, `OutputJsonIndex` |
| String pools | `src/mempool.*` | a growing vector of bytes, a table of the strings in it | `Allocate`, `Return`, `Create`, `Drop`, `Clear` |
| Html rewriter | `src/rewriter.*` | the tags of a file | `Add`, `Generate` |
| Preprocessor tracker | `src/pp-tracker.*`, `src/wrapping.*` | stack of files and conditional blocks | `FileChanged`, `If`, `Elif`, `Else`, `Endif` |
| File cache | `src/cache.*` | files by path; the last one looked up | `GetFileFor`, `GetNormalizedPath`, `GetUserPath` |
| File renderer | `src/renderer.*` | tree of directories and files | `GetFileFor`, `GetDirectoryFor`, `RenderFile`, `ScanTree`, `Output*` |
| sbexr pipeline | `src/sbexr.cc` | the compilation database, the objects above | the loop over compile commands, then the output in order |
| Kernel driver | `utils/kernel`, `utils/publish` | tags on disk and in git | `FilterTags`, `SortTags`, `UpdateLatest`, `main` |
| Source server | `server/http.go` | lists of files and directories of each tag | `ServeHTTP`, `Update`, `getIndex` |
| Tree and string search | `server/db/tree.go`, `strings.go` | none | `LoadJsonTree`, `CaseContains` |
| Search boxes | `static/jquery.autocomplete.js`, `static/local.js` | per box: text, query, suggestions, what is drawn, the selection, the cache, the bad queries, requests under way | the handlers of keys, the mouse, the focus, the timer and answers |
| Page of a file | `static/local.js`, `static/animated-modal/animatedModal.js` | the box shown and the one to go back to, the focus, two screens, the HEAD requests of the menu of tags | `keyHandler`, `searchHandler`, `tagPicker`; `open`, `close`, `toggle` |
| Visits and cookies | `static/local.js`, `static/js.cookie.js` | the cookies of a browser, what each tab knows of them | `showAbout`, `showNews` |
| Bootstrap widgets | `static/bootstrap/js/bootstrap.js` | per widget: its classes, its timeouts, the handlers that wait for a transition | carousel, collapse, tooltip, scroll spy, modal, affix |
| Dropdown menus | `static/bootstrap/js/dropdowns-enhancement.js` | the open menus, the entry with the focus, the radio buttons | `toggle`, `keydown`, `closeOpened`, `change` |
| Metrics page and its charts | `static/metrics.js`, `static/graphs/metricsgraphics.js` | data, labels and restriction of each metric; per chart: domain, zoom, brush, rollover, line | `ShowGraph`, `ShowLabels`; `data_graphic`, `zoom_to_data_domain`, the brush |
| Validator, sitemap, counters, templates | `validator`, `sitemap`, `src/counters.*`, `server/templates` | none that outlives a run | |

How they interact. `utils/kernel` loops over the versions of a source tree and
runs `sbexr` for those that need it. `sbexr` parses each compile command; the
tracker, the renderer and the syntax tree visitor fill one rewriter per file and
one indexer, all through the file cache and the string pools; at the end the
indexer writes the files `index.<tag>.*` in place. The kernel driver then moves
links called "latest" and kills the server, which a supervisor starts again. The
server's only writer is the `Updater` goroutine: every ten seconds it looks at
the directory, maps what is newer and swaps it in under the lock of its tag.
Requests run in goroutines of `net/http`. Nothing but files and modification
times passes between sbexr, the driver and the server.

A page runs in a browser by itself. Its scripts share the document: one focus, one
set of handlers for each kind of event, and the cookies of all tabs. They ask the
server for suggestions, for the content of a screen, for the news and whether a
tag has a page, and go on while the answers are under way. The widgets change
classes and wait for the style sheet's transitions to end.

### What is hard

* **Interleaving.** Searches read a handler under a `sync.RWMutex` while the
  Updater waits to replace it; pages take no lock. The mapped files are rewritten
  under the server by the next run of sbexr.
* **Ordering.** Six files and a sentinel are written in one order and mapped in
  another; the links of "latest" are moved one at a time; the sentinel's time is
  taken before the load.
* **Failure.** sbexr may be killed or fail to write a file without noticing; a
  load may fail half way; a search that panics skips its `RUnlock`; the server is
  killed on purpose at any point.
* **Progress.** The driver's loop stops at the first version that is up to date;
  one Updater serves all tags and waits for readers.
* **Answers out of order.** A box forgets a request and does not stop it; two
  requests of one choice, the requests of two tabs, and the content of a screen
  arrive when they may.
* **Transitions.** A widget is told to go while it comes and to come while it goes;
  what one adds to the page has to be taken away by callbacks that others may
  come between; timeouts outlive their reasons.
* **Kept positions.** A scroll spy, an affix and a zoomed chart act on what they
  measured at an earlier event.
* **Arithmetic.** Sizes in 16 bits, offsets in 32, sums of them; a binary search;
  a table indexed by the length of a prefix; keys packed in an `int`.

`PROJECT.json` lists each of these at its line, with the properties that cover it
or why none does.

### What makes each component correct

| component | properties |
|---|---|
| Tag server | a search is an atomic read of one publication, answers never go back in time, no swap under a reader, locks are held by who says so, what is published gets served, every search is answered |
| Index publication | once things settle the server shows the files of one run; the newest version ends up served, and each older one that no new sbexr has cut off |
| Binary index | what is recorded is found: pages of results miss and repeat nothing, a hash leads to its symbol, each place is listed with its own path; every lookup ends |
| Search boxes | a box suggests what was last asked for, draws what it selects from, and moves to nothing its user has not seen |
| Page of a file | one box, that the menu and the focus agree on; a screen is all there or not at all, and goes when it is told to; each tag picked is answered once, by its index only when it has not the page |
| Visits and cookies | news that a cookie counts as past were shown |
| Widgets, menus | what was asked for last is what is there once things rest; nothing is left behind; one panel, one branch of menus is open |
| Charts | a chart shows what its buttons say, behind whatever zooms; what is said of a point is of one it has |
| String pools | an interned string keeps its offset and its bytes; equal strings have equal offsets; an offset never wraps |
| Html rewriter | tags nest; everything opened is closed, in reverse order; the text of the file is not lost |
| Preprocessor tracker | pushes and pops match through ignored files; each conditional block is closed in the file it opens in |
| File cache | one path has one parsed file; an answer kept from a dead source manager is never used |
| File renderer | every file has a chain of parents up to a root |
| Kernel driver | the order of versions is total; cleaning one tag leaves the files of the others |
| Source server | a request sees one list, not parts of two |

## 2. Modules

| module | extends / instantiates | models |
|---|---|---|
| `GoRWMutex` | | Go's `sync.RWMutex` as `tagset.go` uses it (external): a waiting writer stops new readers, and waits for those it found |
| `TagServer` | `GoRWMutex`, `TagStore` | the Updater and the requests |
| `TagStore` | | what the tag server promises to those who search |
| `TagServer_proofs` | `TagServer`, `TLAPS` | the proofs about it |
| `IndexReload` | | sbexr writing, the driver, the server mapping |
| `IndexReload_proofs` | `IndexReload`, `Lists_proofs` | the proofs about it |
| `SymbolIndex` | `HashLookup`, `Lists` | indexer, binary files, search and pages |
| `Lists` | | what sorting and filtering make of a set or a sequence, without recursion |
| `Lists_proofs` | `Lists`, `TLAPS` | that they are sorted, complete and in order |
| `SymbolIndex_proofs` | `SymbolIndex`, `Lists_proofs` | the proofs about it, and about `HashLookup` |
| `HashLookup` | | the binary search of `GetHashData` |
| `HtmlRewriter` | `Lists` | tags put into the text of a page |
| `HtmlRewriter_proofs` | `HtmlRewriter`, `Lists_proofs` | the proofs about it |
| `Autocomplete` | | a search box: every handler of the plugin |
| `Adapters` | | what `local.js` makes of the answers of the search service |
| `Autocomplete_proofs` | `Autocomplete`, `TLAPS` | the proofs about it |
| `SearchPage` | `AnimatedModal` | the page of a file: keys, boxes, screens, the menu of tags |
| `AnimatedModal` | | one screen |
| `Visits` | | tabs that share cookies |
| `Transition` | | how a widget waits for the end of a transition |
| `Carousel`, `Collapse`, `Modals` | `Transition` | widgets of bootstrap.js |
| `Tooltip`, `ScrollSpy`, `Affix` | | widgets of bootstrap.js |
| `Dropdowns` | | the menus |
| `Widgets` | `Carousel`, `Collapse`, and an instance of each of `Tooltip`, `Modals`, `ScrollSpy`, `Affix` | the widgets together |
| `Metrics` | `Chart`, which extends `Lists` | the page of the metrics, and the charts it draws |
| `Metrics_proofs` | `Metrics`, `Lists_proofs` | the proofs about it |
| `Browser` | `SearchPage`, `Visits`, `Dropdowns`, `Widgets`, `Metrics` | the pages in a browser: the parts side by side |
| `Browser_proofs` | `Browser`, `Metrics_proofs` | the proofs about the page, the visits, the menus and the widgets, and the types of all |
| `MCBrowser` | `Browser` | constants for TLC, and one part moving in each behaviour |
| `MCIndexReload` | `IndexReload` | constants for TLC, and `VersionsServed` with its history variable |
| other `MC*` | one of the above | constants for TLC |

### TagServer

One action for each stretch of code that touches shared state. `ReadDir`,
`StatNewer` / `StatSkip`, `LoadFails`, `LoadFirst` / `LoadAgain`, `AcquireLock`,
`Swap`, `ReleaseLock`, `NextTagSet`, `ScanDone`, `AddHandler` and `Sleep` are the
Updater of `main.go` going through `SingleDirTagSet.Update` for its two tag sets
and through `AddHandlers`; `upc` is its program counter and `info`, `fresh` its
locals. `Search`, `Scan`, `Panic`, `Answer` are `Tag.HandleSearch`; `HandlePage`,
`PageSent` the page closure of `AddHandler`, whose captured handler is `pager`.
`Publish`, `Remove` and `Restart` are the environment: the driver's effect on the
directory and on the process. An index is the number of its publication and the
time of its sentinel; the two differ when a link moves back to an older index
(`Relinking`). `seen` and `floor` are history variables.

`LocksAccounted` and `ServerInv` are stated over the whole of this state;
`ImplementsStore` instantiates `TagStore` with what each tag serves, each client
asked and each search read: whatever the locks and the loads do, a search takes
effect at one instant, and what a tag serves only moves to newer publications
until the server restarts.

### IndexReload

`content` holds, for each version and file, the run of sbexr that wrote it and
how much of it is there. `OpenGroup`, `FlushSome` and `CloseGroup` are the streams
of `OutputBinaryIndex` (truncated when opened, flushed at any time, complete when
closed), in the order of the code; `Killed` ends a run between any two. `WakeUp`,
`RunSbexr`, `Completed`, `Failed`, `FlipLink`, `RestartServer` and `GoToSleep` are
the driver's loop. `Stat`, `MapFile` and `WalkSymbols` are the server, one file
mapped per step; `BusError` is the end of a process that touches a mapping whose
file has shrunk. A handler is a set of mappings, and what it shows is what is in
the files now.

### SymbolIndex and HashLookup

`RecordUse`, `RecordDefines` and `RecordDeclares` fill the indexer. One action,
`OutputBinaryIndex`, writes the whole index: names grouped, scored and sorted
(`SymbolLess`), those with sizes beyond 16 bits left out (`Fits`), the places of
each kind collected by name and without repetition (`Listed`), the offsets of
paths (`FileOffset`), and the sorted table of hashes. The server loads it
(`Mappable`, `MinOffset`) and then answers one request at a time, since nothing
it reads changes: `HandleSearch` starts a scan that `NoMatch`, `SkipResult`,
`ReturnResult`, `DropResult` and `SearchEnds` carry out a name at a time;
`HandlePage` starts a lookup whose steps (`LookUp`) are those of `HashLookup`, and
`PageFound` / `PageMissing` answer it. An offset is the number of the entry it
falls on. What a record holds of names, paths and hashes is a length, an order
and an equality. The order of the files is that of addresses in memory, so any.
A list that follows a kind with 2^16 places or more cannot be found (`Readable`):
its detail is then an error or garbage, either one.

`LookupSpec` says that the lookups of `SymbolIndex` are behaviours of
`HashLookup!Spec`, whose only demand on the caller is a sorted table. So what is
proved of `HashLookup` for every table holds of every index written.

### HtmlRewriter

`Add` collects tags in any order. `Generate` first files each under the offset it
opens at (`AddOpen`: repeated ones dropped) and then visits the offsets in order (`Stop`):
the text up to there (`Copy`), what closes (`Close`), what opens (`Open`), and the closing of
what has been opened filed under its own offset, under a key made of the offset and the order
of opening, in an `int` that can wrap (`Key`). A step writes one item of the page, or the two
of a tag that closes where it opens. The multimaps of an offset are the sets `opens[o]` and
`closes[o]`, gone through by taking the first in the order of the keys (`OpensBefore`,
`ClosesBefore`: equal keys as they were added). An entry of `closes` also has the place on the page where
its tag was opened, which is the order of adding. Offsets are added to while they are visited, as in the
code's map. An offset may be negative (never opened, or never closed) or past the text.

`WellFormed` says that there is a pairing of what closes with what opens: of one name,
the other way round, and no two crossing.
`Nested` has three conditions, each of them needed: ranges that do not cross, none
empty, keys that fit. `Placed` has none.

### Autocomplete and Adapters

`box` is the plugin's object for one input. A function that handlers call is an
operator from the object to the object (`Hide`, `Select`, `Suggest`,
`GetSuggestions`, `OnValueChange`, `OnKeyUp`, `ProcessResponse`, `OnKeyPress`, each
with all of its early returns), and an event is an action that applies them.
`requests` counts the requests under way for each query: `abortAjax` only forgets
them. `broken` says that drawing the list threw half way: `highlightMatch` puts the
query into a regular expression as it is, so that a query as `operator(` throws in
the box for symbols. `list` is what is on the page, `suggestions` what an index
into it selects. `MCAutocomplete` takes its options from `local.js` and makes its
answers with `AdaptSymbolResult` and `AdaptFileResult`.

`Moves`, the allowed moves, has two alternatives: the suggestion is drawn at the place
selected or clicked on, or its name is what was typed.

### SearchPage and AnimatedModal

`current`, `old` and `checked` are the variables of `searchHandler` and the radio
buttons; `SetBox`, `ChangeBox`, `PushBox`, `Radio` and `Enter` its functions, of which
a key, a click and Return call one each. A command key counts while nothing with a
type has the focus (`IsRelevant`). Screens are values of `AnimatedModal!Modal`: `Toggle`,
`Arrive`, `Lost`, `AnimationEnd`, `Escape` and `ClickOn` make one of another, so that the
page's two screens, which listen to the same document, are composed in `SearchPage`.
`Pick`, `HeadFound` and `HeadFails` are `tagPicker`: each pick has requests of its own, for the same page of its tag and
then for its index; `found` and `refused` remember the answers.
A suggestion chosen in an open list is one action, `ChooseSuggestion`: the rest of what
a box does is in `Autocomplete` and touches nothing of the page's.

### Visits

`Load` runs `showAbout` and the part of `showNews` before its request, with what the
cookies say then; `NewsArrive` writes what follows from it, over what other tabs have
written. `Quit` ends the session and its cookies. The clock is in units of the
two windows of `showNews`.

### The widgets

A class, a handler or an element is a field; a transition is `waits`, the handlers
that an element has for its end, run together by one action (`Transition`), which the
timeout of `emulateTransitionEnd` may be as well as the browser. `Carousel` has the requests
that wait for `slid.bs.carousel` and run in its timeout (`Slid`); `Collapse` the panels of
a parent, with the objects that a click makes, what making one sets the triggers to (`Construct`), and what `show` forgets; `Tooltip` its three
states and two timeouts; `Modals` the backdrop and what is added to the body; `Dropdowns`
the tree of menus and `openedEl`. `ScrollSpy` and `Affix` keep what they measured;
`events`, of the spy, is a history variable.

### Metrics and Chart

`Chart` has the functions of the library that `metrics.js` reaches with its options: the
points sorted into a clone (`ByTime`), domains with the inflated axis of values, the line
and its transition, the rollover of points and of a single one, the zoom that keeps where
it came from, and the brush. `Metrics` composes the charts of a page: the handlers of a
brush are on the document, under a name that is the same for every chart, so those of the
chart drawn last get every move and release (`brush`, `button`).

### Widgets, Browser and MCBrowser

The parts of a page keep variables of their own and act on events of their own, so `PagesSpec` and
`WidgetsSpec` are the conjunctions of their specifications. `MCBrowser` has TLC explore one part at a time
(`part` says which) while the others stay in a first state: as they share no variable, what
holds of each alone holds of them together. All of their properties are checked by one run.

## 3. Runs

| run | checks | shows |
|---|---|---|
| `safety` | `TypeOK`, `ServerInv`, `LocksAccounted`, `SearchNeverOlder`, `SwapAlone`, `ImplementsStore` | two tags, two clients, two publications, a link moved back, a fault, a restart, prefixes that panic: searches are atomic and never go back |
| `live` | `ChangedNotAhead`, `ChangesServed`, `SearchesAnswered` | with no link moved back and no panic, everything published is served and every search answered |
| `page` | `PageShowsResult` (violated) | pages come from the handler of the registration, older than the results after a reload |
| `panic` | `ChangesServed` (violated) | a prefix longer than every name panics with the read lock held; no reload ever comes again |
| `faults` | `SettledWhole` | three files, files that silently fail to be written: when the server has nothing newer to load and the disk is complete, so is what it serves |
| `reload` | `TypeOK`, `LatestServed`, `VersionsServed` | three versions, a new sbexr, a killed run: the newest version ends up served and, if no run fails, so does each one down to the one that a new sbexr came upon |
| `find` | `TypeOK`, `SearchExact`, `ListedRight`, `PageRight`, `LookupSpec`, `RequestsAnswered` | up to four records, every order of files: what is recorded is found, with the right places |
| `best` | `BestFirst` (violated) | among names of one length the lowest score comes first, although the comments promise the highest |
| `markup` | `TypeOK`, `Nested`, `Placed` | up to three tags in any order, equal, nested, crossing, past the text: the page is well formed and each tag is where it should be, once |
| `empty` | `EmptyNested` (violated) | a tag around nothing is closed before it is opened |
| `search` | `TypeOK`, `LatestAnswer`, `ListInStep`, `MovesToShown` | both boxes, with typing, keys, clicks, failures and late answers: suggestions are of the latest query, the list and the selection agree, and the page moves to nothing unseen |
| `browser` | `TypesOK`, `OneBox`, `ScreensWhole`, `PicksAnswered`, `Goes`, `NewsKept`, `Settled`, `OneOpen`, `NotLeftBehind`, `OneBranch`, `SpiesRight`, `Belongs`, `WholeBehindZoom`, `SaidOfShown` | the page, the visits, the widgets and the charts, each with its events in any order |

### Bounds

* `TagServer`: two tags, one in each set, so that the Updater holds one while the
  other is searched; two clients, so that one reads while the other waits behind
  the writer (they are interchangeable: `SYMMETRY` in `safety`, which has no
  liveness property); two publications, which one tag can have both of; one fault
  and one restart at any point. `LongestName` is 1, then 2, and `Prefixes` are 1
  and 2, so that a prefix is too long for one index only. The theorems drop all
  of these bounds.
* `IndexReload`: one upgrade, one killed run or one fault. `reload` has three versions, which is
  what it takes for a new sbexr to come upon a run of one that is neither the newest nor the oldest;
  when a run is killed there are two (`MaxKilledKnown`), one that is killed and one to go back to.
  `faults` has two versions and follows three data files: the first written, one in the middle and the last
  mapped; `reload` follows two. The order of the others repeats theirs.
* `SymbolIndex`: five names of lengths 1 to 3, two with the same hash, one too
  long; three files, one with a path too long; a name of two kinds with up to
  three places; `Word` is 3 in place of 2^16 and `MaxResults` 2 in place of 30, so
  that lists that are dropped, lists that cannot be stepped over, wrong offsets
  and second pages all occur with four records. Lookups are of tables of up to
  four entries, with the hash there, missing or twice.
* `HtmlRewriter`: three tags, which is what it takes for one inside another beside a
  third at the same offset, with two names and two tags of one name; a text of
  three characters and offsets up to one past it; keys of 4 orders, in integers
  below 15, so that the last offset overflows.

* `Autocomplete`: the two boxes of the page, which differ in their options; four
  texts, of which one begins with another, two differ in case, and two cannot be
  made a regular expression; a suggestion with several kinds, a list of one, an
  empty list and no list. One request under way per query, two queries and more
  at once; a selection may run one past the longest list (`MaxIndex`).
* `SearchPage`: two boxes, one of them the box for lines, which is the special one; one
  line, so that a number is past the last. Two tags and two picks (`MaxPicks`), of two tags or
  of one tag there and back: their requests, two of each, are under way at once and answer in any
  order. Two requests for the content of each screen (`MaxGets`): every toggle before the content
  has arrived makes one, so that the second may arrive after the first has shown the screen and its
  user has closed it. The theorems drop these bounds.
* `Visits`: two tabs, two news, four ticks, a window of one tick to show and of two to fetch.
* The page of a file is explored in three parts (`SiteNext`): the boxes with the screen about the site, the two screens
  with a focus that comes and goes, the boxes with the menu of tags. The help screen is made of the same operator as the
  other, and the tags share nothing with the screens.
* `Carousel`: three items and two requests that wait. `Collapse`: three panels of an
  accordion, none of them open in the markup (see section 5). `Tooltip`: hover and focus with
  and without a delay, and click; four handlers that wait at once (`MaxWaits`). `Modals`:
  every combination of its options. `Dropdowns`: two menus, one of them with two inside.
* `ScrollSpy`: four pages, two of one height, which the plugin cannot tell apart and the
  property does not ask it to; events since the page is as it is are counted up to two. `Affix`: three heights.
* `Metrics`: two metrics with several answers each, one not sorted, one of one point, one
  empty; two labels; two places of the mouse, which are the corners of a selection.

`CHECK_DEADLOCK FALSE` is used where the system may stop: in `search` and `browser` a page
whose requests and boxes are at their bounds; in `safety` and `panic`
clients that panicked stay with their lock and the Updater waits for them; in
`find` and `best` an index that cannot be loaded ends the model; `markup` and
`empty` end with the page.

### Fairness

Weak fairness, of what runs by itself. The Updater's loop never ends and waits
ten seconds at most; goroutines that can run are run, and `RWMutex` lets the
readers it blocked go first when a writer leaves, so neither side starves. The
driver and sbexr are processes that go on until they are killed. `Serve` in
`SymbolIndex` is a request that has started. `Goes` rests on the
end of an animation of a screen (`AboutAnimated`), which the browser brings to every animation
it has started; the keys, clicks and answers that it races are not fair.
Nothing else of the environment is fair:
publications, removals, faults, kills, restarts and new requests may never come.
`LatestServed` and `VersionsServed` are about what is the case in the end, after
the bounded number of upgrades and kills. `VersionsServed` is stated in `MCIndexReload`,
with a history variable: `overtaken` is the version, not the newest, whose run was under way when
sbexr was last replaced. Those below it are not promised anything (section 5).

## 4. Proofs

`TagServer_proofs`, for any tags, clients, prefixes and bounds:

* `ServerInvariant`: `Spec => []ServerInv`. `LocksAccounted` and `SearchNeverOlder`
  are not inductive: that an answer is no older than what was seen needs the order
  of publications along disk, loaded, served and seen (`GenerationsOrdered`), that
  what the Updater is about to swap in is newer than what is there (`UpdaterOK`),
  and that a client who has an answer still holds the lock (`ClientsOK`). One lemma
  per action shows that it keeps `ServerInv`, part by part.
* `TypeCorrect`, `LocksAreAccounted`, `SearchesNeverOlder` follow from it.
* `SwapsAlone`: only `Swap` replaces a handler, and it runs when the lock is held
  with no reader in it.
* `ServerImplementsStore`: each action is a step of `TagStore` or a stutter under
  the mapping above. `Swap` is `Serve` because of `UpdaterOK`.
* `ChangedIsNotAhead`: `ChangedNotAhead` under `~Relinking`, with `TimesOrdered` as
  the strengthening. With links moved back the time of an index says nothing of its
  age, and the formula is false.

The assumptions are `ConstantsAssumption` of `TagServer`, which TLC evaluates too.

`SymbolIndex_proofs`, of `HashLookup`, for every sorted table of any length and every hash:
`LookupInvariant` (entries left of the range are smaller, entries right of it are
greater), `LookupCorrect` (`LookupRight`) and `LookupEnds` (the range shrinks with
each iteration, so the loop ends). There are no assumptions but that the caller
gives a sorted table, which `LookupRefined` proves of `SymbolIndex`.

`Lists_proofs`, of any set and any sequence: a set whose order is one (`Orders`) is put in order by
`SortedSeq` without loss (`RankedIsSorted`), and `Selected` returns as many as are `Held`, in their places
(`SelectedFacts`). `Lists` says what sorting and filtering return by counting what comes before,
which needs no recursion; `MCSymbolIndex` has TLC compare it with the library's `SetToSortSeq` and `SelectSeq`.
`LeastNatural` is what stands in for induction where there is a newest version or a first name as long as.

`SymbolIndex_proofs`, of the index, for any names, places, kinds, records, sizes and requests:

* `IndexInvariant`: `IndexInv` says what the server may rely on (`IndexOf`): names by their length, a detail
  for each, every place at the path of its own file, hashes in order and those of all the names. `IndexWritten` proves it of
  what `OutputBinaryIndex` writes, with a lemma each for the names, the hashes, the offsets and the lists of places;
  no step of the server changes any of it (`ServingKeepsIndex`).
* `LookupRefined` (`LookupSpec`): a table of hashes is sorted when it is given to the search, so each step of a page is a step of `HashLookup`
  or a stutter; `LookupInvariant` and `LookupCorrect` are then cited, not proved again.
* `RequestInvariant`: `ScanOK` says where a scan is by counting: `matched` is how many names before `offset` match, and what is
  returned are those of all matches after the first `skip`. That nothing is missed before the first offset is `MinOffsetFacts`:
  no shorter name can have the literal prefix.
* `ListedIsRight`, `PageIsRight`, `SearchIsExact` and `IndexTypeCorrect` follow from the two. `SearchIsExact` keeps the condition
  of `SearchExact`: where a detail fails to read a result is dropped.

The assumption is `IndexAssumption`: what is recorded is finite, and a name is no shorter than the literal prefix of an expression
that matches it. TLC evaluates it.

`IndexReload_proofs`, for any files, versions and numbers of upgrades, kills and faults: `SettledWhole` is about a server at rest,
but whether what it maps is whole is settled while sbexr is still writing. `Follows` is what remains true then: if the index on disk is now
complete, of run r, and the server keeps the time of run r, then all it has mapped is of run r and whole. It is inductive because times identify
runs: a sentinel has the time of its run, no time is of a run to come (`NotAhead`), and while a run writes, no whole
sentinel is of that run, so the time that the server has read before is of another. `Together` says where the processes can be
at the same time. `ReloadTypeCorrect` is `TypeOK`; `ServedIsWhole` is `SettledWhole`.

`Autocomplete_proofs`, for any texts, suggestions, options, services and bounds:
`Sound` joins the type without the bounds of the model, what the suggestions may be
(`Latest`), that the empty text is never asked for (`NeverEmpty`: without it the
answer to the empty text could be shown in a box that hides) and that the list is
the suggestions (`InStep`). The functions of the plugin are operators on objects, so
each has a lemma that it keeps `Sound`, also from the objects half way that the others hand
to it, and the step of an event follows from those it calls. `TypeCorrect`,
`AnswersLatest` and `ListsInStep` are its parts. `MovesToWhatIsShown` has a second
row of lemmas, on where each function moves the page, and needs `InStep` to know that
the suggestion at an index is the one that was drawn there.

`Browser_proofs`, of the search page, for any set of boxes, lines, tags and requests: the boxes, the screens and the menu
share only the focus and have an inductive invariant each. `OneBoxShown` rests on
`BoxInv` (what is gone back to is a box); `ScreensAreWhole` on `ScreenInv` (what is loaded has
content, what is open is loaded, and no more was put into a screen or is under way than was asked for), for any number
of requests: it is the safe half of `Goes`, that a closed screen has what takes it out bound to an animation that goes on;
that the animation ends is fairness. `EveryPickAnswered` is of any number of picks: `TagInv` joins the types of the
requests to `PicksAnswered`, which is then inductive. `TypeCorrect` on all.
The assumptions are those of the modules; TLC evaluates them.

`Browser_proofs`, of the visits, for any tabs, windows, news and moments: `NewsKept` is about the cookie, but what a cookie
becomes is what some tab read before, so `VisitsInv` says the same (`Right`) of what each tab that
waits for the news has read. `RightGrows` is why old readings stay right: news are only added, and so are those
shown. `Answered` is right because `Shown` is counted from where the reading stands. The
assumption is `VisitsAssumption`: the bounds and the windows are natural numbers, and no
value of a cookie or a request is the one that says there is none. `MCBrowser` has TLC evaluate it.

`Browser_proofs`, of the menus, for any menus within menus, entries and choices: `Branch` is `OneBranch` of an object, with "no two
of what is open are within another" in the place of the count, so that the provers need no cardinality
before the last step. `CloseForCloses` says all that closing leaves open, and `ToggleMenu` opens beside it.
`DropdownsAssumption` says that menus are two deep, which is as far as `Tree` goes (`getSubMenuParents`
goes on to the root of deeper ones); `MCBrowser` has TLC evaluate it.

`HtmlRewriter_proofs`, for any text, tags, offsets and widths: a page is finished long after a tag
was put on it, so `PlaceInv` follows each tag from one place to the next. It is to be opened
at its offset or on the page, never both (`OpensOnce`, `OpenItems`); what is on the page as opened
is closed there or left to close, by an entry of its own (`Entries`, `CloseItems`); and what is left to close is at an
offset to come (`ClosesLeft`), but for tags that close beyond the end of the text and not after they open: these are why
`Placed` excepts empty ones there. `TagsPlaced` and `TypeCorrect` follow without a condition on the tags.
`PageNested` needs more: that what is left to close is in the order of opening
(`InOrder`: by offset, then by order, those that close later first), and that no more orders are given out at an offset
than it has tags (`Counted`, by an injection of what is left to open into the tags), so that keys that fit are
in that order too (`KeysOrdered`). `CloseNests` is the heart of it: what was opened
after the tag that is closed and is still open would either close here too, and have the larger key, or later, and cross
it. What `Nested` supposes of the tags enters only there and in `OpenNests`.
`RewriterAssumption` is about constants only: natural numbers, and pairs of integers as ranges; the run `markup` has TLC evaluate it.

`Metrics_proofs`, for any metrics, points, labels, answers and places of the mouse: `ChartRight` says of one chart what it is of, with
the range behind its zooms, its line and what is said of a point, and each function of `Chart` has a lemma that
it keeps it; `DrawRight` needs nothing of the chart before, which is why one may be drawn anew in the middle of
anything. `MetricRight` ties it to the page: the labels that look pressed are those it is restricted to, and each is
of some point there is. So some points are left (`FilteredFacts`), and no click finds nothing to draw, which would leave the chart
of other labels. `WholeIsBehindZoom`, `SaidIsShown` and `PageTypeCorrect` follow. Two facts are about data: sorting points that came in the order of
their times moves none of them (`ByTimeFacts`, by counting), and some numbers have a least and a greatest (`LeastAndGreatest`).
`MetricsAssumption` says that what the service answers are points with integers for times and values; `MCBrowser` has TLC evaluate it.

`Browser_proofs`, of the widgets, under `WidgetsAssumption`, which TLC evaluates as part of `BrowserAssumption`:

* `CarouselSettles`, for any number of items, wrapping or not, and any bound on the requests that wait. `CarouselRight` adds
  to `Settled` that what slides in waits for its end. The requests that wait for `slid.bs.carousel` run one after the other, each on
  what the one before left, half way through the event; `LoopRuns` (`Lists_proofs`) is the rule for such loops, by `LeastNatural`.
* `OnePanelOpen`, for any panels, in an accordion or not. `PanelsRight`: a panel rests or moves, and says
  so in its class, its object and its handlers alike; one that is not closed has its object; and of an accordion one is
  open or opening, by its class and its handlers (`OpenOrOpening`): what its trigger says does not tell, since the object of another
  panel may have set it to closed. The theorem needs that the markup has no panel
  open (`Opened = {}`): with one it is false, as section 5 says.
* `NoneLeftBehind`, of tooltips for any triggers, delays and number of handlers, and of modals for any options. `TipRight`: a tooltip with
  nothing on that it is for waits for its timeout, or is on its way out by a handler that is set or is about to be run (`ToGo`), and that
  handler finds no hover state that would stop it. `ModalRight` gives the modal five stages, gone, coming,
  shown, hiding and leaving, each with the backdrop, the padding and the handlers that belong to it: a dismissal goes to the next
  stage whenever it comes, and a transition that ends late finds its stage.
* `LinkIsRight`, for any layouts with one target at least and targets in their order: `SpyInv` says that the offsets and the
  height the plugin keeps are of one layout, though not that of the page
  until an event has come since it changed to one of another height. `AtLast` is that its walk over the targets ends
  at the last that is not below the top, wherever it starts.
* `ElementBelongs`, for any heights and offsets that leave room for the element between the two (`AffixAssumption`; in a
  page with less the two conditions of `getState` hold at once). `AffixInv` adds to `Belongs` where
  the element was pinned and that no event takes it from the top to the bottom with the place it had at the top.
* `PagesTypeCorrect`: `TypesOK`, each part by its own invariant.

Only model-checked are the liveness properties `ChangesServed`, `SearchesAnswered`, `LatestServed`, `VersionsServed`,
`RequestsAnswered` and `Goes`: `ENABLED` and fairness are out of the prover's reach. Induction over data and
`RECURSIVE` operators are too, so recursion is written as functions or by counting, and where an
argument goes along the natural numbers it takes the least one instead (`LeastNatural`).

## 5. Findings

Four runs show what the code does against what its comments say: `page`
(`tagset.go:130`), `panic` (`binarysymbols.go:340`), `best` (`indexer.cc:417`) and
`empty` (`rewriter.cc:161`); `PROJECT.json` quotes both sides.

Met while modelling the scripts, and left out of the properties or the models where said:

* `metricsgraphics.js:3827`: the handlers of a brush are set on the document under
  `'mousemove.' + args.target`, an element, which converts to `[object ...`: every
  chart has the same name, and the last drawn takes the moves of all. The model has it so.
* `bootstrap.js:583`: a panel that is open in the markup has no object, so nothing says
  that it closes: two quick clicks on two other panels open both. `OneOpen` is of panels without one.
* `bootstrap.js:555`: the object that the first click on a panel makes goes through the triggers of all panels of its
  accordion (`getParent`) and sets each by its panel's class. A panel that is opening has not yet the class of an open one: its
  trigger then says that it is closed, and still does when it is open. `OneOpen` asks only that no trigger says "open" of a
  panel that is neither open nor opening.
* `bootstrap.js:1946`: targets that move on a page whose height stays are not noticed.
* `bootstrap.js:2246`: at exactly the offset where it changes an affix goes to and fro,
  once per event.
* `animatedModal.js:112`: each showing binds ESC to the document once more, and none is removed. So ESC after a screen was
  closed binds `afterClose` to the overlay that is out of the page, and the next showing is taken out when the animation
  that brings it in ends. The model has it so; `Whole` allows it, since what is open then is still in that animation.
* `kernel:351`: the pass over the versions stops at the first that is done. With three versions and a new sbexr that
  comes while the second is run, the second is done when its run ends; the next passes run the third and
  stop at the second, so that the first is not made again until sbexr changes once more. Likewise a run that fails
  on an older version is not tried again. `VersionsServed` says what is left: every version down to that one.
* `local.js:316`: when tags are picked while answers are under way, the page moves for each that is found: the last
  answer decides where it ends, which may be at an earlier choice. `PicksAnswered` does not ask for the last choice.
* `metrics.js:100`: the label of a point is looked up by its index among the points in the order of their times, in data that
  is in the order it came in. `SaidOfShown` asks for the label only where the two are the same.

## 6. Not modelled

* Of the tag server: the page urls of a tag are registered in an `http.ServeMux`
  that panics on a second registration, which `Registered` prevents; statistics and
  formatting are left out. Memory is not counted: handlers that are replaced are
  never told to `Delete`.
* Of the index: snippets and strings, the json index, files of more than 2^32
  bytes, and the regular expressions themselves (a query is the length of its
  literal prefix and the set of names that match).
* Of the driver: git, the compilation of the kernel, the removal of tags, errors of
  the driver itself.
* Of the pages: highlighting and the wording of suggestions; the options of the plugins that no
  page sets; tabs, buttons, alerts and the dropdowns of bootstrap.js, of which the page
  uses none or replaces them; a modal without a backdrop, or whose trigger the keyboard presses again while
  it fades; menus more than two deep; kinds of charts other than lines, axes, legends and markers, which are drawing.
* The string pools, the preprocessor tracker with the file cache, the renderer and the loop of `sbexr.cc`:
  their callers are the visitor and the callbacks of clang, whose order and offsets decide what they do; what
  reaches the index and the rewriter from them is an input of `SymbolIndex` and `HtmlRewriter`. Hazards seen there:
  offsets of a narrow type (`mempool.h:104`), conditionals matched through ignored files
  (`pp-tracker.h:208`), a kept file of a source manager that is gone (`cache.h:127`), text after the last tag
  that is not copied (`rewriter.cc:111`).
* The source server and the tree search. Hazard seen: lists replaced while they are read (`http.go:149`).
* Of the driver, beyond `IndexReload`: the completed file is written before the output is moved (`kernel:310`), versions
  with different numbers of parts are compared part by part (`kernel:109`), and the pattern that
  finds a tag's files finds those of a longer tag (`kernel:278`).
* Validator and sitemap are tools that read finished output and keep nothing; counters and
  templates do not decide anything. The syntax tree visitor and the printer are, for the most part,
  one callback for each construct of C++ and belong to clang's world.

## 7. What is left

In the order of what it would add:

1. A refinement of `Autocomplete` to an abstract box (a query and the latest answer to it), and
   the composition of two boxes with `SearchPage`, whose keys they share.
2. `StringPools` and an abstract `StringTable` (a map from strings to offsets that only
   grows), with the pool refining the table, `Drop` included.
3. `SourceTracker`: `pp-tracker.*` with `cache.*` below it, with the ranges it asks of
   `HtmlRewriter` in place of arbitrary ones.
4. `KernelTags` (`VersionCompare`, `FilterTags`, `CommitOutputDir` with a crash between any two
   renames) and `SourceServer` (`Update` and `getIndex`, with requests in between).
5. Theorems about these modules. Every safety property of the runs has one now.
