------------------------------- MODULE Visits -------------------------------
(***************************************************************************)
(* The visits to the site from one browser: its tabs, each of which loads  *)
(* pages and runs src/static/local.js on each, and the cookies they share  *)
(* (src/static/js.cookie.js).  A page shows the about screen on the first  *)
(* access, and the news since the last time; the news are fetched, so that *)
(* what a page knows of the cookies may be old when it writes them.        *)
(***************************************************************************)
EXTENDS Naturals, Sequences

CONSTANTS
    Tabs,
    ShowFor, FetchFor, \* showNewsFor and fetchNewsFor, in units of the clock
    Limit,             \* news of the file that are looked at
    MaxNews,           \* bound: news published
    MaxClock,          \* bound: the clock
    Never              \* no cookie, no request

VARIABLES
    clock,
    published,  \* news there are: the file has them from the last to the first
    cookies,    \* the cookies of the browser, by name
    request,    \* of each tab: the configuration its request for the news is made with
    seen        \* history: news a page has shown

visitsVars == <<clock, published, cookies, request, seen>>

Names   == {"sbexrBrowsed", "sbexrNews"}
Moments == 0..MaxClock
Config  == [fetched : Moments, displayed : Moments, last : 0..MaxNews, previous : 0..MaxNews]

-----------------------------------------------------------------------------
(* Cookies.  No attributes are given: a cookie is of path / and lasts as   *)
(* long as the browser runs.  An object is written as JSON and read back   *)
(* by getJSON; a number is written as its digits.                          *)

Json(value)       == [json |-> value]
Digits(value)     == [digits |-> value]
Set(jar, key, text) == [jar EXCEPT ![key] = text]
Get(jar, key)     == jar[key]
GetJSON(jar, key) == IF jar[key] = Never THEN Never ELSE jar[key].json

\* sbexrBrowsed, as a number: 0 when it is not there.
Browsed(jar) == IF Get(jar, "sbexrBrowsed") = Never THEN 0 ELSE Get(jar, "sbexrBrowsed").digits

NewConfig == [fetched |-> 0, displayed |-> 0, last |-> 0, previous |-> 0]
News(jar) == IF GetJSON(jar, "sbexrNews") = Never THEN NewConfig ELSE GetJSON(jar, "sbexrNews")

\* What the constants have to be: there is no cookie and no request that is Never.
VisitsAssumption ==
    /\ ShowFor \in Nat /\ FetchFor \in Nat /\ Limit \in Nat
    /\ MaxNews \in Nat /\ MaxClock \in Nat \ {0}
    /\ \A n \in 0..2 : Digits(n) # Never
    /\ \A config \in Config : Json(config) # Never
    /\ Never \notin Config /\ Never \notin [config : Config, window : BOOLEAN]

-----------------------------------------------------------------------------
\* Twice is as often as matters.
AfterAbout(jar) ==
    Set(jar, "sbexrBrowsed", Digits(IF Browsed(jar) < 2 THEN Browsed(jar) + 1 ELSE 2))

InDisplayWindow(config) == config.displayed > 0 /\ config.displayed + ShowFor > clock
FetchedLately(config)   == config.fetched > 0 /\ config.fetched + FetchFor >= clock

\* A page is loaded: showAbout, and showNews up to its request.
LoadPage(tab) ==
    /\ LET jar    == AfterAbout(cookies)
           config == News(jar)
           window == InDisplayWindow(config)
       IN IF ~window /\ FetchedLately(config)
          THEN /\ cookies' = IF config.previous = config.last THEN jar
                             ELSE Set(jar, "sbexrNews", Json([config EXCEPT !.previous = config.last]))
               /\ request' = [request EXCEPT ![tab] = Never]
          ELSE /\ cookies' = jar
               /\ request' = [request EXCEPT ![tab] = [config |-> config, window |-> window]]
    /\ UNCHANGED <<clock, published, seen>>

Newest(n) == {i \in 1..published : i > published - n}

\* Mutant: only the newest is looked at.
ShownNewest(r) == {i \in Newest(1) : i > r.config.last}

\* What is shown of the news: those since the last visit, or, for some time
\* after news were shown, since the visit before it.
Shown(r) ==
    {i \in Newest(Limit) : i > IF r.window THEN r.config.previous ELSE r.config.last}

Answered(r) ==
    [fetched   |-> clock,
     displayed |-> IF Shown(r) # {} /\ ~r.window THEN clock ELSE r.config.displayed,
     previous  |-> IF r.window THEN r.config.previous ELSE r.config.last,
     last      |-> published]

\* A file with no news has no first one: nothing is written.
NewsArrive(tab) ==
    /\ request[tab] # Never
    /\ seen' = seen \cup Shown(request[tab])
    /\ cookies' = IF published = 0 THEN cookies
                  ELSE Set(cookies, "sbexrNews", Json(Answered(request[tab])))
    /\ request' = [request EXCEPT ![tab] = Never]
    /\ UNCHANGED <<clock, published>>

NewsFail(tab) ==
    /\ request[tab] # Never
    /\ request' = [request EXCEPT ![tab] = Never]
    /\ UNCHANGED <<clock, published, cookies, seen>>

Publish ==
    /\ published < MaxNews /\ published' = published + 1
    /\ UNCHANGED <<clock, cookies, request, seen>>

Tick ==
    /\ clock < MaxClock /\ clock' = clock + 1
    /\ UNCHANGED <<published, cookies, request, seen>>

\* The browser is closed: so are its tabs, and its cookies are gone.
Quit ==
    /\ cookies' = [name \in Names |-> Never]
    /\ request' = [tab \in Tabs |-> Never]
    /\ UNCHANGED <<clock, published, seen>>

VisitsInit ==
    /\ clock = 1 /\ published \in 0..MaxNews
    /\ cookies = [name \in Names |-> Never]
    /\ request = [tab \in Tabs |-> Never]
    /\ seen = {}

VisitsNext == \/ Publish \/ Tick \/ Quit
        \/ \E tab \in Tabs : LoadPage(tab) \/ NewsArrive(tab) \/ NewsFail(tab)

VisitsSpec == VisitsInit /\ [][VisitsNext]_visitsVars

-----------------------------------------------------------------------------
(* Properties.                                                             *)

VisitsTypeOK ==
    /\ clock \in Moments /\ published \in 0..MaxNews
    /\ Browsed(cookies) \in 0..2 /\ News(cookies) \in Config
    /\ request \in [Tabs -> [config : Config, window : BOOLEAN] \cup {Never}]
    /\ seen \subseteq 1..MaxNews

\* However the requests of the tabs cross, and whatever configuration is
\* written over another, the news a cookie counts as past were shown, as far
\* as the file is read, and those of the visit before are among those of the
\* last (showNews).
NewsKept ==
    /\ MaxNews <= Limit => 1..News(cookies).last \subseteq seen
    /\ News(cookies).previous <= News(cookies).last /\ News(cookies).last <= published
=============================================================================
