-------------------------------- MODULE Rates --------------------------------
(***************************************************************************)
(* The exchange rate source: libwallet/ext/rate_source.go, with the        *)
(* settings of libwallet/assets_config.go that drive it.                   *)
(*                                                                         *)
(* Jobs are the goroutines that use the rate source: the hourly refresh,   *)
(* the refresh button, the change of the source, and a page that asks for  *)
(* a rate.  mtx protects tickers and refreshing; source is also written    *)
(* without it, by the fallback loop.  A ticker is the source it came from; *)
(* the dummy ticker of the source "none" has no rate.  Coinpaprika answers *)
(* for all markets at once: its prices go into the cache, from which the   *)
(* one that was asked for is read, without the lock; what is not there is  *)
(* passed on as a nil ticker, and stored.                                  *)
(*                                                                         *)
(* Left out: the end of the program when such a read meets a write of the  *)
(* map within the same instant, which Go's runtime may detect; and the     *)
(* branches of retryGetTicker for a context that has ended, which it never *)
(* does: initRateSource adds its cancel function to a list that            *)
(* listenForShutdown, called after it, replaces by an empty one.           *)
(***************************************************************************)
EXTENDS Integers, Sequences

CONSTANTS
    RateSources,        \* the sources in their order; the last one is "none"
    InitialSources,     \* bound: the sources that are configured at first
    Markets,
    MaxJobs             \* bound: goroutines that use the rate source

Jobs == 1 .. MaxJobs
none == RateSources[Len(RateSources)]
SourceNames == {RateSources[i] : i \in DOMAIN RateSources}
coinpaprika == "Coinpaprika"
NoTicker == "no ticker"     \* the map has no entry for the market
NilTicker == "nil ticker"   \* it has one, and that is nil

ASSUME RatesBounds ==
    /\ MaxJobs \in Nat /\ RateSources \in Seq(STRING) /\ Len(RateSources) > 1
    /\ InitialSources \subseteq {RateSources[i] : i \in DOMAIN RateSources}
    /\ {NoTicker, NilTicker} \cap {RateSources[i] : i \in DOMAIN RateSources} = {}

VARIABLES
    source, getTicker, tickers, refreshing, disabled,   \* of CommonRateSource
    chosen, privacyMode,        \* the saved settings: conversion exchange, privacy mode
    disabling,                  \* a goroutine that toggles to none is on its way
    job,                        \* where a job is, and its local variables
    crashed,                    \* a nil ticker was dereferenced
    calm        \* history: no source failed, no toggle ran beside another one or beside
                \* the fetch of a single rate, and for no market that Coinpaprika has no
                \* price of the ticker of another source was found in the cache

rateFields == <<source, getTicker, tickers, refreshing, disabled>>
settings   == <<chosen, privacyMode>>
rateVars   == <<rateFields, settings, disabling, job, crashed, calm>>

JobStates == {"unborn", "toggle", "check", "enter", "waiting", "copy", "market", "try",
              "asked", "cached", "fallback", "end", "done"}
Tickers == [Markets -> SourceNames \cup {NoTicker, NilTicker}]
NoTickers == [m \in Markets |-> NoTicker]

JobRecord(pc) == [pc |-> pc, forced |-> FALSE, target |-> none, left |-> {}, kind |-> "refresh",
             tickers |-> NoTickers, asked |-> none, tried |-> 0, invalid |-> none]

JobRecords ==
    [pc : JobStates, forced : BOOLEAN, target : SourceNames, left : SUBSET Markets,
     kind : {"refresh", "toggle", "fetch"}, tickers : Tickers, asked : SourceNames,
     tried : 0 .. Len(RateSources), invalid : SourceNames]

RatesTypeOK ==
    /\ source \in SourceNames /\ getTicker \in SourceNames /\ chosen \in SourceNames
    /\ tickers \in Tickers
    /\ refreshing \in BOOLEAN /\ disabled \in BOOLEAN /\ privacyMode \in BOOLEAN
    /\ disabling \in BOOLEAN
    /\ calm \in BOOLEAN /\ crashed \in BOOLEAN
    /\ job \in [Jobs -> JobRecords]

RatesInit ==
    /\ chosen \in InitialSources /\ source = chosen /\ getTicker = chosen
    /\ tickers = NoTickers /\ refreshing = FALSE
    /\ privacyMode \in BOOLEAN /\ disabled = FALSE
    /\ disabling = FALSE /\ calm = TRUE /\ crashed = FALSE
    /\ job = [j \in Jobs |-> JobRecord("unborn")]

-----------------------------------------------------------------------------
JobAt(j, pc) == job[j].pc = pc
JobGoes(j, pc) == job' = [job EXCEPT ![j].pc = pc]
JobBecomes(j, record) == job' = [job EXCEPT ![j] = record]
JobBusy(j) == job[j].pc \notin {"unborn", "done"}
OnlyRefreshing ==
    UNCHANGED <<source, getTicker, tickers, disabled, settings, disabling, crashed, calm>>
OnlyTickers ==
    UNCHANGED <<source, getTicker, refreshing, disabled, settings, disabling, crashed>>
OnlyJob == UNCHANGED <<rateFields, settings, disabling, crashed, calm>>

JobBorn(j) == JobAt(j, "unborn") /\ \A k \in Jobs : k < j => ~JobAt(k, "unborn")
JobsOfKind(kind) == \E k \in Jobs : JobBusy(k) /\ job[k].kind = kind
RatesEnabled == ~privacyMode /\ source # none       \* ExchangeRateFetchingEnabled

\* The tick of the hour, or the refresh button and the pages when rates are enabled.
CallRefresh(j) ==
    /\ JobBorn(j)
    /\ \E forced \in BOOLEAN :
          /\ forced => RatesEnabled
          /\ JobBecomes(j, [JobRecord("check") EXCEPT !.forced = forced])
    /\ OnlyJob

\* SetCurrencyConversionExchange: the setting is saved, the goroutine may be late.
SetCurrencyConversionExchange(j) ==
    /\ JobBorn(j)
    /\ \E xc \in SourceNames :
          /\ chosen' = xc
          /\ JobBecomes(j, [JobRecord("toggle") EXCEPT !.kind = "toggle", !.target = xc])
    /\ calm' = (calm /\ ~disabling /\ ~JobsOfKind("toggle") /\ ~JobsOfKind("fetch"))
    /\ UNCHANGED <<rateFields, privacyMode, disabling, crashed>>

\* The early return is taken when the status would change, also at the start when
\* privacy mode is on: disabled stays FALSE.
ToggleStatus(disable) == disabled' = IF disabled # disable THEN disabled ELSE disable

\* The check box of the settings page; rates are refreshed when it is cleared.
SetPrivacyMode(j) ==
    /\ privacyMode' = ~privacyMode
    /\ ToggleStatus(privacyMode')
    /\ IF ~privacyMode' /\ source # none
       THEN JobBorn(j) /\ JobBecomes(j, [JobRecord("check") EXCEPT !.forced = TRUE])
       ELSE UNCHANGED job
    /\ UNCHANGED <<source, getTicker, tickers, refreshing, chosen, disabling, crashed, calm>>

\* GetTicker(market, FALSE) of a page that finds no rate or an expired one.
GetTicker(j) ==
    /\ JobBorn(j) /\ RatesEnabled
    /\ \E m \in Markets :
          /\ tickers[m] # NilTicker
          /\ JobBecomes(j, [JobRecord("try") EXCEPT !.left = {m}, !.kind = "fetch"])
    /\ calm' = (calm /\ ~disabling /\ ~JobsOfKind("toggle"))
    /\ UNCHANGED <<rateFields, settings, disabling, crashed>>

\* The dereference of a nil ticker is the end of the program, and of what it cached.
Crash ==
    /\ crashed' = TRUE /\ tickers' = NoTickers
    /\ UNCHANGED <<source, getTicker, refreshing, disabled, settings, disabling, job, calm>>

\* Whoever asks for a rate, in the cache only or not, dereferences the nil that is there.
GetNilTicker ==
    /\ source # none /\ \E m \in Markets : tickers[m] = NilTicker
    /\ Crash

-----------------------------------------------------------------------------
(* ToggleSource and Refresh                                                *)

ToggleSource(j) ==
    /\ JobAt(j, "toggle")
    /\ IF job[j].target = source
       THEN JobBecomes(j, JobRecord("done")) /\ UNCHANGED rateFields
       ELSE /\ source' = job[j].target /\ getTicker' = job[j].target /\ tickers' = NoTickers
            /\ IF job[j].target = none THEN JobBecomes(j, JobRecord("done"))
               ELSE JobBecomes(j, [job[j] EXCEPT !.pc = "check", !.forced = TRUE, !.target = none])
            /\ UNCHANGED <<refreshing, disabled>>
    /\ UNCHANGED <<settings, disabling, crashed, calm>>

\* The goroutine that disableConversionExchange starts.
ToggleToNone ==
    /\ disabling /\ disabling' = FALSE
    /\ IF source = none THEN UNCHANGED <<source, getTicker, tickers>>
       ELSE source' = none /\ getTicker' = none /\ tickers' = NoTickers
    /\ UNCHANGED <<refreshing, disabled, settings, job, crashed, calm>>

CheckDisabled(j) ==
    /\ JobAt(j, "check")
    /\ IF source = none \/ disabled THEN JobBecomes(j, JobRecord("done")) ELSE JobGoes(j, "enter")
    /\ OnlyJob

\* Wrong: the previous refresh is not waited for.
BeginRefreshAnyway(j) ==
    /\ JobAt(j, "enter") /\ JobGoes(j, "copy") /\ refreshing' = TRUE
    /\ OnlyRefreshing

\* Block until previous refresh is done.
BeginRefresh(j) ==
    /\ JobAt(j, "enter")
    /\ IF refreshing THEN JobGoes(j, "waiting") /\ UNCHANGED refreshing
       ELSE JobGoes(j, "copy") /\ refreshing' = TRUE
    /\ OnlyRefreshing

\* A copy of the cache whose expired rates are asked for again, or of nothing.
CopyRates(j) ==
    /\ JobAt(j, "copy")
    /\ LET kept == IF job[j].forced THEN NoTickers ELSE tickers
           missing == {m \in Markets : kept[m] = NoTicker}
       IN /\ \A m \in Markets : kept[m] # NilTicker
          /\ \E expired \in SUBSET (Markets \ missing) :
                JobBecomes(j, [job[j] EXCEPT !.pc = "market", !.forced = FALSE, !.tickers = kept,
                                             !.left = missing \cup expired])
    /\ OnlyJob

\* copyRates dereferences every ticker of the cache.
CopyNilTicker(j) ==
    /\ JobAt(j, "copy") /\ ~job[j].forced /\ \E m \in Markets : tickers[m] = NilTicker
    /\ Crash

NextMarket(j) ==
    /\ JobAt(j, "market") /\ job[j].left # {} /\ JobGoes(j, "try") /\ OnlyJob

\* The map of the refresh replaces the cache.
StoreTickers(j) ==
    /\ JobAt(j, "market") /\ job[j].left = {}
    /\ tickers' = job[j].tickers
    /\ JobBecomes(j, [job[j] EXCEPT !.pc = "end", !.tickers = NoTickers])
    /\ OnlyTickers /\ UNCHANGED calm

\* Wrong: refreshing is cleared and no one is told.
EndRefreshSilently(j) ==
    /\ JobAt(j, "end") /\ refreshing' = FALSE /\ JobBecomes(j, JobRecord("done"))
    /\ OnlyRefreshing

\* The deferred functions; Signal wakes one of those that wait, if any.
EndRefresh(j) ==
    /\ JobAt(j, "end") /\ refreshing' = FALSE
    /\ LET waiters == {k \in Jobs : JobAt(k, "waiting")} IN
       IF waiters = {} THEN JobBecomes(j, JobRecord("done"))
       ELSE \E k \in waiters :
               job' = [job EXCEPT ![j] = JobRecord("done"), ![k].pc = "enter"]
    /\ OnlyRefreshing

-----------------------------------------------------------------------------
(* retryGetTicker and fetchRate                                            *)

\* The rate of a market has come: a ticker, or none because of an error.  It goes to
\* the map of the refresh, or to the cache at once.
FetchedFor(j, m, ticker) ==
    LET got(cache) == IF ticker = NoTicker THEN cache ELSE [cache EXCEPT ![m] = ticker] IN
    IF job[j].kind = "fetch"
    THEN tickers' = got(tickers) /\ JobBecomes(j, JobRecord("done"))
    ELSE /\ UNCHANGED tickers
         /\ JobBecomes(j, [job[j] EXCEPT !.pc = "market", !.left = @ \ {m}, !.tried = 0,
                                      !.tickers = got(job[j].tickers), !.asked = none,
                                      !.invalid = none])

Fetched(j, ticker) == \E m \in job[j].left : FetchedFor(j, m, ticker)

\* The server of the ticker function is asked: its answer may find another source chosen.
AskTicker(j) ==
    /\ JobAt(j, "try")
    /\ JobBecomes(j, [job[j] EXCEPT !.pc = "asked", !.asked = getTicker])
    /\ OnlyJob

\* The server answers or fails; only the dummy never fails.  The source that failed
\* first is not asked again.
TickerAnswered(j) ==
    /\ JobAt(j, "asked")
    /\ \/ job[j].asked # coinpaprika /\ Fetched(j, job[j].asked)
       \/ /\ job[j].asked # none
          /\ JobBecomes(j, [job[j] EXCEPT !.pc = "fallback", !.asked = none,
                                          !.invalid = IF job[j].tried = 0 THEN source ELSE @])
          /\ UNCHANGED tickers
    /\ OnlyTickers /\ UNCHANGED calm

\* Coinpaprika's answer: the prices it has go into the cache, whoever asked.
PricesCached(j) ==
    /\ JobAt(j, "asked") /\ job[j].asked = coinpaprika
    /\ \E priced \in SUBSET Markets :
          tickers' = [m \in Markets |-> IF m \in priced THEN coinpaprika ELSE tickers[m]]
    /\ JobGoes(j, "cached")
    /\ OnlyTickers /\ UNCHANGED calm

\* The cache is read for the market that was asked for, once the lock is released: the
\* ticker may be of another source by then, or nil.
CachedPriceRead(j) ==
    /\ JobAt(j, "cached")
    /\ \E m \in job[j].left :
          LET ticker == IF tickers[m] = NoTicker THEN NilTicker ELSE tickers[m] IN
          /\ FetchedFor(j, m, ticker)
          /\ calm' = (calm /\ ticker \in {coinpaprika, NilTicker})
    /\ OnlyTickers

\* The next other source, whose name is written without the lock.  When the dummy is not
\* among them and all fail, the conversion is switched off.
AskNextSource(j) ==
    /\ JobAt(j, "fallback")
    /\ LET rest == {i \in DOMAIN RateSources : i > job[j].tried /\ RateSources[i] # job[j].invalid}
           i == CHOOSE k \in rest : \A l \in rest : k <= l
       IN IF rest = {}
          THEN /\ Fetched(j, NoTicker)
               /\ chosen' = none /\ disabling' = TRUE
               /\ UNCHANGED source
          ELSE /\ source' = RateSources[i]
               /\ JobBecomes(j, [job[j] EXCEPT !.pc = "asked", !.asked = RateSources[i],
                                               !.tried = i])
               /\ UNCHANGED <<tickers, chosen, disabling>>
    /\ calm' = FALSE
    /\ UNCHANGED <<getTicker, refreshing, disabled, privacyMode, crashed>>

JobStep(j) ==
    \/ ToggleSource(j) \/ CheckDisabled(j) \/ BeginRefresh(j) \/ CopyRates(j)
    \/ CopyNilTicker(j) \/ NextMarket(j) \/ StoreTickers(j) \/ EndRefresh(j)
    \/ AskTicker(j) \/ TickerAnswered(j) \/ PricesCached(j) \/ CachedPriceRead(j)
    \/ AskNextSource(j)

RatesNext ==
    /\ ~crashed
    /\ \/ \E j \in Jobs : \/ CallRefresh(j) \/ SetCurrencyConversionExchange(j)
                          \/ SetPrivacyMode(j) \/ GetTicker(j) \/ JobStep(j)
       \/ ToggleToNone \/ GetNilTicker

\* Servers answer or fail and a goroutine goes on; one that waits is not running.
RatesFairness == /\ \A j \in Jobs : WF_rateVars(~crashed /\ JobStep(j))
                 /\ WF_rateVars(~crashed /\ ToggleToNone)

RatesSpec == RatesInit /\ [][RatesNext]_rateVars
RatesFairSpec == RatesSpec /\ RatesFairness

-----------------------------------------------------------------------------
(* Properties                                                              *)

\* When every job has ended, the name, the ticker function and the cached rates
\* are of the source that was chosen last, though older refreshes may have stored
\* theirs after it was chosen: as long as no source failed, no toggle ran beside
\* another one or beside the fetch of a single rate, and Coinpaprika's answer lacked
\* no market of which the cache held the ticker of another source.
QuietCacheIsCurrent ==
    (\A j \in Jobs : ~JobBusy(j)) /\ calm =>
        /\ source = chosen /\ getTicker = chosen
        /\ chosen # none => \A m \in Markets : tickers[m] \in {chosen, NoTicker, NilTicker}

\* A refresh ends, also one that waits for another: no wake-up is lost.  Only the crash
\* on a nil ticker of Coinpaprika's leaves it unfinished, with the program.
RefreshesEnd == \A j \in Jobs : JobBusy(j) ~> ~JobBusy(j) \/ crashed

\* "If Privacy mode is on, no API calls that can be made": a refresh that begins
\* in privacy mode is turned away.
PrivacyStopsRefreshes ==
    [][\A j \in Jobs : JobAt(j, "check") /\ privacyMode => ~JobAt(j, "enter")']_rateVars
=============================================================================
