------------------------------ MODULE DcrSync ------------------------------
(***************************************************************************)
(* The SPV synchronisation of a Decred wallet: libwallet/assets/dcr/sync.go *)
(* and syncnotification.go.                                                *)
(*                                                                         *)
(* Four kinds of goroutines share the SyncData of one asset:               *)
(*   - callers (the UI, the asset manager) that run SpvSync, CancelSync,   *)
(*     RestartSpvSync and DiscoverUsage;                                   *)
(*   - workers: the goroutine SpvSync starts for each session, which runs  *)
(*     the SPV syncer and its callbacks and then resets the data, and the  *)
(*     goroutine DiscoverUsage starts;                                     *)
(*   - tickers: the goroutine discoverAddressesStarted starts to publish   *)
(*     the progress of the address discovery;                              *)
(*   - readers: calls of PeerInfoRaw and of the DEX wallet's GetBlock, which *)
(*     ask the syncer for its peers and for a block.                       *)
(* A section of code under syncData.mu is one step.  What the code reads   *)
(* or writes without the mutex is a step of its own.  A nil pointer that is *)
(* dereferenced and a channel that is closed twice stop the program: crash *)
(* records where.  Progress figures, heights, times and the fields that    *)
(* only tell the user which stage is running or how many peers there are   *)
(* are left out.                                                           *)
(***************************************************************************)
EXTENDS Integers, FiniteSets

CONSTANTS
    Callers,        \* goroutines that call the exported methods
    Ops,            \* the methods they call, and whether peers may be invalid and
                    \* the goroutines that index transactions report to the listeners
    Readers,        \* goroutines that call PeerInfoRaw or GetBlock
    MaxSessions,    \* bound: how many times SpvSync starts a session
    MaxUsages,      \* bound: how many times DiscoverUsage starts its goroutine
    MaxTickers,     \* bound: how many address discoveries are started
    SyncerStages,   \* the stages a syncer goes through, some of SyncStages
    NoData          \* the nil *activeSyncData

SyncStages == {"cfilters", "headers", "discovery", "rescan"}
AllOps == {"sync", "cancel", "restart", "discover", "badPeers", "reports"}

Sessions == 1 .. MaxSessions
Usages   == (MaxSessions + 1) .. (MaxSessions + MaxUsages)
Workers  == Sessions \cup Usages
Tickers  == 1 .. MaxTickers

\* A session, its context and its syncCanceled channel have the same number,
\* and so have a ticker and its addressDiscoveryCompletedOrCanceled channel.
Nil == 0

ActiveData ==
    [syncer : Sessions \cup {Nil},
     timing : BOOLEAN,              \* scanStartTime is not the zero time
     height : BOOLEAN,              \* scanStartHeight # -1
     discovery : Tickers \cup {Nil}]

ASSUME BoundsAssumption ==
    /\ MaxSessions \in Nat /\ MaxUsages \in Nat /\ MaxTickers \in Nat
    /\ Ops \subseteq AllOps /\ SyncerStages \subseteq SyncStages
ASSUME NoDataAssumption == NoData \notin ActiveData

VARIABLES
    syncing, synced, restartSyncRequested, cancelSync, syncCanceled, active,
    shuttingDown, locked,
    cancelled,           \* the contexts that were cancelled
    closed,              \* the syncCanceled channels that were closed
    discoveryClosed,     \* the discovery channels that were closed
    pc, restarting, snapshot,       \* of a caller
    run,                                    \* of a worker
    told,                                   \* what the progress listeners heard last
    indexing,                               \* the sessions whose index goroutines will report
    tick, select,                           \* of a ticker
    reading,                                \* the readers that found a session's data
    crash

flags    == <<syncing, synced, cancelSync, syncCanceled>>
wallet   == <<shuttingDown, locked>>
channels == <<cancelled, closed, discoveryClosed>>
callers  == <<pc, restarting, snapshot>>
heard    == <<told, indexing>>
workers  == <<run, heard>>
tickers  == <<tick, select, reading>>
vars     == <<flags, restartSyncRequested, active, wallet, channels, callers,
              workers, tickers, crash>>

CallerStates == {"idle", "spvSyncing", "spvSynced", "spvInit", "spvArm", "spvSpawn",
                 "canRead", "canFire", "canChan", "canWait", "canEnd",
                 "disSyncing", "disSynced"}

\* Where a session's goroutine is while syncer.Run is running: between two
\* callbacks, or inside one, past its IsSyncing check.
Idling  == {"between", "inCFilters", "inHeaders", "inDiscovery", "inRescan"}
Publishing == {"publishCFilters", "publishHeaders", "publishRescan"}
Inside  == {"headersCheck", "headersBody", "progressBody", "startCheck", "startBody",
            "finishBody", "finishStop", "rescanCheck", "rescanBody", "rescanProgress",
            "rescannedBody", "syncedBody", "syncedEnd"} \cup Publishing
Running == Idling \cup Inside
Ending  == {"returned", "closed", "stopped", "reset"}
UsageStates == {"spawned", "usageStart", "usageRun", "usageStop", "usageFinish"}

WorkerStates == {"unborn", "armed", "done"} \cup Running \cup Ending \cup UsageStates
TickerStates == {"unborn", "begin", "check", "lock", "select", "wait", "publish", "done"}
Crashes == {"none", "callback", "ticker", "reader", "usage", "start", "closeNil", "closeTwice",
            "discoveryTwice"}

TypeOK ==
    /\ syncing \in BOOLEAN /\ synced \in BOOLEAN /\ restartSyncRequested \in BOOLEAN
    /\ cancelSync \in Workers \cup {Nil}
    /\ syncCanceled \in Sessions \cup {Nil}
    /\ active \in ActiveData \cup {NoData}
    /\ shuttingDown \in BOOLEAN /\ locked \in BOOLEAN
    /\ cancelled \subseteq Workers /\ closed \subseteq Sessions
    /\ discoveryClosed \subseteq Tickers
    /\ pc \in [Callers -> CallerStates] /\ restarting \in [Callers -> BOOLEAN]
    /\ snapshot \in [Callers -> Workers \cup {Nil}]
    /\ run \in [Workers -> WorkerStates]
    /\ told \in {"nothing", "started", "error", "canceled", "restarting", "completed", "behind",
                "late"}
    /\ indexing \subseteq Workers
    /\ tick \in [Tickers -> TickerStates] /\ select \in [Tickers -> Tickers \cup {Nil}]
    /\ reading \subseteq Readers
    /\ crash \in Crashes

Init ==
    /\ syncing = FALSE /\ synced = FALSE /\ restartSyncRequested = FALSE
    /\ cancelSync = Nil /\ syncCanceled = Nil /\ active = NoData
    /\ shuttingDown = FALSE /\ locked = TRUE
    /\ cancelled = {} /\ closed = {} /\ discoveryClosed = {}
    /\ pc = [c \in Callers |-> "idle"] /\ restarting = [c \in Callers |-> FALSE]
    /\ snapshot = [c \in Callers |-> Nil]
    /\ run = [w \in Workers |-> "unborn"] /\ told = "nothing" /\ indexing = {}
    /\ tick = [d \in Tickers |-> "unborn"] /\ select = [d \in Tickers |-> Nil]
    /\ reading = {} /\ crash = "none"

-----------------------------------------------------------------------------
(* Helpers                                                                 *)

Connected == syncing \/ synced          \* IsConnectedToDecredNetwork

\* The fields of *activeSyncData are assigned: a nil pointer stops the program.
Touch(who, data) ==
    /\ active' = IF active = NoData THEN NoData ELSE data
    /\ crash'  = IF active = NoData THEN who ELSE crash

Goto(c, label) == pc' = [pc EXCEPT ![c] = label]
Move(w, label) == run' = [run EXCEPT ![w] = label]
Turn(d, label) == tick' = [tick EXCEPT ![d] = label]

\* Bounds: a session, a usage discovery, a ticker is left for who may need it.
Unborn(S, state) == {x \in S : state[x] = "unborn"}
Busy == {c \in Callers : pc[c] # "idle"}
SessionsLeft == Cardinality(Busy) < Cardinality(Unborn(Sessions, run))
UsagesLeft   == Cardinality(Busy) < Cardinality(Unborn(Usages, run))
TickersLeft  == Cardinality({w \in Workers : run[w] \in {"startCheck", "startBody"}})
                    < Cardinality(Unborn(Tickers, tick))

\* notifySyncError, or notifySyncCanceled if a cancelled syncer returns just
\* that: what the listeners may be told.
Told(w) ==
    {"error"} \cup
    IF w \in cancelled THEN {IF restartSyncRequested THEN "restarting" ELSE "canceled"}
                       ELSE {}

\* Wrong: the closed channel is not forgotten.
StopDiscoveryKeepsChannel ==
    IF active # NoData /\ active.discovery # Nil
    THEN /\ discoveryClosed' = discoveryClosed \cup {active.discovery}
         /\ crash' = IF active.discovery \in discoveryClosed THEN "discoveryTwice" ELSE crash
         /\ UNCHANGED active
    ELSE UNCHANGED <<discoveryClosed, crash, active>>

\* stopUpdatingAddressDiscoveryProgress: the channel is closed and forgotten.
StopDiscovery ==
    IF active # NoData /\ active.discovery # Nil
    THEN /\ discoveryClosed' = discoveryClosed \cup {active.discovery}
         /\ crash' = IF active.discovery \in discoveryClosed THEN "discoveryTwice" ELSE crash
         /\ active' = [active EXCEPT !.discovery = Nil]
    ELSE UNCHANGED <<discoveryClosed, crash, active>>

-----------------------------------------------------------------------------
(* SpvSync                                                                 *)

\* A caller enters SpvSync: the retry loop of the home page, the DEX modal.
CallSpvSync(c) ==
    /\ "sync" \in Ops /\ pc[c] = "idle" /\ SessionsLeft
    /\ Goto(c, "spvSyncing")
    /\ UNCHANGED <<flags, restartSyncRequested, active, wallet, channels, restarting,
                   snapshot, workers, tickers, crash>>

\* The sync switch of the home page, when the wallet is not connected and the
\* computer is online: it unlocks a wallet whose accounts are to be discovered,
\* then calls SpvSync.
ToggleSyncOn(c) ==
    /\ "sync" \in Ops /\ pc[c] = "idle" /\ SessionsLeft /\ ~Connected
    /\ Goto(c, "spvSyncing")
    /\ locked' \in {locked, FALSE}
    /\ UNCHANGED <<flags, restartSyncRequested, active, shuttingDown, channels, restarting,
                   snapshot, workers, tickers, crash>>

\* Wrong: SpvSync asks only one of its two questions.
CheckSyncingDropped(c) ==
    /\ pc[c] = "spvSyncing" /\ Goto(c, "spvSynced")
    /\ UNCHANGED <<flags, restartSyncRequested, active, wallet, channels, restarting,
                   snapshot, workers, tickers, crash>>
CheckSyncedDropped(c) ==
    /\ pc[c] = "spvSynced" /\ Goto(c, "spvInit")
    /\ UNCHANGED <<flags, restartSyncRequested, active, wallet, channels, restarting,
                   snapshot, workers, tickers, crash>>

\* IsSyncing() and IsSynced(), each under a read lock of its own.
CheckSyncing(c) ==
    /\ pc[c] = "spvSyncing"
    /\ Goto(c, IF syncing THEN "idle" ELSE "spvSynced")
    /\ restarting' = [restarting EXCEPT ![c] = @ /\ ~syncing]
    /\ UNCHANGED <<flags, restartSyncRequested, active, wallet, channels, snapshot,
                   workers, tickers, crash>>

CheckSynced(c) ==
    /\ pc[c] = "spvSynced"
    /\ Goto(c, IF synced THEN "idle" ELSE "spvInit")
    /\ restarting' = [restarting EXCEPT ![c] = @ /\ ~synced]
    /\ UNCHANGED <<flags, restartSyncRequested, active, wallet, channels, snapshot,
                   workers, tickers, crash>>

\* ErrInvalidPeers: of the peers the user configured none is valid.
RefuseInvalidPeers(c) ==
    /\ "badPeers" \in Ops /\ pc[c] = "spvInit"
    /\ Goto(c, "idle")
    /\ restarting' = [restarting EXCEPT ![c] = FALSE]
    /\ UNCHANGED <<flags, restartSyncRequested, active, wallet, channels, snapshot,
                   workers, tickers, crash>>

InitActiveSyncData(c) ==
    /\ pc[c] = "spvInit"
    /\ active' = [syncer |-> Nil, timing |-> FALSE, height |-> FALSE, discovery |-> Nil]
    /\ Goto(c, "spvArm")
    /\ UNCHANGED <<flags, restartSyncRequested, wallet, channels, restarting, snapshot,
                   workers, tickers, crash>>

\* The new context and channel are published under the mutex.
ArmSession(c) ==
    /\ pc[c] = "spvArm"
    /\ \E s \in Unborn(Sessions, run) :
        /\ \A other \in Unborn(Sessions, run) : s <= other
        /\ restartSyncRequested' = FALSE
        /\ syncing' = TRUE
        /\ cancelSync' = s
        /\ syncCanceled' = s
        /\ Touch("start", [active EXCEPT !.syncer = s])
        /\ snapshot' = [snapshot EXCEPT ![c] = s]
        /\ Move(s, "armed")
    /\ Goto(c, "spvSpawn")
    /\ UNCHANGED <<synced, wallet, channels, restarting, heard, tickers>>

\* The listeners heard OnSyncStarted; the session's goroutine starts.
SpawnSession(c) ==
    /\ pc[c] = "spvSpawn"
    /\ Move(snapshot[c], "between")
    /\ told' = "started"
    /\ Goto(c, "idle")
    /\ snapshot' = [snapshot EXCEPT ![c] = Nil]
    /\ restarting' = [restarting EXCEPT ![c] = FALSE]
    /\ UNCHANGED <<flags, restartSyncRequested, active, wallet, channels, indexing, tickers, crash>>

-----------------------------------------------------------------------------
(* CancelSync and RestartSpvSync                                           *)

\* The sync switch of the home page, when the wallet is connected.
ToggleSyncOff(c) ==
    /\ "cancel" \in Ops /\ pc[c] = "idle" /\ Connected
    /\ shuttingDown' = TRUE
    /\ Goto(c, "canRead")
    /\ UNCHANGED <<flags, restartSyncRequested, active, locked, channels, restarting, snapshot, workers, tickers, crash>>

SafelyCancelSync(c) ==
    /\ "cancel" \in Ops /\ pc[c] = "idle" /\ Connected
    /\ Goto(c, "canRead")
    /\ UNCHANGED <<flags, restartSyncRequested, active, wallet, channels, restarting,
                   snapshot, workers, tickers, crash>>

RestartSpvSync(c) ==
    /\ "restart" \in Ops /\ pc[c] = "idle" /\ SessionsLeft
    /\ restartSyncRequested' = TRUE
    /\ restarting' = [restarting EXCEPT ![c] = TRUE]
    /\ Goto(c, "canRead")
    /\ UNCHANGED <<flags, active, wallet, channels, snapshot, workers, tickers, crash>>

\* cancelSync is copied under the read lock: a nil function is not called.
ReadCancelSync(c) ==
    /\ pc[c] = "canRead"
    /\ snapshot' = [snapshot EXCEPT ![c] = cancelSync]
    /\ Goto(c, IF cancelSync = Nil THEN "canEnd" ELSE "canFire")
    /\ UNCHANGED <<flags, restartSyncRequested, active, wallet, channels, restarting,
                   workers, tickers, crash>>

\* Wrong: CancelSync waits for the session without cancelling it.
CallCancelOnlyWaits(c) ==
    /\ pc[c] = "canFire"
    /\ Goto(c, "canChan")
    /\ UNCHANGED <<flags, restartSyncRequested, active, wallet, channels, restarting, snapshot,
                   workers, tickers, crash>>

CallCancel(c) ==
    /\ pc[c] = "canFire"
    /\ cancelled' = cancelled \cup {snapshot[c]}
    /\ Goto(c, "canChan")
    /\ UNCHANGED <<flags, restartSyncRequested, active, wallet, closed, discoveryClosed,
                   restarting, snapshot, workers, tickers, crash>>

\* The channel is read from SyncData only now, and without the mutex.
ReadSyncCanceled(c) ==
    /\ pc[c] = "canChan"
    /\ snapshot' = [snapshot EXCEPT ![c] = syncCanceled]
    /\ Goto(c, "canWait")
    /\ UNCHANGED <<flags, restartSyncRequested, active, wallet, channels, restarting,
                   workers, tickers, crash>>

\* A nil channel is never ready.
AwaitSyncCanceled(c) ==
    /\ pc[c] = "canWait" /\ snapshot[c] \in closed
    /\ Goto(c, "canEnd")
    /\ UNCHANGED <<flags, restartSyncRequested, active, wallet, channels, restarting,
                   snapshot, workers, tickers, crash>>

EndSyncShuttingDown(c) ==
    /\ pc[c] = "canEnd"
    /\ shuttingDown' = FALSE
    /\ snapshot' = [snapshot EXCEPT ![c] = Nil]
    /\ Goto(c, IF restarting[c] THEN "spvSyncing" ELSE "idle")
    /\ UNCHANGED <<flags, restartSyncRequested, active, locked, channels, restarting, workers, tickers, crash>>

-----------------------------------------------------------------------------
(* The callbacks of the syncer                                             *)
(*                                                                         *)
(* The syncer itself is a library: it runs one stage after another, in any *)
(* order and any number of times, and may end at any time.  A callback     *)
(* that first asks IsSyncing() is two steps, since the mutex is free       *)
(* between the question and the body.                                      *)

SameCallback == UNCHANGED <<flags, restartSyncRequested, wallet, cancelled, closed, callers, heard>>

FetchCFiltersStarted(s) ==
    /\ run[s] = "between" /\ "cfilters" \in SyncerStages
    /\ Touch("callback", [active EXCEPT !.timing = TRUE, !.height = FALSE])
    /\ Move(s, "inCFilters")
    /\ SameCallback /\ UNCHANGED <<discoveryClosed, tickers>>

FetchCFiltersProgress(s) ==
    /\ run[s] = "inCFilters"
    /\ Touch("callback", [active EXCEPT !.height = TRUE])
    /\ Move(s, "publishCFilters")
    /\ SameCallback /\ UNCHANGED <<discoveryClosed, tickers>>

\* publish...Progress ends in updateGeneralSyncProgress, under the mutex again.
Published(label) ==
    CASE label = "publishCFilters" -> "inCFilters"
      [] label = "publishHeaders"  -> "inHeaders"
      [] label = "publishRescan"   -> "inRescan"

PublishProgress(s) ==
    /\ run[s] \in Publishing
    /\ Touch("callback", active)
    /\ Move(s, Published(run[s]))
    /\ SameCallback /\ UNCHANGED <<discoveryClosed, tickers>>

FetchCFiltersEnded(s) ==
    /\ run[s] = "inCFilters"
    /\ Touch("callback", [active EXCEPT !.timing = FALSE, !.height = FALSE])
    /\ Move(s, "between")
    /\ SameCallback /\ UNCHANGED <<discoveryClosed, tickers>>

\* A synced wallet hears of headers again whenever a peer connects.
FetchHeadersStarted(s) ==
    /\ run[s] = "between" /\ "headers" \in SyncerStages
    /\ Move(s, IF syncing THEN "headersCheck" ELSE "inHeaders")
    /\ SameCallback /\ UNCHANGED <<active, discoveryClosed, tickers, crash>>

FetchHeadersStartedCheck(s) ==
    /\ run[s] = "headersCheck"
    /\ Touch("callback", active)
    /\ Move(s, IF active # NoData /\ active.height THEN "inHeaders" ELSE "headersBody")
    /\ SameCallback /\ UNCHANGED <<discoveryClosed, tickers>>

FetchHeadersStartedBody(s) ==
    /\ run[s] = "headersBody"
    /\ Touch("callback", [active EXCEPT !.timing = TRUE, !.height = TRUE])
    /\ Move(s, "inHeaders")
    /\ SameCallback /\ UNCHANGED <<discoveryClosed, tickers>>

FetchHeadersProgress(s) ==
    /\ run[s] = "inHeaders" /\ syncing
    /\ Move(s, "progressBody")
    /\ SameCallback /\ UNCHANGED <<active, discoveryClosed, tickers, crash>>

\* Without a start height, or once the headers were fetched before, nothing is
\* published.
FetchHeadersProgressBody(s) ==
    /\ run[s] = "progressBody"
    /\ Touch("callback", active)
    /\ \/ active # NoData /\ active.height /\ Move(s, "publishHeaders")
       \/ Move(s, "inHeaders")
    /\ SameCallback /\ UNCHANGED <<discoveryClosed, tickers>>

\* The only callback that asks and acts in one section.
FetchHeadersFinished(s) ==
    /\ run[s] = "inHeaders"
    /\ IF syncing THEN Touch("callback", [active EXCEPT !.timing = FALSE, !.height = FALSE])
                  ELSE UNCHANGED <<active, crash>>
    /\ Move(s, "between")
    /\ SameCallback /\ UNCHANGED <<discoveryClosed, tickers>>

\* Called by the syncer and by the goroutine of DiscoverUsage.
Discovering(w) == IF w \in Sessions THEN "inDiscovery" ELSE "usageRun"
Culprit(w)     == IF w \in Sessions THEN "callback" ELSE "usage"
Discovered(w)  == IF w \in Sessions THEN "between" ELSE "done"

DiscoverAddressesStarted(w) ==
    /\ TickersLeft
    /\ \/ run[w] = "between" /\ "discovery" \in SyncerStages
       \/ run[w] = "usageStart"
    /\ Move(w, IF syncing THEN "startCheck" ELSE Discovering(w))
    /\ SameCallback /\ UNCHANGED <<active, discoveryClosed, tickers, crash>>

\* addressDiscoveryAlreadyStarted is read under the read lock ...
DiscoverAddressesStartedCheck(w) ==
    /\ run[w] = "startCheck"
    /\ Touch(Culprit(w), active)
    /\ Move(w, IF active # NoData /\ active.timing THEN Discovering(w) ELSE "startBody")
    /\ SameCallback /\ UNCHANGED <<discoveryClosed, tickers>>

\* ... and the channel is made under the write lock.
DiscoverAddressesStartedBody(w) ==
    /\ run[w] = "startBody"
    /\ \E d \in Unborn(Tickers, tick) :
        /\ \A other \in Unborn(Tickers, tick) : d <= other
        /\ Touch(Culprit(w), [active EXCEPT !.timing = TRUE, !.discovery = d])
        /\ Turn(d, "begin")
    /\ Move(w, Discovering(w))
    /\ SameCallback /\ UNCHANGED <<discoveryClosed, select, reading>>

DiscoverAddressesFinished(w) ==
    /\ run[w] \in {"inDiscovery", "usageFinish"}
    /\ Move(w, IF syncing THEN "finishBody" ELSE Discovered(w))
    /\ SameCallback /\ UNCHANGED <<active, discoveryClosed, tickers, crash>>

DiscoverAddressesFinishedBody(w) ==
    /\ run[w] = "finishBody"
    /\ Touch(Culprit(w), [active EXCEPT !.timing = FALSE, !.height = FALSE])
    /\ Move(w, "finishStop")
    /\ SameCallback /\ UNCHANGED <<discoveryClosed, tickers>>

DiscoverAddressesFinishedStop(w) ==
    /\ run[w] = "finishStop"
    /\ StopDiscovery
    /\ Move(w, Discovered(w))
    /\ SameCallback /\ UNCHANGED tickers

RescanStarted(s) ==
    /\ run[s] = "between" /\ "rescan" \in SyncerStages
    /\ StopDiscovery
    /\ Move(s, "rescanCheck")
    /\ SameCallback /\ UNCHANGED tickers

RescanStartedCheck(s) ==
    /\ run[s] = "rescanCheck"
    /\ Move(s, IF syncing THEN "rescanBody" ELSE "inRescan")
    /\ SameCallback /\ UNCHANGED <<active, discoveryClosed, tickers, crash>>

RescanStartedBody(s) ==
    /\ run[s] = "rescanBody"
    /\ Touch("callback", [active EXCEPT !.timing = TRUE])
    /\ Move(s, "inRescan")
    /\ SameCallback /\ UNCHANGED <<discoveryClosed, tickers>>

RescanProgress(s) ==
    /\ run[s] = "inRescan" /\ syncing
    /\ Move(s, "rescanProgress")
    /\ SameCallback /\ UNCHANGED <<active, discoveryClosed, tickers, crash>>

RescanProgressBody(s) ==
    /\ run[s] = "rescanProgress"
    /\ Touch("callback", active)
    /\ Move(s, "publishRescan")
    /\ SameCallback /\ UNCHANGED <<discoveryClosed, tickers>>

RescanFinished(s) ==
    /\ run[s] = "inRescan"
    /\ Move(s, IF syncing THEN "rescannedBody" ELSE "between")
    /\ SameCallback /\ UNCHANGED <<active, discoveryClosed, tickers, crash>>

RescanFinishedBody(s) ==
    /\ run[s] = "rescannedBody"
    /\ Touch("callback", [active EXCEPT !.timing = FALSE, !.height = FALSE])
    /\ Move(s, "between")
    /\ SameCallback /\ UNCHANGED <<discoveryClosed, tickers>>

\* syncedWallet(TRUE) when the wallet has caught up with its peers, and
\* syncedWallet(FALSE) when it falls behind again: both end with synced set.
SyncedWallet(s) ==
    /\ run[s] = "between"
    /\ Move(s, "syncedBody")
    /\ SameCallback /\ UNCHANGED <<active, discoveryClosed, tickers, crash>>

\* The wallet is locked, if it was unlocked to discover accounts.
SyncedWalletBody(s) ==
    /\ run[s] = "syncedBody"
    /\ locked' = TRUE
    /\ Move(s, "syncedEnd")
    /\ UNCHANGED <<flags, restartSyncRequested, active, shuttingDown,
                   channels, callers, heard, tickers, crash>>

\* Wrong: the wallet stays syncing when it is synced.
SyncedWalletEndsTwice(s) ==
    /\ run[s] = "syncedEnd"
    /\ synced' = TRUE
    /\ Move(s, "between")
    /\ UNCHANGED <<syncing, cancelSync, syncCanceled, restartSyncRequested, active, wallet,
                   channels, callers, heard, tickers, crash>>

\* indexTransactions starts the goroutine that reports, whenever that is, once the
\* transactions are indexed.  A syncer calls Synced any number of times, with either
\* argument: there is always another goroutine that has yet to report.
SyncedWalletEnd(s) ==
    /\ run[s] = "syncedEnd"
    /\ syncing' = FALSE /\ synced' = TRUE
    /\ indexing' = IF "reports" \in Ops THEN indexing \cup {s} ELSE indexing
    /\ Move(s, "between")
    /\ UNCHANGED <<cancelSync, syncCanceled, restartSyncRequested, active, wallet, channels,
                   callers, told, tickers, crash>>

\* syncedWallet(TRUE) of a wallet that is synced only indexes it again: by then the
\* session, or DiscoverUsage in it, has made it so.
SyncedWalletAgain(s) ==
    /\ run[s] = "between" /\ synced /\ "reports" \in Ops
    /\ indexing' = indexing \cup {s}
    /\ UNCHANGED <<flags, restartSyncRequested, active, wallet, channels, callers, run, told,
                   tickers, crash>>

\* OnSyncCompleted, which is late when the session is no longer running.
ReportCompleted(s) ==
    /\ s \in indexing
    /\ told' = IF run[s] \in Running THEN "completed" ELSE "late"
    /\ UNCHANGED <<flags, restartSyncRequested, active, wallet, channels, callers, run,
                   indexing, tickers, crash>>

\* OnSyncCanceled(false): the wallet fell behind.
ReportBehind(s) ==
    /\ s \in indexing
    /\ told' = "behind"
    /\ UNCHANGED <<flags, restartSyncRequested, active, wallet, channels, callers, run,
                   indexing, tickers, crash>>

-----------------------------------------------------------------------------
(* The end of a session                                                    *)

\* Wrong: an end the user asked for is not reported.
RunReturnsSilently(s) ==
    /\ run[s] \in Idling
    /\ told' = IF s \in cancelled THEN told ELSE "error"
    /\ Move(s, "returned")
    /\ UNCHANGED <<flags, restartSyncRequested, active, wallet, channels, callers, indexing,
                   tickers, crash>>

\* syncer.Run returns because its context was cancelled or, at any time,
\* because of an error; the listeners are told.
RunReturns(s) ==
    /\ run[s] \in Idling
    /\ told' \in Told(s)
    /\ Move(s, "returned")
    /\ UNCHANGED <<flags, restartSyncRequested, active, wallet, channels, callers, indexing,
                   tickers, crash>>

\* Wrong: the channel of a session that was cancelled is not closed.
CloseUnlessCancelled(s) ==
    /\ run[s] = "returned" /\ s \notin cancelled
    /\ closed' = closed \cup {syncCanceled}
    /\ Move(s, "closed")
    /\ UNCHANGED <<flags, restartSyncRequested, active, wallet, cancelled, discoveryClosed,
                   callers, heard, tickers, crash>>

\* close(asset.syncData.syncCanceled): whatever channel is there now.
CloseSyncCanceled(s) ==
    /\ run[s] = "returned"
    /\ closed' = closed \cup ({syncCanceled} \ {Nil})
    /\ crash' = CASE syncCanceled = Nil      -> "closeNil"
                  [] syncCanceled \in closed -> "closeTwice"
                  [] OTHER                   -> crash
    /\ Move(s, "closed")
    /\ UNCHANGED <<flags, restartSyncRequested, active, wallet, cancelled, discoveryClosed,
                   callers, heard, tickers>>

\* resetSyncData, in three steps.
ResetStopsDiscovery(s) ==
    /\ run[s] = "closed"
    /\ StopDiscovery
    /\ Move(s, "stopped")
    /\ SameCallback /\ UNCHANGED tickers

\* Wrong: synced survives the reset.
ResetKeepsSynced(s) ==
    /\ run[s] = "stopped"
    /\ syncing' = FALSE
    /\ cancelSync' = Nil /\ syncCanceled' = Nil /\ active' = NoData
    /\ Move(s, "reset")
    /\ UNCHANGED <<synced, restartSyncRequested, wallet, channels, callers, heard, tickers, crash>>

ResetSyncData(s) ==
    /\ run[s] = "stopped"
    /\ syncing' = FALSE /\ synced' = FALSE
    /\ cancelSync' = Nil /\ syncCanceled' = Nil /\ active' = NoData
    /\ Move(s, "reset")
    /\ UNCHANGED <<restartSyncRequested, wallet, channels, callers, heard, tickers, crash>>

ResetLocksWallet(s) ==
    /\ run[s] = "reset"
    /\ locked' = TRUE
    /\ Move(s, "done")
    /\ UNCHANGED <<flags, restartSyncRequested, active, shuttingDown, channels,
                   callers, heard, tickers, crash>>

-----------------------------------------------------------------------------
(* The ticker of the address discovery: updateAddressDiscoveryProgress     *)

SameTicker == UNCHANGED <<flags, restartSyncRequested, wallet, channels, callers, workers, reading>>

TickerBegins(d) ==
    /\ tick[d] = "begin"
    /\ Touch("ticker", active)
    /\ Turn(d, "check")
    /\ SameTicker /\ UNCHANGED select

\* Wrong: the ticker does not ask whether the wallet is syncing.
TickerGoesOn(d) ==
    /\ tick[d] = "check"
    /\ Turn(d, "lock")
    /\ SameTicker /\ UNCHANGED <<active, select, crash>>

TickerChecks(d) ==
    /\ tick[d] = "check"
    /\ Turn(d, IF syncing THEN "lock" ELSE "done")
    /\ SameTicker /\ UNCHANGED <<active, select, crash>>

TickerLocks(d) ==
    /\ tick[d] = "lock"
    /\ Touch("ticker", active)
    /\ Turn(d, "select")
    /\ SameTicker /\ UNCHANGED select

\* The select statement evaluates the channel without the mutex.
TickerSelects(d) ==
    /\ tick[d] = "select"
    /\ Touch("ticker", active)
    /\ select' = [select EXCEPT ![d] = IF active = NoData THEN Nil ELSE active.discovery]
    /\ Turn(d, "wait")
    /\ SameTicker

TickerStops(d) ==
    /\ tick[d] = "wait" /\ select[d] \in discoveryClosed
    /\ Turn(d, "done")
    /\ SameTicker /\ UNCHANGED <<active, select, crash>>

TickerFires(d) ==
    /\ tick[d] = "wait"
    /\ Turn(d, "publish")
    /\ SameTicker /\ UNCHANGED <<active, select, crash>>

\* publishAddressDiscoveryProgress ends in updateGeneralSyncProgress.
TickerPublishes(d) ==
    /\ tick[d] = "publish"
    /\ Touch("ticker", active)
    /\ Turn(d, "check")
    /\ SameTicker /\ UNCHANGED select

-----------------------------------------------------------------------------
(* PeerInfoRaw and GetBlock                                                *)

\* activeSyncData is compared with nil without the mutex.  (PeerInfoRaw also asks
\* IsConnectedToDecredNetwork, before.)  A reader that finds none is done.
ReaderFindsData(r) ==
    /\ r \notin reading /\ active # NoData
    /\ reading' = reading \cup {r}
    /\ UNCHANGED <<flags, restartSyncRequested, active, wallet, channels, callers, workers,
                   tick, select, crash>>

\* It is read again for its syncer, whose method is called: both may be nil by now, or
\* the syncer may be that of a session that is not armed yet.
ReaderAsksSyncer(r) ==
    /\ r \in reading
    /\ reading' = reading \ {r}
    /\ crash' = IF active = NoData \/ active.syncer = Nil THEN "reader" ELSE crash
    /\ UNCHANGED <<flags, restartSyncRequested, active, wallet, channels, callers, workers,
                   tick, select>>

-----------------------------------------------------------------------------
(* DiscoverUsage                                                           *)

\* The wallet has a network backend while a syncer runs.
DiscoverUsage(c) ==
    /\ "discover" \in Ops /\ pc[c] = "idle" /\ UsagesLeft
    /\ \E s \in Sessions : run[s] \in Running
    /\ Goto(c, "disSyncing")
    /\ UNCHANGED <<flags, restartSyncRequested, active, wallet, channels, restarting,
                   snapshot, workers, tickers, crash>>

DiscoverUsageChecksSyncing(c) ==
    /\ pc[c] = "disSyncing"
    /\ Goto(c, IF syncing THEN "idle" ELSE "disSynced")
    /\ UNCHANGED <<flags, restartSyncRequested, active, wallet, channels, restarting,
                   snapshot, workers, tickers, crash>>

DiscoverUsageChecksSynced(c) ==
    /\ pc[c] = "disSynced"
    /\ Goto(c, "idle")
    /\ IF synced
       THEN /\ \E u \in Unborn(Usages, run) :
                  /\ \A other \in Unborn(Usages, run) : u <= other
                  /\ Move(u, "spawned")
               ELSE UNCHANGED run
    /\ UNCHANGED <<flags, restartSyncRequested, active, wallet, channels, restarting,
                   snapshot, heard, tickers, crash>>

UsageBegins(u) ==
    /\ run[u] = "spawned"
    /\ syncing' = TRUE /\ cancelSync' = u
    /\ Move(u, "usageStart")
    /\ UNCHANGED <<synced, syncCanceled, restartSyncRequested, active, wallet, channels,
                   callers, heard, tickers, crash>>

\* DiscoverActiveAddresses returns: finished, failed or cancelled.
UsageReturns(u) ==
    /\ run[u] = "usageRun"
    /\ Move(u, "usageStop")
    /\ UNCHANGED <<flags, restartSyncRequested, active, wallet, channels, callers, heard,
                   tickers, crash>>

\* The deferred function: the flags first, then discoverAddressesFinished.
UsageStops(u) ==
    /\ run[u] = "usageStop"
    /\ syncing' = FALSE /\ cancelSync' = Nil
    /\ Move(u, "usageFinish")
    /\ UNCHANGED <<synced, syncCanceled, restartSyncRequested, active, wallet, channels,
                   callers, heard, tickers, crash>>

-----------------------------------------------------------------------------
CallerStep(c) ==
    \/ CheckSyncing(c) \/ CheckSynced(c) \/ RefuseInvalidPeers(c)
    \/ InitActiveSyncData(c) \/ ArmSession(c) \/ SpawnSession(c)
    \/ ReadCancelSync(c) \/ CallCancel(c) \/ ReadSyncCanceled(c)
    \/ AwaitSyncCanceled(c) \/ EndSyncShuttingDown(c)
    \/ DiscoverUsageChecksSyncing(c) \/ DiscoverUsageChecksSynced(c)

Call(c) ==
    \/ CallSpvSync(c) \/ ToggleSyncOn(c)
    \/ ToggleSyncOff(c) \/ SafelyCancelSync(c) \/ RestartSpvSync(c)
    \/ DiscoverUsage(c)

\* What the syncer decides to do between two callbacks.
SyncerStep(s) ==
    \/ FetchCFiltersStarted(s) \/ FetchCFiltersProgress(s) \/ FetchCFiltersEnded(s)
    \/ FetchHeadersStarted(s) \/ FetchHeadersProgress(s) \/ FetchHeadersFinished(s)
    \/ RescanStarted(s) \/ RescanProgress(s) \/ RescanFinished(s) \/ SyncedWallet(s)

\* What a goroutine goes on with once it has begun.
WorkerBody(w) ==
    \/ FetchHeadersStartedCheck(w) \/ FetchHeadersStartedBody(w)
    \/ FetchHeadersProgressBody(w) \/ PublishProgress(w)
    \/ DiscoverAddressesStartedCheck(w) \/ DiscoverAddressesStartedBody(w)
    \/ DiscoverAddressesFinishedBody(w) \/ DiscoverAddressesFinishedStop(w)
    \/ RescanStartedCheck(w) \/ RescanStartedBody(w)
    \/ RescanProgressBody(w) \/ RescanFinishedBody(w)
    \/ SyncedWalletBody(w) \/ SyncedWalletEnd(w)
    \/ CloseSyncCanceled(w)
    \/ ResetStopsDiscovery(w) \/ ResetSyncData(w) \/ ResetLocksWallet(w)
    \/ UsageBegins(w) \/ UsageStops(w)

TickerStep(d) ==
    \/ TickerBegins(d) \/ TickerChecks(d) \/ TickerLocks(d) \/ TickerSelects(d)
    \/ TickerStops(d) \/ TickerFires(d) \/ TickerPublishes(d)

\* What the index goroutines of a session do, and a reader.
IndexStep(s)  == SyncedWalletAgain(s) \/ ReportCompleted(s) \/ ReportBehind(s)
ReaderStep(r) == ReaderFindsData(r) \/ ReaderAsksSyncer(r)

Alive == crash = "none"

Next ==
    /\ Alive
    /\ \/ \E c \in Callers : Call(c) \/ CallerStep(c)
       \/ \E s \in Sessions : SyncerStep(s) \/ RunReturns(s)
       \/ \E w \in Workers : \/ DiscoverAddressesStarted(w) \/ DiscoverAddressesFinished(w)
                             \/ WorkerBody(w)
       \/ \E u \in Usages : UsageReturns(u)
       \/ \E d \in Tickers : TickerStep(d)
       \/ \E s \in Sessions : IndexStep(s)
       \/ \E r \in Readers : ReaderStep(r)

\* The Go scheduler runs every goroutine that can go on.  The syncer library
\* promises only to return once its context is cancelled.
Fairness ==
    /\ \A c \in Callers : WF_vars(Alive /\ CallerStep(c))
    /\ \A w \in Workers : WF_vars(Alive /\ WorkerBody(w))
    /\ \A s \in Sessions : SF_vars(Alive /\ s \in cancelled /\ RunReturns(s))
    /\ \A u \in Usages : WF_vars(Alive /\ \/ DiscoverAddressesStarted(u)
                                          \/ DiscoverAddressesFinished(u))
    /\ \A u \in Usages : WF_vars(Alive /\ u \in cancelled /\ UsageReturns(u))
    /\ \A d \in Tickers : WF_vars(Alive /\ TickerStep(d))

Spec == Init /\ [][Next]_vars
FairSpec == Spec /\ Fairness

-----------------------------------------------------------------------------
(* Properties                                                              *)

\* A session lives from the moment it is published to the reset of the data.
Live == {s \in Sessions : run[s] \in {"armed", "returned", "closed", "stopped"} \cup Running}

\* SpvSync refuses to start while an earlier session is there ("prevent an
\* attempt to sync when the previous syncing has not been canceled"): two
\* sessions never share the SyncData.
AtMostOneSession == Cardinality(Live) <= 1

\* A callback of a running syncer always finds the data of its own session, and no
\* channel is closed twice or while it is nil: the nil pointers that the program
\* dereferences are those of the observers that look at a session from outside, the
\* progress ticker and the readers, which check without holding the mutex until they use.
OnlyObserversCrash == crash \in {"none", "ticker", "reader"}

\* What the wallet says of itself has a session behind it: it is not both syncing and
\* synced, either one has a session, and an unlocked wallet is one that is about to
\* sync or syncing: a session that ends, in whatever way, leaves it locked.  (A SpvSync
\* that refuses invalid peers leaves a wallet unlocked that was unlocked for it.)
FlagsHaveASession ==
    /\ ~(syncing /\ synced)
    /\ Connected <=> Live # {}
    /\ ~locked => \/ \E s \in Sessions : run[s] \in Running \cup {"armed"} \cup Ending
                  \/ \E c \in Callers :
                        pc[c] \in {"spvSyncing", "spvSynced", "spvInit", "spvArm"}

\* A session whose context was cancelled ends and resets the data, unless the
\* program crashes first.
CancelledSessionsEnd ==
    \A s \in Sessions : s \in cancelled ~> (run[s] = "done" \/ ~Alive)

\* No ticker outlives the sync: when the wallet stops syncing for good, every
\* ticker stops too, also one that missed the close of its channel.
NoTickerOutlivesSync ==
    <>[](~syncing) => <>[](Alive => \A d \in Tickers : tick[d] \in {"unborn", "done"})

\* The listeners know whether a syncer runs: whoever heard OnSyncStarted hears
\* the end of that session, and not the end of another one; who hears OnSyncCompleted
\* while it runs has a wallet that is synced.  Two reports of the index goroutines are
\* not like that, and they deceive until the next one: that the wallet fell behind looks
\* like an end and may come at any time, and OnSyncCompleted may come late, when its
\* session has ended or another one runs.
ListenersAgree ==
    told \notin {"behind", "late"} =>
        /\ told \in {"started", "completed"} <=> \E s \in Sessions : run[s] \in Running
        /\ told = "completed" => synced

\* Every discovery channel is closed at most once, although the syncer's
\* callbacks, the usage discovery and the reset may all close it.
DiscoveryClosedOnce == crash # "discoveryTwice"

\* Whatever calls raced, once every goroutine is done the data are back where
\* a new SpvSync can start: nothing is left that would refuse it for ever.
Quiescent ==
    /\ \A w \in Workers : run[w] \in {"unborn", "done"}
    /\ \A c \in Callers : pc[c] \in {"idle", "canRead", "canFire", "canChan", "canWait", "canEnd"}
QuiescentIsReset ==
    Quiescent /\ Alive => /\ ~Connected /\ cancelSync = Nil /\ syncCanceled = Nil
                          /\ active = NoData

\* The channel CancelSync waits for can still be closed: "when sync terminates
\* and syncer.Run returns, we will get notified on this channel".
CancelSyncIsNotified ==
    \A c \in Callers : pc[c] = "canWait" => snapshot[c] # Nil

\* What CancelSync waits for is on its way: whoever waits for the channel of a session
\* has cancelled that session, and not the one before or after it.
AwaitedSessionIsCancelled ==
    \A c \in Callers : pc[c] = "canWait" /\ snapshot[c] # Nil => snapshot[c] \in cancelled

\* One session at a time, and IsConnectedToDecredNetwork tells of the one whose channel
\* is in the field: a session is there from the moment it is published to the very step
\* that resets the flags, and the next one begins only after it.
\* A wallet that shows a session without a channel is not one that shows none.
Disconnected == -1
Connection == INSTANCE OneAtATime WITH
    Runs <- Sessions, NoRun <- Disconnected, running <- Live,
    shown <- IF Connected THEN syncCanceled ELSE Disconnected, stopped <- FALSE

SessionsAreAService == Connection!ServiceSpec

=============================================================================
