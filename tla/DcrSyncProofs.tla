--------------------------- MODULE DcrSyncProofs ---------------------------
(***************************************************************************)
(* Theorems about DcrSync, for any number of callers, sessions, usage      *)
(* discoveries and tickers: what survives callers that race, and what      *)
(* holds as long as calls come one after another, among it that the        *)
(* sessions are the abstract service of OneAtATime.                        *)
(***************************************************************************)
EXTENDS DcrSync, FiniteSetTheorems, TLAPS

(* The discovery channels.  Three goroutines may close the channel that    *)
(* activeSyncData holds: a callback, the goroutine of DiscoverUsage and    *)
(* resetSyncData.                                                          *)

\* A channel that activeSyncData still holds is open.
HeldIsOpen ==
    active # NoData /\ active.discovery # Nil => active.discovery \notin discoveryClosed

\* A channel exists from the moment its ticker is started: the next ticker
\* gets a channel that nobody has closed.
HeldIsBorn ==
    active # NoData /\ active.discovery # Nil => tick[active.discovery] # "unborn"
ClosedIsBorn == \A d \in discoveryClosed : tick[d] # "unborn"

DiscoveryInv == HeldIsOpen /\ HeldIsBorn /\ ClosedIsBorn /\ DiscoveryClosedOnce

\* CancelSync calls a cancel function only if it read one: TypeOK alone is
\* not inductive, since CallCancel would cancel the context Nil.
FiresArmed == \A c \in Callers : pc[c] = "canFire" => snapshot[c] \in Workers

Inv == TypeOK /\ FiresArmed /\ DiscoveryInv

\* The part of TypeOK that a nil pointer or a close may disturb.
DataTyped ==
    /\ active \in ActiveData \cup {NoData}
    /\ discoveryClosed \subseteq Tickers
    /\ crash \in Crashes

\* A ticker that was started stays started.
Starting == \A d \in Tickers : tick[d] # "unborn" => tick'[d] # "unborn"

-----------------------------------------------------------------------------
(* What a step does to the discovery channels                              *)

\* Nothing, when it leaves activeSyncData and the channels alone.
LEMMA QuietKeeps ==
    ASSUME Inv, Starting, UNCHANGED <<active, discoveryClosed, crash>>
    PROVE  DataTyped' /\ DiscoveryInv'
BY DEF Inv, TypeOK, ActiveData, DataTyped, DiscoveryInv, HeldIsOpen, HeldIsBorn,
   ClosedIsBorn, DiscoveryClosedOnce, Starting

\* Touching the data neither closes the channel nor puts another one there.
LEMMA TouchKeeps ==
    ASSUME Inv, NEW who \in Crashes \ {"discoveryTwice"}, NEW data, Touch(who, data),
           active # NoData => data \in ActiveData /\ data.discovery = active.discovery,
           Starting, UNCHANGED discoveryClosed
    PROVE  DataTyped' /\ DiscoveryInv'
<1>1. DataTyped'
    BY DEF Inv, TypeOK, DataTyped, Touch
<1>2. DiscoveryInv'
    BY NoDataAssumption DEF Inv, TypeOK, DiscoveryInv, HeldIsOpen, HeldIsBorn,
       ClosedIsBorn, DiscoveryClosedOnce, Touch, Starting, ActiveData
<1> QED BY <1>1, <1>2

\* Nor does a look at it.
LEMMA TouchSameKeeps ==
    ASSUME Inv, NEW who \in Crashes \ {"discoveryTwice"}, Touch(who, active), Starting,
           UNCHANGED discoveryClosed
    PROVE  DataTyped' /\ DiscoveryInv'
<1>1. active # NoData => active \in ActiveData
    BY DEF Inv, TypeOK
<1> QED BY <1>1, TouchKeeps

\* Stopping the discovery closes an open channel and forgets it.
LEMMA StopDiscoveryKeeps ==
    ASSUME Inv, StopDiscovery, UNCHANGED tick
    PROVE  DataTyped' /\ DiscoveryInv'
<1>1. CASE active # NoData /\ active.discovery # Nil
    <2>1. active \in ActiveData /\ active.discovery \in Tickers
        BY <1>1 DEF Inv, TypeOK, ActiveData
    <2>2. /\ active' = [active EXCEPT !.discovery = Nil]
          /\ discoveryClosed' = discoveryClosed \cup {active.discovery}
          /\ crash' = crash
        BY <1>1 DEF Inv, DiscoveryInv, HeldIsOpen, StopDiscovery
    <2>3. active' \in ActiveData /\ active'.discovery = Nil
        BY <2>1, <2>2 DEF ActiveData
    <2>4. DataTyped'
        BY <2>1, <2>2, <2>3 DEF Inv, TypeOK, DataTyped
    <2>5. DiscoveryInv'
        BY <1>1, <2>2, <2>3 DEF Inv, DiscoveryInv, HeldIsOpen, HeldIsBorn, ClosedIsBorn,
           DiscoveryClosedOnce
    <2> QED BY <2>4, <2>5
<1>2. CASE ~(active # NoData /\ active.discovery # Nil)
    <2>1. UNCHANGED <<active, discoveryClosed, crash>>
        BY <1>2 DEF StopDiscovery
    <2> QED
        BY <2>1 DEF Inv, TypeOK, DataTyped, DiscoveryInv, HeldIsOpen, HeldIsBorn,
           ClosedIsBorn, DiscoveryClosedOnce
<1> QED BY <1>1, <1>2

-----------------------------------------------------------------------------
(* Every step keeps the discovery channels                                 *)

\* A call only moves its caller.
LEMMA CallDiscovers ==
    ASSUME Inv, NEW c \in Callers, Call(c)
    PROVE  DataTyped' /\ DiscoveryInv'
BY QuietKeeps DEF Call, CallSpvSync, ToggleSyncOn, ToggleSyncOff,
   SafelyCancelSync, RestartSpvSync, DiscoverUsage, channels, tickers,
   Starting

\* SpvSync puts new data, without a discovery, over what is there.
LEMMA CallerStepDiscovers ==
    ASSUME Inv, NEW c \in Callers, CallerStep(c)
    PROVE  DataTyped' /\ DiscoveryInv'
<1>1. CASE CheckSyncing(c)
    BY <1>1, QuietKeeps DEF CheckSyncing, channels, tickers, Starting
<1>2. CASE CheckSynced(c)
    BY <1>2, QuietKeeps DEF CheckSynced, channels, tickers, Starting
<1>3. CASE RefuseInvalidPeers(c)
    BY <1>3, QuietKeeps DEF RefuseInvalidPeers, channels, tickers, Starting
<1>4. CASE InitActiveSyncData(c)
    BY <1>4, NoDataAssumption DEF InitActiveSyncData, Inv, TypeOK, DataTyped, ActiveData,
       DiscoveryInv, HeldIsOpen, HeldIsBorn, ClosedIsBorn, DiscoveryClosedOnce, channels,
       tickers
<1>5. CASE ArmSession(c)
    <2>1. PICK x \in Sessions : Touch("start", [active EXCEPT !.syncer = x])
      BY <1>5 DEF ArmSession, Unborn
    <2>2. Starting /\ UNCHANGED discoveryClosed
      BY <1>5 DEF ArmSession, Starting, tickers, wallet, channels
    <2>3. active # NoData =>
              /\ [active EXCEPT !.syncer = x] \in ActiveData
              /\ [active EXCEPT !.syncer = x].discovery = active.discovery
      BY DEF Inv, TypeOK, ActiveData
    <2> QED BY <2>1, <2>2, <2>3, TouchKeeps DEF Crashes
<1>6. CASE SpawnSession(c)
    BY <1>6, QuietKeeps DEF SpawnSession, channels, tickers, Starting
<1>7. CASE ReadCancelSync(c)
    BY <1>7, QuietKeeps DEF ReadCancelSync, channels, tickers, Starting
<1>8. CASE CallCancel(c)
    BY <1>8, QuietKeeps DEF CallCancel, tickers, Starting
<1>9. CASE ReadSyncCanceled(c)
    BY <1>9, QuietKeeps DEF ReadSyncCanceled, channels, tickers, Starting
<1>10. CASE AwaitSyncCanceled(c)
    BY <1>10, QuietKeeps DEF AwaitSyncCanceled, channels, tickers, Starting
<1>11. CASE EndSyncShuttingDown(c)
    BY <1>11, QuietKeeps DEF EndSyncShuttingDown, channels, tickers, Starting
<1>12. CASE DiscoverUsageChecksSyncing(c)
    BY <1>12, QuietKeeps DEF DiscoverUsageChecksSyncing, channels, tickers,
       Starting
<1>13. CASE DiscoverUsageChecksSynced(c)
    BY <1>13, QuietKeeps DEF DiscoverUsageChecksSynced, channels, tickers,
       Starting
<1> QED BY <1>1, <1>2, <1>3, <1>4, <1>5, <1>6, <1>7, <1>8, <1>9, <1>10, <1>11,
    <1>12, <1>13 DEF CallerStep

\* The first step of a callback.
LEMMA SyncerStepDiscovers ==
    ASSUME Inv, NEW s \in Sessions, SyncerStep(s)
    PROVE  DataTyped' /\ DiscoveryInv'
<1>1. CASE FetchCFiltersStarted(s)
    <2> DEFINE data == [active EXCEPT !.timing = TRUE, !.height = FALSE]
    <2>1. Touch("callback", data) /\ Starting /\ UNCHANGED discoveryClosed
      BY <1>1 DEF FetchCFiltersStarted, SameCallback, tickers, Starting
    <2>2. active # NoData => data \in ActiveData /\ data.discovery = active.discovery
      BY DEF Inv, TypeOK, ActiveData
    <2>3. "callback" \in Crashes \ {"discoveryTwice"}
      BY DEF Crashes
    <2> HIDE DEF data
    <2> QED BY <2>1, <2>2, <2>3, TouchKeeps
<1>2. CASE FetchCFiltersProgress(s)
    <2> DEFINE data == [active EXCEPT !.height = TRUE]
    <2>1. Touch("callback", data) /\ Starting /\ UNCHANGED discoveryClosed
      BY <1>2 DEF FetchCFiltersProgress, SameCallback, tickers, Starting
    <2>2. active # NoData => data \in ActiveData /\ data.discovery = active.discovery
      BY DEF Inv, TypeOK, ActiveData
    <2>3. "callback" \in Crashes \ {"discoveryTwice"}
      BY DEF Crashes
    <2> HIDE DEF data
    <2> QED BY <2>1, <2>2, <2>3, TouchKeeps
<1>3. CASE FetchCFiltersEnded(s)
    <2> DEFINE data == [active EXCEPT !.timing = FALSE, !.height = FALSE]
    <2>1. Touch("callback", data) /\ Starting /\ UNCHANGED discoveryClosed
      BY <1>3 DEF FetchCFiltersEnded, SameCallback, tickers, Starting
    <2>2. active # NoData => data \in ActiveData /\ data.discovery = active.discovery
      BY DEF Inv, TypeOK, ActiveData
    <2>3. "callback" \in Crashes \ {"discoveryTwice"}
      BY DEF Crashes
    <2> HIDE DEF data
    <2> QED BY <2>1, <2>2, <2>3, TouchKeeps
<1>4. CASE FetchHeadersStarted(s)
    BY <1>4, QuietKeeps DEF FetchHeadersStarted, SameCallback, tickers,
       Starting
<1>5. CASE FetchHeadersProgress(s)
    BY <1>5, QuietKeeps DEF FetchHeadersProgress, SameCallback, tickers,
       Starting
<1>6. CASE FetchHeadersFinished(s)
    <2>1. CASE syncing
      <3> DEFINE data == [active EXCEPT !.timing = FALSE, !.height = FALSE]
      <3>1. Touch("callback", data) /\ Starting /\ UNCHANGED discoveryClosed
        BY <1>6, <2>1 DEF FetchHeadersFinished, SameCallback, tickers, Starting
      <3>2. active # NoData => data \in ActiveData /\ data.discovery = active.discovery
        BY DEF Inv, TypeOK, ActiveData
      <3> HIDE DEF data
      <3> QED BY <3>1, <3>2, TouchKeeps DEF Crashes
    <2>2. CASE ~syncing
      BY <1>6, <2>2, QuietKeeps DEF FetchHeadersFinished, SameCallback, tickers,
         Starting
    <2> QED BY <2>1, <2>2
<1>7. CASE RescanStarted(s)
    BY <1>7, StopDiscoveryKeeps DEF RescanStarted, SameCallback, tickers
<1>8. CASE RescanProgress(s)
    BY <1>8, QuietKeeps DEF RescanProgress, SameCallback, tickers, Starting
<1>9. CASE RescanFinished(s)
    BY <1>9, QuietKeeps DEF RescanFinished, SameCallback, tickers, Starting
<1>10. CASE SyncedWallet(s)
    BY <1>10, QuietKeeps DEF SyncedWallet, SameCallback, tickers, Starting
<1> QED BY <1>1, <1>2, <1>3, <1>4, <1>5, <1>6, <1>7, <1>8, <1>9, <1>10 DEF
    SyncerStep

\* What follows: a callback's body, the end of a session, DiscoverUsage.
LEMMA WorkerBodyDiscovers ==
    ASSUME Inv, NEW w \in Workers, WorkerBody(w)
    PROVE  DataTyped' /\ DiscoveryInv'
<1>1. CASE FetchHeadersStartedCheck(w)
    <2>1. Touch("callback", active) /\ Starting /\ UNCHANGED discoveryClosed
      BY <1>1 DEF FetchHeadersStartedCheck, SameCallback, tickers, Starting
    <2> QED BY <2>1, TouchSameKeeps DEF Crashes
<1>2. CASE FetchHeadersStartedBody(w)
    <2> DEFINE data == [active EXCEPT !.timing = TRUE, !.height = TRUE]
    <2>1. Touch("callback", data) /\ Starting /\ UNCHANGED discoveryClosed
      BY <1>2 DEF FetchHeadersStartedBody, SameCallback, tickers, Starting
    <2>2. active # NoData => data \in ActiveData /\ data.discovery = active.discovery
      BY DEF Inv, TypeOK, ActiveData
    <2>3. "callback" \in Crashes \ {"discoveryTwice"}
      BY DEF Crashes
    <2> HIDE DEF data
    <2> QED BY <2>1, <2>2, <2>3, TouchKeeps
<1>3. CASE FetchHeadersProgressBody(w)
    <2>1. Touch("callback", active) /\ Starting /\ UNCHANGED discoveryClosed
      BY <1>3 DEF FetchHeadersProgressBody, SameCallback, tickers, Starting
    <2> QED BY <2>1, TouchSameKeeps DEF Crashes
<1>4. CASE PublishProgress(w)
    <2>1. Touch("callback", active) /\ Starting /\ UNCHANGED discoveryClosed
      BY <1>4 DEF PublishProgress, SameCallback, tickers, Starting
    <2> QED BY <2>1, TouchSameKeeps DEF Crashes
<1>5. CASE DiscoverAddressesStartedCheck(w)
    <2>1. Touch(Culprit(w), active) /\ Starting /\ UNCHANGED discoveryClosed
      BY <1>5 DEF DiscoverAddressesStartedCheck, Discovering, SameCallback,
          tickers, Starting
    <2> QED BY <2>1, TouchSameKeeps DEF Crashes, Culprit
<1>6. CASE DiscoverAddressesStartedBody(w)
    <2>1. PICK x \in Tickers :
              /\ tick[x] = "unborn"
              /\ Touch(Culprit(w), [active EXCEPT !.timing = TRUE, !.discovery = x])
              /\ tick' = [tick EXCEPT ![x] = "begin"]
      BY <1>6 DEF DiscoverAddressesStartedBody, Turn, Unborn
    <2>2. UNCHANGED discoveryClosed
      BY <1>6 DEF DiscoverAddressesStartedBody
    <2>3. x \notin discoveryClosed
      BY <2>1 DEF Inv, DiscoveryInv, ClosedIsBorn
    <2>4. Culprit(w) \in Crashes \ {"discoveryTwice"}
      BY DEF Culprit, Crashes
    <2>5. CASE active # NoData
      <3>1. active \in ActiveData /\ active' \in ActiveData /\ active'.discovery = x
        BY <2>1, <2>5 DEF Inv, TypeOK, ActiveData, Touch
      <3>2. crash' = crash
        BY <2>1, <2>5 DEF Touch
      <3>3. DataTyped'
        BY <2>2, <3>1, <3>2 DEF Inv, TypeOK, DataTyped
      <3>4. DiscoveryInv'
        BY <2>1, <2>2, <2>3, <3>1, <3>2 DEF Inv, TypeOK, DiscoveryInv, HeldIsOpen,
           HeldIsBorn, ClosedIsBorn, DiscoveryClosedOnce
      <3> QED BY <3>3, <3>4
    <2>6. CASE active = NoData
      <3>1. active' = NoData /\ crash' = Culprit(w)
        BY <2>1, <2>6 DEF Touch
      <3> QED
        BY <2>1, <2>2, <2>4, <3>1 DEF Inv, TypeOK, DataTyped, DiscoveryInv, HeldIsOpen,
           HeldIsBorn, ClosedIsBorn, DiscoveryClosedOnce
    <2> QED BY <2>5, <2>6
<1>7. CASE DiscoverAddressesFinishedBody(w)
    <2> DEFINE data == [active EXCEPT !.timing = FALSE, !.height = FALSE]
    <2>1. Touch(Culprit(w), data) /\ Starting /\ UNCHANGED discoveryClosed
      BY <1>7 DEF DiscoverAddressesFinishedBody, SameCallback, tickers,
          Starting
    <2>2. active # NoData => data \in ActiveData /\ data.discovery = active.discovery
      BY DEF Inv, TypeOK, ActiveData
    <2>3. Culprit(w) \in Crashes \ {"discoveryTwice"}
      BY DEF Crashes, Culprit
    <2> HIDE DEF data
    <2> QED BY <2>1, <2>2, <2>3, TouchKeeps
<1>8. CASE DiscoverAddressesFinishedStop(w)
    BY <1>8, StopDiscoveryKeeps DEF DiscoverAddressesFinishedStop,
       SameCallback, tickers
<1>9. CASE RescanStartedCheck(w)
    BY <1>9, QuietKeeps DEF RescanStartedCheck, SameCallback, tickers,
       Starting
<1>10. CASE RescanStartedBody(w)
    <2> DEFINE data == [active EXCEPT !.timing = TRUE]
    <2>1. Touch("callback", data) /\ Starting /\ UNCHANGED discoveryClosed
      BY <1>10 DEF RescanStartedBody, SameCallback, tickers, Starting
    <2>2. active # NoData => data \in ActiveData /\ data.discovery = active.discovery
      BY DEF Inv, TypeOK, ActiveData
    <2>3. "callback" \in Crashes \ {"discoveryTwice"}
      BY DEF Crashes
    <2> HIDE DEF data
    <2> QED BY <2>1, <2>2, <2>3, TouchKeeps
<1>11. CASE RescanProgressBody(w)
    <2>1. Touch("callback", active) /\ Starting /\ UNCHANGED discoveryClosed
      BY <1>11 DEF RescanProgressBody, SameCallback, tickers, Starting
    <2> QED BY <2>1, TouchSameKeeps DEF Crashes
<1>12. CASE RescanFinishedBody(w)
    <2> DEFINE data == [active EXCEPT !.timing = FALSE, !.height = FALSE]
    <2>1. Touch("callback", data) /\ Starting /\ UNCHANGED discoveryClosed
      BY <1>12 DEF RescanFinishedBody, SameCallback, tickers, Starting
    <2>2. active # NoData => data \in ActiveData /\ data.discovery = active.discovery
      BY DEF Inv, TypeOK, ActiveData
    <2>3. "callback" \in Crashes \ {"discoveryTwice"}
      BY DEF Crashes
    <2> HIDE DEF data
    <2> QED BY <2>1, <2>2, <2>3, TouchKeeps
<1>13. CASE SyncedWalletBody(w)
    BY <1>13, QuietKeeps DEF SyncedWalletBody, channels, tickers, Starting
<1>14. CASE SyncedWalletEnd(w)
    BY <1>14, QuietKeeps DEF SyncedWalletEnd, channels, tickers, Starting
<1>15. CASE CloseSyncCanceled(w)
    <2>1. crash' \in Crashes /\ crash' # "discoveryTwice"
      BY <1>15 DEF CloseSyncCanceled, Inv, TypeOK, DiscoveryInv, DiscoveryClosedOnce, Crashes
    <2>2. UNCHANGED <<active, discoveryClosed, tick>>
      BY <1>15 DEF CloseSyncCanceled, tickers
    <2> QED
      BY <2>1, <2>2 DEF Inv, TypeOK, DataTyped, DiscoveryInv, HeldIsOpen, HeldIsBorn,
         ClosedIsBorn, DiscoveryClosedOnce
<1>16. CASE ResetStopsDiscovery(w)
    BY <1>16, StopDiscoveryKeeps DEF ResetStopsDiscovery, SameCallback,
       tickers
<1>17. CASE ResetSyncData(w)
    BY <1>17 DEF ResetSyncData, Inv, TypeOK, DataTyped, DiscoveryInv, HeldIsOpen,
       HeldIsBorn, ClosedIsBorn, DiscoveryClosedOnce, channels, tickers
<1>18. CASE ResetLocksWallet(w)
    BY <1>18, QuietKeeps DEF ResetLocksWallet, channels, tickers, Starting
<1>19. CASE UsageBegins(w)
    BY <1>19, QuietKeeps DEF UsageBegins, channels, tickers, Starting
<1>20. CASE UsageStops(w)
    BY <1>20, QuietKeeps DEF UsageStops, channels, tickers, Starting
<1> QED BY <1>1, <1>2, <1>3, <1>4, <1>5, <1>6, <1>7, <1>8, <1>9, <1>10, <1>11,
    <1>12, <1>13, <1>14, <1>15, <1>16, <1>17, <1>18, <1>19, <1>20 DEF
    WorkerBody

\* A ticker only reads; it never closes a channel.
LEMMA TickerStepDiscovers ==
    ASSUME Inv, NEW d \in Tickers, TickerStep(d)
    PROVE  DataTyped' /\ DiscoveryInv'
<1>1. CASE TickerBegins(d)
    <2>1. Touch("ticker", active) /\ Starting /\ UNCHANGED discoveryClosed
      BY <1>1 DEF TickerBegins, Turn, SameTicker, channels, Starting, Inv,
          TypeOK
    <2> QED BY <2>1, TouchSameKeeps DEF Crashes
<1>2. CASE TickerChecks(d)
    BY <1>2, QuietKeeps DEF TickerChecks, Turn, SameTicker, channels,
       Starting, Inv, TypeOK
<1>3. CASE TickerLocks(d)
    <2>1. Touch("ticker", active) /\ Starting /\ UNCHANGED discoveryClosed
      BY <1>3 DEF TickerLocks, Turn, SameTicker, channels, Starting, Inv,
          TypeOK
    <2> QED BY <2>1, TouchSameKeeps DEF Crashes
<1>4. CASE TickerSelects(d)
    <2>1. Touch("ticker", active) /\ Starting /\ UNCHANGED discoveryClosed
      BY <1>4 DEF TickerSelects, Turn, SameTicker, channels, Starting, Inv,
          TypeOK
    <2> QED BY <2>1, TouchSameKeeps DEF Crashes
<1>5. CASE TickerStops(d)
    BY <1>5, QuietKeeps DEF TickerStops, Turn, SameTicker, channels, Starting,
       Inv, TypeOK
<1>6. CASE TickerFires(d)
    BY <1>6, QuietKeeps DEF TickerFires, Turn, SameTicker, channels, Starting,
       Inv, TypeOK
<1>7. CASE TickerPublishes(d)
    <2>1. Touch("ticker", active) /\ Starting /\ UNCHANGED discoveryClosed
      BY <1>7 DEF TickerPublishes, Turn, SameTicker, channels, Starting, Inv,
          TypeOK
    <2> QED BY <2>1, TouchSameKeeps DEF Crashes
<1> QED BY <1>1, <1>2, <1>3, <1>4, <1>5, <1>6, <1>7 DEF TickerStep

-----------------------------------------------------------------------------
(* Types                                                                   *)

\* TypeOK and FiresArmed, given that the data of the step above keep their type.
LEMMA CallTyped ==
    ASSUME Inv, NEW c \in Callers, Call(c), DataTyped'
    PROVE  TypeOK' /\ FiresArmed'
<1> USE DEF Inv, TypeOK, FiresArmed, DataTyped, Workers, flags, wallet,
        channels, callers, workers, heard, tickers, Goto, CallerStates
<1>1. CASE CallSpvSync(c)
    BY <1>1 DEF CallSpvSync
<1>2. CASE ToggleSyncOn(c)
    <2>1. locked' = locked \/ locked' = FALSE
      BY <1>2 DEF ToggleSyncOn
    <2>2. /\ pc' = [pc EXCEPT ![c] = "spvSyncing"]
          /\ UNCHANGED <<flags, restartSyncRequested, shuttingDown, channels, restarting,
                         snapshot, workers, tickers>>
      BY <1>2 DEF ToggleSyncOn
    <2>3. TypeOK'
      <3>1. CASE locked' = locked
        BY <2>2, <3>1
      <3>2. CASE locked' = FALSE
        BY <2>2, <3>2
      <3> QED BY <2>1, <3>1, <3>2
    <2>4. FiresArmed'
      BY <2>2
    <2> QED BY <2>3, <2>4
<1>3. CASE ToggleSyncOff(c)
    BY <1>3 DEF ToggleSyncOff
<1>4. CASE SafelyCancelSync(c)
    BY <1>4 DEF SafelyCancelSync
<1>5. CASE RestartSpvSync(c)
    BY <1>5 DEF RestartSpvSync
<1>6. CASE DiscoverUsage(c)
    BY <1>6 DEF DiscoverUsage
<1> QED BY <1>1, <1>2, <1>3, <1>4, <1>5, <1>6 DEF Call

\* CallCancel is the step that needs FiresArmed.
LEMMA CallerStepTyped ==
    ASSUME Inv, NEW c \in Callers, CallerStep(c), DataTyped'
    PROVE  TypeOK' /\ FiresArmed'
<1> USE DEF Inv, TypeOK, FiresArmed, DataTyped, Workers, flags, wallet,
        channels, callers, workers, heard, tickers, Goto, CallerStates
<1>1. CASE CheckSyncing(c)
    BY <1>1 DEF CheckSyncing
<1>2. CASE CheckSynced(c)
    BY <1>2 DEF CheckSynced
<1>3. CASE RefuseInvalidPeers(c)
    BY <1>3 DEF RefuseInvalidPeers
<1>4. CASE InitActiveSyncData(c)
    BY <1>4 DEF InitActiveSyncData
<1>5. CASE ArmSession(c)
    <2>1. PICK x \in Sessions :
              /\ cancelSync' = x /\ syncCanceled' = x
              /\ snapshot' = [snapshot EXCEPT ![c] = x]
              /\ run' = [run EXCEPT ![x] = "armed"]
      BY <1>5 DEF ArmSession, Unborn, Move
    <2>2. /\ pc' = [pc EXCEPT ![c] = "spvSpawn"]
          /\ restartSyncRequested' = FALSE /\ syncing' = TRUE
          /\ UNCHANGED <<synced, wallet, cancelled, closed, restarting, heard, tickers>>
      BY <1>5 DEF ArmSession
    <2>3. TypeOK'
      BY <2>1, <2>2 DEF WorkerStates
    <2>4. FiresArmed'
      BY <2>1, <2>2
    <2> QED BY <2>3, <2>4
<1>6. CASE SpawnSession(c)
    BY <1>6 DEF SpawnSession, Move, WorkerStates, Running, Idling, Inside,
       Publishing, Ending, UsageStates
<1>7. CASE ReadCancelSync(c)
    BY <1>7 DEF ReadCancelSync
<1>8. CASE CallCancel(c)
    BY <1>8 DEF CallCancel
<1>9. CASE ReadSyncCanceled(c)
    BY <1>9 DEF ReadSyncCanceled
<1>10. CASE AwaitSyncCanceled(c)
    BY <1>10 DEF AwaitSyncCanceled
<1>11. CASE EndSyncShuttingDown(c)
    BY <1>11 DEF EndSyncShuttingDown
<1>12. CASE DiscoverUsageChecksSyncing(c)
    BY <1>12 DEF DiscoverUsageChecksSyncing
<1>13. CASE DiscoverUsageChecksSynced(c)
    BY <1>13 DEF DiscoverUsageChecksSynced, Unborn, Move, WorkerStates,
       Running, Idling, Inside, Publishing, Ending, UsageStates
<1> QED BY <1>1, <1>2, <1>3, <1>4, <1>5, <1>6, <1>7, <1>8, <1>9, <1>10, <1>11,
    <1>12, <1>13 DEF CallerStep

\* A callback begins: the session stays in one of its states.
LEMMA SyncerStepTyped ==
    ASSUME Inv, NEW s \in Sessions, SyncerStep(s), DataTyped'
    PROVE  TypeOK' /\ FiresArmed'
<1> USE DEF Inv, TypeOK, FiresArmed, DataTyped, Workers, flags, wallet,
        channels, callers, workers, heard, tickers, Move, SameCallback, WorkerStates,
        Running, Idling, Inside, Publishing, Ending, UsageStates
<1>1. CASE FetchCFiltersStarted(s)
    BY <1>1 DEF FetchCFiltersStarted
<1>2. CASE FetchCFiltersProgress(s)
    BY <1>2 DEF FetchCFiltersProgress
<1>3. CASE FetchCFiltersEnded(s)
    BY <1>3 DEF FetchCFiltersEnded
<1>4. CASE FetchHeadersStarted(s)
    BY <1>4 DEF FetchHeadersStarted
<1>5. CASE FetchHeadersProgress(s)
    BY <1>5 DEF FetchHeadersProgress
<1>6. CASE FetchHeadersFinished(s)
    BY <1>6 DEF FetchHeadersFinished
<1>7. CASE RescanStarted(s)
    BY <1>7 DEF RescanStarted
<1>8. CASE RescanProgress(s)
    BY <1>8 DEF RescanProgress
<1>9. CASE RescanFinished(s)
    BY <1>9 DEF RescanFinished
<1>10. CASE SyncedWallet(s)
    BY <1>10 DEF SyncedWallet
<1> QED BY <1>1, <1>2, <1>3, <1>4, <1>5, <1>6, <1>7, <1>8, <1>9, <1>10 DEF
    SyncerStep

\* A goroutine goes on, up to the end of its session.
LEMMA WorkerBodyTyped ==
    ASSUME Inv, NEW w \in Workers, WorkerBody(w), DataTyped'
    PROVE  TypeOK' /\ FiresArmed'
<1> USE DEF Inv, TypeOK, FiresArmed, DataTyped, Workers, flags, wallet,
        channels, callers, workers, heard, tickers, Move, SameCallback, WorkerStates,
        Running, Idling, Inside, Publishing, Ending, UsageStates
<1>1. CASE FetchHeadersStartedCheck(w)
    BY <1>1 DEF FetchHeadersStartedCheck
<1>2. CASE FetchHeadersStartedBody(w)
    BY <1>2 DEF FetchHeadersStartedBody
<1>3. CASE FetchHeadersProgressBody(w)
    BY <1>3 DEF FetchHeadersProgressBody
<1>4. CASE PublishProgress(w)
    BY <1>4 DEF PublishProgress, Published
<1>5. CASE DiscoverAddressesStartedCheck(w)
    BY <1>5 DEF DiscoverAddressesStartedCheck, Discovering
<1>6. CASE DiscoverAddressesStartedBody(w)
    BY <1>6 DEF DiscoverAddressesStartedBody, Unborn, Turn, Discovering,
       TickerStates
<1>7. CASE DiscoverAddressesFinishedBody(w)
    BY <1>7 DEF DiscoverAddressesFinishedBody
<1>8. CASE DiscoverAddressesFinishedStop(w)
    BY <1>8 DEF DiscoverAddressesFinishedStop, Discovered
<1>9. CASE RescanStartedCheck(w)
    BY <1>9 DEF RescanStartedCheck
<1>10. CASE RescanStartedBody(w)
    BY <1>10 DEF RescanStartedBody
<1>11. CASE RescanProgressBody(w)
    BY <1>11 DEF RescanProgressBody
<1>12. CASE RescanFinishedBody(w)
    BY <1>12 DEF RescanFinishedBody
<1>13. CASE SyncedWalletBody(w)
    BY <1>13 DEF SyncedWalletBody
<1>14. CASE SyncedWalletEnd(w)
    <2>1. indexing' = indexing \/ indexing' = indexing \cup {w}
      BY <1>14 DEF SyncedWalletEnd
    <2>2. /\ syncing' = FALSE /\ synced' = TRUE /\ Move(w, "between")
          /\ UNCHANGED <<cancelSync, syncCanceled, restartSyncRequested, wallet, channels,
                         callers, told, tickers>>
      BY <1>14 DEF SyncedWalletEnd
    <2>3. TypeOK'
      <3>1. CASE indexing' = indexing
        BY <2>2, <3>1
      <3>2. CASE indexing' = indexing \cup {w}
        BY <2>2, <3>2
      <3> QED BY <2>1, <3>1, <3>2
    <2>4. FiresArmed'
      BY <2>2
    <2> QED BY <2>3, <2>4
<1>15. CASE CloseSyncCanceled(w)
    BY <1>15 DEF CloseSyncCanceled
<1>16. CASE ResetStopsDiscovery(w)
    BY <1>16 DEF ResetStopsDiscovery
<1>17. CASE ResetSyncData(w)
    BY <1>17 DEF ResetSyncData
<1>18. CASE ResetLocksWallet(w)
    BY <1>18 DEF ResetLocksWallet
<1>19. CASE UsageBegins(w)
    BY <1>19 DEF UsageBegins
<1>20. CASE UsageStops(w)
    BY <1>20 DEF UsageStops
<1> QED BY <1>1, <1>2, <1>3, <1>4, <1>5, <1>6, <1>7, <1>8, <1>9, <1>10, <1>11,
    <1>12, <1>13, <1>14, <1>15, <1>16, <1>17, <1>18, <1>19, <1>20 DEF
    WorkerBody

\* TickerSelects keeps a channel it read from well-typed data.
LEMMA TickerStepTyped ==
    ASSUME Inv, NEW d \in Tickers, TickerStep(d), DataTyped'
    PROVE  TypeOK' /\ FiresArmed'
<1> USE DEF Inv, TypeOK, FiresArmed, DataTyped, Workers, flags, wallet,
        channels, callers, workers, heard, tickers, Turn, SameTicker, TickerStates
<1>1. CASE TickerBegins(d)
    BY <1>1 DEF TickerBegins
<1>2. CASE TickerChecks(d)
    BY <1>2 DEF TickerChecks
<1>3. CASE TickerLocks(d)
    BY <1>3 DEF TickerLocks
<1>4. CASE TickerSelects(d)
    BY <1>4 DEF TickerSelects, ActiveData
<1>5. CASE TickerStops(d)
    BY <1>5 DEF TickerStops
<1>6. CASE TickerFires(d)
    BY <1>6 DEF TickerFires
<1>7. CASE TickerPublishes(d)
    BY <1>7 DEF TickerPublishes
<1> QED BY <1>1, <1>2, <1>3, <1>4, <1>5, <1>6, <1>7 DEF TickerStep

-----------------------------------------------------------------------------
(* The theorems                                                            *)

\* A wallet that never synced satisfies the invariant.
LEMMA InitHasInv == Init => Inv
<1> SUFFICES ASSUME Init PROVE Inv
    OBVIOUS
<1>1. TypeOK
    BY DEF Init, TypeOK, Crashes, CallerStates, WorkerStates, TickerStates
<1>2. FiresArmed /\ DiscoveryInv
    BY DEF Init, FiresArmed, DiscoveryInv, HeldIsOpen, HeldIsBorn, ClosedIsBorn,
       DiscoveryClosedOnce
<1> QED BY <1>1, <1>2 DEF Inv

\* The four steps of Next that are in no group: a session may end, and a
\* discovery start and finish, when the syncer likes.
LEMMA LooseSteps ==
    ASSUME Inv, NEW w \in Workers,
           \/ w \in Sessions /\ RunReturns(w)
           \/ DiscoverAddressesStarted(w)
           \/ DiscoverAddressesFinished(w)
           \/ UsageReturns(w)
    PROVE  Inv'
<1>1. DataTyped' /\ DiscoveryInv'
    BY QuietKeeps DEF RunReturns, DiscoverAddressesStarted, DiscoverAddressesFinished,
       UsageReturns, Move, SameCallback, tickers, channels, Starting
<1> USE DEF Inv, TypeOK, FiresArmed, DataTyped, Workers, WorkerStates, Running, Idling,
        Inside, Publishing, Ending, UsageStates, flags, wallet, channels, callers, heard,
        tickers, Move
<1>2. CASE w \in Sessions /\ RunReturns(w)
    BY <1>1, <1>2 DEF RunReturns, Told
<1>3. CASE DiscoverAddressesStarted(w)
    BY <1>1, <1>3 DEF DiscoverAddressesStarted, Discovering, SameCallback
<1>4. CASE DiscoverAddressesFinished(w)
    BY <1>1, <1>4 DEF DiscoverAddressesFinished, Discovered, SameCallback
<1>5. CASE UsageReturns(w)
    BY <1>1, <1>5 DEF UsageReturns
<1> QED BY <1>2, <1>3, <1>4, <1>5

\* The index goroutines and the readers change nothing of the session: only what the
\* listeners heard, what they will hear, and who reads.
LEMMA ObserversChangeNothing ==
    ASSUME \/ \E s \in Sessions : IndexStep(s)
           \/ \E r \in Readers : ReaderStep(r)
    PROVE  /\ UNCHANGED <<syncing, synced, cancelSync, syncCanceled, restartSyncRequested>>
           /\ UNCHANGED <<shuttingDown, locked, cancelled, closed, discoveryClosed>>
           /\ UNCHANGED <<pc, restarting, snapshot, run, active, tick, select>>
           /\ crash' = crash \/ crash' = "reader"
<1>1. ASSUME NEW s \in Sessions, IndexStep(s)
      PROVE  UNCHANGED <<flags, restartSyncRequested, active, wallet, channels, callers, run,
                         tickers, crash>>
    BY <1>1 DEF IndexStep, SyncedWalletAgain, ReportCompleted, ReportBehind
<1>2. ASSUME NEW r \in Readers, ReaderStep(r)
      PROVE  /\ UNCHANGED <<flags, restartSyncRequested, active, wallet, channels, callers,
                            workers, tick, select>>
             /\ crash' = crash \/ crash' = "reader"
    BY <1>2 DEF ReaderStep, ReaderFindsData, ReaderAsksSyncer
<1> QED BY <1>1, <1>2 DEF flags, wallet, channels, callers, workers, tickers

\* What they do change keeps its type.
LEMMA ObserversTyped ==
    ASSUME Inv,
           \/ \E s \in Sessions : IndexStep(s)
           \/ \E r \in Readers : ReaderStep(r)
    PROVE  /\ told' \in {told, "completed", "late", "behind"}
           /\ indexing' \subseteq Workers /\ reading' \subseteq Readers
<1>1. ASSUME NEW s \in Sessions, IndexStep(s)
      PROVE  /\ told' \in {told, "completed", "late", "behind"}
             /\ indexing' \in {indexing, indexing \cup {s}} /\ reading' = reading
    BY <1>1 DEF IndexStep, SyncedWalletAgain, ReportCompleted, ReportBehind, tickers
<1>2. ASSUME NEW r \in Readers, ReaderStep(r)
      PROVE  /\ told' = told /\ indexing' = indexing
             /\ reading' \in {reading \cup {r}, reading \ {r}}
    BY <1>2 DEF ReaderStep, ReaderFindsData, ReaderAsksSyncer, workers, heard
<1> QED BY <1>1, <1>2 DEF Inv, TypeOK, Workers

\* Inv is inductive.
LEMMA NextKeepsInv == Inv /\ [Next]_vars => Inv'
<1> SUFFICES ASSUME Inv, [Next]_vars PROVE Inv'
    OBVIOUS
<1>1. ASSUME NEW c \in Callers, Call(c) \/ CallerStep(c) PROVE Inv'
    BY <1>1, CallDiscovers, CallerStepDiscovers, CallTyped, CallerStepTyped DEF Inv
<1>2. ASSUME NEW s \in Sessions, SyncerStep(s) \/ RunReturns(s) PROVE Inv'
    BY <1>2, SyncerStepDiscovers, SyncerStepTyped, LooseSteps DEF Inv, Workers
<1>3. ASSUME NEW w \in Workers,
             \/ DiscoverAddressesStarted(w) \/ DiscoverAddressesFinished(w)
             \/ WorkerBody(w)
      PROVE Inv'
    BY <1>3, WorkerBodyDiscovers, WorkerBodyTyped, LooseSteps DEF Inv
<1>4. ASSUME NEW u \in Usages, UsageReturns(u) PROVE Inv'
    BY <1>4, LooseSteps DEF Workers
<1>5. ASSUME NEW d \in Tickers, TickerStep(d) PROVE Inv'
    BY <1>5, TickerStepDiscovers, TickerStepTyped DEF Inv
<1>6. CASE (\E s \in Sessions : IndexStep(s)) \/ (\E r \in Readers : ReaderStep(r))
    <2>1. /\ UNCHANGED <<syncing, synced, cancelSync, syncCanceled, restartSyncRequested>>
          /\ UNCHANGED <<shuttingDown, locked, cancelled, closed, discoveryClosed>>
          /\ UNCHANGED <<pc, restarting, snapshot, run, active, tick, select>>
          /\ crash' \in Crashes /\ crash' # "discoveryTwice"
      BY <1>6, ObserversChangeNothing DEF Inv, TypeOK, DiscoveryInv, DiscoveryClosedOnce, Crashes
    <2>2. /\ told' \in {told, "completed", "late", "behind"}
          /\ indexing' \subseteq Workers /\ reading' \subseteq Readers
      BY <1>6, ObserversTyped
    <2>3. TypeOK' /\ FiresArmed'
      BY <2>1, <2>2 DEF Inv, TypeOK, FiresArmed
    <2>4. DiscoveryInv'
      BY <2>1 DEF Inv, DiscoveryInv, HeldIsOpen, HeldIsBorn, ClosedIsBorn, DiscoveryClosedOnce
    <2> QED BY <2>3, <2>4 DEF Inv
<1>7. CASE UNCHANGED vars
    BY <1>7 DEF Inv, TypeOK, FiresArmed, DiscoveryInv, HeldIsOpen, HeldIsBorn, ClosedIsBorn,
       DiscoveryClosedOnce, vars, flags, wallet, channels, callers, workers, heard, tickers
<1> QED BY <1>1, <1>2, <1>3, <1>4, <1>5, <1>6, <1>7 DEF Next

\* Inv holds of every wallet, however its goroutines interleave.
THEOREM InvHolds == Spec => []Inv
BY InitHasInv, NextKeepsInv, PTL DEF Spec

\* The state of the sync keeps its type whatever the callers, the syncer and
\* the tickers do; in particular CancelSync never calls a nil function.
THEOREM TypeCorrect == Spec => []TypeOK
<1>1. Inv => TypeOK
    BY DEF Inv
<1> QED BY <1>1, InvHolds, PTL

\* stopUpdatingAddressDiscoveryProgress never closes a channel that is closed
\* already, for any number of sessions and usage discoveries that overlap.
THEOREM DiscoveryNeverClosedTwice == Spec => []DiscoveryClosedOnce
<1>1. Inv => DiscoveryClosedOnce
    BY DEF Inv, DiscoveryInv
<1> QED BY <1>1, InvHolds, PTL

-----------------------------------------------------------------------------
(* Which worker is where                                                   *)

LiveStates == {"armed", "returned", "closed", "stopped"} \cup Running

\* A usage discovery between the two assignments of syncing, and elsewhere.
UsageLive == {"usageStart", "startCheck", "startBody", "usageRun", "usageStop"}
UsageRest == {"unborn", "spawned", "usageFinish", "finishBody", "finishStop", "done"}

\* A session goes through the states of a session, a discovery through its own.
Kinds ==
    /\ \A s \in Sessions : run[s] \in LiveStates \cup {"unborn", "reset", "done"}
    /\ \A u \in Usages : run[u] \in UsageLive \cup UsageRest

\* SpvSync starts the goroutine of the session it has armed.
SpawnsSession == \A c \in Callers : pc[c] = "spvSpawn" => snapshot[c] \in Sessions

\* What a callback does, whichever it is: its session stays in the syncer, or its
\* discovery where it was, and data that are there stay there.
StaysWhereItWas(w, label) ==
    IF w \in Sessions
    THEN run[w] \in Running /\ label \in Running
    ELSE /\ label \in UsageLive \cup UsageRest
         /\ run[w] \in UsageLive <=> label \in UsageLive

Callback(w) ==
    /\ SameCallback
    /\ \E label \in WorkerStates : Move(w, label) /\ StaysWhereItWas(w, label)
    /\ active' = NoData <=> active = NoData
    /\ active # NoData => crash' \in {crash, "discoveryTwice"}

\* Data that are there are overwritten by other data.
LEMMA TouchLeavesData ==
    ASSUME Inv, NEW who, NEW data, Touch(who, data),
           active # NoData => data \in ActiveData
    PROVE  /\ active' = NoData <=> active = NoData
           /\ active # NoData => crash' = crash
BY NoDataAssumption DEF Touch

\* stopUpdatingAddressDiscoveryProgress forgets the channel and leaves the data there.
LEMMA StopLeavesData ==
    ASSUME Inv, StopDiscovery
    PROVE  /\ active' = NoData <=> active = NoData
           /\ active # NoData => crash' \in {crash, "discoveryTwice"}
<1>1. active # NoData => active \in ActiveData
    BY DEF Inv, TypeOK
<1>2. active # NoData => [active EXCEPT !.discovery = Nil] \in ActiveData
    BY <1>1 DEF ActiveData
<1> QED BY <1>1, <1>2, NoDataAssumption DEF StopDiscovery

\* The fields a callback assigns leave the data well-typed.
LEMMA DataStay ==
    ASSUME Inv, active # NoData
    PROVE  /\ active \in ActiveData
           /\ [active EXCEPT !.timing = TRUE] \in ActiveData
           /\ [active EXCEPT !.height = TRUE] \in ActiveData
           /\ [active EXCEPT !.timing = TRUE, !.height = TRUE] \in ActiveData
           /\ [active EXCEPT !.timing = TRUE, !.height = FALSE] \in ActiveData
           /\ [active EXCEPT !.timing = FALSE, !.height = FALSE] \in ActiveData
           /\ \A d \in Tickers : [active EXCEPT !.timing = TRUE, !.discovery = d] \in ActiveData
<1>1. active \in ActiveData
    BY DEF Inv, TypeOK
<1> QED BY <1>1 DEF ActiveData

\* Whatever the syncer decides to do next is a callback.
LEMMA SyncerCallsBack ==
    ASSUME Inv, Kinds, NEW s \in Sessions, SyncerStep(s)
    PROVE  Callback(s)
<1> USE DEF StaysWhereItWas, Move, WorkerStates, Running, Idling, Inside, Publishing
<1>1. CASE FetchCFiltersStarted(s)
    BY <1>1, DataStay, TouchLeavesData DEF FetchCFiltersStarted, Callback
<1>2. CASE FetchCFiltersProgress(s)
    BY <1>2, DataStay, TouchLeavesData DEF FetchCFiltersProgress, Callback
<1>3. CASE FetchCFiltersEnded(s)
    BY <1>3, DataStay, TouchLeavesData DEF FetchCFiltersEnded, Callback
<1>4. CASE FetchHeadersStarted(s)
    BY <1>4 DEF FetchHeadersStarted, Callback
<1>5. CASE FetchHeadersProgress(s)
    BY <1>5 DEF FetchHeadersProgress, Callback
<1>6. CASE FetchHeadersFinished(s)
    BY <1>6, DataStay, TouchLeavesData DEF FetchHeadersFinished, Callback
<1>7. CASE RescanStarted(s)
    BY <1>7, StopLeavesData DEF RescanStarted, Callback
<1>8. CASE RescanProgress(s)
    BY <1>8 DEF RescanProgress, Callback
<1>9. CASE RescanFinished(s)
    BY <1>9 DEF RescanFinished, Callback
<1>10. CASE SyncedWallet(s)
    BY <1>10 DEF SyncedWallet, Callback
<1> QED BY <1>1, <1>2, <1>3, <1>4, <1>5, <1>6, <1>7, <1>8, <1>9, <1>10 DEF SyncerStep

\* The steps of a worker that are callbacks.
LEMMA WorkersCallBack ==
    ASSUME Inv, Kinds, NEW w \in Workers,
           \/ FetchHeadersStartedCheck(w) \/ FetchHeadersStartedBody(w)
           \/ FetchHeadersProgressBody(w) \/ PublishProgress(w)
           \/ DiscoverAddressesStarted(w)
           \/ DiscoverAddressesStartedCheck(w) \/ DiscoverAddressesStartedBody(w)
           \/ DiscoverAddressesFinished(w)
           \/ DiscoverAddressesFinishedBody(w) \/ DiscoverAddressesFinishedStop(w)
           \/ RescanStartedCheck(w) \/ RescanStartedBody(w)
           \/ RescanProgressBody(w) \/ RescanFinishedBody(w)
    PROVE  Callback(w)
<1>0. w \in Sessions <=> w \notin Usages
    BY BoundsAssumption DEF Workers, Sessions, Usages
<1>k. /\ w \in Sessions => run[w] \in LiveStates \cup {"unborn", "reset", "done"}
      /\ w \notin Sessions => run[w] \in UsageLive \cup UsageRest
    BY <1>0 DEF Kinds
<1> USE <1>k DEF StaysWhereItWas, Move, WorkerStates, Running, Idling, Inside, Publishing,
                 UsageStates, UsageLive, UsageRest, LiveStates
<1>1. CASE FetchHeadersStartedCheck(w)
    BY <1>1, DataStay, TouchLeavesData DEF FetchHeadersStartedCheck, Callback
<1>2. CASE FetchHeadersStartedBody(w)
    BY <1>2, DataStay, TouchLeavesData DEF FetchHeadersStartedBody, Callback
<1>3. CASE FetchHeadersProgressBody(w)
    BY <1>3, DataStay, TouchLeavesData DEF FetchHeadersProgressBody, Callback
<1>4. CASE PublishProgress(w)
    BY <1>4, DataStay, TouchLeavesData DEF PublishProgress, Published, Callback
<1>5. CASE DiscoverAddressesStarted(w)
    BY <1>5 DEF DiscoverAddressesStarted, Discovering, Callback
<1>6. CASE DiscoverAddressesStartedCheck(w)
    BY <1>6, DataStay, TouchLeavesData DEF DiscoverAddressesStartedCheck, Discovering, Callback
<1>7. CASE DiscoverAddressesStartedBody(w)
    <2>1. PICK d \in Tickers :
             Touch(Culprit(w), [active EXCEPT !.timing = TRUE, !.discovery = d])
      BY <1>7 DEF DiscoverAddressesStartedBody, Unborn
    <2>2. /\ active' = NoData <=> active = NoData
          /\ active # NoData => crash' = crash
      BY <2>1, DataStay, TouchLeavesData
    <2> QED BY <1>7, <2>2 DEF DiscoverAddressesStartedBody, Discovering, Callback
<1>8. CASE DiscoverAddressesFinished(w)
    <2>1. Move(w, IF syncing THEN "finishBody" ELSE Discovered(w)) /\ SameCallback
      BY <1>8 DEF DiscoverAddressesFinished
    <2>2. active' = active /\ crash' = crash
      BY <1>8 DEF DiscoverAddressesFinished
    <2>3. StaysWhereItWas(w, IF syncing THEN "finishBody" ELSE Discovered(w))
      BY <1>8 DEF DiscoverAddressesFinished, Discovered
    <2> QED BY <2>1, <2>2, <2>3 DEF Callback, Discovered
<1>9. CASE DiscoverAddressesFinishedBody(w)
    <2>1. Move(w, "finishStop") /\ SameCallback
      BY <1>9 DEF DiscoverAddressesFinishedBody
    <2>2. /\ active' = NoData <=> active = NoData
          /\ active # NoData => crash' = crash
      BY <1>9, DataStay, TouchLeavesData DEF DiscoverAddressesFinishedBody
    <2>3. StaysWhereItWas(w, "finishStop")
      BY <1>9 DEF DiscoverAddressesFinishedBody
    <2> QED BY <2>1, <2>2, <2>3 DEF Callback
<1>10. CASE DiscoverAddressesFinishedStop(w)
    <2>1. Move(w, Discovered(w)) /\ SameCallback
      BY <1>10 DEF DiscoverAddressesFinishedStop
    <2>2. /\ active' = NoData <=> active = NoData
          /\ active # NoData => crash' \in {crash, "discoveryTwice"}
      BY <1>10, StopLeavesData DEF DiscoverAddressesFinishedStop
    <2>3. StaysWhereItWas(w, Discovered(w))
      BY <1>10 DEF DiscoverAddressesFinishedStop, Discovered
    <2> QED BY <2>1, <2>2, <2>3 DEF Callback, Discovered
<1>11. CASE RescanStartedCheck(w)
    BY <1>11 DEF RescanStartedCheck, Callback
<1>12. CASE RescanStartedBody(w)
    BY <1>12, DataStay, TouchLeavesData DEF RescanStartedBody, Callback
<1>13. CASE RescanProgressBody(w)
    BY <1>13, DataStay, TouchLeavesData DEF RescanProgressBody, Callback
<1>14. CASE RescanFinishedBody(w)
    BY <1>14, DataStay, TouchLeavesData DEF RescanFinishedBody, Callback
<1> QED BY <1>1, <1>2, <1>3, <1>4, <1>5, <1>6, <1>7, <1>8, <1>9, <1>10, <1>11, <1>12,
    <1>13, <1>14

-----------------------------------------------------------------------------
(* The reset: nothing is left of a session                                 *)

\* Until ResetSyncData a session is there, whatever others overwrote; a usage
\* discovery sets only the two fields it resets itself.
SomeLive  == \E s \in Sessions : run[s] \in LiveStates
SomeUsage == \E u \in Usages : run[u] \in UsageLive
SomeArming == \E c \in Callers : pc[c] = "spvArm"

DataHaveASession ==
    synced \/ syncCanceled # Nil \/ active # NoData => SomeLive \/ SomeArming
SyncingHasAWorker ==
    syncing \/ cancelSync # Nil => SomeLive \/ SomeUsage

ResetInv == Kinds /\ SpawnsSession /\ DataHaveASession /\ SyncingHasAWorker

\* A caller that neither makes the data nor starts anything.
OnlyMoves(c) ==
    /\ UNCHANGED <<syncing, synced, cancelSync, syncCanceled, active, run>>
    /\ pc[c] # "spvArm" /\ pc'[c] # "spvSpawn"
    /\ \A d \in Callers \ {c} : pc'[d] = pc[d] /\ snapshot'[d] = snapshot[d]

\* The steps of a caller that touch neither the flags nor a worker.
LEMMA CallerOnlyMoves ==
    ASSUME Inv, NEW c \in Callers,
           \/ Call(c)
           \/ CheckSyncing(c) \/ CheckSynced(c) \/ RefuseInvalidPeers(c)
           \/ ReadCancelSync(c) \/ CallCancel(c) \/ ReadSyncCanceled(c)
           \/ AwaitSyncCanceled(c) \/ EndSyncShuttingDown(c)
           \/ DiscoverUsageChecksSyncing(c)
    PROVE  OnlyMoves(c)
<1> USE DEF OnlyMoves, Goto, flags, workers, callers, Inv, TypeOK
<1>1. CASE Call(c)
    BY <1>1 DEF Call, CallSpvSync, ToggleSyncOn, ToggleSyncOff, SafelyCancelSync,
       RestartSpvSync, DiscoverUsage
<1>2. CASE CheckSyncing(c) \/ CheckSynced(c) \/ RefuseInvalidPeers(c)
    BY <1>2 DEF CheckSyncing, CheckSynced, RefuseInvalidPeers
<1>3. CASE ReadCancelSync(c) \/ CallCancel(c) \/ ReadSyncCanceled(c)
    BY <1>3 DEF ReadCancelSync, CallCancel, ReadSyncCanceled
<1>4. CASE AwaitSyncCanceled(c) \/ EndSyncShuttingDown(c) \/ DiscoverUsageChecksSyncing(c)
    BY <1>4 DEF AwaitSyncCanceled, EndSyncShuttingDown, DiscoverUsageChecksSyncing
<1> QED BY <1>1, <1>2, <1>3, <1>4

\* Such a step keeps what the reset relies on.
LEMMA MovesKeepReset ==
    ASSUME ResetInv, NEW c \in Callers, OnlyMoves(c)
    PROVE  ResetInv'
<1> USE DEF ResetInv, OnlyMoves
<1>1. Kinds' /\ SpawnsSession'
    BY DEF Kinds, SpawnsSession
<1>2. SomeArming => SomeArming'
    BY DEF SomeArming
<1>3. (SomeLive' <=> SomeLive) /\ (SomeUsage' <=> SomeUsage)
    BY DEF SomeLive, SomeUsage
<1> QED BY <1>1, <1>2, <1>3 DEF DataHaveASession, SyncingHasAWorker

\* A call, and every step of one, keeps what the reset relies on.
LEMMA CallerKeepsReset ==
    ASSUME Inv, ResetInv, NEW c \in Callers, Call(c) \/ CallerStep(c)
    PROVE  ResetInv'
<1> USE DEF ResetInv
<1>1. CASE InitActiveSyncData(c)
    <2>1. /\ UNCHANGED <<syncing, cancelSync, run, snapshot>>
          /\ pc' = [pc EXCEPT ![c] = "spvArm"]
      BY <1>1 DEF InitActiveSyncData, flags, workers, Goto
    <2>2. Kinds' /\ SpawnsSession'
      BY <2>1 DEF Kinds, SpawnsSession
    <2>3. SomeArming'
      BY <2>1 DEF SomeArming, Inv, TypeOK
    <2>4. (SomeLive' <=> SomeLive) /\ (SomeUsage' <=> SomeUsage)
      BY <2>1 DEF SomeLive, SomeUsage
    <2> QED BY <2>1, <2>2, <2>3, <2>4 DEF DataHaveASession, SyncingHasAWorker
<1>2. CASE ArmSession(c)
    <2>1. PICK s \in Sessions : /\ snapshot' = [snapshot EXCEPT ![c] = s]
                                /\ run' = [run EXCEPT ![s] = "armed"]
      BY <1>2 DEF ArmSession, Unborn, Move
    <2>2. pc' = [pc EXCEPT ![c] = "spvSpawn"]
      BY <1>2 DEF ArmSession, Goto
    <2>3. Kinds' /\ SpawnsSession'
      BY <2>1, <2>2, BoundsAssumption DEF Kinds, SpawnsSession, LiveStates, Inv, TypeOK,
         Sessions, Usages, Workers
    <2>4. SomeLive'
      BY <2>1 DEF SomeLive, LiveStates, Inv, TypeOK, Workers
    <2> QED BY <2>3, <2>4 DEF DataHaveASession, SyncingHasAWorker
<1>3. CASE SpawnSession(c)
    <2>1. /\ run' = [run EXCEPT ![snapshot[c]] = "between"] /\ snapshot[c] \in Sessions
          /\ pc' = [pc EXCEPT ![c] = "idle"] /\ snapshot' = [snapshot EXCEPT ![c] = Nil]
      BY <1>3 DEF SpawnSession, Move, Goto, SpawnsSession
    <2>2. Kinds' /\ SpawnsSession'
      BY <2>1, BoundsAssumption DEF Kinds, SpawnsSession, LiveStates, Running, Idling, Inv,
         TypeOK, Sessions, Usages, Workers
    <2>3. SomeLive'
      BY <2>1 DEF SomeLive, LiveStates, Running, Idling, Inv, TypeOK, Workers
    <2> QED BY <2>2, <2>3 DEF DataHaveASession, SyncingHasAWorker
<1>4. CASE DiscoverUsageChecksSynced(c)
    <2>1. /\ UNCHANGED <<syncing, synced, cancelSync, syncCanceled, active, snapshot>>
          /\ pc[c] = "disSynced" /\ pc' = [pc EXCEPT ![c] = "idle"]
          /\ \/ run' = run
             \/ \E u \in Usages : run[u] = "unborn" /\ run' = [run EXCEPT ![u] = "spawned"]
      BY <1>4 DEF DiscoverUsageChecksSynced, Goto, Move, Unborn, flags
    <2>2. Kinds' /\ SpawnsSession'
      BY <2>1, BoundsAssumption DEF Kinds, SpawnsSession, UsageLive, UsageRest, Inv, TypeOK,
         Sessions, Usages, Workers
    <2>3. SomeLive => SomeLive'
      BY <2>1, BoundsAssumption DEF SomeLive, LiveStates, Sessions, Usages, Inv, TypeOK, Workers
    <2>4. SomeUsage => SomeUsage'
      BY <2>1 DEF SomeUsage, UsageLive, Inv, TypeOK, Workers
    <2>5. SomeArming => SomeArming'
      BY <2>1 DEF SomeArming, Inv, TypeOK
    <2> QED BY <2>1, <2>2, <2>3, <2>4, <2>5 DEF DataHaveASession, SyncingHasAWorker
<1>5. CASE OnlyMoves(c)
    BY <1>5, MovesKeepReset
<1> QED BY <1>1, <1>2, <1>3, <1>4, <1>5, CallerOnlyMoves DEF CallerStep

\* A worker that stays live, if it was, and sets no flag but synced.
StaysLive(w) ==
    /\ UNCHANGED <<pc, snapshot, cancelSync, syncCanceled>>
    /\ syncing' => syncing
    /\ synced' => synced \/ w \in Sessions
    /\ active' # NoData => active # NoData
    /\ \E label : /\ run' = [run EXCEPT ![w] = label]
                  /\ IF w \in Sessions
                     THEN run[w] \in LiveStates /\ label \in LiveStates
                     ELSE /\ label \in UsageLive \cup UsageRest
                          /\ run[w] \in UsageLive => label \in UsageLive

\* A worker that stays live keeps what the reset relies on.
LEMMA StaysLiveKeepsReset ==
    ASSUME Inv, ResetInv, NEW w \in Workers, StaysLive(w)
    PROVE  ResetInv'
<1> USE DEF ResetInv
<1>0. w \in Sessions <=> w \notin Usages
    BY BoundsAssumption DEF Workers, Sessions, Usages
<1>1. PICK label : /\ run' = [run EXCEPT ![w] = label]
                   /\ IF w \in Sessions
                      THEN run[w] \in LiveStates /\ label \in LiveStates
                      ELSE /\ label \in UsageLive \cup UsageRest
                           /\ run[w] \in UsageLive => label \in UsageLive
    BY DEF StaysLive
<1>2. run \in [Workers -> WorkerStates] /\ Sessions \subseteq Workers /\ Usages \subseteq Workers
    BY DEF Inv, TypeOK, Workers
<1>3. Kinds'
    BY <1>0, <1>1, <1>2 DEF Kinds
<1>4. SpawnsSession'
    BY DEF SpawnsSession, StaysLive
<1>5. SomeLive => SomeLive'
    BY <1>0, <1>1, <1>2 DEF SomeLive
<1>6. SomeUsage => SomeUsage'
    BY <1>0, <1>1, <1>2 DEF SomeUsage
<1>7. SomeArming' <=> SomeArming
    BY DEF SomeArming, StaysLive
<1>8. w \in Sessions => SomeLive
    BY <1>1 DEF SomeLive
<1> QED BY <1>3, <1>4, <1>5, <1>6, <1>7, <1>8 DEF DataHaveASession, SyncingHasAWorker, StaysLive

\* A callback leaves its session, or its discovery, as live as it was.
LEMMA CallbackStaysLive ==
    ASSUME Kinds, NEW w \in Workers, Callback(w)
    PROVE  StaysLive(w)
BY DEF Callback, StaysLive, StaysWhereItWas, SameCallback, Move, LiveStates, flags, callers

\* The states only a session, or only a discovery, goes through.
LEMMA KindOfWorker ==
    ASSUME Kinds, NEW w \in Workers
    PROVE  /\ run[w] \in {"syncedBody", "syncedEnd", "returned", "closed", "stopped", "reset"}
                 => w \in Sessions
           /\ run[w] \in {"spawned", "usageRun", "usageStop"} => w \notin Sessions
BY DEF Kinds, Workers, LiveStates, UsageLive, UsageRest, Running, Idling, Inside, Publishing

\* Every step of a worker keeps what the reset relies on.
LEMMA WorkerKeepsReset ==
    ASSUME Inv, ResetInv, NEW w \in Workers,
           \/ WorkerBody(w) \/ DiscoverAddressesStarted(w) \/ DiscoverAddressesFinished(w)
           \/ w \in Sessions /\ (SyncerStep(w) \/ RunReturns(w))
           \/ UsageReturns(w)
    PROVE  ResetInv'
<1>k. Kinds
    BY DEF ResetInv
<1> USE DEF Move, LiveStates, Running
<1>1. CASE Callback(w)
    BY <1>1, <1>k, CallbackStaysLive, StaysLiveKeepsReset
<1>2. CASE SyncedWalletBody(w) \/ SyncedWalletEnd(w)
    <2>1. w \in Sessions
      BY <1>2, <1>k, KindOfWorker DEF SyncedWalletBody, SyncedWalletEnd
    <2>2. StaysLive(w)
      BY <1>2, <2>1 DEF SyncedWalletBody, SyncedWalletEnd, StaysLive, flags, callers, Idling,
         Inside
    <2> QED BY <2>2, StaysLiveKeepsReset
<1>3. CASE w \in Sessions /\ RunReturns(w)
    <2>1. StaysLive(w)
      BY <1>3 DEF RunReturns, StaysLive, flags, callers
    <2> QED BY <2>1, StaysLiveKeepsReset
<1>4. CASE CloseSyncCanceled(w)
    <2>1. w \in Sessions
      BY <1>4, <1>k, KindOfWorker DEF CloseSyncCanceled
    <2>2. StaysLive(w)
      BY <1>4, <2>1 DEF CloseSyncCanceled, StaysLive, flags, callers
    <2> QED BY <2>2, StaysLiveKeepsReset
<1>5. CASE ResetStopsDiscovery(w)
    <2>1. w \in Sessions
      BY <1>5, <1>k, KindOfWorker DEF ResetStopsDiscovery
    <2>2. StaysLive(w)
      BY <1>5, <2>1, StopLeavesData DEF ResetStopsDiscovery, SameCallback, StaysLive, flags,
         callers
    <2> QED BY <2>2, StaysLiveKeepsReset
<1>6. CASE ResetSyncData(w)
    <2>1. w \in Sessions
      BY <1>6, <1>k, KindOfWorker DEF ResetSyncData
    <2>2. Kinds'
      BY <1>6, <1>k, <2>1, BoundsAssumption DEF ResetSyncData, Kinds, Inv, TypeOK, Workers,
         Sessions, Usages
    <2> QED BY <1>6, <2>2 DEF ResetSyncData, ResetInv, SpawnsSession, DataHaveASession,
               SyncingHasAWorker, callers
<1>7. CASE ResetLocksWallet(w)
    <2>1. w \in Sessions
      BY <1>7, <1>k, KindOfWorker DEF ResetLocksWallet
    <2>2. /\ UNCHANGED <<syncing, synced, cancelSync, syncCanceled, active, pc, snapshot>>
          /\ run[w] = "reset" /\ run' = [run EXCEPT ![w] = "done"]
      BY <1>7 DEF ResetLocksWallet, flags, callers
    <2>3. Kinds'
      BY <1>k, <2>1, <2>2, BoundsAssumption DEF Kinds, Inv, TypeOK, Workers, Sessions, Usages
    <2>4. SomeLive => SomeLive'
      BY <2>2 DEF SomeLive, Idling, Inside, Publishing, Inv, TypeOK, Workers
    <2>5. SomeUsage => SomeUsage'
      BY <2>2 DEF SomeUsage, UsageLive, Inv, TypeOK, Workers
    <2>6. SomeArming' <=> SomeArming
      BY <2>2 DEF SomeArming
    <2> QED BY <2>2, <2>3, <2>4, <2>5, <2>6 DEF ResetInv, SpawnsSession, DataHaveASession,
               SyncingHasAWorker
<1>8. CASE UsageBegins(w) \/ UsageStops(w)
    <2>1. w \in Usages
      BY <1>8, <1>k, KindOfWorker DEF UsageBegins, UsageStops, Workers
    <2>2. /\ UNCHANGED <<synced, syncCanceled, active, pc, snapshot>>
          /\ \/ run[w] = "spawned" /\ run' = [run EXCEPT ![w] = "usageStart"]
             \/ /\ run[w] = "usageStop" /\ run' = [run EXCEPT ![w] = "usageFinish"]
                /\ syncing' = FALSE /\ cancelSync' = Nil
      BY <1>8 DEF UsageBegins, UsageStops, callers
    <2>3. Kinds'
      BY <1>k, <2>1, <2>2, BoundsAssumption DEF Kinds, UsageLive, UsageRest, Inv, TypeOK,
         Workers, Sessions, Usages
    <2>4. SomeLive => SomeLive'
      BY <2>1, <2>2, BoundsAssumption DEF SomeLive, Sessions, Usages, Inv, TypeOK, Workers
    <2>5. SomeUsage' \/ ~(syncing' \/ cancelSync' # Nil)
      BY <2>1, <2>2 DEF SomeUsage, UsageLive, Inv, TypeOK, Workers
    <2>6. SomeArming' <=> SomeArming
      BY <2>2 DEF SomeArming
    <2> QED BY <2>2, <2>3, <2>4, <2>5, <2>6 DEF ResetInv, SpawnsSession, DataHaveASession,
               SyncingHasAWorker
<1>9. CASE UsageReturns(w)
    <2>1. w \notin Sessions
      BY <1>9, <1>k, KindOfWorker DEF UsageReturns
    <2>2. StaysLive(w)
      BY <1>9, <2>1 DEF UsageReturns, StaysLive, flags, callers, UsageLive, UsageRest
    <2> QED BY <2>2, StaysLiveKeepsReset
<1> QED BY <1>1, <1>2, <1>3, <1>4, <1>5, <1>6, <1>7, <1>8, <1>9, <1>k, WorkersCallBack,
           SyncerCallsBack DEF WorkerBody

\* ResetInv is inductive, given Inv.
LEMMA NextKeepsReset == Inv /\ ResetInv /\ [Next]_vars => ResetInv'
<1> SUFFICES ASSUME Inv, ResetInv, [Next]_vars PROVE ResetInv'
    OBVIOUS
<1>1. ASSUME NEW c \in Callers, Call(c) \/ CallerStep(c) PROVE ResetInv'
    BY <1>1, CallerKeepsReset
<1>2. ASSUME NEW s \in Sessions, SyncerStep(s) \/ RunReturns(s) PROVE ResetInv'
    BY <1>2, WorkerKeepsReset DEF Workers
<1>3. ASSUME NEW w \in Workers,
             \/ DiscoverAddressesStarted(w) \/ DiscoverAddressesFinished(w)
             \/ WorkerBody(w)
      PROVE ResetInv'
    BY <1>3, WorkerKeepsReset
<1>4. ASSUME NEW u \in Usages, UsageReturns(u) PROVE ResetInv'
    BY <1>4, WorkerKeepsReset DEF Workers
<1>5. ASSUME NEW d \in Tickers, TickerStep(d) PROVE ResetInv'
    <2>1. UNCHANGED <<flags, callers, workers>> /\ (active' # NoData => active # NoData)
      BY <1>5 DEF TickerStep, TickerBegins, TickerChecks, TickerLocks, TickerSelects,
         TickerStops, TickerFires, TickerPublishes, SameTicker, Touch
    <2> QED BY <2>1 DEF ResetInv, Kinds, SpawnsSession, DataHaveASession, SyncingHasAWorker,
               SomeLive, SomeUsage, SomeArming, flags, callers, workers
<1>6. CASE \/ \E s \in Sessions : IndexStep(s)
           \/ \E r \in Readers : ReaderStep(r)
           \/ UNCHANGED vars
    <2>1. UNCHANGED <<flags, callers, run, active>>
      BY <1>6, ObserversChangeNothing DEF vars, workers, flags, callers
    <2> QED BY <2>1 DEF ResetInv, Kinds, SpawnsSession, DataHaveASession, SyncingHasAWorker,
               SomeLive, SomeUsage, SomeArming, flags, callers
<1> QED BY <1>1, <1>2, <1>3, <1>4, <1>5, <1>6 DEF Next

\* A wallet begins reset.
LEMMA InitIsReset == Init => ResetInv
BY DEF Init, ResetInv, Kinds, SpawnsSession, DataHaveASession, SyncingHasAWorker, UsageRest,
   LiveStates, Workers

\* Whatever calls of SpvSync, DiscoverUsage and CancelSync raced, and however many, a
\* wallet whose goroutines are all done can be synced again: the reset leaves no flag,
\* no channel and no data of a session that ended.
THEOREM QuietWalletIsReset == Spec => []QuiescentIsReset
<1>1. ResetInv => QuiescentIsReset
    <2> SUFFICES ASSUME ResetInv, Quiescent PROVE QuiescentIsReset
      BY DEF QuiescentIsReset
    <2>1. ~SomeLive /\ ~SomeUsage /\ ~SomeArming
      BY DEF Quiescent, SomeLive, SomeUsage, SomeArming, Workers, LiveStates, UsageLive, Running,
         Idling, Inside, Publishing
    <2> QED BY <2>1 DEF ResetInv, DataHaveASession, SyncingHasAWorker, QuiescentIsReset, Connected
<1> QED BY <1>1, InitIsReset, InitHasInv, NextKeepsInv, NextKeepsReset, PTL DEF Spec

-----------------------------------------------------------------------------
(* One caller                                                              *)

\* The calls of one goroutine come one after another; DiscoverUsage, whose flags
\* are those of a sync, is not among them.
Serial == (\A c, d \in Callers : c = d) /\ "discover" \notin Ops

\* No usage discovery is ever called or born.
NoUsage ==
    /\ \A u \in Usages : run[u] = "unborn"
    /\ \A c \in Callers : pc[c] \notin {"disSyncing", "disSynced"}

\* The channel in the field is that of the session that is live, so there is one at
\* most; it has its data, and its channel is open until it closes it.
ChannelIsOfTheLive == \A s \in Live : syncCanceled = s
LiveHaveData == Live # {} => active # NoData
ClosedAreEnding == \A s \in Sessions \cap closed : run[s] \in {"closed", "stopped", "reset", "done"}

\* The flags say whether a session is live, and not both things at once.
FlagsTell == ~(syncing /\ synced) /\ (Connected <=> Live # {})

\* What the caller has seen still holds when it goes on.
SeenHolds ==
    \A c \in Callers :
        /\ pc[c] = "spvSynced" => ~syncing
        /\ pc[c] \in {"spvInit", "spvArm"} => ~Connected
        /\ pc[c] = "spvArm" => active # NoData
        /\ pc[c] = "spvSpawn" => snapshot[c] \in Sessions /\ run[snapshot[c]] = "armed"

\* A session whose index goroutines will report has begun, and has made the wallet
\* synced for as long as it runs.
IndexedAreSynced ==
    \A s \in Sessions \cap indexing :
        run[s] \notin {"unborn", "armed"} /\ (run[s] \in Running => synced)

SerialInv ==
    /\ NoUsage /\ ChannelIsOfTheLive /\ LiveHaveData /\ ClosedAreEnding /\ FlagsTell
    /\ SeenHolds /\ ListenersAgree /\ IndexedAreSynced /\ OnlyObserversCrash

\* A wallet begins with no session, no discovery and nothing seen.
LEMMA InitIsSerial == Init => SerialInv
<1> SUFFICES ASSUME Init PROVE SerialInv
    OBVIOUS
<1>1. \A w \in Workers : run[w] = "unborn"
    BY DEF Init
<1>2. Live = {} /\ ~Connected
    BY <1>1 DEF Init, Live, Connected, Workers, Running, Idling, Inside, Publishing
<1> QED BY <1>1, <1>2 DEF Init, SerialInv, NoUsage, ChannelIsOfTheLive, LiveHaveData,
   ClosedAreEnding,
           FlagsTell, SeenHolds, ListenersAgree, IndexedAreSynced, OnlyObserversCrash, Workers, Running, Idling,
           Inside, Publishing

\* A call, or a step of one, that starts nothing.
SerialMove(c) ==
    /\ UNCHANGED <<syncing, synced, syncCanceled, active, run, closed, told, indexing, crash>>
    /\ pc'[c] \notin {"spvArm", "spvSpawn", "disSyncing", "disSynced"}
    /\ pc'[c] = "spvSynced" => ~syncing
    /\ pc'[c] = "spvInit" => ~Connected

\* The steps of the one caller that start nothing, each with what it has just seen.
LEMMA CallerMovesSerially ==
    ASSUME Inv, Serial, SerialInv, NEW c \in Callers,
           \/ Call(c)
           \/ CheckSyncing(c) \/ CheckSynced(c) \/ RefuseInvalidPeers(c)
           \/ ReadCancelSync(c) \/ CallCancel(c) \/ ReadSyncCanceled(c)
           \/ AwaitSyncCanceled(c) \/ EndSyncShuttingDown(c)
    PROVE  SerialMove(c)
<1> USE DEF SerialMove, Goto, flags, workers, heard, channels, Inv, TypeOK
<1>1. CASE Call(c)
    BY <1>1 DEF Call, CallSpvSync, ToggleSyncOn, ToggleSyncOff, SafelyCancelSync,
       RestartSpvSync, DiscoverUsage, Serial
<1>2. CASE CheckSyncing(c)
    BY <1>2 DEF CheckSyncing
<1>3. CASE CheckSynced(c)
    BY <1>3 DEF CheckSynced, SerialInv, SeenHolds, Connected
<1>4. CASE RefuseInvalidPeers(c) \/ ReadCancelSync(c) \/ CallCancel(c) \/ ReadSyncCanceled(c)
    BY <1>4 DEF RefuseInvalidPeers, ReadCancelSync, CallCancel, ReadSyncCanceled
<1>5. CASE AwaitSyncCanceled(c) \/ EndSyncShuttingDown(c)
    BY <1>5 DEF AwaitSyncCanceled, EndSyncShuttingDown
<1> QED BY <1>1, <1>2, <1>3, <1>4, <1>5

\* Such a step keeps SerialInv: nobody else can have moved in between.
LEMMA MovesKeepSerial ==
    ASSUME Inv, Serial, SerialInv, NEW c \in Callers, SerialMove(c)
    PROVE  SerialInv'
<1> USE DEF SerialInv, SerialMove
<1>1. Live' = Live /\ Connected' = Connected
    BY DEF Live, Connected
<1>2. \A d \in Callers : d = c
    BY DEF Serial
<1>3. NoUsage' /\ SeenHolds'
    BY <1>1, <1>2 DEF NoUsage, SeenHolds
<1>4. ChannelIsOfTheLive' /\ LiveHaveData' /\ ClosedAreEnding' /\ FlagsTell'
    BY <1>1 DEF ChannelIsOfTheLive, LiveHaveData, ClosedAreEnding, FlagsTell
<1>5. ListenersAgree' /\ IndexedAreSynced' /\ OnlyObserversCrash'
    BY DEF ListenersAgree, IndexedAreSynced, OnlyObserversCrash
<1> QED BY <1>3, <1>4, <1>5

\* The three steps that start a session.
LEMMA StartsKeepSerial ==
    ASSUME Inv, Serial, SerialInv, Alive, NEW c \in Callers,
           InitActiveSyncData(c) \/ ArmSession(c) \/ SpawnSession(c)
    PROVE  SerialInv'
<1> USE DEF SerialInv
<1>0. \A d \in Callers : d = c
    BY DEF Serial
<1>1. CASE InitActiveSyncData(c)
    <2>1. /\ UNCHANGED <<syncing, synced, syncCanceled, run, closed, told, indexing, snapshot, crash>>
          /\ pc[c] = "spvInit" /\ pc' = [pc EXCEPT ![c] = "spvArm"]
      BY <1>1 DEF InitActiveSyncData, flags, workers, heard, channels, Goto
    <2>2. active' # NoData
      <3>1. active' \in ActiveData
        BY <1>1 DEF InitActiveSyncData, ActiveData, Nil
      <3> QED BY <3>1, NoDataAssumption
    <2>3. Live' = Live /\ Connected' = Connected
      BY <2>1 DEF Live, Connected
    <2>4. pc'[c] = "spvArm" /\ ~Connected'
      BY <2>1, <2>3 DEF SeenHolds, Inv, TypeOK
    <2>5. NoUsage'
      BY <1>0, <2>1, <2>4 DEF NoUsage
    <2>6. SeenHolds'
      BY <1>0, <2>2, <2>4 DEF SeenHolds
    <2> QED BY <2>1, <2>2, <2>3, <2>5, <2>6 DEF ChannelIsOfTheLive, LiveHaveData, ClosedAreEnding,
               FlagsTell, ListenersAgree, IndexedAreSynced, OnlyObserversCrash
<1>2. CASE ArmSession(c)
    <2>1. PICK s \in Sessions : /\ run[s] = "unborn" /\ run' = [run EXCEPT ![s] = "armed"]
                                /\ syncCanceled' = s /\ syncing' = TRUE
                                /\ snapshot' = [snapshot EXCEPT ![c] = s]
                                /\ Touch("start", [active EXCEPT !.syncer = s])
      BY <1>2 DEF ArmSession, Unborn, Move
    <2>2. /\ UNCHANGED <<synced, closed, told, indexing>>
          /\ pc[c] = "spvArm" /\ pc' = [pc EXCEPT ![c] = "spvSpawn"]
      BY <1>2 DEF ArmSession, channels, heard, Goto
    <2>3. Live = {} /\ ~Connected /\ active # NoData
      BY <2>2 DEF SeenHolds, FlagsTell
    <2>4. active' # NoData /\ crash' = crash
      <3>1. [active EXCEPT !.syncer = s] \in ActiveData
        BY <2>3 DEF Inv, TypeOK, ActiveData
      <3> QED BY <2>1, <2>3, <3>1, NoDataAssumption DEF Touch
    <2>5. run' \in [Workers -> WorkerStates] /\ s \in Workers /\ run'[s] = "armed"
      BY <2>1 DEF Inv, TypeOK, Workers, WorkerStates
    <2>6. Live' = {s}
      BY <2>1, <2>3, <2>5 DEF Live, Inv, TypeOK, Workers
    <2>7. NoUsage'
      BY <2>1, <2>2, BoundsAssumption DEF NoUsage, Inv, TypeOK, Sessions, Usages, Workers
    <2>8. SeenHolds'
      BY <1>0, <2>1, <2>2, <2>5 DEF SeenHolds, Inv, TypeOK
    <2>9. ClosedAreEnding' /\ ListenersAgree' /\ IndexedAreSynced'
      BY <2>1, <2>2, <2>5 DEF ClosedAreEnding, ListenersAgree, IndexedAreSynced, Ending, Running,
         Idling, Inside, Publishing, Inv, TypeOK
    <2>10. ChannelIsOfTheLive' /\ LiveHaveData' /\ FlagsTell' /\ OnlyObserversCrash'
      BY <2>1, <2>2, <2>3, <2>4, <2>6 DEF ChannelIsOfTheLive, LiveHaveData, FlagsTell, Connected,
         OnlyObserversCrash
    <2> QED BY <2>7, <2>8, <2>9, <2>10
<1>3. CASE SpawnSession(c)
    <2> DEFINE s == snapshot[c]
    <2>1. /\ s \in Sessions /\ run[s] = "armed" /\ run' = [run EXCEPT ![s] = "between"]
          /\ pc' = [pc EXCEPT ![c] = "idle"] /\ told' = "started"
          /\ UNCHANGED <<syncing, synced, syncCanceled, active, closed, indexing, crash>>
      BY <1>3 DEF SpawnSession, SeenHolds, Move, Goto, flags, channels
    <2>2. run'[s] = "between" /\ s \in Workers
      BY <2>1 DEF Inv, TypeOK, Workers
    <2>3. Live' = Live /\ Connected' = Connected
      BY <2>1, <2>2 DEF Live, Connected, Running, Idling, Inside, Publishing, Inv, TypeOK
    <2>4. NoUsage' /\ SeenHolds'
      BY <1>0, <2>1, BoundsAssumption DEF NoUsage, SeenHolds, Inv, TypeOK, Sessions, Usages,
         Workers
    <2>5. ClosedAreEnding' /\ ListenersAgree' /\ IndexedAreSynced'
      BY <2>1, <2>2 DEF ClosedAreEnding, ListenersAgree, IndexedAreSynced, Ending, Running, Idling,
         Inv, TypeOK
    <2> QED BY <2>1, <2>3, <2>4, <2>5 DEF ChannelIsOfTheLive, LiveHaveData, FlagsTell,
               OnlyObserversCrash
<1> QED BY <1>1, <1>2, <1>3

\* A session goes on, and stays live; it is in the syncer before and after, or neither.
LEMMA GoingOnKeepsSerial ==
    ASSUME Inv, SerialInv, NEW s \in Sessions, NEW label \in LiveStates \ {"armed"},
           run[s] \in LiveStates \ {"armed"}, run' = [run EXCEPT ![s] = label],
           s \in closed' => label \in {"closed", "stopped"},
           closed' \subseteq closed \cup {s},
           told' \notin {"behind", "late"} =>
               /\ told' \in {"started", "completed"} <=> label \in Running
               /\ told' = "completed" => synced',
           indexing' \subseteq indexing \cup {s},
           s \in indexing' /\ label \in Running => synced',
           syncing' => syncing, Connected' = Connected, syncing' => ~synced',
           UNCHANGED <<pc, snapshot, syncCanceled>>,
           active # NoData => active' # NoData, crash' = crash
    PROVE  SerialInv'
<1> USE DEF SerialInv
<1>1. s \in Workers /\ run \in [Workers -> WorkerStates] /\ s \in Live /\ run'[s] = label
    BY DEF Inv, TypeOK, Workers, Live, LiveStates
<1>2. Live' = Live
    BY <1>1 DEF Live, LiveStates
<1>3. Live = {s}
    BY <1>1 DEF ChannelIsOfTheLive
<1>4. NoUsage' /\ SeenHolds'
    BY <1>1, BoundsAssumption DEF NoUsage, SeenHolds, Sessions, Usages, Connected
<1>5. ChannelIsOfTheLive' /\ LiveHaveData' /\ FlagsTell' /\ OnlyObserversCrash'
    BY <1>2 DEF ChannelIsOfTheLive, LiveHaveData, FlagsTell, OnlyObserversCrash
<1>6. ClosedAreEnding'
    BY <1>1 DEF ClosedAreEnding, Ending
<1>7. \A r \in Sessions : r # s => run'[r] \notin Running
    BY <1>1, <1>3 DEF Live
<1>8. ListenersAgree'
    BY <1>1, <1>7 DEF ListenersAgree
<1>9. IndexedAreSynced'
    BY <1>1, <1>7 DEF IndexedAreSynced, LiveStates, Running, Idling, Inside, Publishing
<1> QED BY <1>4, <1>5, <1>6, <1>8, <1>9

\* Every step of a session keeps SerialInv; discoveries there are none.
LEMMA WorkerKeepsSerial ==
    ASSUME Inv, Inv', Kinds, Serial, SerialInv, Alive, NEW w \in Workers,
           \/ WorkerBody(w) \/ DiscoverAddressesStarted(w) \/ DiscoverAddressesFinished(w)
           \/ w \in Sessions /\ (SyncerStep(w) \/ RunReturns(w))
           \/ UsageReturns(w)
    PROVE  SerialInv'
<1>u. w \in Sessions \/ run[w] = "unborn"
    BY DEF SerialInv, NoUsage, Workers
<1>s. w \in Sessions
    <2> SUFFICES ASSUME run[w] = "unborn", w \notin Sessions PROVE FALSE
      BY <1>u
    <2>1. /\ ~WorkerBody(w) /\ ~UsageReturns(w)
          /\ ~DiscoverAddressesStarted(w) /\ ~DiscoverAddressesFinished(w)
      BY DEF WorkerBody, FetchHeadersStartedCheck, FetchHeadersStartedBody,
         FetchHeadersProgressBody, PublishProgress, Publishing,
         DiscoverAddressesStarted, DiscoverAddressesStartedCheck, DiscoverAddressesStartedBody,
         DiscoverAddressesFinished, DiscoverAddressesFinishedBody,
         DiscoverAddressesFinishedStop, RescanStartedCheck, RescanStartedBody,
         RescanProgressBody, RescanFinishedBody, SyncedWalletBody, SyncedWalletEnd,
         CloseSyncCanceled, ResetStopsDiscovery, ResetSyncData, ResetLocksWallet,
         UsageBegins, UsageStops, UsageReturns
    <2> QED BY <2>1
<1>t. w \in Workers /\ run \in [Workers -> WorkerStates]
    BY DEF Inv, TypeOK
<1>d. crash' # "discoveryTwice"
    BY DEF Inv, DiscoveryInv, DiscoveryClosedOnce
<1>l. w \in Sessions /\ run[w] \in LiveStates => w \in Live /\ active # NoData /\ syncCanceled = w
    BY DEF SerialInv, Live, LiveStates, LiveHaveData, ChannelIsOfTheLive
<1>i. run[w] \in Running /\ w \in indexing => synced
    BY <1>s DEF SerialInv, IndexedAreSynced
<1>h. told \notin {"behind", "late"} /\ w \in Sessions =>
          /\ run[w] \in Running => told \in {"started", "completed"}
          /\ told = "completed" => synced
          /\ run[w] \in {"returned", "closed", "stopped"} => told \notin {"started", "completed"}
    <2>1. w \in Sessions /\ run[w] \in LiveStates => Live = {w}
      BY <1>l DEF SerialInv, ChannelIsOfTheLive
    <2>2. w \in Sessions /\ run[w] \in {"returned", "closed", "stopped"}
            => \A s \in Sessions : run[s] \notin Running
      BY <2>1 DEF Live, LiveStates, Running, Idling, Inside, Publishing
    <2> QED BY <2>2 DEF SerialInv, ListenersAgree
<1>c. w \in Sessions /\ w \in closed => run[w] \in {"closed", "stopped", "reset", "done"}
    BY DEF SerialInv, ClosedAreEnding, Ending
<1>f. ~(syncing /\ synced)
    BY DEF SerialInv, FlagsTell
<1>r. Running \subseteq LiveStates \ {"armed"} /\ Running \cap {"closed", "stopped", "reset", "done", "returned"} = {}
    BY DEF LiveStates, Running, Idling, Inside, Publishing
<1>1. CASE Callback(w)
    <2>1. PICK label : Move(w, label) /\ StaysWhereItWas(w, label)
      BY <1>1 DEF Callback
    <2>2. /\ UNCHANGED <<flags, closed, pc, snapshot, told, indexing>>
          /\ active' = NoData <=> active = NoData
          /\ active # NoData => crash' = crash
      BY <1>1, <1>d DEF Callback, SameCallback, callers, heard
    <2>3. w \in Sessions
      BY <1>s
    <2>4. run[w] \in Running /\ label \in Running /\ run' = [run EXCEPT ![w] = label]
      BY <2>1, <2>3 DEF StaysWhereItWas, Move
    <2>5. w \notin closed
      BY <1>c, <1>r, <2>3, <2>4
    <2>6. run[w] \in LiveStates \ {"armed"} /\ label \in LiveStates \ {"armed"}
      BY <1>r, <2>4
    <2>7. /\ closed' = closed /\ told' = told /\ indexing' = indexing /\ active # NoData /\ crash' = crash
          /\ active' # NoData
          /\ UNCHANGED <<syncing, synced, syncCanceled, pc, snapshot>>
      BY <1>l, <2>2, <2>3, <2>6 DEF flags
    <2>8. Connected' = Connected /\ (syncing' => ~synced')
      BY <1>f, <2>7 DEF Connected
    <2>9. /\ told' \notin {"behind", "late"} =>
                 /\ told' \in {"started", "completed"} <=> label \in Running
                 /\ told' = "completed" => synced'
          /\ w \in indexing' => synced'
      BY <1>h, <1>i, <2>3, <2>4, <2>7
    <2> QED BY <2>3, <2>4, <2>5, <2>6, <2>7, <2>8, <2>9, GoingOnKeepsSerial
<1>2. CASE SyncedWalletBody(w) \/ SyncedWalletEnd(w)
    <2>1. w \in Sessions /\ run[w] \in {"syncedBody", "syncedEnd"}
      BY <1>2, <1>u DEF SyncedWalletBody, SyncedWalletEnd
    <2>2. run[w] \in Running
      BY <2>1 DEF Running, Inside
    <2>3. PICK label \in Running : run' = [run EXCEPT ![w] = label]
      BY <1>2 DEF SyncedWalletBody, SyncedWalletEnd, Move, Running, Inside, Idling
    <2>4. /\ UNCHANGED <<closed, pc, snapshot, told, syncCanceled, active, crash>>
          /\ \/ UNCHANGED <<syncing, synced>>
             \/ syncing' = FALSE /\ synced' = TRUE
          /\ indexing' = indexing \/ (indexing' = indexing \cup {w} /\ synced')
      BY <1>2 DEF SyncedWalletBody, SyncedWalletEnd, channels, callers, heard, flags
    <2>5. w \notin closed
      BY <1>c, <1>r, <2>1, <2>2
    <2>6. Connected
      BY <1>l, <1>r, <2>1, <2>2 DEF SerialInv, FlagsTell
    <2>7. Connected' = Connected /\ (syncing' => syncing /\ ~synced')
      BY <1>f, <2>4, <2>6 DEF Connected
    <2>8. /\ told' \notin {"behind", "late"} =>
                 /\ told' \in {"started", "completed"} <=> label \in Running
                 /\ told' = "completed" => synced'
          /\ indexing' \subseteq indexing \cup {w} /\ (w \in indexing' => synced')
      BY <1>h, <1>i, <2>1, <2>2, <2>3, <2>4
    <2> QED BY <1>r, <2>1, <2>2, <2>3, <2>4, <2>5, <2>7, <2>8, GoingOnKeepsSerial
<1>3. CASE w \in Sessions /\ RunReturns(w)
    <2>1. run[w] \in Running
      BY <1>3 DEF RunReturns, Running
    <2>2. /\ UNCHANGED <<flags, closed, pc, snapshot, active, crash>>
          /\ indexing' = indexing
          /\ run' = [run EXCEPT ![w] = "returned"] /\ told' \in {"error", "restarting", "canceled"}
      BY <1>3 DEF RunReturns, Told, Move, callers, channels
    <2>3. "returned" \in LiveStates \ {"armed"} /\ "returned" \notin Running
      BY DEF LiveStates, Running, Idling, Inside, Publishing
    <2>4. w \notin closed
      BY <1>3, <1>c, <1>r, <2>1
    <2> QED BY <1>3, <1>f, <1>r, <2>1, <2>2, <2>3, <2>4, GoingOnKeepsSerial DEF flags, Connected
<1>4. CASE CloseSyncCanceled(w) \/ ResetStopsDiscovery(w)
    <2>1. w \in Sessions /\ run[w] \in {"returned", "closed"}
      BY <1>4, <1>u DEF CloseSyncCanceled, ResetStopsDiscovery
    <2>2. run[w] \in LiveStates \ {"armed"} /\ run[w] \notin Running
      BY <2>1 DEF LiveStates, Running, Idling, Inside, Publishing
    <2>3. syncCanceled = w /\ w # Nil /\ active # NoData
      BY <1>l, <2>1, <2>2 DEF Sessions, Nil
    <2>4. PICK label \in {"closed", "stopped"} : run' = [run EXCEPT ![w] = label]
      BY <1>4 DEF CloseSyncCanceled, ResetStopsDiscovery, Move
    <2>5. label \in LiveStates \ {"armed"} /\ label \notin Running
      BY DEF LiveStates, Running, Idling, Inside, Publishing
    <2>6. UNCHANGED <<flags, pc, snapshot, told, indexing>> /\ closed' \subseteq closed \cup {w}
      BY <1>4, <2>3 DEF CloseSyncCanceled, ResetStopsDiscovery, SameCallback, callers, heard
    <2>7. active' # NoData /\ crash' = crash
      <3>1. CASE CloseSyncCanceled(w)
        <4>1. run[w] = "returned"
          BY <3>1 DEF CloseSyncCanceled
        <4>2. syncCanceled # Nil /\ syncCanceled \notin closed
          BY <1>c, <2>1, <2>3, <4>1
        <4> QED BY <2>3, <3>1, <4>2 DEF CloseSyncCanceled
      <3>2. CASE ResetStopsDiscovery(w)
        BY <1>d, <2>3, <3>2, StopLeavesData DEF ResetStopsDiscovery
      <3> QED BY <1>4, <3>1, <3>2
    <2> QED BY <1>f, <1>h, <2>1, <2>2, <2>4, <2>5, <2>6, <2>7, GoingOnKeepsSerial
             DEF flags, Connected
<1>5. CASE ResetSyncData(w)
    <2>1. w \in Sessions /\ run[w] = "stopped"
      BY <1>5, <1>u DEF ResetSyncData
    <2>2. Live = {w}
      <3>1. w \in Live
        BY <1>l, <2>1 DEF LiveStates
      <3> QED BY <3>1 DEF SerialInv, ChannelIsOfTheLive
    <2>3. /\ run' = [run EXCEPT ![w] = "reset"] /\ ~syncing' /\ ~synced' /\ syncCanceled' = Nil
          /\ UNCHANGED <<closed, pc, snapshot, told, indexing, crash>>
      BY <1>5 DEF ResetSyncData, Move, channels, callers, heard
    <2>4. run'[w] = "reset"
      BY <1>t, <2>3
    <2>5. Live' = {}
      BY <1>t, <2>2, <2>3, <2>4 DEF Live, Running, Idling, Inside, Publishing
    <2>6. ~Connected' /\ Connected
      BY <2>2, <2>3 DEF SerialInv, FlagsTell, Connected
    <2>7. NoUsage' /\ SeenHolds'
      BY <1>t, <2>1, <2>3, <2>6, BoundsAssumption DEF SerialInv, NoUsage, SeenHolds, Sessions,
         Usages
    <2>8. ClosedAreEnding'
      BY <1>t, <2>3 DEF SerialInv, ClosedAreEnding, Ending
    <2>9. ListenersAgree' /\ IndexedAreSynced'
      <3>1. \A s \in Sessions : run[s] \notin Running /\ run'[s] \notin Running
        BY <1>t, <2>1, <2>2, <2>3, <2>4 DEF Live, Running, Idling, Inside, Publishing
      <3>2. \A s \in Sessions : run'[s] \in {run[s], "reset"}
        BY <1>t, <2>3
      <3> QED BY <2>3, <3>1, <3>2 DEF SerialInv, ListenersAgree, IndexedAreSynced
    <2> QED BY <2>3, <2>5, <2>6, <2>7, <2>8, <2>9 DEF SerialInv, ChannelIsOfTheLive,
               LiveHaveData, FlagsTell, OnlyObserversCrash
<1>6. CASE ResetLocksWallet(w)
    <2>1. w \in Sessions /\ run[w] = "reset"
      BY <1>6, <1>u DEF ResetLocksWallet
    <2>2. /\ run' = [run EXCEPT ![w] = "done"]
          /\ UNCHANGED <<flags, closed, pc, snapshot, told, indexing, active, crash>>
      BY <1>6 DEF ResetLocksWallet, Move, channels, callers, heard
    <2>3. \A s \in Sessions : run'[s] = run[s] \/ (run[s] = "reset" /\ run'[s] = "done")
      BY <1>t, <2>1, <2>2 DEF Workers
    <2>4. Live' = Live /\ \A s \in Sessions : run'[s] \in Running <=> run[s] \in Running
      BY <2>3 DEF Live, Running, Idling, Inside, Publishing
    <2>5. NoUsage' /\ SeenHolds'
      BY <1>t, <2>1, <2>2, <2>3, BoundsAssumption DEF SerialInv, NoUsage, SeenHolds, Sessions,
         Usages, flags, Connected
    <2>6. ClosedAreEnding'
      BY <2>2, <2>3 DEF SerialInv, ClosedAreEnding, Ending
    <2>7. ListenersAgree' /\ IndexedAreSynced'
      BY <2>2, <2>3, <2>4 DEF SerialInv, ListenersAgree, IndexedAreSynced, flags
    <2> QED BY <2>2, <2>4, <2>5, <2>6, <2>7 DEF SerialInv, ChannelIsOfTheLive, LiveHaveData,
               FlagsTell, OnlyObserversCrash, flags, Connected
<1>7. ~UsageBegins(w) /\ ~UsageStops(w) /\ ~UsageReturns(w)
    BY <1>u, KindOfWorker DEF UsageBegins, UsageStops, UsageReturns
<1> QED BY <1>1, <1>2, <1>3, <1>4, <1>5, <1>6, <1>7, WorkersCallBack, SyncerCallsBack
         DEF WorkerBody

\* SerialInv is inductive, given Inv before and after the step.
LEMMA NextKeepsSerial ==
    Serial /\ Inv /\ Inv' /\ Kinds /\ SerialInv /\ [Next]_vars => SerialInv'
<1> SUFFICES ASSUME Serial, Inv, Inv', Kinds, SerialInv, [Next]_vars PROVE SerialInv'
    OBVIOUS
<1>a. Next => Alive
    BY DEF Next
<1>1. ASSUME Alive, NEW c \in Callers, Call(c) \/ CallerStep(c) PROVE SerialInv'
    <2>1. ~DiscoverUsageChecksSyncing(c) /\ ~DiscoverUsageChecksSynced(c)
      BY DEF SerialInv, NoUsage, DiscoverUsageChecksSyncing, DiscoverUsageChecksSynced
    <2> QED BY <1>1, <2>1, CallerMovesSerially, MovesKeepSerial, StartsKeepSerial DEF CallerStep
<1>2. ASSUME Alive, NEW s \in Sessions, SyncerStep(s) \/ RunReturns(s) PROVE SerialInv'
    BY <1>2, WorkerKeepsSerial DEF Workers
<1>3. ASSUME Alive, NEW w \in Workers,
             \/ DiscoverAddressesStarted(w) \/ DiscoverAddressesFinished(w)
             \/ WorkerBody(w)
      PROVE SerialInv'
    BY <1>3, WorkerKeepsSerial
<1>4. ASSUME Alive, NEW u \in Usages, UsageReturns(u) PROVE SerialInv'
    BY <1>4, WorkerKeepsSerial DEF Workers
<1>5. ASSUME Alive, NEW d \in Tickers, TickerStep(d) PROVE SerialInv'
    <2>1. /\ UNCHANGED <<flags, callers, workers, closed>> /\ (active # NoData => active' # NoData)
          /\ crash' \in {crash, "ticker"}
      BY <1>5 DEF TickerStep, TickerBegins, TickerChecks, TickerLocks, TickerSelects,
         TickerStops, TickerFires, TickerPublishes, SameTicker, Touch, channels
    <2>2. Live' = Live /\ Connected' = Connected
      BY <2>1 DEF Live, Connected, flags, workers
    <2> QED BY <2>1, <2>2 DEF SerialInv, NoUsage, ChannelIsOfTheLive, LiveHaveData,
               ClosedAreEnding, FlagsTell, SeenHolds, ListenersAgree, IndexedAreSynced, OnlyObserversCrash,
               flags, callers, workers, heard
<1>6. CASE (\E s \in Sessions : IndexStep(s)) \/ (\E r \in Readers : ReaderStep(r))
    <2>1. /\ UNCHANGED <<syncing, synced, syncCanceled, pc, snapshot, run, active, closed>>
          /\ crash' \in {crash, "reader"}
      BY <1>6, ObserversChangeNothing
    <2>2. Live' = Live /\ Connected' = Connected
      BY <2>1 DEF Live, Connected
    <2>3. ListenersAgree' /\ IndexedAreSynced'
      <3>1. ASSUME NEW s \in Sessions, IndexStep(s) PROVE ListenersAgree' /\ IndexedAreSynced'
        <4>1. CASE SyncedWalletAgain(s)
          BY <2>1, <4>1 DEF SyncedWalletAgain, SerialInv, ListenersAgree, IndexedAreSynced,
             Running, Idling
        <4>2. CASE ReportCompleted(s) \/ ReportBehind(s)
          BY <2>1, <4>2 DEF ReportCompleted, ReportBehind, SerialInv, ListenersAgree,
             IndexedAreSynced
        <4> QED BY <3>1, <4>1, <4>2 DEF IndexStep
      <3>2. ASSUME NEW r \in Readers, ReaderStep(r)
            PROVE  ListenersAgree' /\ IndexedAreSynced'
        <4>1. told' = told /\ indexing' = indexing
          BY <3>2 DEF ReaderStep, ReaderFindsData, ReaderAsksSyncer, workers, heard
        <4> QED BY <2>1, <4>1 DEF SerialInv, ListenersAgree, IndexedAreSynced
      <3> QED BY <1>6, <3>1, <3>2
    <2> QED BY <2>1, <2>2, <2>3 DEF SerialInv, NoUsage, ChannelIsOfTheLive, LiveHaveData,
               ClosedAreEnding, FlagsTell, SeenHolds, OnlyObserversCrash
<1>7. CASE UNCHANGED vars
    <2>1. UNCHANGED <<flags, callers, run, active, closed, crash, told, indexing>>
      BY <1>7 DEF vars, workers, heard, channels
    <2>2. Live' = Live /\ Connected' = Connected
      BY <2>1 DEF Live, Connected, flags
    <2> QED BY <2>1, <2>2 DEF SerialInv, NoUsage, ChannelIsOfTheLive, LiveHaveData,
               ClosedAreEnding, FlagsTell, SeenHolds, ListenersAgree, IndexedAreSynced, OnlyObserversCrash,
               flags, callers
<1> QED BY <1>a, <1>1, <1>2, <1>3, <1>4, <1>5, <1>6, <1>7 DEF Next

\* SerialInv holds of every wallet whose calls come one after another.
LEMMA SerialHolds == ASSUME Serial PROVE Spec => [](Inv /\ ResetInv /\ SerialInv)
<1>1. Init => Inv /\ ResetInv /\ SerialInv
    BY InitHasInv, InitIsReset, InitIsSerial
<1>2. Inv /\ ResetInv /\ SerialInv /\ [Next]_vars => (Inv /\ ResetInv /\ SerialInv)'
    BY NextKeepsInv, NextKeepsReset, NextKeepsSerial DEF ResetInv
<1> QED BY <1>1, <1>2, PTL DEF Spec

-----------------------------------------------------------------------------
(* The lock                                                                *)

\* An unlocked wallet has a session that has not locked it yet, or a caller that is
\* about to start one: FlagsHaveASession says so.
Asking == {"spvSyncing", "spvSynced", "spvInit", "spvArm"}
Owing  == Running \cup {"armed"} \cup Ending

SomeOwing  == \E s \in Sessions : run[s] \in Owing
SomeAsking == \E c \in Callers : pc[c] \in Asking
UnlockedToSync == ~locked => SomeOwing \/ SomeAsking

\* A caller unlocks the wallet only to ask for a session, and stops asking only if one
\* is there or it starts one.
LEMMA CallerKeepsUnlocked ==
    ASSUME Inv, SerialInv, "badPeers" \notin Ops, UnlockedToSync, NEW c \in Callers,
           Call(c) \/ CallerStep(c)
    PROVE  UnlockedToSync'
<1> USE DEF Goto, workers, wallet, Inv, TypeOK
<1>1. Connected => SomeOwing
    BY DEF SerialInv, FlagsTell, Live, SomeOwing, Owing, Ending
<1>2. ~RefuseInvalidPeers(c) /\ ~DiscoverUsageChecksSyncing(c) /\ ~DiscoverUsageChecksSynced(c)
    BY DEF RefuseInvalidPeers, SerialInv, NoUsage, DiscoverUsageChecksSyncing,
       DiscoverUsageChecksSynced
<1>3. ASSUME run' = run, locked' = locked,
             SomeAsking => SomeAsking' \/ SomeOwing
      PROVE  UnlockedToSync'
    BY <1>3 DEF UnlockedToSync, SomeOwing
<1>4. ASSUME pc[c] \notin Asking, \A d \in Callers \ {c} : pc'[d] = pc[d]
      PROVE  SomeAsking => SomeAsking'
    BY <1>4 DEF SomeAsking
<1>5. CASE ToggleSyncOn(c)
    <2>1. pc'[c] \in Asking
      BY <1>5 DEF ToggleSyncOn, Asking
    <2> QED BY <2>1 DEF UnlockedToSync, SomeAsking
<1>6. CASE Call(c) /\ ~ToggleSyncOn(c)
    <2>1. run' = run /\ locked' = locked
      BY <1>6 DEF Call, CallSpvSync, ToggleSyncOff, SafelyCancelSync, RestartSpvSync,
         DiscoverUsage
    <2>2. pc[c] = "idle" /\ \A d \in Callers \ {c} : pc'[d] = pc[d]
      BY <1>6 DEF Call, CallSpvSync, ToggleSyncOff, SafelyCancelSync, RestartSpvSync,
         DiscoverUsage
    <2> QED BY <1>3, <1>4, <2>1, <2>2 DEF Asking
<1>7. CASE CheckSyncing(c) \/ CheckSynced(c)
    <2>1. run' = run /\ locked' = locked
      BY <1>7 DEF CheckSyncing, CheckSynced
    <2>2. pc'[c] \in Asking \/ Connected
      BY <1>7 DEF CheckSyncing, CheckSynced, Asking, Connected
    <2> QED BY <1>1, <1>3, <2>1, <2>2 DEF SomeAsking
<1>8. CASE InitActiveSyncData(c)
    <2>1. pc'[c] \in Asking
      BY <1>8 DEF InitActiveSyncData, Asking
    <2> QED BY <2>1 DEF UnlockedToSync, SomeAsking
<1>9. CASE ArmSession(c)
    <2>1. PICK s \in Sessions : run' = [run EXCEPT ![s] = "armed"]
      BY <1>9 DEF ArmSession, Unborn, Move
    <2>2. run'[s] \in Owing
      BY <2>1 DEF Owing, Workers
    <2> QED BY <2>2 DEF UnlockedToSync, SomeOwing
<1>10. CASE SpawnSession(c)
    <2>1. snapshot[c] \in Sessions /\ run' = [run EXCEPT ![snapshot[c]] = "between"]
      BY <1>10 DEF SpawnSession, Move, SerialInv, SeenHolds
    <2>2. run'[snapshot[c]] \in Owing
      BY <2>1 DEF Owing, Running, Idling, Workers
    <2> QED BY <2>1, <2>2 DEF UnlockedToSync, SomeOwing
<1>11. CASE \/ ReadCancelSync(c) \/ CallCancel(c) \/ ReadSyncCanceled(c)
            \/ AwaitSyncCanceled(c) \/ EndSyncShuttingDown(c)
    <2>1. run' = run /\ (locked' \/ locked' = locked)
      BY <1>11 DEF ReadCancelSync, CallCancel, ReadSyncCanceled, AwaitSyncCanceled,
         EndSyncShuttingDown
    <2>2. pc[c] \notin Asking /\ \A d \in Callers \ {c} : pc'[d] = pc[d]
      BY <1>11 DEF ReadCancelSync, CallCancel, ReadSyncCanceled, AwaitSyncCanceled,
         EndSyncShuttingDown, Asking
    <2> QED BY <1>3, <1>4, <2>1, <2>2 DEF UnlockedToSync
<1> QED BY <1>2, <1>5, <1>6, <1>7, <1>8, <1>9, <1>10, <1>11 DEF CallerStep

\* A session ends by locking the wallet.
LEMMA WorkerKeepsUnlocked ==
    ASSUME Inv, Kinds, SerialInv, UnlockedToSync, NEW w \in Workers,
           \/ WorkerBody(w) \/ DiscoverAddressesStarted(w) \/ DiscoverAddressesFinished(w)
           \/ w \in Sessions /\ (SyncerStep(w) \/ RunReturns(w))
           \/ UsageReturns(w)
    PROVE  UnlockedToSync'
<1>u. w \in Sessions \/ run[w] = "unborn"
    BY DEF SerialInv, NoUsage, Workers
<1>1. ASSUME NEW label, run' = [run EXCEPT ![w] = label], pc' = pc, locked' = locked,
             label \in Owing \/ run[w] \notin Owing
      PROVE  UnlockedToSync'
    <2>1. SomeAsking => SomeAsking'
      BY <1>1 DEF SomeAsking
    <2>2. SomeOwing => SomeOwing'
      BY <1>1 DEF SomeOwing, Inv, TypeOK, Workers
    <2> QED BY <1>1, <2>1, <2>2 DEF UnlockedToSync
<1>2. CASE Callback(w)
    <2>1. PICK label \in WorkerStates :
            run' = [run EXCEPT ![w] = label] /\ (label \in Owing \/ run[w] \notin Owing)
      BY <1>2, <1>u DEF Callback, Move, StaysWhereItWas, Owing, Running, Idling, Inside,
         Publishing, Ending
    <2> QED BY <1>1, <1>2, <2>1 DEF Callback, SameCallback, wallet, callers
<1>3. CASE SyncedWalletBody(w) \/ ResetLocksWallet(w)
    BY <1>3 DEF SyncedWalletBody, ResetLocksWallet, UnlockedToSync
<1>4. CASE \/ SyncedWalletEnd(w) \/ (w \in Sessions /\ RunReturns(w))
           \/ CloseSyncCanceled(w) \/ ResetStopsDiscovery(w) \/ ResetSyncData(w)
    <2>1. PICK label \in Owing : run' = [run EXCEPT ![w] = label]
      BY <1>4 DEF SyncedWalletEnd, RunReturns, CloseSyncCanceled, ResetStopsDiscovery,
         ResetSyncData, Move, Owing, Running, Idling, Ending
    <2>2. pc' = pc /\ locked' = locked
      BY <1>4 DEF SyncedWalletEnd, RunReturns, CloseSyncCanceled, ResetStopsDiscovery,
         ResetSyncData, SameCallback, callers, wallet
    <2> QED BY <1>1, <2>1, <2>2
<1>5. ~UsageBegins(w) /\ ~UsageStops(w) /\ ~UsageReturns(w)
    BY <1>u, KindOfWorker DEF UsageBegins, UsageStops, UsageReturns
<1> QED BY <1>2, <1>3, <1>4, <1>5, WorkersCallBack, SyncerCallsBack DEF WorkerBody

\* UnlockedToSync is inductive, given SerialInv and peers that are not refused.
LEMMA NextKeepsUnlocked ==
    ASSUME Inv, Kinds, SerialInv, UnlockedToSync, "badPeers" \notin Ops, [Next]_vars
    PROVE  UnlockedToSync'
<1>1. ASSUME NEW c \in Callers, Call(c) \/ CallerStep(c) PROVE UnlockedToSync'
    BY <1>1, CallerKeepsUnlocked
<1>2. ASSUME NEW s \in Sessions, SyncerStep(s) \/ RunReturns(s) PROVE UnlockedToSync'
    BY <1>2, WorkerKeepsUnlocked DEF Workers
<1>3. ASSUME NEW w \in Workers,
             \/ DiscoverAddressesStarted(w) \/ DiscoverAddressesFinished(w)
             \/ WorkerBody(w)
      PROVE UnlockedToSync'
    BY <1>3, WorkerKeepsUnlocked
<1>4. ASSUME NEW u \in Usages, UsageReturns(u) PROVE UnlockedToSync'
    BY <1>4, WorkerKeepsUnlocked DEF Workers
<1>5. ASSUME UNCHANGED <<wallet, callers, run>> PROVE UnlockedToSync'
    BY <1>5 DEF UnlockedToSync, SomeOwing, SomeAsking, wallet, callers
<1>6. ASSUME NEW d \in Tickers, TickerStep(d) PROVE UnlockedToSync'
    BY <1>5, <1>6 DEF TickerStep, TickerBegins, TickerChecks, TickerLocks, TickerSelects,
       TickerStops, TickerFires, TickerPublishes, SameTicker, workers
<1>7. CASE \/ \E s \in Sessions : IndexStep(s)
           \/ \E r \in Readers : ReaderStep(r)
           \/ UNCHANGED vars
    BY <1>5, <1>7, ObserversChangeNothing DEF vars, workers, wallet, callers
<1> QED BY <1>1, <1>2, <1>3, <1>4, <1>6, <1>7 DEF Next

-----------------------------------------------------------------------------

\* With one caller two sessions never share the SyncData, whatever the syncer and the
\* peers do and however often the caller cancels and restarts.
THEOREM OneCallerOneSession ==
    ASSUME Serial PROVE Spec => []AtMostOneSession
<1>1. SerialInv => AtMostOneSession
    <2> SUFFICES ASSUME ChannelIsOfTheLive PROVE AtMostOneSession
      BY DEF SerialInv
    <2>1. Live \subseteq {syncCanceled}
      BY DEF ChannelIsOfTheLive
    <2>2. Live = {} \/ Live = {syncCanceled}
      BY <2>1
    <2>3. Cardinality(Live) = 0 \/ Cardinality(Live) = 1
      BY <2>2, FS_EmptySet, FS_Singleton
    <2> QED BY <2>3 DEF AtMostOneSession
<1> QED BY <1>1, SerialHolds, PTL

\* With one caller a callback finds the data of its own session and no channel is
\* closed twice or while it is nil: only the ticker and the readers, which look at the
\* session from outside, can meet a nil pointer.
THEOREM OneCallersObserversCrash ==
    ASSUME Serial PROVE Spec => []OnlyObserversCrash
<1>1. SerialInv => OnlyObserversCrash
    BY DEF SerialInv
<1> QED BY <1>1, SerialHolds, PTL

\* With one caller, and but for the two reports of the index goroutines that deceive,
\* the listeners know whether a session runs, and that the wallet is synced when they
\* heard that it is.
THEOREM OneCallersListenersAgree ==
    ASSUME Serial PROVE Spec => []ListenersAgree
<1>1. SerialInv => ListenersAgree
    BY DEF SerialInv
<1> QED BY <1>1, SerialHolds, PTL

\* With one caller, and peers that are not refused, the flags tell whether there is a
\* session and the wallet is unlocked only for one.
THEOREM OneCallersFlagsHaveASession ==
    ASSUME Serial, "badPeers" \notin Ops PROVE Spec => []FlagsHaveASession
<1>1. Init => UnlockedToSync
    BY DEF Init, UnlockedToSync
<1>2. Inv /\ ResetInv /\ SerialInv /\ UnlockedToSync /\ [Next]_vars => UnlockedToSync'
    BY NextKeepsUnlocked DEF ResetInv
<1>3. SerialInv /\ UnlockedToSync => FlagsHaveASession
    BY DEF SerialInv, FlagsTell, UnlockedToSync, SomeOwing, SomeAsking, Owing, Asking,
       FlagsHaveASession
<1> QED BY <1>1, <1>2, <1>3, SerialHolds, PTL DEF Spec

-----------------------------------------------------------------------------
(* The service one caller sees                                             *)

\* A step that neither begins nor resets a session, nor swaps the channel.
SessionsStay == Live' = Live /\ syncCanceled' = syncCanceled

\* What the wallet says of itself follows the sessions.
LEMMA StayingIsAStutter ==
    ASSUME SerialInv, SerialInv', SessionsStay
    PROVE  UNCHANGED Connection!serviceVars
<1>1. Connected' <=> Connected
    BY DEF SerialInv, FlagsTell, SessionsStay
<1> QED BY <1>1 DEF SessionsStay, Connection!serviceVars

\* Of the caller's steps only ArmSession begins a session, and none was there.
LEMMA CallerBegins ==
    ASSUME Inv, SerialInv, SerialInv', NEW c \in Callers, Call(c) \/ CallerStep(c)
    PROVE  [Connection!ServiceNext]_(Connection!serviceVars)
<1>1. CASE ArmSession(c)
    <2>1. PICK s \in Sessions : /\ run[s] = "unborn" /\ run' = [run EXCEPT ![s] = "armed"]
                                /\ syncCanceled' = s /\ syncing' = TRUE
      BY <1>1 DEF ArmSession, Unborn, Move
    <2>2. Live = {} /\ ~Connected
      BY <1>1 DEF ArmSession, SerialInv, SeenHolds, FlagsTell
    <2>3. run'[s] = "armed"
      BY <2>1 DEF Inv, TypeOK, Workers
    <2>4. Live' = {s}
      BY <2>1, <2>2, <2>3 DEF Live, Inv, TypeOK, Workers
    <2>5. Connection!Begin(s)
      BY <2>1, <2>2, <2>4 DEF Connection!Begin, Connected
    <2> QED BY <2>5 DEF Connection!ServiceNext
<1>2. CASE SpawnSession(c)
    <2> DEFINE s == snapshot[c]
    <2>1. s \in Sessions /\ run[s] = "armed" /\ run' = [run EXCEPT ![s] = "between"]
      BY <1>2 DEF SpawnSession, SerialInv, SeenHolds, Move
    <2>2. run'[s] = "between"
      BY <2>1 DEF Inv, TypeOK, Workers
    <2>3. Live' = Live
      BY <2>1, <2>2 DEF Live, Running, Idling, Inv, TypeOK
    <2>4. syncCanceled' = syncCanceled
      BY <1>2 DEF SpawnSession, flags
    <2> QED BY <2>3, <2>4, StayingIsAStutter DEF SessionsStay
<1>3. CASE \/ Call(c)
           \/ CheckSyncing(c) \/ CheckSynced(c) \/ RefuseInvalidPeers(c) \/ InitActiveSyncData(c)
           \/ ReadCancelSync(c) \/ CallCancel(c) \/ ReadSyncCanceled(c)
           \/ AwaitSyncCanceled(c) \/ EndSyncShuttingDown(c)
    <2>1. UNCHANGED <<run, syncCanceled>>
      BY <1>3 DEF Call, CallSpvSync, ToggleSyncOn, ToggleSyncOff, SafelyCancelSync,
         RestartSpvSync, DiscoverUsage, CheckSyncing, CheckSynced, RefuseInvalidPeers,
         InitActiveSyncData, ReadCancelSync, CallCancel, ReadSyncCanceled, AwaitSyncCanceled,
         EndSyncShuttingDown, flags, workers
    <2> QED BY <2>1, StayingIsAStutter DEF SessionsStay, Live
<1>4. ~DiscoverUsageChecksSyncing(c) /\ ~DiscoverUsageChecksSynced(c)
    BY DEF SerialInv, NoUsage, DiscoverUsageChecksSyncing, DiscoverUsageChecksSynced
<1> QED BY <1>1, <1>2, <1>3, <1>4 DEF CallerStep

\* Of a worker's steps only ResetSyncData ends a session: its own.
LEMMA WorkerEnds ==
    ASSUME Inv, Kinds, SerialInv, SerialInv', NEW w \in Workers,
           \/ WorkerBody(w) \/ DiscoverAddressesStarted(w) \/ DiscoverAddressesFinished(w)
           \/ w \in Sessions /\ (SyncerStep(w) \/ RunReturns(w))
           \/ UsageReturns(w)
    PROVE  [Connection!ServiceNext]_(Connection!serviceVars)
<1>t. run \in [Workers -> WorkerStates]
    BY DEF Inv, TypeOK
<1>l. LiveStates \subseteq WorkerStates /\ \A s \in Sessions : s \in Live <=> run[s] \in LiveStates
    BY DEF Live, LiveStates, WorkerStates, Ending
<1>g. ASSUME NEW label, run' = [run EXCEPT ![w] = label], syncCanceled' = syncCanceled,
             w \in Sessions => (label \in LiveStates <=> run[w] \in LiveStates)
      PROVE  UNCHANGED Connection!serviceVars
    <2>1. Live' = Live
      BY <1>g, <1>t DEF Live, LiveStates
    <2> QED BY <1>g, <2>1, StayingIsAStutter DEF SessionsStay
<1>1. CASE Callback(w)
    <2>1. PICK label : Move(w, label) /\ StaysWhereItWas(w, label)
      BY <1>1 DEF Callback
    <2>2. w \in Sessions => (label \in LiveStates <=> run[w] \in LiveStates)
      BY <2>1 DEF StaysWhereItWas, LiveStates
    <2>3. syncCanceled' = syncCanceled
      BY <1>1 DEF Callback, SameCallback, flags
    <2> QED BY <1>g, <2>1, <2>2, <2>3 DEF Move
<1>2. CASE SyncedWalletBody(w) \/ SyncedWalletEnd(w)
    <2>1. run[w] \in LiveStates
      BY <1>2 DEF SyncedWalletBody, SyncedWalletEnd, LiveStates, Running, Inside
    <2>2. PICK label \in LiveStates : run' = [run EXCEPT ![w] = label]
      BY <1>2 DEF SyncedWalletBody, SyncedWalletEnd, Move, LiveStates, Running, Inside, Idling
    <2>3. syncCanceled' = syncCanceled
      BY <1>2 DEF SyncedWalletBody, SyncedWalletEnd, flags
    <2> QED BY <1>g, <2>1, <2>2, <2>3
<1>3. CASE RunReturns(w) \/ CloseSyncCanceled(w) \/ ResetStopsDiscovery(w)
    <2>1. run[w] \in LiveStates
      BY <1>3 DEF RunReturns, CloseSyncCanceled, ResetStopsDiscovery, LiveStates, Running
    <2>2. PICK label \in LiveStates : run' = [run EXCEPT ![w] = label]
      BY <1>3 DEF RunReturns, CloseSyncCanceled, ResetStopsDiscovery, Move, LiveStates
    <2>3. syncCanceled' = syncCanceled
      BY <1>3 DEF RunReturns, CloseSyncCanceled, ResetStopsDiscovery, SameCallback, flags
    <2> QED BY <1>g, <2>1, <2>2, <2>3
<1>4. CASE ResetSyncData(w)
    <2>1. w \in Sessions /\ run[w] = "stopped"
      BY <1>4, KindOfWorker DEF ResetSyncData
    <2>2. w \in Live
      BY <2>1, <1>l DEF LiveStates
    <2>3. /\ run' = [run EXCEPT ![w] = "reset"] /\ ~Connected' /\ syncCanceled' = Nil
      BY <1>4 DEF ResetSyncData, Move, Connected
    <2>4. run'[w] = "reset"
      BY <1>t, <2>3
    <2>5. Live' = Live \ {w}
      BY <1>t, <2>3, <2>4 DEF Live, Running, Idling, Inside, Publishing
    <2>6. Connection!End(w)
      BY <2>2, <2>3, <2>5 DEF Connection!End
    <2> QED BY <2>1, <2>6 DEF Connection!ServiceNext
<1>5. CASE ResetLocksWallet(w)
    <2>1. run[w] = "reset" /\ run' = [run EXCEPT ![w] = "done"] /\ syncCanceled' = syncCanceled
      BY <1>5 DEF ResetLocksWallet, Move, flags
    <2>2. "reset" \notin LiveStates /\ "done" \notin LiveStates
      BY DEF LiveStates, Running, Idling, Inside, Publishing
    <2> QED BY <1>g, <2>1, <2>2
<1>6. ~UsageBegins(w) /\ ~UsageStops(w) /\ ~UsageReturns(w)
    BY KindOfWorker DEF UsageBegins, UsageStops, UsageReturns, SerialInv, NoUsage, Workers
<1> QED BY <1>1, <1>2, <1>3, <1>4, <1>5, <1>6, WorkersCallBack, SyncerCallsBack DEF WorkerBody

\* Every step of the wallet is a step of the service or none.
LEMMA NextIsConnection ==
    Inv /\ Kinds /\ SerialInv /\ SerialInv' /\ [Next]_vars
        => [Connection!ServiceNext]_(Connection!serviceVars)
<1> SUFFICES ASSUME Inv, Kinds, SerialInv, SerialInv', [Next]_vars
             PROVE  [Connection!ServiceNext]_(Connection!serviceVars)
    OBVIOUS
<1>1. ASSUME NEW c \in Callers, Call(c) \/ CallerStep(c)
      PROVE  [Connection!ServiceNext]_(Connection!serviceVars)
    BY <1>1, CallerBegins
<1>2. ASSUME NEW w \in Workers,
             \/ WorkerBody(w) \/ DiscoverAddressesStarted(w) \/ DiscoverAddressesFinished(w)
             \/ w \in Sessions /\ (SyncerStep(w) \/ RunReturns(w))
             \/ UsageReturns(w)
      PROVE  [Connection!ServiceNext]_(Connection!serviceVars)
    BY <1>2, WorkerEnds
<1>3. ASSUME \/ \E d \in Tickers : TickerStep(d)
             \/ \E s \in Sessions : IndexStep(s)
             \/ \E r \in Readers : ReaderStep(r)
             \/ UNCHANGED vars
      PROVE  UNCHANGED Connection!serviceVars
    <2>1. UNCHANGED <<run, syncCanceled>>
      BY <1>3, ObserversChangeNothing DEF TickerStep, TickerBegins, TickerChecks, TickerLocks, TickerSelects,
         TickerStops, TickerFires, TickerPublishes, SameTicker, vars, flags, workers
    <2> QED BY <2>1, StayingIsAStutter DEF SessionsStay, Live
<1>4. \A w \in Sessions \cup Usages : w \in Workers
    BY DEF Workers
<1> QED BY <1>1, <1>2, <1>3, <1>4 DEF Next

\* With one caller the sessions are a service with one run at a time, and what the
\* wallet says of itself tells which: it implements the abstract specification.
THEOREM OneCallersSessionsAreAService ==
    ASSUME Serial PROVE Spec => SessionsAreAService
<1>1. Init => Connection!ServiceInit
    <2> SUFFICES ASSUME Init PROVE Connection!ServiceInit
      OBVIOUS
    <2>1. Live = {} /\ ~Connected
      BY DEF Init, Live, Connected, Workers, Running, Idling, Inside, Publishing
    <2> QED BY <2>1 DEF Connection!ServiceInit
<1>2. /\ Inv /\ ResetInv /\ SerialInv /\ (Inv /\ ResetInv /\ SerialInv)' /\ [Next]_vars
      => [Connection!ServiceNext]_(Connection!serviceVars)
    BY NextIsConnection DEF ResetInv
<1> QED BY <1>1, <1>2, SerialHolds, PTL DEF Spec, SessionsAreAService, Connection!ServiceSpec

-----------------------------------------------------------------------------
(* What CancelSync waits for                                               *)

\* With one caller the cancel function and the channel in the fields are of one session.
CancelIsOfTheChannel == cancelSync = syncCanceled

\* The channel is that of the session whose cancel function was read, unless the reset
\* has been there since.
WaitsForItsOwn ==
    \A c \in Callers :
        /\ pc[c] = "canFire" => syncCanceled \in {snapshot[c], Nil}
        /\ pc[c] = "canChan" => syncCanceled \in cancelled \cup {Nil}
        /\ pc[c] = "canWait" => snapshot[c] \in cancelled \cup {Nil}

CancelInv == CancelIsOfTheChannel /\ WaitsForItsOwn

\* Nobody but the caller itself puts another session there while it cancels one.
LEMMA NextKeepsCancel ==
    Serial /\ Inv /\ Kinds /\ SerialInv /\ CancelInv /\ [Next]_vars => CancelInv'
<1> SUFFICES ASSUME Serial, Inv, Kinds, SerialInv, CancelInv, [Next]_vars PROVE CancelInv'
    OBVIOUS
<1> USE DEF CancelInv, CancelIsOfTheChannel, WaitsForItsOwn
<1>g. ASSUME UNCHANGED callers, cancelled \subseteq cancelled',
             \/ UNCHANGED <<cancelSync, syncCanceled>>
             \/ cancelSync' = Nil /\ syncCanceled' = Nil
      PROVE  CancelInv'
    BY <1>g DEF callers
<1>1. ASSUME NEW c \in Callers, Call(c) \/ CallerStep(c) PROVE CancelInv'
    <2>0. \A d \in Callers : d = c
      BY DEF Serial
    <2>t. pc \in [Callers -> CallerStates] /\ snapshot \in [Callers -> Workers \cup {Nil}]
      BY DEF Inv, TypeOK
    <2>1. CASE \/ Call(c)
               \/ CheckSyncing(c) \/ CheckSynced(c) \/ RefuseInvalidPeers(c)
               \/ InitActiveSyncData(c) \/ SpawnSession(c)
               \/ AwaitSyncCanceled(c) \/ EndSyncShuttingDown(c)
      <3>1. /\ UNCHANGED <<cancelSync, syncCanceled>>
            /\ pc'[c] \notin {"canFire", "canChan", "canWait"}
        BY <2>1, <2>t DEF Call, CallSpvSync, ToggleSyncOn, ToggleSyncOff, SafelyCancelSync,
           RestartSpvSync, DiscoverUsage, CheckSyncing, CheckSynced, RefuseInvalidPeers,
           InitActiveSyncData, SpawnSession, AwaitSyncCanceled, EndSyncShuttingDown, Goto, flags
      <3> QED BY <2>0, <3>1
    <2>2. CASE ArmSession(c)
      <3>1. cancelSync' = syncCanceled' /\ pc'[c] = "spvSpawn"
        BY <2>2, <2>t DEF ArmSession, Goto
      <3> QED BY <2>0, <3>1
    <2>3. CASE ReadCancelSync(c)
      <3>1. /\ UNCHANGED <<cancelSync, syncCanceled>>
            /\ pc'[c] \in {"canEnd", "canFire"} /\ snapshot'[c] = cancelSync
        BY <2>3, <2>t DEF ReadCancelSync, Goto, flags
      <3> QED BY <2>0, <3>1
    <2>4. CASE CallCancel(c)
      <3>1. /\ UNCHANGED <<cancelSync, syncCanceled, snapshot>> /\ pc[c] = "canFire"
            /\ pc'[c] = "canChan" /\ cancelled' = cancelled \cup {snapshot[c]}
        BY <2>4, <2>t DEF CallCancel, Goto, flags
      <3> QED BY <2>0, <3>1
    <2>5. CASE ReadSyncCanceled(c)
      <3>1. /\ UNCHANGED <<cancelSync, syncCanceled, cancelled>> /\ pc[c] = "canChan"
            /\ pc'[c] = "canWait" /\ snapshot'[c] = syncCanceled
        BY <2>5, <2>t DEF ReadSyncCanceled, Goto, flags, channels
      <3> QED BY <2>0, <3>1
    <2>6. ~DiscoverUsageChecksSyncing(c) /\ ~DiscoverUsageChecksSynced(c)
      BY DEF SerialInv, NoUsage, DiscoverUsageChecksSyncing, DiscoverUsageChecksSynced
    <2> QED BY <1>1, <2>1, <2>2, <2>3, <2>4, <2>5, <2>6 DEF CallerStep
<1>2. ASSUME NEW w \in Workers,
             \/ WorkerBody(w) \/ DiscoverAddressesStarted(w) \/ DiscoverAddressesFinished(w)
             \/ w \in Sessions /\ (SyncerStep(w) \/ RunReturns(w))
             \/ UsageReturns(w)
      PROVE  CancelInv'
    <2>1. CASE Callback(w)
      BY <1>g, <2>1 DEF Callback, SameCallback, flags
    <2>2. CASE SyncedWalletBody(w) \/ SyncedWalletEnd(w) \/ RunReturns(w)
      BY <1>g, <2>2 DEF SyncedWalletBody, SyncedWalletEnd, RunReturns, flags, channels
    <2>3. CASE CloseSyncCanceled(w) \/ ResetStopsDiscovery(w) \/ ResetLocksWallet(w)
      BY <1>g, <2>3 DEF CloseSyncCanceled, ResetStopsDiscovery, ResetLocksWallet, SameCallback,
         flags, channels
    <2>4. CASE ResetSyncData(w)
      BY <1>g, <2>4 DEF ResetSyncData, channels
    <2>5. ~UsageBegins(w) /\ ~UsageStops(w) /\ ~UsageReturns(w)
      BY KindOfWorker DEF UsageBegins, UsageStops, UsageReturns, SerialInv, NoUsage, Workers
    <2> QED BY <1>2, <2>1, <2>2, <2>3, <2>4, <2>5, WorkersCallBack, SyncerCallsBack DEF WorkerBody
<1>3. ASSUME \/ \E d \in Tickers : TickerStep(d)
             \/ \E s \in Sessions : IndexStep(s)
             \/ \E r \in Readers : ReaderStep(r)
             \/ UNCHANGED vars
      PROVE  CancelInv'
    <2>1. UNCHANGED <<cancelSync, syncCanceled, callers, cancelled>>
      BY <1>3, ObserversChangeNothing DEF TickerStep, TickerBegins, TickerChecks, TickerLocks, TickerSelects,
         TickerStops, TickerFires, TickerPublishes, SameTicker, vars, flags, callers, channels
    <2> QED BY <1>g, <2>1
<1>4. \A w \in Sessions \cup Usages : w \in Workers
    BY DEF Workers
<1> QED BY <1>1, <1>2, <1>3, <1>4 DEF Next

\* With one caller the end that CancelSync waits for is that of a session it cancelled.
THEOREM OneCallerAwaitsWhatItCancelled ==
    ASSUME Serial PROVE Spec => []AwaitedSessionIsCancelled
<1>1. Init => CancelInv
    BY DEF Init, CancelInv, CancelIsOfTheChannel, WaitsForItsOwn
<1>2. Inv /\ ResetInv /\ SerialInv /\ CancelInv /\ [Next]_vars => CancelInv'
    BY NextKeepsCancel DEF ResetInv
<1>3. CancelInv => AwaitedSessionIsCancelled
    BY DEF CancelInv, WaitsForItsOwn, AwaitedSessionIsCancelled
<1> QED BY <1>1, <1>2, <1>3, SerialHolds, PTL DEF Spec
=============================================================================
