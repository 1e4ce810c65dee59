--------------------------- MODULE UtxoSyncProofs ----------------------------
(***************************************************************************)
(* Proofs about UtxoSync, for any callers and any number of sessions,      *)
(* cancellations and rescans: the types; that between calls the flags tell *)
(* what runs, unless calls overlapped or something failed or was late; and *)
(* that whatever a cancellation stops has somebody who starts it again.    *)
(***************************************************************************)
EXTENDS UtxoSync, FiniteSetTheorems, TLAPS

-----------------------------------------------------------------------------
(* Types                                                                   *)

\* UtxoTypeOK by what changes together.
FlagsTyped ==
    /\ syncing \in BOOLEAN /\ synced \in BOOLEAN /\ isRescan \in BOOLEAN
    /\ discovered \in BOOLEAN /\ syncShuttingDown \in BOOLEAN
ChainTyped ==
    /\ chainServiceStopped \in BOOLEAN /\ chainService \in {"ready", "running", "stopped"}
    /\ clientStarted \in BOOLEAN /\ attached \in BOOLEAN /\ upstreamStopping \in BOOLEAN
ContextTyped == syncCtx \in Sessions \cup {NoCtx} /\ cancelledCtx \subseteq Sessions
PlacesTyped == pc \in [Actors -> PcStates] /\ after \in [Actors -> {"idle", "reload"}]
WaitersTyped ==
    waiter \in [Sessions -> [pc : {"none", "select", "finish", "done"},
                             ctx : Sessions \cup {NoCtx}]]
HandlerTyped ==
    handler \in [pc : {"none", "listening", "leaving"}, ctx : Sessions \cup {NoCtx}]
RescansTyped == rescanJobs \in Nat /\ rescans \in 0 .. MaxRescans
HistoryTyped == cancels \in 0 .. MaxCancels /\ history \in BOOLEAN \X BOOLEAN \X BOOLEAN \X BOOLEAN

\* What waits for a rescan, and what is about to, was counted.
Submitters == {c \in Callers : pc[c] = "submit"}
JobsAreCounted ==
    /\ IsFiniteSet(Submitters)
    /\ rescanJobs + Cardinality(Submitters) <= rescans

Typed == /\ FlagsTyped /\ ChainTyped /\ ContextTyped /\ PlacesTyped /\ WaitersTyped
         /\ HandlerTyped /\ RescansTyped /\ HistoryTyped /\ JobsAreCounted

\* The parts and the count of the jobs give UtxoTypeOK.
LEMMA TypedIsTypeOK == Typed => UtxoTypeOK
<1> SUFFICES ASSUME Typed PROVE UtxoTypeOK
  OBVIOUS
<1>1. rescanJobs \in 0 .. MaxRescans
  <2>1. Cardinality(Submitters) \in Nat
    BY FS_CardinalityType DEF Typed, JobsAreCounted
  <2>2. QED
    BY <2>1, UtxoBounds DEF Typed, JobsAreCounted, RescansTyped
<1>2. QED
  BY <1>1 DEF Typed, UtxoTypeOK, FlagsTyped, ChainTyped, ContextTyped, PlacesTyped, WaitersTyped,
     HandlerTyped, RescansTyped, HistoryTyped

\* The initial states are typed.
LEMMA InitTyped == UtxoInit => Typed
<1> SUFFICES ASSUME UtxoInit PROVE Typed
  OBVIOUS
<1> USE DEF UtxoInit
<1>1. FlagsTyped /\ ChainTyped /\ ContextTyped /\ RescansTyped /\ HistoryTyped
  <2>1. FlagsTyped
    BY UtxoBounds, Zenon DEF FlagsTyped
  <2>2. ChainTyped
    BY DEF ChainTyped
  <2>3. ContextTyped
    BY DEF ContextTyped
  <2>4. 0 \in 0 .. MaxRescans /\ 0 \in 0 .. MaxCancels
    BY UtxoBounds
  <2>5. RescansTyped
    BY <2>4 DEF RescansTyped
  <2>6. HistoryTyped
    BY <2>4 DEF HistoryTyped, history
  <2>7. QED
    BY <2>1, <2>2, <2>3, <2>5, <2>6
<1>2. PlacesTyped
  BY DEF PlacesTyped, PcStates, StarterStates
<1>3. WaitersTyped /\ HandlerTyped
  BY DEF WaitersTyped, HandlerTyped, NoWaiter, NoHandler
<1>4. JobsAreCounted
  <2>1. Submitters = {}
    BY DEF Submitters, Actors
  <2>2. QED
    BY <2>1, FS_EmptySet, UtxoBounds DEF JobsAreCounted
<1>5. QED
  BY <1>1, <1>2, <1>3, <1>4 DEF Typed

\* The actions, each named, with whom they are of.
LEMMA StepsByName ==
    ASSUME UtxoNext
    PROVE  \/ \E c \in Callers : \/ CallSpvSync(c) \/ ToggleSyncOff(c) \/ ReloadChainService(c)
                                 \/ CheckForRescan(c) \/ CancelRescan(c) \/ CheckNotSyncing(c)
                                 \/ ArmSession(c) \/ RenewChainService(c) \/ SubmitRescan(c)
           \/ \E k \in Sessions : \/ StartWallet(k) \/ LoadForSync(k) \/ StartChainClient(k)
                                  \/ StartHandler(k) \/ SynchronizeRPC(k)
           \/ \E a \in Actors : \/ CancelSync(a) \/ CheckUpstream(a) \/ StopUpstream(a)
                                \/ StopChainService(a) \/ CancelContext(a) \/ EndCancelSync(a)
           \/ \E k \in Sessions : \/ WaiterTicks(k) \/ PublishHeadersFetchComplete(k)
                                  \/ RescanFinished(k) \/ WaiterIsCancelled(k)
           \/ HandlerNotified \/ HandlerIsCancelled \/ EndHandler \/ RescanJobEnds
BY DEF UtxoNext, Caller, ActorStep, WaiterStep, HandlerStep

\* Every step keeps the types that it does not concern, and those it does.
LEMMA NextTyped == Typed /\ [UtxoNext]_utxoVars => Typed'
<1> SUFFICES ASSUME Typed, [UtxoNext]_utxoVars PROVE Typed'
  OBVIOUS
<1> USE DEF syncFlags, chain, context, bounds, history
<1>0. CASE UNCHANGED utxoVars
  BY <1>0 DEF Typed, utxoVars, FlagsTyped, ChainTyped, ContextTyped, PlacesTyped, WaitersTyped,
     HandlerTyped, RescansTyped, HistoryTyped, JobsAreCounted, Submitters
<1> SUFFICES ASSUME UtxoNext PROVE Typed'
  BY <1>0
<1> USE DEF GoesTo, IsAt, Overlaps, OnlyWaiter, OnlyHandler
<1>p. /\ FlagsTyped /\ ChainTyped /\ ContextTyped /\ PlacesTyped /\ WaitersTyped
      /\ HandlerTyped /\ RescansTyped /\ HistoryTyped /\ JobsAreCounted
  BY DEF Typed
<1>a. \A k \in Sessions : k \in Actors
  BY DEF Actors
<1>b. \A c \in Callers : c \in Actors
  BY DEF Actors
<1>1. FlagsTyped'
  <2> USE <1>p DEF FlagsTyped
  <2>1. \/ UNCHANGED <<syncFlags, discovered, syncShuttingDown>>
        \/ \E c \in Callers : ArmSession(c) \/ ToggleSyncOff(c) \/ SubmitRescan(c) \/ CancelRescan(c)
        \/ \E k \in Sessions : StartWallet(k) \/ PublishHeadersFetchComplete(k) \/ RescanFinished(k)
        \/ RescanJobEnds \/ \E a \in Actors : CancelSync(a) \/ EndCancelSync(a)
    BY StepsByName DEF CallSpvSync, ReloadChainService, CheckForRescan, CheckNotSyncing,
       RenewChainService, LoadForSync, StartChainClient, StartHandler, SynchronizeRPC,
       CheckUpstream, StopUpstream, StopChainService, CancelContext, WaiterTicks, WaiterIsCancelled,
       HandlerNotified, HandlerIsCancelled, EndHandler
  <2>2. QED
    BY <2>1 DEF ArmSession, ToggleSyncOff, SubmitRescan, CancelRescan, StartWallet,
       PublishHeadersFetchComplete, RescanFinished, RescanJobEnds, CancelSync, EndCancelSync
<1>2. ChainTyped'
  <2> USE <1>p DEF ChainTyped
  <2>1. \/ UNCHANGED chain
        \/ \E k \in Sessions : LoadForSync(k) \/ StartChainClient(k) \/ SynchronizeRPC(k)
        \/ \E a \in Actors : \/ CheckUpstream(a) \/ StopUpstream(a)
                             \/ StopChainService(a) \/ CancelContext(a)
        \/ \E c \in Callers : RenewChainService(c)
    BY StepsByName DEF CallSpvSync, ToggleSyncOff, ReloadChainService, CheckForRescan,
       CancelRescan, CheckNotSyncing, ArmSession, SubmitRescan, StartWallet, StartHandler,
       CancelSync, EndCancelSync, WaiterTicks, PublishHeadersFetchComplete, RescanFinished,
       WaiterIsCancelled, HandlerNotified, HandlerIsCancelled, EndHandler, RescanJobEnds
  <2>2. ASSUME NEW k \in Sessions, StartChainClient(k) PROVE ChainTyped'
    BY <2>2 DEF StartChainClient
  <2>3. ASSUME NEW k \in Sessions, LoadForSync(k) \/ SynchronizeRPC(k) PROVE ChainTyped'
    BY <2>3 DEF LoadForSync, SynchronizeRPC
  <2>4. ASSUME NEW a \in Actors,
               CheckUpstream(a) \/ StopUpstream(a) \/ StopChainService(a) \/ CancelContext(a)
        PROVE  ChainTyped'
    BY <2>4 DEF CheckUpstream, StopUpstream, StopChainService, CancelContext
  <2>5. ASSUME NEW c \in Callers, RenewChainService(c) PROVE ChainTyped'
    BY <2>5 DEF RenewChainService
  <2>6. QED
    BY <2>1, <2>2, <2>3, <2>4, <2>5
<1>3. ContextTyped'
  BY <1>p, StepsByName DEF ContextTyped, Unarmed, CallSpvSync, ToggleSyncOff,
     ReloadChainService, CheckForRescan, CancelRescan, CheckNotSyncing, ArmSession,
     RenewChainService, SubmitRescan, StartWallet, LoadForSync, StartChainClient, StartHandler,
     SynchronizeRPC, CancelSync, CheckUpstream, StopUpstream, StopChainService, CancelContext,
     EndCancelSync, WaiterTicks, PublishHeadersFetchComplete, RescanFinished, WaiterIsCancelled,
     HandlerNotified, HandlerIsCancelled, EndHandler, RescanJobEnds
<1>4. PlacesTyped'
  <2> USE <1>p DEF PlacesTyped
  <2>l. /\ {"idle", "check", "arm", "reload", "renew", "submit"} \subseteq PcStates
        /\ {"cancel", "stop", "upstream", "service", "ctx", "return"} \subseteq PcStates
        /\ {"begin", "load", "client", "handler", "attach"} \subseteq PcStates
    BY DEF PcStates, CancelStates, StarterStates
  <2>1. \/ UNCHANGED <<pc, after>>
        \/ \E a \in Actors, l \in PcStates : GoesTo(a, l) /\ UNCHANGED after
        \/ \E c \in Callers : ReloadChainService(c) \/ ArmSession(c)
        \/ \E a \in Actors : EndCancelSync(a)
    <3>1. ASSUME NEW c \in Callers, \/ CallSpvSync(c) \/ ToggleSyncOff(c)
                                    \/ CheckForRescan(c) \/ CheckNotSyncing(c)
                                    \/ RenewChainService(c) \/ SubmitRescan(c)
          PROVE  \E a \in Actors, l \in PcStates : GoesTo(a, l) /\ UNCHANGED after
      BY <3>1, <2>l, <1>b DEF CallSpvSync, ToggleSyncOff, CheckForRescan, CheckNotSyncing,
         RenewChainService, SubmitRescan
    <3>2. ASSUME NEW k \in Sessions, \/ StartWallet(k) \/ LoadForSync(k) \/ StartChainClient(k)
                                     \/ StartHandler(k) \/ SynchronizeRPC(k)
          PROVE  \E a \in Actors, l \in PcStates : GoesTo(a, l) /\ UNCHANGED after
      BY <3>2, <2>l, <1>a DEF StartWallet, LoadForSync, StartChainClient, StartHandler,
         SynchronizeRPC
    <3>3. ASSUME NEW a \in Actors, \/ CancelSync(a) \/ CheckUpstream(a) \/ StopUpstream(a)
                                   \/ StopChainService(a) \/ CancelContext(a)
          PROVE  \E b \in Actors, l \in PcStates : GoesTo(b, l) /\ UNCHANGED after
      BY <3>3, <2>l DEF CancelSync, CheckUpstream, StopUpstream, StopChainService, CancelContext
    <3>4. ASSUME \/ \E c \in Callers : CancelRescan(c)
                 \/ \E k \in Sessions : \/ WaiterTicks(k) \/ PublishHeadersFetchComplete(k)
                                        \/ RescanFinished(k) \/ WaiterIsCancelled(k)
                 \/ HandlerNotified \/ HandlerIsCancelled \/ EndHandler \/ RescanJobEnds
          PROVE  UNCHANGED <<pc, after>>
      BY <3>4 DEF CancelRescan, WaiterTicks, PublishHeadersFetchComplete, RescanFinished,
         WaiterIsCancelled, HandlerNotified, HandlerIsCancelled, EndHandler, RescanJobEnds
    <3>5. QED
      BY <3>1, <3>2, <3>3, <3>4, StepsByName
  <2>2. ASSUME NEW a \in Actors, EndCancelSync(a) PROVE PlacesTyped'
    BY <2>2, <2>l DEF EndCancelSync
  <2>3. ASSUME NEW c \in Callers, ReloadChainService(c) \/ ArmSession(c) PROVE PlacesTyped'
    BY <2>3, <2>l, <1>a, <1>b DEF ReloadChainService, ArmSession, Unarmed
  <2>4. QED
    BY <2>1, <2>2, <2>3
<1>5. WaitersTyped'
  <2> USE <1>p DEF WaitersTyped, ContextTyped
  <2>1. \/ UNCHANGED waiter \/ \E c \in Callers : ArmSession(c)
        \/ \E k \in Sessions : \/ WaiterTicks(k) \/ PublishHeadersFetchComplete(k)
                               \/ RescanFinished(k) \/ WaiterIsCancelled(k)
    BY StepsByName DEF CallSpvSync, ToggleSyncOff, ReloadChainService,
       CheckForRescan, CancelRescan, CheckNotSyncing, RenewChainService, SubmitRescan,
       StartWallet, LoadForSync, StartChainClient, StartHandler, SynchronizeRPC, CancelSync,
       CheckUpstream, StopUpstream, StopChainService, CancelContext, EndCancelSync, HandlerNotified,
       HandlerIsCancelled, EndHandler, RescanJobEnds
  <2>2. ASSUME NEW c \in Callers, ArmSession(c) PROVE WaitersTyped'
    BY <2>2 DEF ArmSession, Unarmed
  <2>3. ASSUME NEW k \in Sessions, WaiterTicks(k) PROVE WaitersTyped'
    BY <2>3 DEF WaiterTicks
  <2>4. ASSUME NEW k \in Sessions, PublishHeadersFetchComplete(k) PROVE WaitersTyped'
    BY <2>4 DEF PublishHeadersFetchComplete
  <2>5. ASSUME NEW k \in Sessions, RescanFinished(k) \/ WaiterIsCancelled(k) PROVE WaitersTyped'
    BY <2>5 DEF RescanFinished, WaiterIsCancelled
  <2>6. QED
    BY <2>1, <2>2, <2>3, <2>4, <2>5
<1>6. HandlerTyped'
  <2> USE <1>p DEF HandlerTyped, ContextTyped
  <2>1. \/ UNCHANGED handler \/ HandlerNotified \/ HandlerIsCancelled \/ EndHandler
        \/ \E k \in Sessions : StartHandler(k)
        \/ \E c \in Callers : SubmitRescan(c)
    BY StepsByName DEF CallSpvSync, ToggleSyncOff, ReloadChainService, CheckForRescan,
       CancelRescan, CheckNotSyncing, ArmSession, RenewChainService, StartWallet, LoadForSync,
       StartChainClient, SynchronizeRPC, CancelSync, CheckUpstream, StopUpstream, StopChainService,
       CancelContext, EndCancelSync, WaiterTicks, PublishHeadersFetchComplete, RescanFinished,
       WaiterIsCancelled, RescanJobEnds
  <2>2. QED
    BY <2>1 DEF HandlerNotified, HandlerIsCancelled, EndHandler, StartHandler, SubmitRescan,
       NoHandler
<1>7. RescansTyped' /\ JobsAreCounted'
  <2> USE DEF RescansTyped, JobsAreCounted
  <2>0. /\ rescanJobs \in Nat /\ rescans \in 0 .. MaxRescans /\ MaxRescans \in Nat
        /\ IsFiniteSet(Submitters) /\ Cardinality(Submitters) \in Nat
        /\ rescanJobs + Cardinality(Submitters) <= rescans
    BY <1>p, FS_CardinalityType, UtxoBounds
  <2>1. ASSUME NEW c \in Callers, CheckForRescan(c) PROVE RescansTyped' /\ JobsAreCounted'
    <3>1. c \notin Submitters /\ Submitters' = Submitters \cup {c}
      BY <2>1, <1>p, <1>b DEF CheckForRescan, Submitters, PlacesTyped
    <3>2. IsFiniteSet(Submitters') /\ Cardinality(Submitters') = Cardinality(Submitters) + 1
      BY <3>1, <2>0, FS_AddElement
    <3>3. rescanJobs' = rescanJobs /\ rescans' = rescans + 1 /\ rescans < MaxRescans
      BY <2>1 DEF CheckForRescan
    <3>4. QED
      BY <3>2, <3>3, <2>0
  <2>2. ASSUME NEW c \in Callers, SubmitRescan(c) PROVE RescansTyped' /\ JobsAreCounted'
    <3>1. c \in Submitters /\ Submitters' = Submitters \ {c}
      BY <2>2, <1>p, <1>b DEF SubmitRescan, Submitters, PlacesTyped
    <3>2. IsFiniteSet(Submitters') /\ Cardinality(Submitters') = Cardinality(Submitters) - 1
      BY <3>1, <2>0, FS_RemoveElement
    <3>3. rescanJobs' = rescanJobs + 1 /\ rescans' = rescans
      BY <2>2 DEF SubmitRescan
    <3>4. QED
      BY <3>2, <3>3, <2>0
  <2>3. ASSUME RescanJobEnds PROVE RescansTyped' /\ JobsAreCounted'
    <3>1. Submitters' = Submitters /\ rescanJobs > 0 /\ rescanJobs' = rescanJobs - 1
          /\ rescans' = rescans
      BY <2>3 DEF RescanJobEnds, Submitters
    <3>2. QED
      BY <3>1, <2>0
  <2>4. ASSUME UNCHANGED <<rescanJobs, rescans, Submitters>> PROVE RescansTyped' /\ JobsAreCounted'
    BY <2>4, <2>0
  <2>5. \/ UNCHANGED <<rescanJobs, rescans, Submitters>> \/ RescanJobEnds
        \/ \E c \in Callers : CheckForRescan(c) \/ SubmitRescan(c)
    <3>1. ASSUME NEW c \in Callers, \/ CallSpvSync(c) \/ ToggleSyncOff(c) \/ ReloadChainService(c)
                                    \/ CancelRescan(c) \/ CheckNotSyncing(c)
                                    \/ ArmSession(c) \/ RenewChainService(c)
          PROVE  UNCHANGED <<rescanJobs, rescans, Submitters>>
      BY <3>1, <1>p, <1>b, UtxoBounds DEF CallSpvSync, ToggleSyncOff, ReloadChainService,
         CancelRescan, CheckNotSyncing, ArmSession, RenewChainService, Submitters, PlacesTyped,
         Unarmed
    <3>2. ASSUME NEW k \in Sessions, \/ StartWallet(k) \/ LoadForSync(k) \/ StartChainClient(k)
                                     \/ StartHandler(k) \/ SynchronizeRPC(k)
          PROVE  UNCHANGED <<rescanJobs, rescans, Submitters>>
      BY <3>2, <1>p, <1>a, <1>b DEF StartWallet, LoadForSync, StartChainClient, StartHandler,
         SynchronizeRPC, Submitters, PlacesTyped
    <3>3. ASSUME NEW a \in Actors, \/ CancelSync(a) \/ CheckUpstream(a) \/ StopUpstream(a)
                                   \/ StopChainService(a) \/ CancelContext(a) \/ EndCancelSync(a)
          PROVE  UNCHANGED <<rescanJobs, rescans, Submitters>>
      BY <3>3, <1>p, <1>b DEF CancelSync, CheckUpstream, StopUpstream, StopChainService,
         CancelContext, EndCancelSync, Submitters, PlacesTyped
    <3>4. ASSUME \/ \E k \in Sessions : \/ WaiterTicks(k) \/ PublishHeadersFetchComplete(k)
                                        \/ RescanFinished(k) \/ WaiterIsCancelled(k)
                 \/ HandlerNotified \/ HandlerIsCancelled \/ EndHandler
          PROVE  UNCHANGED <<rescanJobs, rescans, Submitters>>
      BY <3>4 DEF WaiterTicks, PublishHeadersFetchComplete, RescanFinished, Submitters,
         WaiterIsCancelled, HandlerNotified, HandlerIsCancelled, EndHandler
    <3>5. QED
      BY <3>1, <3>2, <3>3, <3>4, StepsByName
  <2>6. QED
    BY <2>1, <2>2, <2>3, <2>4, <2>5
<1>8. HistoryTyped'
  <2> USE <1>p DEF HistoryTyped
  <2>1. cancels' \in 0 .. MaxCancels
    <3>1. UNCHANGED cancels \/ \E c \in Callers : ToggleSyncOff(c) \/ ReloadChainService(c)
      BY StepsByName DEF CallSpvSync, CheckForRescan, CancelRescan, CheckNotSyncing, ArmSession,
         RenewChainService, SubmitRescan, StartWallet, LoadForSync, StartChainClient,
         StartHandler, SynchronizeRPC, CancelSync, CheckUpstream, StopUpstream, StopChainService,
         CancelContext, EndCancelSync, WaiterTicks, PublishHeadersFetchComplete,
         RescanFinished, WaiterIsCancelled, HandlerNotified, HandlerIsCancelled, EndHandler,
         RescanJobEnds
    <3>2. ASSUME cancels < MaxCancels, cancels' = cancels + 1 PROVE cancels' \in 0 .. MaxCancels
      BY <3>2, UtxoBounds
    <3>3. QED
      BY <3>1, <3>2 DEF ToggleSyncOff, ReloadChainService
  <2>2. /\ overlapped' \in BOOLEAN /\ lateCurrent' \in BOOLEAN
        /\ lateHandler' \in BOOLEAN /\ startFailed' \in BOOLEAN
    BY StepsByName DEF CallSpvSync, ToggleSyncOff, ReloadChainService,
       CheckForRescan, CancelRescan, CheckNotSyncing, ArmSession, RenewChainService,
       SubmitRescan, StartWallet, LoadForSync, StartChainClient, StartHandler, SynchronizeRPC,
       CancelSync, CheckUpstream, StopUpstream, StopChainService, CancelContext, EndCancelSync,
       WaiterTicks, PublishHeadersFetchComplete, RescanFinished, WaiterIsCancelled, HandlerNotified,
       HandlerIsCancelled, EndHandler, RescanJobEnds
  <2>3. QED
    BY <2>1, <2>2
<1>9. QED
  BY <1>1, <1>2, <1>3, <1>4, <1>5, <1>6, <1>7, <1>8 DEF Typed

\* UtxoTypeOK: every variable of a Bitcoin or Litecoin synchronisation keeps its type, and
\* no more goroutines wait for a rescan than rescans were asked for.
THEOREM UtxoTypeCorrect == UtxoSpec => []UtxoTypeOK
<1>1. UtxoSpec => []Typed
  BY InitTyped, NextTyped, PTL DEF UtxoSpec
<1>2. QED
  BY <1>1, TypedIsTypeOK, PTL

-----------------------------------------------------------------------------
(* The invariant                                                           *)

Flagged == syncing \/ synced

\* A context that may still be cancelled, and one there is nothing left of.
CtxIsLive == syncCtx # NoCtx /\ syncCtx \notin cancelledCtx
Handled   == handler.pc = "listening" /\ handler.ctx \notin cancelledCtx

\* What runs with a session, and without: the service may have been stopped, and
\* chainServiceStopped says so, or none was started.
On  == Flagged /\ CtxIsLive /\ chainService = "running" /\ clientStarted /\ attached /\ Handled
Cut == ~Flagged /\ ~isRescan /\ ~attached /\ ~clientStarted
Off == /\ Cut /\ (syncCtx # NoCtx => syncCtx \in cancelledCtx)
       /\ chainService # "running" /\ (chainServiceStopped \/ chainService = "ready")

\* Who is in the middle of a change: who waits to begin CancelSync is not yet.
Stopping == {"stop", "upstream", "service", "ctx", "return"}
Amid == {a \in Actors : pc[a] \notin {"idle", "unborn", "check", "cancel"}}

\* How far the start and the end of a session have come.
Starting == Flagged /\ CtxIsLive
Phase(a) ==
    /\ pc[a] \in {"arm", "reload", "renew", "return"} => Off
    /\ pc[a] \in {"begin", "load"} =>
        /\ Starting /\ ~clientStarted
        /\ chainService # "running" /\ (chainServiceStopped \/ chainService = "ready")
    /\ pc[a] = "client"  => Starting /\ ~clientStarted /\ chainService = "ready"
    /\ pc[a] = "handler" => Starting /\ clientStarted /\ chainService = "running"
    /\ pc[a] = "attach"  => Starting /\ clientStarted /\ chainService = "running" /\ Handled
    /\ pc[a] = "submit"  => On
    /\ pc[a] \in {"stop", "upstream"} => ~Flagged /\ ~isRescan
    /\ pc[a] = "service" => Cut
    /\ pc[a] = "ctx"     => Cut /\ chainService = "stopped" /\ chainServiceStopped

\* The context of the field is that of an armed session, and so are those that ended.
Armed ==
    /\ \A k \in Sessions : waiter[k].pc = "none" => k # syncCtx /\ k \notin cancelledCtx
    /\ syncCtx = NoCtx => \A k \in Sessions : waiter[k].pc = "none"
    /\ handler.pc = "leaving" => handler.ctx \in cancelledCtx

\* One actor at a time, and the upstream wallet stops only for it.
OneChanges ==
    /\ \A a, b \in Amid : a = b
    /\ upstreamStopping => \E a \in Actors : pc[a] \in {"service", "ctx"}

\* A waiter selects on a context that has ended or on that of the field, and what it
\* declares is true until CancelSync finds it in the middle.
WaitersFollow ==
    \A k \in Sessions :
        /\ waiter[k].pc = "select" => waiter[k].ctx \in cancelledCtx \cup {syncCtx}
        /\ waiter[k].pc = "finish" => Starting /\ \A a \in Actors : pc[a] \notin Stopping

\* Between changes a session is there or not; in the middle, as far as it has come.
Told ==
    /\ Amid = {} => On \/ Off
    /\ \A a \in Actors : Phase(a)

FlagsInv == Armed /\ (~Excused => OneChanges /\ WaitersFollow /\ Told)

\* What excuses the flags excuses them for good.
LEMMA ExcusesStay == ASSUME Typed, [UtxoNext]_utxoVars, ~Excused' PROVE ~Excused
<1> USE DEF Excused, history, syncFlags, chain, context, bounds
<1>1. CASE UNCHANGED utxoVars
  BY <1>1 DEF utxoVars
<1>2. CASE UtxoNext
  <2> USE DEF Overlaps, OnlyWaiter, OnlyHandler
  <2>1. /\ overlapped \in BOOLEAN /\ lateCurrent \in BOOLEAN
        /\ lateHandler \in BOOLEAN /\ startFailed \in BOOLEAN
    BY DEF Typed, HistoryTyped
  <2>2. ASSUME NEW c \in Callers,
               \/ CallSpvSync(c) \/ ToggleSyncOff(c) \/ ReloadChainService(c)
               \/ CheckForRescan(c) \/ CancelRescan(c) \/ CheckNotSyncing(c)
               \/ ArmSession(c) \/ RenewChainService(c) \/ SubmitRescan(c)
        PROVE  ~Excused
    BY <2>1, <2>2 DEF CallSpvSync, ToggleSyncOff, ReloadChainService, CheckForRescan,
       CancelRescan, CheckNotSyncing, ArmSession, RenewChainService, SubmitRescan
  <2>3. ASSUME NEW k \in Sessions,
               \/ StartWallet(k) \/ LoadForSync(k) \/ StartChainClient(k)
               \/ StartHandler(k) \/ SynchronizeRPC(k)
        PROVE  ~Excused
    BY <2>1, <2>3 DEF StartWallet, LoadForSync, StartChainClient, StartHandler, SynchronizeRPC
  <2>4. ASSUME NEW a \in Actors,
               \/ CancelSync(a) \/ CheckUpstream(a) \/ StopUpstream(a) \/ StopChainService(a)
               \/ CancelContext(a) \/ EndCancelSync(a)
        PROVE  ~Excused
    BY <2>1, <2>4 DEF CancelSync, CheckUpstream, StopUpstream, StopChainService, CancelContext,
       EndCancelSync
  <2>5. ASSUME NEW k \in Sessions,
               \/ WaiterTicks(k) \/ PublishHeadersFetchComplete(k)
               \/ RescanFinished(k) \/ WaiterIsCancelled(k)
        PROVE  ~Excused
    BY <2>1, <2>5 DEF WaiterTicks, PublishHeadersFetchComplete, RescanFinished, WaiterIsCancelled
  <2>6. ASSUME HandlerNotified \/ HandlerIsCancelled \/ EndHandler \/ RescanJobEnds
        PROVE  ~Excused
    BY <2>6 DEF HandlerNotified, HandlerIsCancelled, EndHandler, RescanJobEnds
  <2>7. QED
    BY <1>2, <2>2, <2>3, <2>4, <2>5, <2>6, StepsByName
<1>3. QED
  BY <1>1, <1>2

\* The contexts that ended, and that of the field, stay those of armed sessions.
LEMMA ArmedStays == ASSUME Typed, Armed, [UtxoNext]_utxoVars PROVE Armed'
<1> USE DEF Armed, history, syncFlags, chain, context, bounds
<1>n. NoCtx \notin Sessions
  BY UtxoBounds DEF NoCtx, Sessions
<1>p. /\ waiter \in [Sessions -> [pc : {"none", "select", "finish", "done"},
                                  ctx : Sessions \cup {NoCtx}]]
      /\ handler \in [pc : {"none", "listening", "leaving"}, ctx : Sessions \cup {NoCtx}]
  BY DEF Typed, WaitersTyped, HandlerTyped
<1>1. CASE UNCHANGED utxoVars
  BY <1>1 DEF utxoVars
<1>2. CASE UtxoNext
  <2> USE DEF OnlyWaiter, OnlyHandler
  <2>1. ASSUME UNCHANGED <<waiter, syncCtx, cancelledCtx, handler>> PROVE Armed'
    BY <2>1
  <2>2. ASSUME NEW c \in Callers, ArmSession(c) PROVE Armed'
    <3>1. CASE Unarmed = {}
      BY <2>2, <3>1 DEF ArmSession
    <3>2. CASE Unarmed # {}
      <4>1. PICK k \in Unarmed :
                /\ syncCtx' = k /\ waiter' = [waiter EXCEPT ![k] = [pc |-> "select", ctx |-> k]]
                /\ UNCHANGED <<cancelledCtx, handler>>
        BY <2>2, <3>2 DEF ArmSession
      <4>2. k \in Sessions /\ waiter'[k].pc = "select"
        BY <4>1, <1>p DEF Unarmed
      <4>3. \A l \in Sessions \ {k} : waiter'[l] = waiter[l]
        BY <4>1, <1>p
      <4>4. QED
        BY <4>1, <4>2, <4>3, <1>n
    <3>3. QED
      BY <3>1, <3>2
  <2>3. ASSUME NEW k \in Sessions, StartHandler(k) PROVE Armed'
    BY <2>3, <1>p DEF StartHandler
  <2>4. ASSUME NEW c \in Callers, SubmitRescan(c) PROVE Armed'
    BY <2>4, <1>p DEF SubmitRescan
  <2>5. ASSUME NEW a \in Actors, CancelContext(a) PROVE Armed'
    BY <2>5, <1>p DEF CancelContext
  <2>6. ASSUME NEW k \in Sessions,
               \/ WaiterTicks(k) \/ PublishHeadersFetchComplete(k)
               \/ RescanFinished(k) \/ WaiterIsCancelled(k)
        PROVE  Armed'
    <3>1. UNCHANGED <<syncCtx, cancelledCtx, handler>>
      BY <2>6 DEF WaiterTicks, PublishHeadersFetchComplete, RescanFinished, WaiterIsCancelled
    <3>2. waiter[k].pc # "none"
      BY <2>6 DEF WaiterTicks, PublishHeadersFetchComplete, RescanFinished, WaiterIsCancelled
    <3>3. \A l \in Sessions : waiter'[l].pc = "none" <=> waiter[l].pc = "none"
      <4>1. WaiterTicks(k) => waiter'[k].pc = "select"
        BY <1>p DEF WaiterTicks
      <4>2. PublishHeadersFetchComplete(k) => waiter'[k].pc = "finish"
        BY <1>p DEF PublishHeadersFetchComplete
      <4>3. RescanFinished(k) \/ WaiterIsCancelled(k) => waiter'[k].pc = "done"
        BY <1>p DEF RescanFinished, WaiterIsCancelled
      <4>4. \A l \in Sessions \ {k} : waiter'[l] = waiter[l]
        BY <2>6, <1>p DEF WaiterTicks, PublishHeadersFetchComplete, RescanFinished,
           WaiterIsCancelled
      <4>5. QED
        BY <4>1, <4>2, <4>3, <4>4, <2>6, <3>2
    <3>4. QED
      BY <3>1, <3>2, <3>3
  <2>7. ASSUME HandlerNotified \/ HandlerIsCancelled \/ EndHandler PROVE Armed'
    <3>1. UNCHANGED <<waiter, syncCtx, cancelledCtx>>
      BY <2>7 DEF HandlerNotified, HandlerIsCancelled, EndHandler
    <3>2. HandlerNotified => handler'.pc = "listening"
      BY <1>p DEF HandlerNotified
    <3>3. HandlerIsCancelled => handler'.ctx \in cancelledCtx
      BY <1>p DEF HandlerIsCancelled
    <3>4. EndHandler => handler'.pc = "none"
      BY DEF EndHandler, NoHandler
    <3>5. QED
      BY <2>7, <3>1, <3>2, <3>3, <3>4
  <2>8. \/ UNCHANGED <<waiter, syncCtx, cancelledCtx, handler>>
        \/ \E c \in Callers : ArmSession(c) \/ SubmitRescan(c)
        \/ \E k \in Sessions : StartHandler(k)
        \/ \E a \in Actors : CancelContext(a)
        \/ \E k \in Sessions : \/ WaiterTicks(k) \/ PublishHeadersFetchComplete(k)
                               \/ RescanFinished(k) \/ WaiterIsCancelled(k)
        \/ HandlerNotified \/ HandlerIsCancelled \/ EndHandler
    BY <1>2, StepsByName DEF CallSpvSync, ToggleSyncOff, ReloadChainService, CheckForRescan,
       CancelRescan, CheckNotSyncing, RenewChainService, StartWallet, LoadForSync,
       StartChainClient, SynchronizeRPC, CancelSync, CheckUpstream, StopUpstream, StopChainService,
       EndCancelSync, RescanJobEnds
  <2>9. QED
    BY <2>1, <2>2, <2>3, <2>4, <2>5, <2>6, <2>7, <2>8
<1>3. QED
  BY <1>1, <1>2

-----------------------------------------------------------------------------
(* Who is in the middle of a change is alone                               *)

Bystanding == {"idle", "unborn", "check", "cancel"}

\* An actor in the middle of a change is the only one.
LEMMA AmidAlone ==
    ASSUME OneChanges, NEW a \in Actors, pc[a] \notin Bystanding
    PROVE  \A b \in Actors \ {a} : pc[b] \in Bystanding
BY DEF OneChanges, Amid, Bystanding

\* One that begins a change beside no other is the only one, too.
LEMMA BeginsAlone ==
    ASSUME NEW a \in Actors, Overlaps(a), ~overlapped'
    PROVE  \A b \in Actors \ {a} : pc[b] \in Bystanding
<1>1. Changing \ {a} = {}
  BY DEF Overlaps
<1>2. QED
  BY <1>1 DEF Changing, Bystanding

\* A step of an actor that is alone leaves the others where they were, and it is in the
\* middle afterwards or nobody is.
LEMMA StepsAlone ==
    ASSUME pc \in [Actors -> PcStates], NEW a \in Actors, NEW l, pc' = [pc EXCEPT ![a] = l],
           \A b \in Actors \ {a} : pc[b] \in Bystanding
    PROVE  /\ pc'[a] = l /\ \A b \in Actors \ {a} : pc'[b] \in Bystanding
           /\ (\A x, y \in Amid : x = y)'
           /\ \A b \in Actors \ {a} : Phase(b)'
           /\ l \in Bystanding => Amid' = {} /\ Phase(a)'
<1>1. pc'[a] = l /\ \A b \in Actors \ {a} : pc'[b] = pc[b]
  OBVIOUS
<1>2. \A b \in Actors \ {a} : pc'[b] \in Bystanding
  BY <1>1
<1>3. (\A x, y \in Amid : x = y)' /\ (l \in Bystanding => Amid' = {})
  BY <1>1, <1>2 DEF Amid, Bystanding
<1>4. ASSUME NEW b \in Actors, pc'[b] \in Bystanding PROVE Phase(b)'
  BY <1>4 DEF Phase, Bystanding
<1>5. QED
  BY <1>1, <1>2, <1>3, <1>4

\* What a step of an actor that is alone must establish.
LEMMA TellsAgain ==
    ASSUME pc \in [Actors -> PcStates], NEW a \in Actors, NEW l, GoesTo(a, l),
           \A b \in Actors \ {a} : pc[b] \in Bystanding,
           upstreamStopping' => l \in {"service", "ctx"},
           WaitersFollow', Phase(a)', l \in Bystanding => (On \/ Off)'
    PROVE  OneChanges' /\ WaitersFollow' /\ Told'
<1>1. /\ pc'[a] = l /\ (\A x, y \in Amid : x = y)' /\ \A b \in Actors \ {a} : Phase(b)'
  BY StepsAlone DEF GoesTo
<1>2. OneChanges'
  BY <1>1 DEF OneChanges
<1>3. Amid' = {} => l \in Bystanding
  BY <1>1 DEF Amid, Bystanding
<1>4. (Amid = {} => On \/ Off)'
  BY <1>3
<1>5. (\A b \in Actors : Phase(b))'
  BY <1>1
<1>6. Told'
  BY <1>4, <1>5 DEF Told
<1>7. QED
  BY <1>2, <1>6

\* Nobody but the one that is in the middle stops the upstream wallet.
LEMMA UpstreamRuns ==
    ASSUME OneChanges, NEW a \in Actors, \A b \in Actors \ {a} : pc[b] \in Bystanding,
           pc[a] \notin {"service", "ctx"}
    PROVE  ~upstreamStopping
BY DEF OneChanges, Bystanding

\* The waiters follow a step that touches neither them nor the session.
LEMMA WaitersStay ==
    ASSUME pc \in [Actors -> PcStates], WaitersFollow, NEW a \in Actors, NEW l, GoesTo(a, l),
           UNCHANGED <<waiter, syncCtx, cancelledCtx, syncing, synced>>,
           l \in Stopping => pc[a] \in Stopping
    PROVE  WaitersFollow'
<1>1. pc'[a] = l /\ \A b \in Actors \ {a} : pc'[b] = pc[b]
  BY DEF GoesTo
<1>2. (\A b \in Actors : pc[b] \notin Stopping) => \A b \in Actors : pc'[b] \notin Stopping
  BY <1>1 DEF Stopping
<1>3. Starting => Starting'
  BY DEF Starting, Flagged, CtxIsLive
<1>4. ASSUME NEW k \in Sessions
      PROVE  /\ waiter'[k].pc = "select" => waiter'[k].ctx \in cancelledCtx' \cup {syncCtx'}
             /\ waiter'[k].pc = "finish" => Starting' /\ \A b \in Actors : pc'[b] \notin Stopping
  BY <1>2, <1>3 DEF WaitersFollow
<1>5. QED
  BY <1>4 DEF WaitersFollow, Stopping

-----------------------------------------------------------------------------
(* Each step keeps the invariant                                           *)

\* The state between steps, when nothing excuses the flags.
Telling == Typed /\ Armed /\ ~Excused /\ OneChanges /\ WaitersFollow /\ Told

\* Calls, and checks that find a sync: nothing is in the middle of anything for them.
LEMMA BystandersTell ==
    ASSUME Telling, NEW a \in Actors, NEW l, GoesTo(a, l), pc[a] \in Bystanding, l \in Bystanding,
           UNCHANGED <<syncFlags, chain, context, waiter, handler>>
    PROVE  OneChanges' /\ WaitersFollow' /\ Told'
<1> USE DEF syncFlags, chain, context
<1>1. pc'[a] = l /\ \A b \in Actors \ {a} : pc'[b] = pc[b]
  BY DEF GoesTo, Telling, Typed, PlacesTyped
<1>2. Amid' = Amid
  BY <1>1 DEF Amid, Bystanding
<1>3. OneChanges'
  <2>1. (\A x, y \in Amid : x = y)'
    BY <1>2 DEF Telling, OneChanges
  <2>2. (upstreamStopping => \E b \in Actors : pc[b] \in {"service", "ctx"})'
    BY <1>1 DEF Telling, OneChanges, Bystanding
  <2>3. QED
    BY <2>1, <2>2 DEF OneChanges
<1>4. WaitersFollow'
  <2>1. l \notin Stopping
    BY DEF Bystanding, Stopping
  <2>2. QED
    BY <2>1, WaitersStay DEF Telling, Typed, PlacesTyped
<1>5. (Amid = {} => On \/ Off)'
  BY <1>2 DEF Telling, Told, On, Off, Cut, Flagged, CtxIsLive, Handled
<1>6. ASSUME NEW b \in Actors PROVE Phase(b)'
  <2>1. CASE b = a
    BY <2>1, <1>1 DEF Phase, Bystanding
  <2>2. CASE b # a
    <3>1. pc'[b] = pc[b] /\ Phase(b)
      BY <2>2, <1>1 DEF Telling, Told
    <3>2. QED
      BY <3>1 DEF Phase, On, Off, Cut, Starting, Flagged, CtxIsLive, Handled
  <2>3. QED
    BY <2>1, <2>2
<1>7. QED
  BY <1>3, <1>4, <1>5, <1>6 DEF Told

\* SpvSync: the check, and the session is armed.
LEMMA SpvSyncTells ==
    ASSUME Telling, NEW c \in Callers, ~Excused',
           CallSpvSync(c) \/ CheckNotSyncing(c) \/ ArmSession(c)
    PROVE  OneChanges' /\ WaitersFollow' /\ Told'
<1> USE DEF syncFlags, chain, context, history
<1>a. c \in Actors /\ pc \in [Actors -> PcStates] /\ Armed /\ OneChanges /\ WaitersFollow /\ Told
  BY DEF Actors, Telling, Typed, PlacesTyped
<1>1. CASE CallSpvSync(c)
  BY <1>1, <1>a, BystandersTell DEF CallSpvSync, IsAt, Bystanding
<1>2. CASE CheckNotSyncing(c)
  <2>1. CASE syncing \/ synced \/ Unarmed = {}
    BY <1>2, <2>1, <1>a, BystandersTell DEF CheckNotSyncing, IsAt, Bystanding
  <2>2. CASE ~(syncing \/ synced \/ Unarmed = {})
    <3>1. /\ GoesTo(c, "arm") /\ Overlaps(c) /\ pc[c] = "check"
          /\ UNCHANGED <<syncFlags, chain, context, waiter, handler>>
      BY <1>2, <2>2 DEF CheckNotSyncing, IsAt
    <3>2. \A b \in Actors \ {c} : pc[b] \in Bystanding
      BY <3>1, <1>a, BeginsAlone DEF Excused
    <3>3. Amid = {} /\ ~upstreamStopping
      BY <3>1, <3>2, <1>a, UpstreamRuns DEF Amid, Bystanding
    <3>4. Off'
      BY <3>1, <3>3, <2>2, <1>a DEF Told, On, Off, Cut, Flagged, CtxIsLive, Handled
    <3>5. pc'[c] = "arm" /\ WaitersFollow'
      BY <3>1, <1>a, WaitersStay DEF GoesTo, Stopping
    <3>6. Phase(c)'
      BY <3>4, <3>5 DEF Phase
    <3>7. QED
      BY <3>1, <3>2, <3>3, <3>4, <3>5, <3>6, <1>a, TellsAgain
  <2>3. QED
    BY <2>1, <2>2
<1>3. CASE ArmSession(c)
  <2>1. pc[c] = "arm" /\ UNCHANGED <<isRescan, chain, cancelledCtx, handler>>
    BY <1>3 DEF ArmSession, IsAt
  <2>2. Off /\ \A b \in Actors \ {c} : pc[b] \in Bystanding
    BY <2>1, <1>a, AmidAlone DEF Told, Phase, Bystanding
  <2>3. ~upstreamStopping
    BY <2>1, <2>2, <1>a, UpstreamRuns
  <2>4. CASE Unarmed = {}
    <3>1. GoesTo(c, "idle") /\ UNCHANGED <<syncCtx, waiter, syncing, synced>>
      BY <1>3, <2>4 DEF ArmSession
    <3>2. Off' /\ WaitersFollow' /\ Phase(c)'
      <4>1. Off'
        BY <3>1, <2>1, <2>2 DEF Off, Cut, Flagged
      <4>2. pc'[c] = "idle" /\ WaitersFollow'
        BY <3>1, <2>1, <1>a, WaitersStay DEF GoesTo, Stopping
      <4>3. QED
        BY <4>1, <4>2 DEF Phase
    <3>3. QED
      BY <3>1, <3>2, <2>1, <2>2, <2>3, <1>a, TellsAgain
  <2>5. CASE Unarmed # {}
    <3>1. PICK k \in Unarmed :
              /\ syncCtx' = k /\ syncing' = TRUE /\ synced' = FALSE
              /\ waiter' = [waiter EXCEPT ![k] = [pc |-> "select", ctx |-> k]]
              /\ pc' = [pc EXCEPT ![c] = "idle", ![k] = IF discovered THEN "load" ELSE "begin"]
      BY <1>3, <2>5 DEF ArmSession
    <3>2. /\ k \in Sessions /\ k \in Actors /\ k # c /\ k # NoCtx
          /\ waiter[k].pc = "none" /\ k \notin cancelledCtx
      BY <1>a, UtxoBounds DEF Unarmed, Actors, Armed, Sessions, NoCtx
    <3>3. /\ pc'[c] = "idle" /\ pc'[k] \in {"load", "begin"}
          /\ \A b \in Actors \ {c, k} : pc'[b] = pc[b] /\ pc'[b] \in Bystanding
      <4>1. pc'[c] = "idle"
        BY <3>1, <3>2, <1>a
      <4>2. pc'[k] = IF discovered THEN "load" ELSE "begin"
        BY <3>1, <3>2, <1>a
      <4>3. \A b \in Actors \ {c, k} : pc'[b] = pc[b]
        BY <3>1, <3>2, <1>a
      <4>4. QED
        BY <4>1, <4>2, <4>3, <2>2
    <3>4. /\ waiter'[k] = [pc |-> "select", ctx |-> k]
          /\ \A l \in Sessions \ {k} : waiter'[l] = waiter[l]
      BY <3>1, <3>2 DEF Telling, Typed, WaitersTyped
    <3>5. Starting'
      BY <3>1, <3>2, <2>1 DEF Starting, Flagged, CtxIsLive
    <3>6. OneChanges'
      BY <3>2, <3>3, <2>1, <2>3 DEF OneChanges, Amid, Bystanding
    <3>7. \A l \in Sessions : waiter[l].pc # "finish"
      BY <1>a, <2>2 DEF WaitersFollow, Starting, Off, Cut
    <3>8. \A l \in Sessions : waiter[l].pc = "select" => waiter[l].ctx \in cancelledCtx
      BY <1>a, <2>2 DEF WaitersFollow, Off, Armed
    <3>9. WaitersFollow'
      <4>1. ASSUME NEW l \in Sessions
            PROVE  /\ waiter'[l].pc = "select" => waiter'[l].ctx \in cancelledCtx' \cup {syncCtx'}
                   /\ waiter'[l].pc # "finish"
        BY <3>1, <3>4, <3>7, <3>8, <2>1
      <4>2. QED
        BY <4>1 DEF WaitersFollow
    <3>10. Phase(k)'
      BY <3>3, <3>5, <2>1, <2>2 DEF Phase, Off, Cut
    <3>11. ASSUME NEW b \in Actors PROVE Phase(b)'
      <4>1. CASE b = k
        BY <4>1, <3>10
      <4>2. CASE b # k
        <5>1. pc'[b] \in Bystanding
          BY <4>2, <3>3 DEF Bystanding
        <5>2. QED
          BY <5>1 DEF Phase, Bystanding
      <4>3. QED
        BY <4>1, <4>2
    <3>12. Amid' # {}
      BY <3>2, <3>3 DEF Amid
    <3>13. QED
      BY <3>6, <3>9, <3>11, <3>12 DEF Told
  <2>6. QED
    BY <2>4, <2>5
<1>4. QED
  BY <1>1, <1>2, <1>3

\* startWallet and startSync: what is started is one after the other.
LEMMA StarterTells ==
    ASSUME Telling, NEW k \in Sessions, ~Excused',
           \/ StartWallet(k) \/ LoadForSync(k) \/ StartChainClient(k)
           \/ StartHandler(k) \/ SynchronizeRPC(k)
    PROVE  OneChanges' /\ WaitersFollow' /\ Told'
<1> USE DEF syncFlags, chain, context, history
<1>a. k \in Actors /\ pc \in [Actors -> PcStates] /\ Armed /\ OneChanges /\ WaitersFollow /\ Told
  BY DEF Actors, Telling, Typed, PlacesTyped
<1>p. Phase(k) /\ pc[k] \in {"begin", "load", "client", "handler", "attach"}
  BY <1>a DEF Told, StartWallet, LoadForSync, StartChainClient, StartHandler, SynchronizeRPC, IsAt
<1>b. \A b \in Actors \ {k} : pc[b] \in Bystanding
  BY <1>a, <1>p, AmidAlone DEF Bystanding
<1>u. ~upstreamStopping
  BY <1>a, <1>b, <1>p, UpstreamRuns
<1>s. Starting
  BY <1>p DEF Phase
<1>w. ASSUME NEW l, GoesTo(k, l), l \in {"load", "client", "handler", "attach", "idle"},
             UNCHANGED <<waiter, syncCtx, cancelledCtx, syncing, synced>>
      PROVE  WaitersFollow' /\ Starting' /\ pc'[k] = l
  <2>1. Starting' /\ pc'[k] = l
    BY <1>w, <1>a, <1>s DEF GoesTo, Starting, Flagged, CtxIsLive
  <2>2. l \notin Stopping
    BY <1>w DEF Stopping
  <2>3. QED
    BY <2>1, <2>2, <1>w, <1>a, WaitersStay
<1>q. ASSUME NEW l, GoesTo(k, l), l \in {"load", "client", "handler", "attach"},
             WaitersFollow', Phase(k)', ~upstreamStopping'
      PROVE  OneChanges' /\ WaitersFollow' /\ Told'
  <2>1. l \notin Bystanding
    BY <1>q DEF Bystanding
  <2>2. QED
    BY <2>1, <1>q, <1>a, <1>b, TellsAgain
<1>1. CASE StartWallet(k)
  <2>1. /\ pc[k] = "begin" /\ GoesTo(k, "load")
        /\ UNCHANGED <<syncing, synced, chain, context, waiter, handler>>
    BY <1>1 DEF StartWallet, IsAt
  <2>2. WaitersFollow' /\ Starting' /\ pc'[k] = "load"
    BY <2>1, <1>w
  <2>3. Phase(k)'
    BY <2>1, <2>2, <1>p DEF Phase
  <2>4. QED
    BY <2>1, <2>2, <2>3, <1>q, <1>u
<1>2. CASE LoadForSync(k)
  <2>1. /\ pc[k] = "load" /\ GoesTo(k, "client") /\ chainService' = "ready"
        /\ UNCHANGED <<syncing, synced, clientStarted, upstreamStopping, context, waiter>>
    BY <1>2, <1>p DEF LoadForSync, IsAt, Excused, Phase
  <2>2. WaitersFollow' /\ Starting' /\ pc'[k] = "client"
    BY <2>1, <1>w
  <2>3. Phase(k)'
    BY <2>1, <2>2, <1>p DEF Phase
  <2>4. QED
    BY <2>1, <2>2, <2>3, <1>q, <1>u
<1>3. CASE StartChainClient(k)
  <2>1. /\ pc[k] = "client" /\ GoesTo(k, "handler") /\ clientStarted' = TRUE
        /\ chainService' = "running"
        /\ UNCHANGED <<syncing, synced, upstreamStopping, context, waiter>>
    BY <1>3, <1>p DEF StartChainClient, IsAt, Excused, Phase
  <2>2. WaitersFollow' /\ Starting' /\ pc'[k] = "handler"
    BY <2>1, <1>w
  <2>3. Phase(k)'
    BY <2>1, <2>2, <1>p DEF Phase
  <2>4. QED
    BY <2>1, <2>2, <2>3, <1>q, <1>u
<1>4. CASE StartHandler(k)
  <2>1. /\ pc[k] = "handler" /\ GoesTo(k, "attach")
        /\ UNCHANGED <<syncing, synced, chain, context, waiter>>
    BY <1>4 DEF StartHandler, IsAt, Excused
  <2>2. WaitersFollow' /\ Starting' /\ pc'[k] = "attach"
    BY <2>1, <1>w
  <2>3. Handled'
    <3>1. CASE handler.pc = "none"
      <4>1. handler' = [pc |-> "listening", ctx |-> syncCtx]
        BY <1>4, <3>1 DEF StartHandler, Excused
      <4>2. QED
        BY <4>1, <2>1, <1>s DEF Handled, Starting, CtxIsLive
    <3>2. CASE handler.pc # "none"
      <4>1. handler' = handler /\ handler.ctx \notin cancelledCtx
        BY <1>4, <3>2 DEF StartHandler, Excused
      <4>2. handler.pc \in {"listening", "leaving"}
        BY <3>2 DEF Telling, Typed, HandlerTyped
      <4>3. QED
        BY <4>1, <4>2, <2>1, <1>a DEF Handled, Armed
    <3>3. QED
      BY <3>1, <3>2
  <2>4. Phase(k)'
    BY <2>1, <2>2, <2>3, <1>p DEF Phase
  <2>5. QED
    BY <2>1, <2>2, <2>4, <1>q, <1>u
<1>5. CASE SynchronizeRPC(k)
  <2>1. /\ pc[k] = "attach" /\ GoesTo(k, "idle") /\ attached' = TRUE
        /\ UNCHANGED <<syncFlags, chainService, clientStarted, upstreamStopping, context,
                       waiter, handler>>
    BY <1>5, <1>u DEF SynchronizeRPC, IsAt
  <2>2. WaitersFollow' /\ Starting' /\ pc'[k] = "idle"
    BY <2>1, <1>w
  <2>3. On'
    BY <2>1, <2>2, <1>p DEF Phase, On, Starting, Handled
  <2>4. Phase(k)'
    BY <2>2 DEF Phase
  <2>5. QED
    BY <2>1, <2>2, <2>3, <2>4, <1>a, <1>b, <1>u, TellsAgain
<1>6. QED
  BY <1>1, <1>2, <1>3, <1>4, <1>5

\* CancelSync: what runs is stopped one after the other, then its context ends.
LEMMA CancelTells ==
    ASSUME Telling, NEW a \in Actors, ~Excused',
           \/ CancelSync(a) \/ CheckUpstream(a) \/ StopUpstream(a) \/ StopChainService(a)
           \/ CancelContext(a) \/ EndCancelSync(a)
    PROVE  OneChanges' /\ WaitersFollow' /\ Told'
<1> USE DEF syncFlags, chain, context, history
<1>a. pc \in [Actors -> PcStates] /\ Armed /\ OneChanges /\ WaitersFollow /\ Told
  BY DEF Telling, Typed, PlacesTyped
<1>p. Phase(a)
  BY <1>a DEF Told
<1>b. \A b \in Actors \ {a} : pc[b] \in Bystanding
  <2>1. CASE CancelSync(a)
    BY <2>1, BeginsAlone DEF CancelSync, Excused
  <2>2. CASE ~CancelSync(a)
    <3>1. pc[a] \notin Bystanding
      BY <2>2 DEF CheckUpstream, StopUpstream, StopChainService, CancelContext, EndCancelSync,
         IsAt, Bystanding
    <3>2. QED
      BY <3>1, <1>a, AmidAlone
  <2>3. QED
    BY <2>1, <2>2
<1>f. pc[a] \in Stopping => \A k \in Sessions : waiter[k].pc # "finish"
  BY <1>a DEF WaitersFollow
<1>1. CASE CancelSync(a)
  <2>1. /\ pc[a] = "cancel" /\ GoesTo(a, "stop") /\ ~syncing' /\ ~synced' /\ ~isRescan'
        /\ \A k \in Sessions : waiter[k].pc # "finish"
        /\ UNCHANGED <<chain, context, waiter, handler>>
    BY <1>1 DEF CancelSync, IsAt, Excused
  <2>2. ~upstreamStopping
    BY <2>1, <1>a, <1>b, UpstreamRuns
  <2>3. WaitersFollow'
    BY <2>1, <1>a DEF WaitersFollow
  <2>4. pc'[a] = "stop"
    BY <2>1, <1>a DEF GoesTo
  <2>5. Phase(a)'
    BY <2>1, <2>4 DEF Phase, Flagged
  <2>6. "stop" \notin Bystanding
    BY DEF Bystanding
  <2>7. QED
    BY <2>1, <2>2, <2>3, <2>5, <2>6, <1>a, <1>b, TellsAgain
<1>2. CASE CheckUpstream(a)
  <2>1. pc[a] = "stop" /\ UNCHANGED <<syncFlags, chain, context, waiter, handler>>
    BY <1>2 DEF CheckUpstream, IsAt
  <2>2. ~upstreamStopping
    BY <2>1, <1>a, <1>b, UpstreamRuns
  <2>3. GoesTo(a, "upstream")
    BY <1>2, <2>2 DEF CheckUpstream
  <2>4. pc'[a] = "upstream" /\ WaitersFollow'
    BY <2>1, <2>3, <1>a, WaitersStay DEF GoesTo, Stopping
  <2>5. Phase(a)'
    BY <2>1, <2>4, <1>p DEF Phase, Flagged
  <2>6. "upstream" \notin Bystanding
    BY DEF Bystanding
  <2>7. QED
    BY <2>1, <2>2, <2>3, <2>4, <2>5, <2>6, <1>a, <1>b, TellsAgain
<1>u. CASE StopUpstream(a)
  <2>1. pc[a] = "upstream"
    BY <1>u DEF StopUpstream, IsAt
  <2>3. /\ GoesTo(a, "service") /\ ~clientStarted' /\ ~attached'
        /\ UNCHANGED <<syncFlags, chainService, chainServiceStopped, context, waiter, handler>>
    BY <1>u DEF StopUpstream
  <2>4. pc'[a] = "service" /\ WaitersFollow'
    BY <2>1, <2>3, <1>a, WaitersStay DEF GoesTo, Stopping
  <2>5. Phase(a)'
    BY <2>1, <2>3, <2>4, <1>p DEF Phase, Cut, Flagged
  <2>6. "service" \notin Bystanding
    BY DEF Bystanding
  <2>7. QED
    BY <2>3, <2>4, <2>5, <2>6, <1>a, <1>b, TellsAgain
<1>3. CASE StopChainService(a)
  <2>1. /\ pc[a] = "service" /\ GoesTo(a, "ctx")
        /\ chainService' = "stopped" /\ chainServiceStopped' = TRUE
        /\ UNCHANGED <<syncFlags, clientStarted, attached, upstreamStopping, context, waiter,
                       handler>>
    BY <1>3 DEF StopChainService, IsAt
  <2>2. pc'[a] = "ctx" /\ WaitersFollow'
    BY <2>1, <1>a, WaitersStay DEF GoesTo, Stopping
  <2>3. Phase(a)'
    BY <2>1, <2>2, <1>p DEF Phase, Cut, Flagged
  <2>4. "ctx" \notin Bystanding
    BY DEF Bystanding
  <2>5. QED
    BY <2>1, <2>2, <2>3, <2>4, <1>a, <1>b, TellsAgain
<1>4. CASE CancelContext(a)
  <2>1. /\ pc[a] = "ctx" /\ GoesTo(a, "return") /\ ~upstreamStopping'
        /\ cancelledCtx' = cancelledCtx \cup ({syncCtx} \ {NoCtx})
        /\ UNCHANGED <<syncFlags, chainService, chainServiceStopped, clientStarted, attached,
                       syncCtx, waiter, handler>>
    BY <1>4 DEF CancelContext, IsAt
  <2>2. pc'[a] = "return"
    BY <2>1, <1>a DEF GoesTo
  <2>3. WaitersFollow'
    <3>1. \A k \in Sessions : waiter[k].pc # "finish"
      BY <2>1, <1>f DEF Stopping
    <3>2. \A k \in Sessions : waiter[k].pc = "select" => waiter[k].ctx \in cancelledCtx \cup {syncCtx}
      BY <1>a DEF WaitersFollow
    <3>3. QED
      BY <2>1, <3>1, <3>2 DEF WaitersFollow
  <2>4. Off'
    BY <2>1, <1>p DEF Phase, Off, Cut, Flagged
  <2>5. Phase(a)'
    BY <2>2, <2>4 DEF Phase
  <2>6. "return" \notin Bystanding
    BY DEF Bystanding
  <2>7. QED
    BY <2>1, <2>3, <2>5, <2>6, <1>a, <1>b, TellsAgain
<1>5. CASE EndCancelSync(a)
  <2>1. /\ pc[a] = "return" /\ GoesTo(a, after[a])
        /\ UNCHANGED <<syncFlags, chain, context, waiter, handler>>
    BY <1>5 DEF EndCancelSync, IsAt
  <2>2. after[a] \in {"idle", "reload"}
    BY DEF Telling, Typed, PlacesTyped
  <2>3. ~upstreamStopping
    BY <2>1, <1>a, <1>b, UpstreamRuns
  <2>4. Off'
    BY <2>1, <1>p DEF Phase, Off, Cut, Flagged
  <2>5. pc'[a] = after[a] /\ WaitersFollow'
    BY <2>1, <2>2, <1>a, WaitersStay DEF GoesTo, Stopping
  <2>6. Phase(a)'
    BY <2>2, <2>4, <2>5 DEF Phase
  <2>7. QED
    BY <2>1, <2>3, <2>4, <2>5, <2>6, <1>a, <1>b, TellsAgain
<1>6. QED
  BY <1>1, <1>2, <1>u, <1>3, <1>4, <1>5

\* The switch, the reload of the chain service and the rescan.
LEMMA OtherCallsTell ==
    ASSUME Telling, NEW c \in Callers, ~Excused',
           \/ ToggleSyncOff(c) \/ ReloadChainService(c) \/ RenewChainService(c)
           \/ CheckForRescan(c) \/ SubmitRescan(c) \/ CancelRescan(c)
    PROVE  OneChanges' /\ WaitersFollow' /\ Told'
<1> USE DEF syncFlags, chain, context, history
<1>a. c \in Actors /\ pc \in [Actors -> PcStates] /\ Armed /\ OneChanges /\ WaitersFollow /\ Told
  BY DEF Actors, Telling, Typed, PlacesTyped
<1>p. Phase(c)
  BY <1>a DEF Told
<1>1. CASE ToggleSyncOff(c)
  BY <1>1, <1>a, BystandersTell DEF ToggleSyncOff, IsAt, Bystanding
<1>2. CASE ReloadChainService(c)
  <2>1. CASE IsConnectedToNetwork
    BY <1>2, <2>1, <1>a, BystandersTell DEF ReloadChainService, IsAt, Bystanding
  <2>2. CASE ~IsConnectedToNetwork
    <3>1. /\ pc[c] = "idle" /\ GoesTo(c, "renew") /\ Overlaps(c)
          /\ UNCHANGED <<syncFlags, chain, context, waiter, handler>>
      BY <1>2, <2>2 DEF ReloadChainService, IsAt
    <3>2. \A b \in Actors \ {c} : pc[b] \in Bystanding
      BY <3>1, <1>a, BeginsAlone DEF Excused
    <3>3. Amid = {} /\ ~upstreamStopping
      BY <3>1, <3>2, <1>a, UpstreamRuns DEF Amid, Bystanding
    <3>4. Off'
      BY <3>1, <3>3, <2>2, <1>a DEF IsConnectedToNetwork, Told, On, Off, Cut, Flagged
    <3>5. pc'[c] = "renew" /\ WaitersFollow'
      BY <3>1, <1>a, WaitersStay DEF GoesTo, Stopping
    <3>6. Phase(c)'
      BY <3>4, <3>5 DEF Phase
    <3>7. QED
      BY <3>1, <3>2, <3>3, <3>4, <3>5, <3>6, <1>a, TellsAgain
  <2>3. QED
    BY <2>1, <2>2
<1>3. CASE RenewChainService(c)
  <2>1. PICK l \in {"idle", "check"} :
          /\ pc[c] \in {"reload", "renew"} /\ GoesTo(c, l) /\ chainService' = "ready"
          /\ UNCHANGED <<syncFlags, clientStarted, attached, upstreamStopping, context, waiter,
                         handler>>
    BY <1>3 DEF RenewChainService, IsAt, Excused
  <2>2. Off /\ \A b \in Actors \ {c} : pc[b] \in Bystanding
    BY <2>1, <1>a, <1>p, AmidAlone DEF Phase, Bystanding
  <2>3. ~upstreamStopping
    BY <2>1, <2>2, <1>a, UpstreamRuns
  <2>4. Off'
    BY <2>1, <2>2 DEF Off, Cut, Flagged
  <2>5. pc'[c] = l /\ WaitersFollow'
    BY <2>1, <1>a, WaitersStay DEF GoesTo, Stopping
  <2>6. Phase(c)'
    BY <2>1, <2>5 DEF Phase
  <2>7. QED
    BY <2>1, <2>2, <2>3, <2>4, <2>5, <2>6, <1>a, TellsAgain
<1>4. CASE CheckForRescan(c)
  <2>1. /\ pc[c] = "idle" /\ synced /\ GoesTo(c, "submit") /\ Overlaps(c)
        /\ UNCHANGED <<syncFlags, chain, context, waiter, handler>>
    BY <1>4 DEF CheckForRescan, IsAt
  <2>2. \A b \in Actors \ {c} : pc[b] \in Bystanding
    BY <2>1, <1>a, BeginsAlone DEF Excused
  <2>3. Amid = {} /\ ~upstreamStopping
    BY <2>1, <2>2, <1>a, UpstreamRuns DEF Amid, Bystanding
  <2>4. On'
    BY <2>1, <2>3, <1>a DEF Told, On, Off, Cut, Flagged, CtxIsLive, Handled
  <2>5. pc'[c] = "submit" /\ WaitersFollow'
    BY <2>1, <1>a, WaitersStay DEF GoesTo, Stopping
  <2>6. Phase(c)'
    BY <2>4, <2>5 DEF Phase
  <2>7. "submit" \notin Bystanding
    BY DEF Bystanding
  <2>8. QED
    BY <2>1, <2>2, <2>3, <2>5, <2>6, <2>7, <1>a, TellsAgain
<1>5. CASE SubmitRescan(c)
  <2>1. /\ pc[c] = "submit" /\ GoesTo(c, "idle")
        /\ UNCHANGED <<syncing, synced, chain, context, waiter>>
    BY <1>5 DEF SubmitRescan, IsAt
  <2>2. On /\ \A b \in Actors \ {c} : pc[b] \in Bystanding
    BY <2>1, <1>a, <1>p, AmidAlone DEF Phase, Bystanding
  <2>3. ~upstreamStopping
    BY <2>1, <2>2, <1>a, UpstreamRuns
  <2>4. handler' = handler
    BY <1>5, <2>2 DEF SubmitRescan, On, Handled
  <2>5. On'
    BY <2>1, <2>2, <2>4 DEF On, Flagged, CtxIsLive, Handled
  <2>6. pc'[c] = "idle" /\ WaitersFollow'
    BY <2>1, <1>a, WaitersStay DEF GoesTo, Stopping
  <2>7. Phase(c)'
    BY <2>6 DEF Phase
  <2>8. QED
    BY <2>1, <2>2, <2>3, <2>5, <2>6, <2>7, <1>a, TellsAgain
<1>6. CASE CancelRescan(c)
  BY <1>6, <1>a DEF CancelRescan, OneChanges, Amid, WaitersFollow, Stopping, Told, Phase, On, Off,
     Cut, Starting, Flagged, CtxIsLive, Handled
<1>7. QED
  BY <1>1, <1>2, <1>3, <1>4, <1>5, <1>6

\* waitForSyncCompletion: the waiter of a session that ended does not declare the chain
\* current, and that of the session in the field declares what is so.
LEMMA WaiterTells ==
    ASSUME Telling, NEW k \in Sessions, ~Excused',
           \/ WaiterTicks(k) \/ PublishHeadersFetchComplete(k)
           \/ RescanFinished(k) \/ WaiterIsCancelled(k)
    PROVE  OneChanges' /\ WaitersFollow' /\ Told'
<1> USE DEF syncFlags, chain, context, history
<1>a. Armed /\ OneChanges /\ WaitersFollow /\ Told
  BY DEF Telling
<1>w. waiter \in [Sessions -> [pc : {"none", "select", "finish", "done"},
                               ctx : Sessions \cup {NoCtx}]]
  BY DEF Telling, Typed, WaitersTyped
<1>b. UNCHANGED <<chain, context, pc, handler>>
  BY DEF WaiterTicks, PublishHeadersFetchComplete, RescanFinished, WaiterIsCancelled, OnlyWaiter
<1>o. OneChanges' /\ Amid' = Amid
  BY <1>a, <1>b DEF OneChanges, Amid
<1>l. \A l \in Sessions \ {k} : waiter'[l] = waiter[l]
  BY <1>w DEF WaiterTicks, PublishHeadersFetchComplete, RescanFinished, WaiterIsCancelled
<1>1. CASE WaiterTicks(k)
  <2>1. /\ waiter'[k].pc = "select" /\ waiter'[k].ctx = syncCtx /\ UNCHANGED syncFlags
    BY <1>1, <1>w DEF WaiterTicks
  <2>2. WaitersFollow'
    BY <2>1, <1>a, <1>b, <1>l DEF WaitersFollow, Starting, Flagged, CtxIsLive
  <2>3. Told'
    BY <2>1, <1>a, <1>b, <1>o DEF Told, Phase, On, Off, Cut, Starting, Flagged, CtxIsLive, Handled
  <2>4. QED
    BY <2>2, <2>3, <1>o
<1>2. CASE PublishHeadersFetchComplete(k)
  <2>1. /\ waiter[k].pc = "select" /\ waiter'[k].pc = "finish" /\ synced' = TRUE
        /\ syncing' = FALSE /\ waiter[k].ctx \notin cancelledCtx /\ Cancelling = {}
        /\ UNCHANGED isRescan
    BY <1>2, <1>w DEF PublishHeadersFetchComplete, Excused
  <2>2. CtxIsLive
    BY <2>1, <1>a DEF WaitersFollow, CtxIsLive, Armed
  <2>3. \A a \in Actors : pc[a] \notin {"stop", "upstream", "service", "ctx", "return"}
    BY <2>1 DEF Cancelling, CancelStates
  <2>4. Starting' /\ \A a \in Actors : pc'[a] \notin Stopping
    BY <2>1, <2>2, <2>3, <1>b DEF Starting, Flagged, CtxIsLive, Stopping
  <2>5. WaitersFollow'
    BY <2>1, <2>4, <1>a, <1>b, <1>l DEF WaitersFollow
  <2>6. ~Off
    BY <2>2 DEF CtxIsLive, Off
  <2>7. (Amid = {} => On)'
    BY <2>4, <2>6, <1>a, <1>b, <1>o DEF Told, On, Starting, CtxIsLive, Handled
  <2>8. ASSUME NEW a \in Actors PROVE Phase(a)'
    <3>1. pc[a] \notin {"arm", "reload", "renew", "stop", "upstream", "service", "ctx", "return"}
      BY <2>3, <2>6, <1>a DEF Told, Phase
    <3>2. On => On'
      BY <2>4, <1>b DEF On, Starting, Handled
    <3>3. QED
      BY <3>1, <3>2, <2>4, <1>a, <1>b DEF Told, Phase, Handled
  <2>9. QED
    BY <2>5, <2>7, <2>8, <1>o DEF Told
<1>3. CASE RescanFinished(k)
  <2>1. /\ waiter[k].pc = "finish" /\ waiter'[k].pc = "done" /\ synced' = TRUE
        /\ syncing' = FALSE /\ isRescan' = FALSE
    BY <1>3, <1>w DEF RescanFinished
  <2>2. Starting /\ \A a \in Actors : pc[a] \notin Stopping
    BY <2>1, <1>a DEF WaitersFollow
  <2>4. Starting' /\ \A a \in Actors : pc'[a] \notin Stopping
    BY <2>1, <2>2, <1>b DEF Starting, Flagged, CtxIsLive, Stopping
  <2>5. WaitersFollow'
    BY <2>1, <2>4, <1>a, <1>b, <1>l DEF WaitersFollow
  <2>6. ~Off
    BY <2>2 DEF Starting, Off, Cut
  <2>7. (Amid = {} => On)'
    BY <2>4, <2>6, <1>a, <1>b, <1>o DEF Told, On, Starting, CtxIsLive, Handled
  <2>8. ASSUME NEW a \in Actors PROVE Phase(a)'
    <3>1. pc[a] \notin {"arm", "reload", "renew", "stop", "upstream", "service", "ctx", "return"}
      BY <2>2, <2>6, <1>a DEF Told, Phase, Stopping
    <3>2. On => On'
      BY <2>4, <1>b DEF On, Starting, Handled
    <3>3. QED
      BY <3>1, <3>2, <2>4, <1>a, <1>b DEF Told, Phase, Handled
  <2>9. QED
    BY <2>5, <2>7, <2>8, <1>o DEF Told
<1>4. CASE WaiterIsCancelled(k)
  <2>1. waiter'[k].pc = "done" /\ UNCHANGED syncFlags
    BY <1>4, <1>w DEF WaiterIsCancelled
  <2>2. WaitersFollow'
    BY <2>1, <1>a, <1>b, <1>l DEF WaitersFollow, Starting, Flagged, CtxIsLive
  <2>3. Told'
    BY <2>1, <1>a, <1>b, <1>o DEF Told, Phase, On, Off, Cut, Starting, Flagged, CtxIsLive, Handled
  <2>4. QED
    BY <2>2, <2>3, <1>o
<1>5. QED
  BY <1>1, <1>2, <1>3, <1>4

\* handleNotifications leaves after its session only, and a job of a rescan clears a flag
\* that tells nothing of the session.
LEMMA HandlerTells ==
    ASSUME Telling, HandlerNotified \/ HandlerIsCancelled \/ EndHandler \/ RescanJobEnds
    PROVE  OneChanges' /\ WaitersFollow' /\ Told'
<1> USE DEF syncFlags, chain, context, history
<1>a. Armed /\ OneChanges /\ WaitersFollow /\ Told
  BY DEF Telling
<1>w. handler \in [pc : {"none", "listening", "leaving"}, ctx : Sessions \cup {NoCtx}]
  BY DEF Telling, Typed, HandlerTyped
<1>b. UNCHANGED <<syncing, synced, chain, context, pc, waiter>>
  BY DEF HandlerNotified, HandlerIsCancelled, EndHandler, RescanJobEnds, OnlyHandler
<1>o. OneChanges' /\ Amid' = Amid
  BY <1>a, <1>b DEF OneChanges, Amid
<1>f. WaitersFollow'
  BY <1>a, <1>b DEF WaitersFollow, Starting, Flagged, CtxIsLive
<1>r. isRescan' = isRescan \/ ~isRescan'
  BY DEF HandlerNotified, HandlerIsCancelled, EndHandler, RescanJobEnds, OnlyHandler
<1>h. CtxIsLive /\ Handled => Handled'
  <2>1. HandlerNotified => handler'.pc = "listening" /\ handler'.ctx = syncCtx
    BY <1>w DEF HandlerNotified
  <2>2. HandlerIsCancelled \/ EndHandler => ~Handled
    BY DEF HandlerIsCancelled, EndHandler, Handled
  <2>3. RescanJobEnds => handler' = handler
    BY DEF RescanJobEnds
  <2>4. QED
    BY <2>1, <2>2, <2>3, <1>b DEF CtxIsLive, Handled
<1>1. On => On'
  BY <1>b, <1>h DEF On, Flagged, CtxIsLive
<1>2. (Off => Off') /\ (Cut => Cut') /\ (Starting => Starting')
  BY <1>b, <1>r DEF Off, Cut, Starting, Flagged, CtxIsLive
<1>3. ASSUME NEW a \in Actors PROVE Phase(a)'
  <2>1. Phase(a)
    BY <1>a DEF Told
  <2>2. Starting /\ Handled => Handled'
    BY <1>h DEF Starting
  <2>3. (~Flagged /\ ~isRescan) => (~Flagged /\ ~isRescan)'
    BY <1>b, <1>r DEF Flagged
  <2>4. QED
    BY <2>1, <2>2, <2>3, <1>1, <1>2, <1>b DEF Phase
<1>4. QED
  BY <1>1, <1>2, <1>3, <1>a, <1>o, <1>f DEF Told

-----------------------------------------------------------------------------
(* The theorem                                                             *)

\* The initial states keep the invariant.
LEMMA InitTells == UtxoInit => FlagsInv
<1> SUFFICES ASSUME UtxoInit PROVE FlagsInv
  OBVIOUS
<1> USE DEF UtxoInit
<1>1. NoCtx \notin Sessions
  BY UtxoBounds DEF NoCtx, Sessions
<1>2. Armed
  BY <1>1 DEF Armed, NoWaiter, NoHandler
<1>3. Off
  BY DEF Off, Cut, Flagged
<1>4. \A a \in Actors : pc[a] \in {"idle", "unborn"}
  OBVIOUS
<1>5. OneChanges /\ Told
  BY <1>3, <1>4 DEF OneChanges, Told, Amid, Phase
<1>6. WaitersFollow
  BY DEF WaitersFollow, NoWaiter
<1>7. QED
  BY <1>2, <1>5, <1>6 DEF FlagsInv

\* And every step does.
LEMMA NextTells == Typed /\ FlagsInv /\ [UtxoNext]_utxoVars => FlagsInv'
<1> SUFFICES ASSUME Typed, FlagsInv, [UtxoNext]_utxoVars PROVE FlagsInv'
  OBVIOUS
<1>1. Armed'
  BY ArmedStays DEF FlagsInv
<1>2. ASSUME ~Excused' PROVE OneChanges' /\ WaitersFollow' /\ Told'
  <2>1. ~Excused
    BY <1>2, ExcusesStay
  <2>2. Telling
    BY <2>1 DEF Telling, FlagsInv
  <2>3. CASE UNCHANGED utxoVars
    BY <2>2, <2>3 DEF Telling, OneChanges, Amid, WaitersFollow, Stopping, Told, Phase, On, Off, Cut,
       Starting, Flagged, CtxIsLive, Handled, utxoVars, syncFlags, chain, context
  <2>4. CASE UtxoNext
    BY <2>2, <2>4, <1>2, StepsByName, SpvSyncTells, StarterTells, CancelTells, OtherCallsTell,
       WaiterTells, HandlerTells
  <2>5. QED
    BY <2>3, <2>4
<1>3. QED
  BY <1>1, <1>2 DEF FlagsInv

\* FlagsTellWhatRuns: between calls that did not overlap, where no start failed and no
\* waiter or handler outlasted its session, a wallet that says it syncs or is synced has
\* all that a sync needs running and its context alive, and one that says it does not has
\* nothing of a session left but what its ended context stops.
THEOREM FlagsAreTrue == UtxoSpec => []FlagsTellWhatRuns
<1>1. UtxoInit => Typed /\ FlagsInv
  BY InitTyped, InitTells
<1>2. (Typed /\ FlagsInv) /\ [UtxoNext]_utxoVars => (Typed /\ FlagsInv)'
  <2>1. SUFFICES ASSUME Typed, FlagsInv, [UtxoNext]_utxoVars PROVE Typed' /\ FlagsInv'
    BY DEF Typed, FlagsInv
  <2>2. QED
    BY <2>1, NextTyped, NextTells
<1>3. Typed /\ FlagsInv => FlagsTellWhatRuns
  <2>1. SUFFICES ASSUME FlagsInv, ~Excused, Changing = {} PROVE FlagsTellWhatRuns
    BY DEF FlagsTellWhatRuns
  <2>2. Amid = {}
    BY <2>1 DEF Amid, Changing
  <2>3. On \/ Off
    BY <2>1, <2>2 DEF FlagsInv, Told
  <2>4. QED
    BY <2>3 DEF FlagsTellWhatRuns, On, Off, Cut, Flagged, CtxIsLive, Handled
<1>4. QED
  BY <1>1, <1>2, <1>3, PTL DEF UtxoSpec

-----------------------------------------------------------------------------
(* Who stops something is there to start it again                          *)

\* The starter of a session that was not armed has not begun: to arm it takes nobody
\* away from a CancelSync.
UnarmedAreUnborn == \A k \in Unarmed : pc[k] = "unborn"

AttendedInv == UnarmedAreUnborn /\ StopsAreAttended

\* Who goes on with CancelSync.
Serves == {"service", "ctx"}

\* A step of one actor, other than the arming of a session: it takes nobody from what
\* it has stopped.
LEMMA OneGoesOn ==
    ASSUME pc \in [Actors -> PcStates], AttendedInv, NEW a \in Actors, NEW l, GoesTo(a, l),
           pc[a] # "unborn", Unarmed' \subseteq Unarmed,
           syncShuttingDown' => \/ l \in CancelStates
                                \/ syncShuttingDown /\ pc[a] \notin CancelStates,
           upstreamStopping' => \/ l \in Serves
                                \/ upstreamStopping /\ pc[a] \notin Serves
    PROVE  AttendedInv'
<1>1. pc'[a] = l /\ \A b \in Actors \ {a} : pc'[b] = pc[b]
  BY DEF GoesTo
<1>2. UnarmedAreUnborn'
  BY <1>1 DEF AttendedInv, UnarmedAreUnborn, Actors, Unarmed
<1>3. syncShuttingDown' => Cancelling' # {}
  BY <1>1 DEF AttendedInv, StopsAreAttended, Cancelling
<1>4. upstreamStopping' => \E b \in Actors : pc'[b] \in {"service", "ctx"}
  BY <1>1 DEF AttendedInv, StopsAreAttended, Serves
<1>5. QED
  BY <1>2, <1>3, <1>4 DEF AttendedInv, StopsAreAttended

\* Nobody but EndCancelSync and CancelContext leaves, and each enables or starts again
\* what was stopped.
LEMMA NextAttends == Typed /\ AttendedInv /\ [UtxoNext]_utxoVars => AttendedInv'
<1> SUFFICES ASSUME Typed, AttendedInv, [UtxoNext]_utxoVars PROVE AttendedInv'
  OBVIOUS
<1> USE DEF syncFlags, chain, context, history, bounds
<1>t. pc \in [Actors -> PcStates]
  BY DEF Typed, PlacesTyped
<1>p. waiter \in [Sessions -> [pc : {"none", "select", "finish", "done"},
                              ctx : Sessions \cup {NoCtx}]]
  BY DEF Typed, WaitersTyped
<1>a. Callers \subseteq Actors /\ Sessions \subseteq Actors
  BY DEF Actors
<1>g. ASSUME UNCHANGED <<pc, syncShuttingDown, upstreamStopping>>, Unarmed' \subseteq Unarmed
      PROVE  AttendedInv'
  BY <1>g DEF AttendedInv, UnarmedAreUnborn, StopsAreAttended, Cancelling
<1>w. UNCHANGED waiter => Unarmed' = Unarmed
  BY DEF Unarmed
<1>1. CASE UNCHANGED utxoVars
  BY <1>1, <1>g, <1>w DEF utxoVars
<1>2. ASSUME NEW c \in Callers,
             \/ CallSpvSync(c) \/ CheckNotSyncing(c) \/ RenewChainService(c)
             \/ CheckForRescan(c) \/ SubmitRescan(c)
      PROVE  AttendedInv'
  <2>1. \E l : GoesTo(c, l)
    BY <1>2 DEF CallSpvSync, CheckNotSyncing, RenewChainService, CheckForRescan, SubmitRescan
  <2>2. /\ pc[c] \in {"idle", "check", "reload", "renew", "submit"}
        /\ UNCHANGED <<syncShuttingDown, upstreamStopping, waiter>>
    BY <1>2 DEF CallSpvSync, CheckNotSyncing, RenewChainService, CheckForRescan, SubmitRescan, IsAt
  <2>3. pc[c] \notin CancelStates /\ pc[c] \notin Serves /\ pc[c] # "unborn"
    BY <2>2 DEF CancelStates, Serves
  <2>4. QED
    BY <1>a, <1>t, <1>w, <2>1, <2>2, <2>3, OneGoesOn
<1>3. ASSUME NEW c \in Callers, ToggleSyncOff(c) PROVE AttendedInv'
  <2>1. /\ GoesTo(c, "cancel") /\ pc[c] = "idle" /\ UNCHANGED <<upstreamStopping, waiter>>
    BY <1>3 DEF ToggleSyncOff, IsAt
  <2>2. QED
    BY <1>a, <1>t, <1>w, <2>1, OneGoesOn DEF CancelStates, Serves
<1>4. ASSUME NEW c \in Callers, ReloadChainService(c) PROVE AttendedInv'
  <2>1. PICK l : GoesTo(c, l)
    BY <1>4 DEF ReloadChainService
  <2>2. pc[c] = "idle" /\ UNCHANGED <<syncShuttingDown, upstreamStopping, waiter>>
    BY <1>4 DEF ReloadChainService, IsAt
  <2>3. QED
    BY <1>a, <1>t, <1>w, <2>1, <2>2, OneGoesOn DEF CancelStates, Serves
<1>5. ASSUME NEW c \in Callers, ArmSession(c) PROVE AttendedInv'
  <2>1. CASE Unarmed = {}
    <3>1. /\ GoesTo(c, "idle") /\ pc[c] = "arm"
          /\ UNCHANGED <<syncShuttingDown, upstreamStopping, waiter>>
      BY <1>5, <2>1 DEF ArmSession, IsAt
    <3>2. QED
      BY <1>a, <1>t, <1>w, <3>1, OneGoesOn DEF CancelStates, Serves
  <2>2. CASE Unarmed # {}
    <3>1. PICK k \in Unarmed :
              /\ waiter' = [waiter EXCEPT ![k] = [pc |-> "select", ctx |-> k]]
              /\ pc' = [pc EXCEPT ![c] = "idle", ![k] = IF discovered THEN "load" ELSE "begin"]
      BY <1>5, <2>2 DEF ArmSession
    <3>2. pc[c] = "arm" /\ UNCHANGED <<syncShuttingDown, upstreamStopping>>
      BY <1>5 DEF ArmSession, IsAt
    <3>3. pc[k] = "unborn" /\ k \in Sessions
      BY DEF AttendedInv, UnarmedAreUnborn, Unarmed
    <3>4. \A b \in Actors \ {c, k} : pc'[b] = pc[b]
      BY <1>t, <3>1
    <3>5. Unarmed' \subseteq Unarmed \ {k}
      BY <1>p, <3>1, <3>3 DEF Unarmed
    <3>6. c \notin Sessions
      BY UtxoBounds
    <3>7. UnarmedAreUnborn'
      BY <1>a, <3>4, <3>5, <3>6 DEF AttendedInv, UnarmedAreUnborn, Unarmed
    <3>8. StopsAreAttended'
      BY <3>2, <3>3, <3>4 DEF AttendedInv, StopsAreAttended, Cancelling, CancelStates
    <3>9. QED
      BY <3>7, <3>8 DEF AttendedInv
  <2>3. QED
    BY <2>1, <2>2
<1>6. ASSUME NEW k \in Sessions,
             \/ StartWallet(k) \/ LoadForSync(k) \/ StartChainClient(k)
             \/ StartHandler(k) \/ SynchronizeRPC(k)
      PROVE  AttendedInv'
  <2>1. \E l : GoesTo(k, l)
    BY <1>6 DEF StartWallet, LoadForSync, StartChainClient, StartHandler, SynchronizeRPC
  <2>2. /\ pc[k] \in {"begin", "load", "client", "handler", "attach"}
        /\ UNCHANGED <<syncShuttingDown, upstreamStopping, waiter>>
    BY <1>6 DEF StartWallet, LoadForSync, StartChainClient, StartHandler, SynchronizeRPC, IsAt
  <2>3. pc[k] \notin CancelStates /\ pc[k] \notin Serves /\ pc[k] # "unborn"
    BY <2>2 DEF CancelStates, Serves
  <2>4. QED
    BY <1>a, <1>t, <1>w, <2>1, <2>2, <2>3, OneGoesOn
<1>7. ASSUME NEW a \in Actors, CancelSync(a) \/ CheckUpstream(a) PROVE AttendedInv'
  <2>1. PICK l \in {"stop", "upstream", "return"} : GoesTo(a, l)
    BY <1>7 DEF CancelSync, CheckUpstream
  <2>2. /\ pc[a] \in {"cancel", "stop"}
        /\ UNCHANGED <<syncShuttingDown, upstreamStopping, waiter>>
    BY <1>7 DEF CancelSync, CheckUpstream, IsAt
  <2>3. QED
    BY <1>t, <1>w, <2>1, <2>2, OneGoesOn DEF CancelStates, Serves
<1>8. ASSUME NEW a \in Actors, StopUpstream(a) \/ StopChainService(a) PROVE AttendedInv'
  <2>1. PICK l \in Serves : GoesTo(a, l)
    BY <1>8 DEF StopUpstream, StopChainService, Serves
  <2>2. pc[a] # "unborn" /\ UNCHANGED <<syncShuttingDown, waiter>>
    BY <1>8 DEF StopUpstream, StopChainService, IsAt
  <2>3. QED
    BY <1>t, <1>w, <2>1, <2>2, OneGoesOn DEF CancelStates, Serves
<1>9. ASSUME NEW a \in Actors, CancelContext(a) PROVE AttendedInv'
  <2>1. /\ GoesTo(a, "return") /\ pc[a] = "ctx" /\ ~upstreamStopping'
        /\ UNCHANGED <<syncShuttingDown, waiter>>
    BY <1>9 DEF CancelContext, IsAt
  <2>2. QED
    BY <1>t, <1>w, <2>1, OneGoesOn DEF CancelStates
<1>10. ASSUME NEW a \in Actors, EndCancelSync(a) PROVE AttendedInv'
  <2>1. /\ GoesTo(a, after[a]) /\ pc[a] = "return" /\ ~syncShuttingDown'
        /\ UNCHANGED <<upstreamStopping, waiter>>
    BY <1>10 DEF EndCancelSync, IsAt
  <2>2. QED
    BY <1>t, <1>w, <2>1, OneGoesOn DEF Serves
<1>11. ASSUME NEW k \in Sessions,
              \/ WaiterTicks(k) \/ PublishHeadersFetchComplete(k)
              \/ RescanFinished(k) \/ WaiterIsCancelled(k)
       PROVE  AttendedInv'
  <2>1. UNCHANGED <<pc, syncShuttingDown, upstreamStopping>> /\ waiter[k].pc # "none"
    BY <1>11 DEF WaiterTicks, PublishHeadersFetchComplete, RescanFinished, WaiterIsCancelled,
       OnlyWaiter
  <2>2. \A l \in Sessions \ {k} : waiter'[l] = waiter[l]
    BY <1>p, <1>11 DEF WaiterTicks, PublishHeadersFetchComplete, RescanFinished,
       WaiterIsCancelled
  <2>3. waiter'[k].pc # "none"
    <3>1. WaiterTicks(k) => waiter'[k].pc = "select"
      BY <1>p DEF WaiterTicks
    <3>2. PublishHeadersFetchComplete(k) => waiter'[k].pc = "finish"
      BY <1>p DEF PublishHeadersFetchComplete
    <3>3. RescanFinished(k) \/ WaiterIsCancelled(k) => waiter'[k].pc = "done"
      BY <1>p DEF RescanFinished, WaiterIsCancelled
    <3>4. QED
      BY <1>11, <3>1, <3>2, <3>3
  <2>4. QED
    BY <1>g, <2>1, <2>2, <2>3 DEF Unarmed
<1>12. ASSUME \/ HandlerNotified \/ HandlerIsCancelled \/ EndHandler \/ RescanJobEnds
              \/ \E c \in Callers : CancelRescan(c)
       PROVE  AttendedInv'
  <2>1. UNCHANGED <<pc, syncShuttingDown, upstreamStopping, waiter>>
    BY <1>12 DEF HandlerNotified, HandlerIsCancelled, EndHandler, RescanJobEnds, CancelRescan,
       OnlyHandler
  <2>2. QED
    BY <1>g, <1>w, <2>1
<1>13. CASE UtxoNext
  BY <1>2, <1>3, <1>4, <1>5, <1>6, <1>7, <1>8, <1>9, <1>10, <1>11, <1>12, <1>13, StepsByName
<1>14. QED
  BY <1>1, <1>13

\* A switch that was disabled, and an upstream wallet that was stopped, have somebody
\* who will enable it and start it, however many cancellations race.
THEOREM StopsHaveAttendants == UtxoSpec => []StopsAreAttended
<1>1. UtxoInit => AttendedInv
  <2> SUFFICES ASSUME UtxoInit PROVE AttendedInv
    OBVIOUS
  <2>1. \A k \in Sessions : k \in Actors /\ k \notin Callers
    BY UtxoBounds DEF Actors
  <2>2. QED
    BY <2>1 DEF UtxoInit, AttendedInv, UnarmedAreUnborn, Unarmed, StopsAreAttended
<1>2. Typed /\ AttendedInv /\ [UtxoNext]_utxoVars => (Typed /\ AttendedInv)'
  BY NextTyped, NextAttends
<1>3. AttendedInv => StopsAreAttended
  BY DEF AttendedInv
<1>4. QED
  BY <1>1, <1>2, <1>3, InitTyped, PTL DEF UtxoSpec
=============================================================================
