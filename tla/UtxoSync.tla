------------------------------ MODULE UtxoSync ------------------------------
(***************************************************************************)
(* The synchronisation of the Bitcoin and Litecoin wallets:                *)
(* libwallet/assets/btc/sync.go and rescan.go, whose Litecoin counterparts *)
(* differ in names only.                                                   *)
(*                                                                         *)
(* Callers are the goroutines of the user interface.  A session is a call  *)
(* of SpvSync that got past its check: it has a context, a goroutine that  *)
(* waits for the chain to be current (a waiter), and one that starts the   *)
(* chain client (a starter), which are named by the session's number.      *)
(* syncData.mu protects single assignments only, so every step between two *)
(* of its critical sections is an action.                                  *)
(*                                                                         *)
(* neutrino and btcwallet are external: the chain service is created,      *)
(* started and stopped, and once stopped it stays so; the upstream wallet  *)
(* is attached to the chain client or not, and refuses it while it stops.  *)
(***************************************************************************)
EXTENDS Integers, FiniteSets

CONSTANTS
    Callers,
    MaxSessions,        \* bound: how many sessions are armed
    MaxCancels,         \* bound: how many cancellations and reloads are called
    MaxRescans,         \* bound: how many rescans are submitted
    Restored            \* the wallet is a restored one, not yet discovered

Sessions == 1 .. MaxSessions
NoCtx == 0
Actors == Callers \cup Sessions        \* a session stands for its starter

ASSUME UtxoBounds ==
    /\ MaxSessions \in Nat /\ MaxCancels \in Nat /\ MaxRescans \in Nat
    /\ Restored \in BOOLEAN /\ Callers \cap Sessions = {}

VARIABLES
    syncing, synced, isRescan,
    chainServiceStopped,
    syncCtx,            \* the context in the field, whose cancel function is beside it
    cancelledCtx,       \* the contexts that were cancelled
    chainService,       \* "ready", "running" or "stopped"
    clientStarted,      \* the chain client runs
    attached,           \* the upstream wallet follows the chain client
    upstreamStopping,   \* loadedAsset.ShuttingDown()
    discovered,         \* ContainsDiscoveredAccounts
    syncShuttingDown,
    pc, after,          \* where an actor is, and where it goes when CancelSync returns
    waiter,             \* the waiters, with the context each one selects on
    handler,            \* handleNotifications; syncstarted is start iff there is one
    rescanJobs,         \* the goroutines that wait for a rescan to end
    cancels, rescans,   \* counted for the bounds
    overlapped,         \* history: a start, a cancel or a rescan began beside another
    lateCurrent,        \* history: a waiter declared the chain current during a cancel
    lateHandler,        \* history: the handler of a cancelled session was still there
                        \* when the next one looked
    startFailed         \* history: a chain service was not created or started

syncFlags == <<syncing, synced, isRescan>>
chain     == <<chainService, chainServiceStopped, clientStarted, attached, upstreamStopping>>
context   == <<syncCtx, cancelledCtx>>
bounds    == <<cancels, rescans>>
history   == <<overlapped, lateCurrent, lateHandler, startFailed>>
utxoVars  == <<syncFlags, chain, context, discovered, syncShuttingDown, pc, after, waiter,
               handler, rescanJobs, bounds, history>>

CancelStates == {"cancel", "stop", "upstream", "service", "ctx", "return"}
StarterStates == {"unborn", "begin", "load", "client", "handler", "attach"}
PcStates == {"idle", "check", "arm", "reload", "renew", "submit"}
              \cup CancelStates \cup StarterStates
NoHandler == [pc |-> "none", ctx |-> NoCtx]
NoWaiter  == [pc |-> "none", ctx |-> NoCtx]

UtxoTypeOK ==
    /\ syncing \in BOOLEAN /\ synced \in BOOLEAN /\ isRescan \in BOOLEAN
    /\ chainServiceStopped \in BOOLEAN
    /\ syncCtx \in Sessions \cup {NoCtx} /\ cancelledCtx \subseteq Sessions
    /\ chainService \in {"ready", "running", "stopped"}
    /\ clientStarted \in BOOLEAN /\ attached \in BOOLEAN /\ upstreamStopping \in BOOLEAN
    /\ discovered \in BOOLEAN /\ syncShuttingDown \in BOOLEAN
    /\ pc \in [Actors -> PcStates]
    /\ after \in [Actors -> {"idle", "reload"}]
    /\ waiter \in [Sessions -> [pc : {"none", "select", "finish", "done"},
                                ctx : Sessions \cup {NoCtx}]]
    /\ handler \in [pc : {"none", "listening", "leaving"}, ctx : Sessions \cup {NoCtx}]
    /\ rescanJobs \in 0 .. MaxRescans /\ rescans \in 0 .. MaxRescans
    /\ cancels \in 0 .. MaxCancels
    /\ history \in BOOLEAN \X BOOLEAN \X BOOLEAN \X BOOLEAN

UtxoInit ==
    /\ syncing = FALSE /\ synced = FALSE /\ isRescan = FALSE
    /\ chainServiceStopped = FALSE /\ chainService = "ready"
    /\ syncCtx = NoCtx /\ cancelledCtx = {}
    /\ clientStarted = FALSE /\ attached = FALSE /\ upstreamStopping = FALSE
    /\ discovered = ~Restored /\ syncShuttingDown = FALSE
    /\ pc = [a \in Actors |-> IF a \in Callers THEN "idle" ELSE "unborn"]
    /\ after = [a \in Actors |-> "idle"]
    /\ waiter = [k \in Sessions |-> NoWaiter] /\ handler = NoHandler
    /\ rescanJobs = 0 /\ cancels = 0 /\ rescans = 0
    /\ overlapped = FALSE /\ lateCurrent = FALSE /\ lateHandler = FALSE
    /\ startFailed = FALSE

-----------------------------------------------------------------------------
GoesTo(a, label) == pc' = [pc EXCEPT ![a] = label]
IsAt(a, label) == pc[a] = label

IsConnectedToNetwork == syncing \/ synced \/ isRescan
Unarmed == {k \in Sessions : waiter[k].pc = "none"}
Cancelling == {a \in Actors : pc[a] \in CancelStates}
InStopSync == {a \in Actors : pc[a] \in CancelStates \ {"cancel", "return"}}
\* Past their checks, and about to change what the others rely on.
Changing == {a \in Actors : pc[a] \notin {"idle", "unborn", "check"}}
Overlaps(a) == overlapped' = (overlapped \/ Changing \ {a} # {})

-----------------------------------------------------------------------------
(* SpvSync                                                                 *)

\* "sync already in progress", or the session is armed.  Pages start the sync when
\* they find the wallet disconnected, and the connectivity poll at any time.
CallSpvSync(c) ==
    /\ IsAt(c, "idle") /\ Unarmed # {} /\ GoesTo(c, "check")
    /\ UNCHANGED <<syncFlags, chain, context, discovered, syncShuttingDown, after, waiter,
                   handler, rescanJobs, bounds, history>>

CheckNotSyncing(c) ==
    /\ IsAt(c, "check")
    /\ IF syncing \/ synced \/ Unarmed = {}
       THEN GoesTo(c, "idle") /\ UNCHANGED overlapped
       ELSE GoesTo(c, "arm") /\ Overlaps(c)
    /\ UNCHANGED <<syncFlags, chain, context, discovered, syncShuttingDown, after, waiter,
                   handler, rescanJobs, bounds, lateCurrent, lateHandler, startFailed>>

\* The context and its cancel function, the flags, and the two goroutines.
ArmSession(c) ==
    /\ IsAt(c, "arm")
    /\ IF Unarmed = {} THEN GoesTo(c, "idle") /\ UNCHANGED <<syncCtx, waiter, syncing, synced>>
       ELSE \E k \in Unarmed :
            /\ \A l \in Unarmed : k <= l
            /\ syncCtx' = k /\ syncing' = TRUE /\ synced' = FALSE
            /\ waiter' = [waiter EXCEPT ![k] = [pc |-> "select", ctx |-> k]]
            /\ pc' = [pc EXCEPT ![c] = "idle", ![k] = IF discovered THEN "load" ELSE "begin"]
    /\ UNCHANGED <<isRescan, chain, cancelledCtx, discovered, syncShuttingDown, after,
                   handler, rescanJobs, bounds, history>>

-----------------------------------------------------------------------------
(* startWallet and startSync, in the starter of a session                  *)

\* forceRescan of a restored wallet.
StartWallet(k) ==
    /\ IsAt(k, "begin") /\ GoesTo(k, "load")
    /\ isRescan' = TRUE
    /\ UNCHANGED <<syncing, synced, chain, context, discovered, syncShuttingDown, after,
                   waiter, handler, rescanJobs, bounds, history>>

\* loadChainService: a new service, or an error that is only logged.
LoadForSync(k) ==
    /\ IsAt(k, "load")
    /\ \/ /\ ~chainServiceStopped /\ GoesTo(k, "client")
          /\ UNCHANGED <<chainService, chainServiceStopped, startFailed>>
       \/ /\ chainServiceStopped /\ GoesTo(k, "client")
          /\ chainService' = "ready" /\ chainServiceStopped' = FALSE
          /\ UNCHANGED startFailed
       \/ /\ chainServiceStopped /\ GoesTo(k, "idle") /\ startFailed' = TRUE
          /\ UNCHANGED <<chainService, chainServiceStopped>>
    /\ UNCHANGED <<syncFlags, clientStarted, attached, upstreamStopping, context, discovered,
                   syncShuttingDown, after, waiter, handler, rescanJobs, bounds, overlapped,
                   lateCurrent, lateHandler>>

\* chainClient.Start: a client that runs is left alone, a service that was stopped
\* does not start again.  On an error the sync is cancelled.
StartChainClient(k) ==
    /\ IsAt(k, "client")
    /\ \/ /\ GoesTo(k, "handler") /\ clientStarted' = TRUE
          /\ chainService' = IF ~clientStarted /\ chainService = "ready"
                             THEN "running" ELSE chainService
          /\ UNCHANGED startFailed
       \/ /\ ~clientStarted /\ GoesTo(k, "cancel") /\ startFailed' = TRUE
          /\ UNCHANGED <<clientStarted, chainService>>
    /\ UNCHANGED <<syncFlags, chainServiceStopped, attached, upstreamStopping, context,
                   discovered, syncShuttingDown, after, waiter, handler, rescanJobs, bounds,
                   overlapped, lateCurrent, lateHandler>>

\* NotifyBlocks fails, or the handler of the notifications is started unless
\* syncstarted says that there is one.
StartHandler(k) ==
    /\ IsAt(k, "handler")
    /\ \/ GoesTo(k, "idle") /\ startFailed' = TRUE /\ UNCHANGED <<handler, lateHandler>>
       \/ /\ GoesTo(k, "attach") /\ UNCHANGED startFailed
          /\ IF handler.pc = "none"
             THEN handler' = [pc |-> "listening", ctx |-> syncCtx] /\ UNCHANGED lateHandler
             ELSE /\ UNCHANGED handler
                  /\ lateHandler' = (lateHandler \/ handler.ctx \in cancelledCtx)
    /\ UNCHANGED <<syncFlags, chain, context, discovered, syncShuttingDown, after, waiter,
                   rescanJobs, bounds, overlapped, lateCurrent>>

\* SynchronizeRPC: a wallet that is stopping ignores the client.
SynchronizeRPC(k) ==
    /\ IsAt(k, "attach") /\ GoesTo(k, "idle")
    /\ attached' = (attached \/ ~upstreamStopping)
    /\ UNCHANGED <<syncFlags, chainService, chainServiceStopped, clientStarted,
                   upstreamStopping, context, discovered, syncShuttingDown, after, waiter,
                   handler, rescanJobs, bounds, history>>

-----------------------------------------------------------------------------
(* waitForSyncCompletion and handleNotifications                           *)

OnlyWaiter == UNCHANGED <<chain, context, syncShuttingDown, pc, after, handler, rescanJobs,
                          bounds, overlapped, lateHandler, startFailed>>

\* The tick comes before the end of the context, the chain is not current, and the
\* field is read again: another session may be in it by now.
WaiterTicks(k) ==
    /\ waiter[k].pc = "select" /\ waiter' = [waiter EXCEPT ![k].ctx = syncCtx]
    /\ UNCHANGED <<syncFlags, discovered, lateCurrent>> /\ OnlyWaiter

\* The chain is current: publishHeadersFetchComplete.
PublishHeadersFetchComplete(k) ==
    /\ waiter[k].pc = "select" /\ waiter' = [waiter EXCEPT ![k].pc = "finish"]
    /\ synced' = TRUE /\ syncing' = FALSE
    /\ lateCurrent' = (lateCurrent \/ waiter[k].ctx \in cancelledCtx \/ Cancelling # {})
    /\ UNCHANGED <<isRescan, discovered>> /\ OnlyWaiter

\* The rest of rescanFinished, and the flags once more.
RescanFinished(k) ==
    /\ waiter[k].pc = "finish" /\ waiter' = [waiter EXCEPT ![k] = [pc |-> "done", ctx |-> NoCtx]]
    /\ discovered' = TRUE /\ isRescan' = FALSE
    /\ synced' = TRUE /\ syncing' = FALSE
    /\ UNCHANGED lateCurrent /\ OnlyWaiter

WaiterIsCancelled(k) ==
    /\ waiter[k].pc = "select" /\ waiter[k].ctx \in cancelledCtx
    /\ waiter' = [waiter EXCEPT ![k] = [pc |-> "done", ctx |-> NoCtx]]
    /\ UNCHANGED <<syncFlags, discovered, lateCurrent>> /\ OnlyWaiter

OnlyHandler == UNCHANGED <<syncFlags, chain, context, discovered, syncShuttingDown, pc,
                           after, waiter, rescanJobs, bounds, history>>

\* A notification; then the field is read again.
HandlerNotified ==
    /\ handler.pc = "listening" /\ attached
    /\ handler' = [handler EXCEPT !.ctx = syncCtx] /\ OnlyHandler

\* Wrong: the end of the context is asked after a notification only.
HandlerAsksLate ==
    /\ handler.pc = "listening" /\ handler.ctx \in cancelledCtx /\ attached
    /\ handler' = [handler EXCEPT !.pc = "leaving"] /\ OnlyHandler

HandlerIsCancelled ==
    /\ handler.pc = "listening" /\ handler.ctx \in cancelledCtx
    /\ handler' = [handler EXCEPT !.pc = "leaving"] /\ OnlyHandler

\* syncstarted becomes stop.
EndHandler == handler.pc = "leaving" /\ handler' = NoHandler /\ OnlyHandler

-----------------------------------------------------------------------------
(* CancelSync, with stopSync in a goroutine that it waits for              *)

\* The switch of the wallet page and its kin: the goroutine of CancelSync starts.
ToggleSyncOff(c) ==
    /\ IsAt(c, "idle") /\ IsConnectedToNetwork /\ cancels < MaxCancels
    /\ cancels' = cancels + 1
    /\ syncShuttingDown' = TRUE /\ GoesTo(c, "cancel")
    /\ UNCHANGED <<syncFlags, chain, context, discovered, after, waiter, handler, rescanJobs,
                   rescans, history>>

\* resetSyncProgressData, before anything is stopped.
CancelSync(a) ==
    /\ IsAt(a, "cancel") /\ GoesTo(a, "stop")
    /\ syncing' = FALSE /\ synced' = FALSE /\ isRescan' = FALSE
    /\ Overlaps(a)
    /\ lateCurrent' = (lateCurrent \/ \E k \in Sessions : waiter[k].pc = "finish")
    /\ UNCHANGED <<chain, context, discovered, syncShuttingDown, after, waiter, handler,
                   rescanJobs, bounds, lateHandler, startFailed>>

\* "If wallet shutdown is in progress ignore the current request."
CheckUpstream(a) ==
    /\ IsAt(a, "stop") /\ GoesTo(a, IF upstreamStopping THEN "return" ELSE "upstream")
    /\ UNCHANGED <<syncFlags, chain, context, discovered, syncShuttingDown, after, waiter,
                   handler, rescanJobs, bounds, history>>

\* The upstream wallet and the chain client are stopped; another stopSync that asked
\* before it may be doing the same.
StopUpstream(a) ==
    /\ IsAt(a, "upstream") /\ GoesTo(a, "service")
    /\ upstreamStopping' = TRUE /\ clientStarted' = FALSE /\ attached' = FALSE
    /\ UNCHANGED <<syncFlags, chainService, chainServiceStopped, context, discovered,
                   syncShuttingDown, after, waiter, handler, rescanJobs, bounds, history>>

\* Wrong: the next sync is not told.
StopChainServiceSilently(a) ==
    /\ IsAt(a, "service") /\ GoesTo(a, "ctx") /\ chainService' = "stopped"
    /\ UNCHANGED <<syncFlags, chainServiceStopped, clientStarted, attached, upstreamStopping,
                   context, discovered, syncShuttingDown, after, waiter, handler, rescanJobs,
                   bounds, history>>

StopChainService(a) ==
    /\ IsAt(a, "service") /\ GoesTo(a, "ctx")
    /\ chainService' = "stopped" /\ chainServiceStopped' = TRUE
    /\ UNCHANGED <<syncFlags, clientStarted, attached, upstreamStopping, context, discovered,
                   syncShuttingDown, after, waiter, handler, rescanJobs, bounds, history>>

\* Wrong: the upstream wallet is not started again.
CancelContextOnly(a) ==
    /\ IsAt(a, "ctx") /\ upstreamStopping /\ GoesTo(a, "return")
    /\ cancelledCtx' = cancelledCtx \cup ({syncCtx} \ {NoCtx})
    /\ UNCHANGED <<syncFlags, chain, syncCtx, discovered, syncShuttingDown, after, waiter,
                   handler, rescanJobs, bounds, history>>

\* When all that is upstream has shut down, which a wallet that was started again does
\* not: cancelSync of the field, and the upstream wallet is started again for what needs
\* no sync.
CancelContext(a) ==
    /\ IsAt(a, "ctx") /\ upstreamStopping /\ GoesTo(a, "return")
    /\ upstreamStopping' = FALSE
    /\ cancelledCtx' = cancelledCtx \cup ({syncCtx} \ {NoCtx})
    /\ UNCHANGED <<syncFlags, chainService, chainServiceStopped, clientStarted, attached,
                   syncCtx, discovered, syncShuttingDown, after, waiter, handler, rescanJobs,
                   bounds, history>>

\* Wrong: a stopSync counts until its own CancelSync has returned.
EndCancelSyncAfterAll(a) ==
    /\ IsAt(a, "return") /\ Cancelling = {a}
    /\ syncShuttingDown' = FALSE
    /\ GoesTo(a, after[a]) /\ after' = [after EXCEPT ![a] = "idle"]
    /\ UNCHANGED <<syncFlags, chain, context, discovered, waiter, handler, rescanJobs, bounds,
                   history>>

\* The wait for every stopSync; then the switch may be used again.
EndCancelSync(a) ==
    /\ IsAt(a, "return") /\ InStopSync = {}
    /\ syncShuttingDown' = FALSE
    /\ GoesTo(a, after[a]) /\ after' = [after EXCEPT ![a] = "idle"]
    /\ UNCHANGED <<syncFlags, chain, context, discovered, waiter, handler, rescanJobs, bounds,
                   history>>

-----------------------------------------------------------------------------
(* reloadChainService, after the peers were changed                        *)

ReloadChainService(c) ==
    /\ IsAt(c, "idle") /\ cancels < MaxCancels /\ cancels' = cancels + 1
    /\ IF IsConnectedToNetwork
       THEN /\ GoesTo(c, "cancel") /\ after' = [after EXCEPT ![c] = "reload"]
            /\ UNCHANGED overlapped
       ELSE GoesTo(c, "renew") /\ Overlaps(c) /\ UNCHANGED after
    /\ UNCHANGED <<syncFlags, chain, context, discovered, syncShuttingDown, waiter, handler,
                   rescanJobs, rescans, lateCurrent, lateHandler, startFailed>>

\* The old service is stopped and a new one takes its place, or none does.  The sync
\* goes on if there was one.
RenewChainService(c) ==
    /\ pc[c] \in {"reload", "renew"}
    /\ \/ /\ chainService' = "ready" /\ chainServiceStopped' = FALSE
          /\ GoesTo(c, IF IsAt(c, "reload") THEN "check" ELSE "idle")
          /\ UNCHANGED startFailed
       \/ /\ chainService' = "stopped" /\ UNCHANGED chainServiceStopped
          /\ GoesTo(c, "idle") /\ startFailed' = TRUE
    /\ UNCHANGED <<syncFlags, clientStarted, attached, upstreamStopping, context, discovered,
                   syncShuttingDown, after, waiter, handler, rescanJobs, bounds, overlapped,
                   lateCurrent, lateHandler>>

-----------------------------------------------------------------------------
(* rescanBlocks and CancelRescan                                           *)

CheckForRescan(c) ==
    /\ IsAt(c, "idle") /\ rescans < MaxRescans
    /\ synced /\ ~isRescan
    /\ GoesTo(c, "submit") /\ rescans' = rescans + 1 /\ Overlaps(c)
    /\ UNCHANGED <<syncFlags, chain, context, discovered, syncShuttingDown, after, waiter,
                   handler, rescanJobs, cancels, lateCurrent, lateHandler, startFailed>>

SubmitRescan(c) ==
    /\ IsAt(c, "submit") /\ GoesTo(c, "idle")
    /\ isRescan' = TRUE /\ rescanJobs' = rescanJobs + 1
    /\ IF handler.pc = "none"
       THEN handler' = [pc |-> "listening", ctx |-> syncCtx] /\ UNCHANGED lateHandler
       ELSE UNCHANGED handler /\ lateHandler' = (lateHandler \/ handler.ctx \in cancelledCtx)
    /\ UNCHANGED <<syncing, synced, chain, context, discovered, syncShuttingDown, after,
                   waiter, bounds, overlapped, lateCurrent, startFailed>>

\* The goroutine of a job sees its channel closed, if ever; the flag may be that of
\* a later job by then.
RescanJobEnds ==
    /\ rescanJobs > 0 /\ rescanJobs' = rescanJobs - 1 /\ isRescan' = FALSE
    /\ UNCHANGED <<syncing, synced, chain, context, discovered, syncShuttingDown, pc, after,
                   waiter, handler, bounds, history>>

CancelRescan(c) ==
    /\ IsAt(c, "idle") /\ isRescan /\ isRescan' = FALSE
    /\ UNCHANGED <<syncing, synced, chain, context, discovered, syncShuttingDown, pc, after,
                   waiter, handler, rescanJobs, bounds, history>>

-----------------------------------------------------------------------------
\* Bound: what excuses the flags excuses them for good, and nothing new is called.
Excused == overlapped \/ lateCurrent \/ lateHandler \/ startFailed

Caller(c) ==
    /\ ~Excused
    /\ \/ CallSpvSync(c) \/ ToggleSyncOff(c) \/ ReloadChainService(c)
       \/ CheckForRescan(c) \/ CancelRescan(c)

ActorStep(a) ==
    \/ a \in Callers /\ (CheckNotSyncing(a) \/ ArmSession(a) \/ RenewChainService(a)
                         \/ SubmitRescan(a))
    \/ a \in Sessions /\ (StartWallet(a) \/ LoadForSync(a) \/ StartChainClient(a)
                          \/ StartHandler(a) \/ SynchronizeRPC(a))
    \/ CancelSync(a) \/ CheckUpstream(a) \/ StopUpstream(a) \/ StopChainService(a)
    \/ CancelContext(a) \/ EndCancelSync(a)

WaiterStep(k) ==
    \/ WaiterTicks(k) \/ PublishHeadersFetchComplete(k) \/ RescanFinished(k)
    \/ WaiterIsCancelled(k)

HandlerStep == HandlerNotified \/ HandlerIsCancelled \/ EndHandler

UtxoNext ==
    \/ \E c \in Callers : Caller(c)
    \/ \E a \in Actors : ActorStep(a)
    \/ \E k \in Sessions : WaiterStep(k)
    \/ HandlerStep \/ RescanJobEnds

\* A goroutine goes on, and a select that is offered the end of its context again
\* and again takes it in the end.
UtxoFairness ==
    /\ \A a \in Actors : WF_utxoVars(ActorStep(a))
    /\ \A k \in Sessions : WF_utxoVars(RescanFinished(k)) /\ SF_utxoVars(WaiterIsCancelled(k))
    /\ SF_utxoVars(HandlerIsCancelled) /\ WF_utxoVars(EndHandler)

UtxoSpec == UtxoInit /\ [][UtxoNext]_utxoVars
UtxoFairSpec == UtxoSpec /\ UtxoFairness

-----------------------------------------------------------------------------
(* Properties                                                              *)

\* Between calls the flags tell what runs.  While the wallet says that it is syncing
\* or synced its context lives, the chain service and the client run, the upstream
\* wallet follows them and a handler listens; otherwise nothing of a session is left
\* but its waiter and its handler, whose context has ended.  Only calls that overlap,
\* a waiter or a handler that outlasts its session, or a failed start excuse it.
FlagsTellWhatRuns ==
    ~Excused /\ Changing = {} =>
        IF syncing \/ synced
        THEN /\ syncCtx # NoCtx /\ syncCtx \notin cancelledCtx
             /\ chainService = "running" /\ clientStarted /\ attached
             /\ handler.pc = "listening"
        ELSE /\ ~isRescan /\ ~attached /\ ~clientStarted
             /\ syncCtx # NoCtx => syncCtx \in cancelledCtx /\ chainService # "running"

\* A switch that was disabled has a CancelSync on its way that will enable it, and an
\* upstream wallet that was stopped has a stopSync that will start it again: also when
\* several of them race, nobody leaves before the work of all is done.
StopsAreAttended ==
    /\ syncShuttingDown => Cancelling # {}
    /\ upstreamStopping => \E a \in Actors : pc[a] \in {"service", "ctx"}

\* A stopSync that asked too early whether the upstream wallet is shutting down may wait
\* for the end of one that another stopSync has started again.
Stranded == \E a \in Actors : IsAt(a, "ctx") /\ ~upstreamStopping

\* "Wait until the stopSync() goroutine ends": CancelSync returns and the switch that
\* was disabled is enabled again, also when CancelSync and the one of a sync that fails
\* to start wait for each other, unless one of them is stranded.
SwitchIsEnabledAgain == syncShuttingDown ~> (~syncShuttingDown \/ Stranded)

\* What a cancelled session started ends, or has joined the next session.
CancelledSessionEnds ==
    \A k \in Sessions :
        k \in cancelledCtx ~> /\ \A l \in Sessions : waiter[l].ctx # k
                              /\ handler.pc = "listening" => handler.ctx # k
=============================================================================
