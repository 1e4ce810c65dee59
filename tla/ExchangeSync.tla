---------------------------- MODULE ExchangeSync ----------------------------
(***************************************************************************)
(* Saved exchange orders and their synchronisation with the exchange       *)
(* servers: libwallet/instantswap.                                         *)
(*                                                                         *)
(* Sync runs in a goroutine of a page's refresh button and walks all saved *)
(* orders once for every server, a page at a time, newest first.  syncMu   *)
(* makes its check and its reset of cancelSync atomic.  Meanwhile the      *)
(* details page queries an order of its own, orders are created and, when  *)
(* their payment fails, deleted, and Shutdown may stop the sync.           *)
(*                                                                         *)
(* An order is its place in the order of creation; its status is a number  *)
(* that the exchange only raises.  A copy of an order is its status.       *)
(***************************************************************************)
EXTENDS Integers, FiniteSets

CONSTANTS
    MaxSyncs,           \* bound: how many times Sync is called
    MaxOrders,          \* bound: orders that are ever created
    OrdersAtStart,      \* of which there are this many at first
    LegacyOrders,       \* those were saved before orders had an ExchangeServer
    OddServer, EvenServer,  \* where the orders with odd and even numbers are
    MaxStatus,          \* bound: the last status of an order
    MaxEvents,          \* bound: what users and exchanges do beside the syncs
    PageLimit,          \* 20 in the code
    MaxSyncRetries      \* 3 in the code

Syncs == 1 .. MaxSyncs
Orders == 1 .. MaxOrders
Servers == {OddServer, EvenServer}
serverOf(o) == IF o % 2 = 1 THEN OddServer ELSE EvenServer
NoSync == 0
NotSaved == -1

ASSUME ExchangeSyncBounds ==
    /\ MaxSyncs \in Nat /\ MaxOrders \in Nat /\ OrdersAtStart \in 0 .. MaxOrders
    /\ LegacyOrders \subseteq 1 .. OrdersAtStart
    /\ MaxStatus \in Nat /\ MaxEvents \in Nat /\ PageLimit \in Nat \ {0}
    /\ MaxSyncRetries \in Nat \ {0}

VARIABLES
    cancelSync,         \* whose cancel function is in the field
    exchangeStopped,    \* Shutdown was called
    stoppedSyncs,       \* the syncs whose context was cancelled
    syncer,             \* where a sync is, and its local variables
    saved, legacy,      \* the database: statuses, orders without ExchangeServer
    remote,             \* the statuses at the exchanges
    viewed,             \* the order of the details page, with the page's copy
    events,             \* how many of those events there were
    asOf,               \* history: remote when a sync began
    skipped,            \* history: servers a sync could not set up
    overtaken,          \* history: orders whose status was saved over a later one,
                        \* until the latest one is saved
    deleted,            \* history: an order was deleted
    syncCrash           \* the program stopped: a nil function was called

database  == <<saved, legacy, overtaken, deleted>>
syncState == <<cancelSync, exchangeStopped, stoppedSyncs>>
exchangeVars == <<syncState, syncer, database, remote, viewed, events, asOf, skipped, syncCrash>>

SyncStates == {"unborn", "server", "page", "save", "ending", "done"}
Statuses == NotSaved .. MaxStatus

SyncRecord(pc) == [pc |-> pc, left |-> {}, server |-> OddServer, attempts |-> 0, offset |-> 0,
             page |-> << >>]

NothingViewed == [pc |-> "none", order |-> 1, copy |-> NotSaved]

ExchangeTypeOK ==
    /\ cancelSync \in Syncs \cup {NoSync} /\ stoppedSyncs \subseteq Syncs
    /\ \A s \in Syncs :
          /\ syncer[s].pc \in SyncStates
          /\ syncer[s].left \subseteq Servers /\ syncer[s].server \in Servers
          /\ syncer[s].attempts \in 0 .. MaxSyncRetries
          /\ syncer[s].offset \in 0 .. 2 * MaxOrders
          /\ DOMAIN syncer[s].page \subseteq Orders
          /\ \A o \in DOMAIN syncer[s].page : syncer[s].page[o] \in Statuses
    /\ saved \in [Orders -> Statuses] /\ legacy \subseteq Orders
    /\ remote \in [Orders -> Statuses]
    /\ events \in 0 .. MaxEvents
    /\ viewed = NothingViewed
       \/ viewed \in [pc : {"listed", "asked"}, order : Orders, copy : Statuses]

ExchangeInit ==
    /\ cancelSync = NoSync /\ stoppedSyncs = {} /\ exchangeStopped = FALSE
    /\ syncer = [s \in Syncs |-> SyncRecord("unborn")]
    /\ saved = [o \in Orders |-> IF o <= OrdersAtStart THEN 0 ELSE NotSaved]
    /\ remote = saved /\ legacy = LegacyOrders
    /\ viewed = NothingViewed
    /\ asOf = [s \in Syncs |-> [o \in Orders |-> NotSaved]]
    /\ skipped = [s \in Syncs |-> {}]
    /\ overtaken = {} /\ deleted = FALSE /\ syncCrash = FALSE /\ events = 0

-----------------------------------------------------------------------------
SyncUnderWay(s) == syncer[s].pc \notin {"unborn", "done"}

SavedOrders == {o \in Orders : saved[o] # NotSaved}
Newest(S) == CHOOSE o \in S : \A p \in S : p <= o

\* The orders of GetOrdersRaw(offset, PageLimit, newestFirst).
GetOrdersRaw(offset) ==
    {o \in SavedOrders :
        Cardinality({p \in SavedOrders : p > o}) \in offset .. offset + PageLimit - 1}

\* Update changes a record that is there, whatever has changed in it meanwhile.
updateOrder(o, status) ==
    /\ saved' = [saved EXCEPT ![o] = IF @ = NotSaved THEN @ ELSE status]
    /\ overtaken' = CASE saved[o] > status -> overtaken \cup {o}
                      [] saved[o] <= status /\ status = remote[o] -> overtaken \ {o}
                      [] OTHER -> overtaken

\* What the walk has to do with a page: the legacy orders, of which it has a copy
\* of the status, and the orders of its server.
CopyOf(orders, server) ==
    [o \in {p \in orders : p \in legacy \/ serverOf(p) = server} |->
        IF o \in legacy THEN saved[o] ELSE NotSaved]
Without(page, o) == [p \in DOMAIN page \ {o} |-> page[p]]
PageOf(s) == DOMAIN syncer[s].page

SyncAt(s, label) == syncer[s].pc = label
SyncBecomes(s, record) == syncer' = [syncer EXCEPT ![s] = record]
SyncGoes(s, label) == syncer' = [syncer EXCEPT ![s].pc = label]

\* Wrong: the attempts have no limit.
RetryForever(s) ==
    SyncBecomes(s, [SyncRecord("page") EXCEPT !.left = syncer[s].left,
                 !.server = syncer[s].server, !.attempts = syncer[s].attempts + 1])

\* After 15 seconds the server's orders are walked again, or the sync gives up.
Retry(s) ==
    IF syncer[s].attempts = MaxSyncRetries THEN SyncBecomes(s, SyncRecord("ending"))
    ELSE SyncBecomes(s, [SyncRecord("page") EXCEPT !.left = syncer[s].left,
                      !.server = syncer[s].server, !.attempts = syncer[s].attempts + 1])
OnlySyncer == UNCHANGED <<syncState, database, remote, viewed, events, asOf, skipped, syncCrash>>

\* Wrong: the field is not looked at.
SyncUnchecked(s) ==
    /\ SyncAt(s, "unborn") /\ \A r \in Syncs : r < s => ~SyncAt(r, "unborn")
    /\ cancelSync' = s
    /\ SyncBecomes(s, [SyncRecord("server") EXCEPT !.left = Servers])
    /\ asOf' = [asOf EXCEPT ![s] = remote]
    /\ UNCHANGED <<exchangeStopped, stoppedSyncs, database, remote, viewed, events,
                   skipped, syncCrash>>

\* "already syncing", or the sync begins.  The goroutine of a button that was clicked
\* may come to it after Shutdown, which leaves nothing that would refuse it.
Sync(s) ==
    /\ SyncAt(s, "unborn") /\ \A r \in Syncs : r < s => ~SyncAt(r, "unborn")
    /\ IF cancelSync # NoSync
       THEN SyncGoes(s, "done") /\ UNCHANGED <<cancelSync, asOf>>
       ELSE /\ cancelSync' = s
            /\ SyncBecomes(s, [SyncRecord("server") EXCEPT !.left = Servers])
            /\ asOf' = [asOf EXCEPT ![s] = remote]
    /\ UNCHANGED <<exchangeStopped, stoppedSyncs, database, remote, viewed, events,
                   skipped, syncCrash>>

\* The only check of the context of the sync itself.
ExitStoppedSync(s) ==
    /\ SyncAt(s, "server") /\ syncer[s].left # {} /\ s \in stoppedSyncs
    /\ SyncBecomes(s, SyncRecord("ending")) /\ OnlySyncer

\* NewExchangeServer fails and the server is left out, or its orders come next.
BeginServer(s) ==
    /\ SyncAt(s, "server") /\ s \notin stoppedSyncs
    /\ \E server \in syncer[s].left :
          \/ /\ SyncBecomes(s, [syncer[s] EXCEPT !.left = @ \ {server}])
             /\ skipped' = [skipped EXCEPT ![s] = @ \cup {server}]
          \/ /\ SyncBecomes(s, [SyncRecord("page") EXCEPT !.left = syncer[s].left \ {server},
                                                !.server = server, !.attempts = 1])
             /\ UNCHANGED skipped
    /\ UNCHANGED <<syncState, database, remote, viewed, events, asOf, syncCrash>>

\* The time of the sync is saved and the listeners are told.
CompleteSync(s) ==
    /\ SyncAt(s, "server") /\ syncer[s].left = {}
    /\ SyncBecomes(s, SyncRecord("ending")) /\ OnlySyncer

\* Wrong: a page that is not full is taken for the last one.
NextPageEndsEarly(s) ==
    /\ SyncAt(s, "page") /\ PageOf(s) = {}
    /\ LET orders == GetOrdersRaw(syncer[s].offset) IN
       \/ Retry(s)
       \/ Cardinality(SavedOrders) <= syncer[s].offset + PageLimit
          /\ SyncBecomes(s, [SyncRecord("server") EXCEPT !.left = syncer[s].left])
       \/ /\ orders # {}
          /\ syncer' = [syncer EXCEPT ![s].page = CopyOf(orders, syncer[s].server),
                                      ![s].offset = @ + Cardinality(orders)]
    /\ OnlySyncer

\* A page of orders, the end of the walk, or an error of the database.
NextPage(s) ==
    /\ SyncAt(s, "page") /\ PageOf(s) = {}
    /\ LET orders == GetOrdersRaw(syncer[s].offset) IN
       \/ Retry(s)
       \/ orders = {} /\ SyncBecomes(s, [SyncRecord("server") EXCEPT !.left = syncer[s].left])
       \/ /\ orders # {}
          /\ syncer' = [syncer EXCEPT ![s].page = CopyOf(orders, syncer[s].server),
                                      ![s].offset = @ + Cardinality(orders)]
    /\ OnlySyncer

\* A legacy order is saved again, from the page's copy, with its server.
SaveLegacyOrder(s) ==
    /\ SyncAt(s, "page") /\ PageOf(s) # {}
    /\ LET o == Newest(PageOf(s)) IN
       /\ syncer[s].page[o] # NotSaved
       /\ updateOrder(o, syncer[s].page[o]) /\ legacy' = legacy \ {o}
       /\ syncer' = [syncer EXCEPT ![s].page = IF serverOf(o) = syncer[s].server
                          THEN [@ EXCEPT ![o] = NotSaved] ELSE Without(@, o)]
    /\ UNCHANGED <<syncState, deleted, remote, viewed, events, asOf, skipped, syncCrash>>

\* GetOrderInfo up to the answer of the server: an order that was deleted is an
\* error, as is a request that fails.
AskOrderInfo(s) ==
    /\ SyncAt(s, "page") /\ PageOf(s) # {}
    /\ LET o == Newest(PageOf(s)) IN
       /\ syncer[s].page[o] = NotSaved
       /\ \/ Retry(s)
          \/ /\ saved[o] # NotSaved
             /\ syncer' = [syncer EXCEPT ![s].pc = "save", ![s].page[o] = remote[o]]
    /\ OnlySyncer

SaveOrderInfo(s) ==
    /\ SyncAt(s, "save")
    /\ LET o == Newest(PageOf(s)) IN
       /\ updateOrder(o, syncer[s].page[o])
       /\ IF saved[o] = NotSaved THEN Retry(s)
          ELSE syncer' = [syncer EXCEPT ![s].pc = "page", ![s].page = Without(@, o)]
    /\ UNCHANGED <<syncState, legacy, deleted, remote, viewed, events, asOf, skipped, syncCrash>>

\* The deferred function: whatever is in the field now is called and cleared.
EndSync(s) ==
    /\ SyncAt(s, "ending")
    /\ syncCrash' = (cancelSync = NoSync)
    /\ stoppedSyncs' = stoppedSyncs \cup ({cancelSync} \ {NoSync})
    /\ cancelSync' = NoSync
    /\ SyncBecomes(s, SyncRecord("done"))
    /\ asOf' = [asOf EXCEPT ![s] = [o \in Orders |-> NotSaved]]
    /\ skipped' = [skipped EXCEPT ![s] = {}]
    /\ UNCHANGED <<exchangeStopped, database, remote, viewed, events>>

\* Shutdown of the assets manager, when the application ends or switches to another
\* network.
StopSync ==
    /\ ~exchangeStopped /\ exchangeStopped' = TRUE
    /\ stoppedSyncs' = stoppedSyncs \cup ({cancelSync} \ {NoSync})
    /\ cancelSync' = NoSync
    /\ UNCHANGED <<syncer, database, remote, viewed, events, asOf, skipped, syncCrash>>

-----------------------------------------------------------------------------
(* The confirm modal, the details page and the exchange                    *)

Event == events < MaxEvents /\ events' = events + 1

CreateOrder ==
    /\ Event
    /\ \E o \in Orders :
          /\ remote[o] = NotSaved /\ \A p \in Orders : p < o => remote[p] # NotSaved
          /\ saved' = [saved EXCEPT ![o] = 0] /\ remote' = [remote EXCEPT ![o] = 0]
    /\ UNCHANGED <<syncState, syncer, legacy, overtaken, deleted, viewed, asOf, skipped,
                   syncCrash>>

\* The payment of an order that was just created failed.
DeleteOrder ==
    /\ Event
    /\ \E o \in SavedOrders :
          o > OrdersAtStart /\ saved' = [saved EXCEPT ![o] = NotSaved]
    /\ deleted' = TRUE
    /\ UNCHANGED <<syncState, syncer, legacy, overtaken, remote, viewed, asOf, skipped,
                   syncCrash>>

ExchangeAdvances ==
    /\ Event
    /\ \E o \in Orders : remote[o] \in 0 .. MaxStatus - 1 /\ remote' = [remote EXCEPT ![o] = @ + 1]
    /\ UNCHANGED <<syncState, syncer, database, viewed, asOf, skipped, syncCrash>>

\* The order history shows a legacy order.
ListOrder ==
    /\ Event
    /\ viewed.pc = "none"
    /\ \E o \in legacy : viewed' = [pc |-> "listed", order |-> o, copy |-> saved[o]]
    /\ UNCHANGED <<syncState, syncer, database, remote, asOf, skipped, syncCrash>>

\* NewOrderDetailsPage saves it again, from the copy of the list.
OpenLegacyOrder ==
    /\ viewed.pc = "listed" /\ viewed' = NothingViewed
    /\ updateOrder(viewed.order, viewed.copy) /\ legacy' = legacy \ {viewed.order}
    /\ UNCHANGED <<syncState, syncer, deleted, remote, events, asOf, skipped, syncCrash>>

\* GetOrderInfo of the page; a failure is logged.
AskViewedOrder ==
    /\ Event
    /\ viewed.pc = "none"
    /\ \E o \in SavedOrders \ legacy :
          viewed' = [pc |-> "asked", order |-> o, copy |-> remote[o]]
    /\ UNCHANGED <<syncState, syncer, database, remote, asOf, skipped, syncCrash>>

SaveViewedOrder ==
    /\ viewed.pc = "asked" /\ viewed' = NothingViewed
    /\ updateOrder(viewed.order, viewed.copy)
    /\ UNCHANGED <<syncState, syncer, legacy, deleted, remote, events, asOf, skipped, syncCrash>>

-----------------------------------------------------------------------------
SyncStep(s) ==
    \/ ExitStoppedSync(s) \/ BeginServer(s) \/ CompleteSync(s) \/ NextPage(s)
    \/ SaveLegacyOrder(s) \/ AskOrderInfo(s) \/ SaveOrderInfo(s) \/ EndSync(s)

ExchangeNext ==
    /\ ~syncCrash
    /\ \/ \E s \in Syncs : Sync(s) \/ SyncStep(s)
       \/ StopSync
       \/ CreateOrder \/ DeleteOrder \/ ExchangeAdvances
       \/ ListOrder \/ OpenLegacyOrder \/ AskViewedOrder \/ SaveViewedOrder

ExchangeSpec == ExchangeInit /\ [][ExchangeNext]_exchangeVars

-----------------------------------------------------------------------------
(* Properties                                                              *)

\* A sync that completes has saved a status of every order at least as late as
\* the one the exchange had when the sync began: whatever orders are created
\* meanwhile, unless one was deleted (the pages shift), its server could not be
\* set up, or someone saved an older answer over it.
CompletedSyncIsFresh ==
    [][\A s \in Syncs : CompleteSync(s) =>
          \A o \in SavedOrders :
             (~deleted /\ serverOf(o) \notin skipped[s] /\ o \notin overtaken)
                => saved[o] >= asOf[s][o]]_exchangeVars

\* One sync at a time, and IsSyncing tells of the one that is under way, until Shutdown:
\* the check and the reset of cancelSync are enough for that, though the deferred
\* function resets the field whatever is in it.
Service == INSTANCE OneAtATime WITH
    Runs <- Syncs, NoRun <- NoSync,
    running <- {s \in Syncs : SyncUnderWay(s)}, shown <- cancelSync, stopped <- exchangeStopped

ImplementsService == Service!ServiceSpec

\* Only a sync that Shutdown stopped finds no function to call at its end.
OnlyShutdownCrashesSync == syncCrash => exchangeStopped
=============================================================================
