------------------------------ MODULE Politeia ------------------------------
(***************************************************************************)
(* The synchronisation of the proposals of the Politeia server:            *)
(* libwallet/internal/politeia, driven by the governance pages.            *)
(*                                                                         *)
(* Sync runs in a goroutine of a page until it is complete or stopped.     *)
(* mu is only ever read-locked and the deferred reset of cancelSync takes  *)
(* no lock, so the check, the publication and the reset are steps of their *)
(* own, as are those of StopSync, and the context in the shared field is   *)
(* the one that is asked.  Meanwhile the details page, or the vote modal,  *)
(* puts a context into an empty field and fetches a description, or the    *)
(* votes; the description is saved with the record it belongs to.          *)
(*                                                                         *)
(* A proposal is its place in the order of publication; of its record the  *)
(* status and the identity in the database are kept; the category is that  *)
(* of the status (in the code it may be older, when a proposal changes     *)
(* between the inventory and the fetch).  A request fails while the server *)
(* is down, and only then.  That getClient finds no client and makes one   *)
(* is one step: a second client, made by another goroutine in between, and *)
(* the panic of a sync that meets it without its policy are left out.      *)
(***************************************************************************)
EXTENDS Integers, FiniteSets

CONSTANTS
    MaxProposalSyncs,   \* bound: how many times Sync is called
    MaxProposals,       \* bound: the proposals of the server
    ProposalListPageSize,
    MaxServerEvents,    \* bound: changes at the server, outages included
    MaxViews            \* bound: descriptions or votes that are fetched

ProposalSyncs == 1 .. MaxProposalSyncs
Tokens == 1 .. MaxProposals
NoProposalSync == 0
Background == -1        \* the context of a page, which nobody ends

ASSUME PoliteiaBounds ==
    /\ MaxProposalSyncs \in Nat /\ MaxProposals \in Nat /\ MaxServerEvents \in Nat
    /\ MaxViews \in Nat /\ ProposalListPageSize \in Nat \ {0}

VARIABLES
    cancelProposals, politeiaCtx,   \* the sync whose functions are in the fields
    endedCtx,                       \* the contexts that were cancelled
    client,                         \* "nil", or what its policy is
    worker,                         \* where a sync is, and its local variables
    record,                         \* the database
    viewer,                         \* the details page, with its copy of a record
    inventory, serverUp,            \* the server: the status of every proposal
    serverEvents, views,            \* counted for the bounds
    stopper,                        \* where Shutdown is in StopSync
    nilStop,                        \* the program stopped: a nil function was called
    begunAt,                        \* history: inventory when a sync began
    raced,                          \* history: two syncs passed the check
    shifted,                        \* history: a sync found a proposal abandoned
    outdated                        \* history: records saved from an older copy, until
                                    \* the server's status is saved

politeiaFields == <<cancelProposals, politeiaCtx, endedCtx>>
serverState == <<inventory, serverUp, serverEvents>>
records == <<record, outdated, shifted>>
stopping == <<stopper, nilStop>>
politeiaVars == <<politeiaFields, client, worker, records, viewer, serverState, views, stopping,
                  begunAt, raced>>

ProposalStatuses == {"none", "pre", "active", "finished", "abandoned"}
Rank == [none |-> 0, pre |-> 1, active |-> 2, abandoned |-> 2, finished |-> 3]
Later(status) == CASE status = "none"   -> {"pre"}
                   [] status = "pre"    -> {"active", "abandoned"}
                   [] status = "active" -> {"finished"}
                   [] OTHER             -> {}
NoRecord == [status |-> "none", id |-> 0]
Records  == [status : ProposalStatuses, id : 0 .. MaxProposalSyncs]
NotSyncing(pc) == [pc |-> pc, offset |-> 0, page |-> << >>, fresh |-> << >>, fetch |-> {}]
NothingOpen == [pc |-> "none", token |-> 1, copy |-> NoRecord]

PoliteiaTypeOK ==
    /\ cancelProposals \in ProposalSyncs \cup {NoProposalSync}
    /\ politeiaCtx \in ProposalSyncs \cup {NoProposalSync, Background}
    /\ endedCtx \subseteq ProposalSyncs
    /\ client \in {"nil", "noPolicy", "emptyPolicy", "ready"}
    /\ \A s \in ProposalSyncs :
          /\ worker[s].pc \in {"unborn", "publish", "top", "policy", "updates", "page", "ask",
                               "update", "inventory", "fetch", "save", "ending", "done"}
          /\ worker[s].offset \in 0 .. MaxProposals
          /\ DOMAIN worker[s].page \subseteq Tokens /\ worker[s].fetch \subseteq Tokens
          /\ \A t \in DOMAIN worker[s].page : worker[s].page[t] \in Records
    /\ record \in [Tokens -> Records] /\ inventory \in [Tokens -> ProposalStatuses]
    /\ viewer.pc \in {"none", "assign", "read", "client", "policy", "asked"}
    /\ viewer.copy \in Records /\ outdated \subseteq Tokens
    /\ serverEvents \in 0 .. MaxServerEvents /\ views \in 0 .. MaxViews
    /\ stopper \in {"idle", "call", "clear", "done"} /\ nilStop \in BOOLEAN
    /\ serverUp \in BOOLEAN /\ raced \in BOOLEAN /\ shifted \in BOOLEAN

\* The database is new, or what an earlier run saved before a vote ended: a bound.
Published == [t \in Tokens |-> IF t = 1 THEN "active" ELSE "pre"]
SavedAs(status) == [status |-> status, id |-> 0]

PoliteiaInit ==
    /\ cancelProposals = NoProposalSync /\ politeiaCtx = NoProposalSync /\ endedCtx = {}
    /\ client = "nil" /\ viewer = NothingOpen
    /\ worker = [s \in ProposalSyncs |-> NotSyncing("unborn")]
    /\ \/ record = [t \in Tokens |-> NoRecord] /\ inventory = Published
       \/ /\ record = [t \in Tokens |-> SavedAs(Published[t])]
          /\ inventory = [Published EXCEPT ![1] = "finished"]
    /\ serverUp \in BOOLEAN
    /\ serverEvents \in 0 .. MaxServerEvents /\ views \in 0 .. MaxViews   \* used of the bounds
    /\ stopper = "idle" /\ nilStop = FALSE
    /\ begunAt = [s \in ProposalSyncs |-> [t \in Tokens |-> "none"]]
    /\ raced = FALSE /\ shifted = FALSE /\ outdated = {}

-----------------------------------------------------------------------------
WorkerAt(s, label) == worker[s].pc = label
WorkerGoes(s, label) == worker' = [worker EXCEPT ![s].pc = label]
WorkerStarts(s, label) == worker' = [worker EXCEPT ![s] = NotSyncing(label)]
TryAgain(s) == WorkerStarts(s, "top")      \* after some seconds
WorkerActive(s) == worker[s].pc \notin {"unborn", "publish", "done"}
SyncEnded == politeiaCtx \in endedCtx
OnlyWorker == UNCHANGED <<politeiaFields, client, records, viewer, serverState, views, stopping,
                          begunAt, raced>>

\* "sync is already in progress", or on.
CheckNoProposalSync(s) ==
    /\ WorkerAt(s, "unborn") /\ \A r \in ProposalSyncs : r < s => ~WorkerAt(r, "unborn")
    /\ WorkerGoes(s, IF cancelProposals = NoProposalSync THEN "publish" ELSE "done")
    /\ OnlyWorker

PublishProposalSync(s) ==
    /\ WorkerAt(s, "publish") /\ WorkerStarts(s, "top")
    /\ cancelProposals' = s /\ politeiaCtx' = s
    /\ begunAt' = [begunAt EXCEPT ![s] = inventory]
    /\ raced' = (raced \/ \E r \in ProposalSyncs : WorkerActive(r))
    /\ UNCHANGED <<endedCtx, client, records, viewer, serverState, views, stopping>>

\* Wrong: the sync leaves its mark.
EndProposalSyncMarked(s) == WorkerAt(s, "ending") /\ WorkerGoes(s, "done") /\ OnlyWorker

\* The deferred function: whatever is in the field now.
EndProposalSync(s) ==
    /\ WorkerAt(s, "ending") /\ WorkerGoes(s, "done") /\ cancelProposals' = NoProposalSync
    /\ begunAt' = [begunAt EXCEPT ![s] = [t \in Tokens |-> "none"]]
    /\ UNCHANGED <<politeiaCtx, endedCtx, client, records, viewer, serverState, views,
                   stopping, raced>>

\* StopSync, called by Shutdown of the assets manager: the field is read twice, under
\* a lock all may share.
CheckBeforeStopSync ==
    /\ stopper = "idle"
    /\ stopper' = IF cancelProposals = NoProposalSync THEN "done" ELSE "call"
    /\ UNCHANGED <<politeiaFields, client, worker, records, viewer, serverState, views, nilStop,
                   begunAt, raced>>

CallCancelSync ==
    /\ stopper = "call" /\ stopper' = "clear"
    /\ endedCtx' = endedCtx \cup ({cancelProposals} \ {NoProposalSync})
    /\ nilStop' = (cancelProposals = NoProposalSync)
    /\ UNCHANGED <<cancelProposals, politeiaCtx, client, worker, records, viewer, serverState,
                   views, begunAt, raced>>

ClearCancelSync ==
    /\ stopper = "clear" /\ stopper' = "done"
    /\ cancelProposals' = NoProposalSync
    /\ UNCHANGED <<politeiaCtx, endedCtx, client, worker, records, viewer, serverState, views,
                   nilStop, begunAt, raced>>

StopProposalSync == CheckBeforeStopSync \/ CallCancelSync \/ ClearCancelSync

-----------------------------------------------------------------------------
(* getClient: a client that is there is not asked what it has              *)

ExitProposalSync(s) ==
    /\ WorkerAt(s, "top") /\ SyncEnded /\ WorkerStarts(s, "ending") /\ OnlyWorker

\* serverVersion of a new client, which stays when that fails.
GetClient(s) ==
    /\ WorkerAt(s, "top") /\ ~SyncEnded
    /\ IF client = "nil"
       THEN /\ client' = "noPolicy"
            /\ IF serverUp THEN WorkerGoes(s, "policy") ELSE TryAgain(s)
       ELSE UNCHANGED client /\ WorkerGoes(s, "updates")
    /\ UNCHANGED <<politeiaFields, records, viewer, serverState, views, stopping, begunAt, raced>>

\* serverPolicy: an empty one is kept when it fails.
ServerPolicy(s) ==
    /\ WorkerAt(s, "policy")
    /\ IF serverUp THEN client' = "ready" /\ WorkerGoes(s, "updates")
       ELSE client' = "emptyPolicy" /\ TryAgain(s)
    /\ UNCHANGED <<politeiaFields, records, viewer, serverState, views, stopping, begunAt, raced>>

\* "politeia server policy not set".
RefuseWithoutPolicy(s) ==
    /\ WorkerAt(s, "updates") /\ client = "noPolicy" /\ TryAgain(s) /\ OnlyWorker

CheckForUpdates(s) ==
    /\ WorkerAt(s, "updates") /\ client # "noPolicy" /\ WorkerGoes(s, "page") /\ OnlyWorker

-----------------------------------------------------------------------------
(* Known proposals, newest first and a page at a time                      *)

Limit == IF client = "ready" THEN ProposalListPageSize ELSE 0      \* 0 is no limit
Listed == {t \in Tokens : record[t].status \notin {"none", "abandoned"}}
PageFrom(offset) ==
    {t \in Listed : LET place == Cardinality({u \in Listed : u > t}) IN
                    place >= offset /\ (Limit = 0 \/ place < offset + Limit)}

NextProposalPage(s) ==
    /\ WorkerAt(s, "page")
    /\ LET page == PageFrom(worker[s].offset) IN
       IF SyncEnded THEN TryAgain(s)
       ELSE IF page = {} THEN WorkerStarts(s, "inventory")
       ELSE worker' = [worker EXCEPT ![s].pc = "ask", ![s].offset = @ + Cardinality(page),
                                     ![s].page = [t \in page |-> record[t]]]
    /\ OnlyWorker

\* Wrong: a page that could not be asked for is left for the next sync.
AskKnownProposalsOnce(s) ==
    /\ WorkerAt(s, "ask")
    /\ IF serverUp
       THEN worker' = [worker EXCEPT ![s].pc = "update",
                                     ![s].fresh = [t \in DOMAIN worker[s].page |-> inventory[t]]]
       ELSE WorkerGoes(s, "page")
    /\ OnlyWorker

\* batchProposals and batchVoteSummary.
AskKnownProposals(s) ==
    /\ WorkerAt(s, "ask")
    /\ IF serverUp
       THEN worker' = [worker EXCEPT ![s].pc = "update",
                                     ![s].fresh = [t \in DOMAIN worker[s].page |-> inventory[t]]]
       ELSE TryAgain(s)
    /\ OnlyWorker

\* The server's answer has been saved: an older copy is made good.
MadeGood(t, status) == IF status = inventory[t] THEN outdated \ {t} ELSE outdated

\* updateProposalDetails.  A record that another sync has saved anew has another
\* identity, and is not found.
UpdateProposalDetails(s) ==
    /\ WorkerAt(s, "update")
    /\ IF DOMAIN worker[s].page = {}
       THEN worker' = [worker EXCEPT ![s].pc = "page", ![s].fresh = << >>] /\ UNCHANGED records
       ELSE \E t \in DOMAIN worker[s].page :
            LET old == worker[s].page[t]
                new == worker[s].fresh[t]
                rest == [u \in DOMAIN worker[s].page \ {t} |-> worker[s].page[u]]
            IN CASE old.status = new ->
                      worker' = [worker EXCEPT ![s].page = rest] /\ UNCHANGED records
                 [] old.status # new /\ record[t].id # old.id ->
                      TryAgain(s) /\ UNCHANGED records
                 [] OTHER ->
                      /\ worker' = [worker EXCEPT ![s].page = rest]
                      /\ record' = [record EXCEPT ![t].status = new]
                      /\ shifted' = (shifted \/ new = "abandoned")
                      /\ outdated' = MadeGood(t, new)
    /\ UNCHANGED <<politeiaFields, client, viewer, serverState, views, stopping, begunAt, raced>>

-----------------------------------------------------------------------------
(* New proposals                                                           *)

\* The tokens of the database, then tokenInventory: what is not saved is to be
\* fetched.
HandleNewProposals(s) ==
    /\ WorkerAt(s, "inventory")
    /\ IF serverUp
       THEN LET new == {t \in Tokens : record[t] = NoRecord /\ inventory[t] # "none"} IN
            worker' = [worker EXCEPT ![s] = [NotSyncing("fetch") EXCEPT !.fetch = new]]
       ELSE TryAgain(s)
    /\ OnlyWorker

\* Wrong: a sync that was stopped is not asked for.
FetchBatchProposalsUnasked(s) ==
    /\ WorkerAt(s, "fetch") /\ worker[s].fetch # {}
    /\ IF ~serverUp THEN TryAgain(s)
       ELSE /\ client = "ready"
            /\ \E t \in worker[s].fetch :
                  worker' = [worker EXCEPT ![s].pc = "save",
                                           ![s].fresh = [u \in {t} |-> inventory[u]]]
    /\ OnlyWorker

\* The batches are fetched one after the other; one of several proposals is the same
\* as several of one.  A batch of an empty policy has none: it is asked for ever.
FetchBatchProposals(s) ==
    /\ WorkerAt(s, "fetch") /\ worker[s].fetch # {}
    /\ IF SyncEnded \/ ~serverUp THEN TryAgain(s)
       ELSE /\ client = "ready"
            /\ \E t \in worker[s].fetch :
                  worker' = [worker EXCEPT ![s].pc = "save",
                                           ![s].fresh = [u \in {t} |-> inventory[u]]]
    /\ OnlyWorker

\* saveOrOverwiteProposal: the record that is there is deleted.  A proposal that was
\* fetched gets an identity of its own; a copy of a record has that of the record.
Overwrite(t, status, id) == record' = [record EXCEPT ![t] = [status |-> status, id |-> id]]

SaveFetchedProposal(s) ==
    /\ WorkerAt(s, "save")
    /\ \E t \in DOMAIN worker[s].fresh :
          IF SyncEnded THEN TryAgain(s) /\ UNCHANGED records
          ELSE /\ Overwrite(t, worker[s].fresh[t], s)
               /\ worker' = [worker EXCEPT ![s].pc = "fetch", ![s].fresh = << >>,
                               ![s].fetch = @ \ {t}]
               /\ UNCHANGED <<outdated, shifted>>
    /\ UNCHANGED <<politeiaFields, client, viewer, serverState, views, stopping, begunAt, raced>>

\* The time of the sync is saved and publishSynced is called.
CompleteProposalSync(s) ==
    /\ WorkerAt(s, "fetch") /\ worker[s].fetch = {} /\ WorkerStarts(s, "ending")
    /\ OnlyWorker

-----------------------------------------------------------------------------
(* FetchProposalDescription and ProposalVoteDetailsRaw                     *)

ViewerGoes(label) == viewer' = [viewer EXCEPT !.pc = label]
OnlyViewer == UNCHANGED <<politeiaFields, client, worker, records, serverState, views, stopping,
                          begunAt, raced>>

\* The context in the field now is asked, and the record read of a proposal that was
\* listed.
Reads ==
    \E t \in Tokens :
        /\ record[t] # NoRecord
        /\ viewer' = IF SyncEnded THEN NothingOpen
                     ELSE [pc |-> IF client = "nil" THEN "client" ELSE "asked", token |-> t,
                           copy |-> record[t]]

\* Before the first sync there is no context to ask.
OpenProposal ==
    /\ viewer.pc = "none" /\ views < MaxViews /\ views' = views + 1
    /\ \E t \in Tokens : record[t] # NoRecord
    /\ IF politeiaCtx = NoProposalSync THEN ViewerGoes("assign") ELSE Reads
    /\ UNCHANGED <<politeiaFields, client, worker, records, serverState, stopping, begunAt, raced>>

\* By now a sync may have published its own.
AssignBackground ==
    /\ viewer.pc = "assign" /\ ViewerGoes("read")
    /\ politeiaCtx' = Background
    /\ UNCHANGED <<cancelProposals, endedCtx, client, worker, records, serverState, views,
                   stopping, begunAt, raced>>

ReadProposal == viewer.pc = "read" /\ Reads /\ OnlyViewer

\* getClient, as in a sync; an error closes the view.
GetViewersClient ==
    /\ viewer.pc = "client"
    /\ IF client = "nil"
       THEN /\ client' = "noPolicy"
            /\ IF serverUp THEN ViewerGoes("policy") ELSE viewer' = NothingOpen
       ELSE UNCHANGED client /\ ViewerGoes("asked")
    /\ UNCHANGED <<politeiaFields, worker, records, serverState, views, stopping, begunAt, raced>>

ViewersServerPolicy ==
    /\ viewer.pc = "policy"
    /\ IF serverUp THEN client' = "ready" /\ ViewerGoes("asked")
       ELSE client' = "emptyPolicy" /\ viewer' = NothingOpen
    /\ UNCHANGED <<politeiaFields, worker, records, serverState, views, stopping, begunAt, raced>>

\* The description has come: the copy of the record is saved with it.  Or there is
\* none, or it was the votes that were asked for.
SaveDescription ==
    /\ viewer.pc = "asked" /\ viewer' = NothingOpen
    /\ LET t == viewer.token IN
       \/ UNCHANGED records
       \/ /\ serverUp
          /\ Overwrite(t, viewer.copy.status, viewer.copy.id)
          /\ outdated' = IF viewer.copy.status # record[t].status THEN outdated \cup {t}
                         ELSE outdated
          /\ UNCHANGED shifted
    /\ UNCHANGED <<politeiaFields, client, worker, serverState, views, stopping, begunAt, raced>>

ViewerStep ==
    \/ AssignBackground \/ ReadProposal \/ GetViewersClient \/ ViewersServerPolicy
    \/ SaveDescription

-----------------------------------------------------------------------------
(* The server                                                              *)

ServerEvent == serverEvents < MaxServerEvents /\ serverEvents' = serverEvents + 1

ProposalMovesOn ==
    /\ ServerEvent
    /\ \E t \in Tokens : \E status \in Later(inventory[t]) :
          inventory' = [inventory EXCEPT ![t] = status]
    /\ UNCHANGED <<politeiaFields, client, worker, records, viewer, serverUp, views, stopping,
                   begunAt, raced>>

ServerGoesDown ==
    /\ ServerEvent /\ serverUp /\ serverUp' = FALSE
    /\ UNCHANGED <<politeiaFields, client, worker, records, viewer, inventory, views, stopping,
                   begunAt, raced>>

ServerComesUp ==
    /\ ~serverUp /\ serverUp' = TRUE
    /\ UNCHANGED <<politeiaFields, client, worker, records, viewer, inventory, serverEvents,
                   views, stopping, begunAt, raced>>

-----------------------------------------------------------------------------
WorkerStep(s) ==
    \/ PublishProposalSync(s) \/ EndProposalSync(s)
    \/ ExitProposalSync(s) \/ GetClient(s) \/ ServerPolicy(s) \/ RefuseWithoutPolicy(s)
    \/ CheckForUpdates(s) \/ NextProposalPage(s) \/ AskKnownProposals(s)
    \/ UpdateProposalDetails(s) \/ HandleNewProposals(s) \/ FetchBatchProposals(s)
    \/ SaveFetchedProposal(s) \/ CompleteProposalSync(s)

\* Bound: a race excuses everything, and nothing new begins after one.
PoliteiaNext ==
    /\ ~nilStop
    /\ \/ \E s \in ProposalSyncs : WorkerStep(s)
       \/ ViewerStep \/ ServerComesUp \/ StopProposalSync
       \/ ~raced /\ \/ \E s \in ProposalSyncs : CheckNoProposalSync(s)
                    \/ OpenProposal \/ ProposalMovesOn \/ ServerGoesDown

\* A goroutine goes on.  Nothing is assumed of the server.
PoliteiaFairness == \A s \in ProposalSyncs : WF_politeiaVars(~nilStop /\ WorkerStep(s))

PoliteiaSpec == PoliteiaInit /\ [][PoliteiaNext]_politeiaVars

-----------------------------------------------------------------------------
(* Properties                                                              *)

\* A sync that completes has saved, of every proposal, a status at least as late as
\* the server's when the sync began, whatever failed and was tried again; unless two
\* syncs raced, the pages shifted when a proposal was found abandoned, or the details
\* page saved an older copy.
CompletedProposalSyncIsFresh ==
    [][\A s \in ProposalSyncs : CompleteProposalSync(s) /\ ~raced /\ ~shifted =>
          \A t \in Tokens \ outdated :
             Rank[record[t].status] >= Rank[begunAt[s][t]]]_politeiaVars

\* IsSyncing tells of the one sync that is under way, unless two raced or Shutdown
\* has stopped it.
OneProposalSync ==
    ~raced /\ stopper = "idle" =>
        \A s \in ProposalSyncs : WorkerActive(s) <=> cancelProposals = s

\* A sync that was stopped ends, wherever it was, as long as the context it asks for
\* is its own.  It is not, and the sync may go on for ever, when a later sync or a
\* page that had found the field empty has replaced it.
StoppedProposalSyncEnds ==
    \A s \in ProposalSyncs : s \in endedCtx ~> (WorkerAt(s, "done") \/ politeiaCtx # s)

=============================================================================
