----------------------------- MODULE Lifecycle -----------------------------
(***************************************************************************)
(* How wallets and the assets manager come up and go down: Prepare,        *)
(* ShutdownContextWithCancel, Shutdown, OpenWallet and DeleteWallet of     *)
(* libwallet/assets/wallet, OpenWallets, DeleteWallet and Shutdown of      *)
(* libwallet/assets_manager.go, the switch of the network in               *)
(* ui/load/appinfo.go and the end of the program in main.go.               *)
(*                                                                         *)
(* Four goroutines go through these methods: main, which shuts down when   *)
(* the window is closed; the switcher, which replaces the manager by that  *)
(* of the other network; the deleter of a wallet; and, one per manager,    *)
(* the opener of its wallets.  Each wallet and each manager has a          *)
(* goroutine that receives its shutdown signal, once.  Index runs hold     *)
(* dbMutex, which UnloadWallet of a Decred wallet takes; a session is      *)
(* waited for by CancelSync.  Politeia, the exchanges and the DEX client,  *)
(* which Shutdown stops before the wallets, are left out.                  *)
(***************************************************************************)
EXTENDS Naturals

CONSTANTS
    OldWallets,     \* the wallets of the manager in use
    NewWallets,     \* the wallets of the manager of the other network
    Syncing,        \* the wallets that are synced, once at most
    Jobs            \* index runs, each of which runs once

Wallets  == OldWallets \cup NewWallets
Managers == {"old", "new"}
Home(m)  == IF m = "old" THEN OldWallets ELSE NewWallets

\* A job's context is named after it, a session's after its wallet.
Contexts == Jobs \cup Wallets
Enders   == {"main", "switcher", "deleter"}
Nobody   == "nobody"

ASSUME WalletsAssumption ==
    /\ OldWallets \cap NewWallets = {} /\ Jobs \cap Wallets = {}
    /\ Nobody \notin Jobs \cup Wallets /\ Syncing \subseteq Wallets

VARIABLES
    app,            \* appInfo.AssetsManager
    mgrDb,          \* the database of a manager
    listener,       \* the goroutine of listenForShutdown
    assets,         \* mgr.Assets
    records, dirs,  \* wallets with a record in that database, with a directory
    opened, dataDb, \* wallets loaded by their loader, with an open walletDataDB
    canceler,       \* the goroutine Prepare starts
    funcs,          \* cancelFuncs of a wallet
    sweep,          \* what its canceler has still to call
    cancelled,      \* the contexts that are cancelled
    session,        \* the sync of a wallet
    mutex,          \* who holds dbMutex
    job, on,        \* an index run, its wallet
    pc, target, at, todo,       \* of main, the switcher and the deleter
    opener, toOpen,             \* of OpenWallets
    late,           \* history: wallets opened after their shutdown began
    crashed

managers == <<app, mgrDb, listener, assets>>
disk     == <<records, dirs>>
loaded   == <<opened, dataDb>>
contexts == <<canceler, funcs, sweep, cancelled>>
jobs     == <<mutex, job, on>>
enders   == <<pc, target, at, todo>>
openers  == <<opener, toOpen, late>>
vars     == <<managers, disk, loaded, contexts, session, jobs, enders, openers, crashed>>

AtWallet == {"signal", "network", "chan", "await", "hung", "unload", "closeDb", "awaitCancel",
             "dropRecord", "removeDir"}
EnderStates ==
    {"idle", "created", "mgrSend", "mgrNext", "mgrClose", "mgrDone", "over"} \cup AtWallet

TypeOK ==
    /\ app \in Managers /\ mgrDb \in [Managers -> {"none", "open", "closed"}]
    /\ listener \in [Managers -> {"unborn", "waiting", "done"}]
    /\ assets \in [Managers -> SUBSET Wallets]
    /\ records \subseteq Wallets /\ dirs \subseteq Wallets
    /\ opened \subseteq Wallets /\ dataDb \subseteq Wallets
    /\ canceler \in [Wallets -> {"unborn", "waiting", "signalled", "cancelling", "done"}]
    /\ funcs \in [Wallets -> SUBSET Contexts] /\ sweep \in [Wallets -> SUBSET Contexts]
    /\ cancelled \subseteq Contexts
    /\ session \in [Wallets -> {"none", "running", "over"}]
    /\ mutex \in [Wallets -> Jobs \cup {Nobody}]
    /\ job \in [Jobs -> {"idle", "checked", "locked", "indexing", "over"}]
    /\ on \in [Jobs -> Wallets \cup {Nobody}]
    /\ pc \in [Enders -> EnderStates] /\ target \in [Enders -> Managers]
    /\ at \in [Enders -> Wallets \cup {Nobody}] /\ todo \in [Enders -> SUBSET Wallets]
    /\ opener \in [Managers -> {"idle", "opening", "over"}]
    /\ toOpen \in [Managers -> SUBSET Wallets] /\ late \subseteq Wallets
    /\ crashed \in BOOLEAN
    /\ \A p \in Enders : pc[p] \in AtWallet => at[p] # Nobody     \* never a nil wallet

Init ==
    /\ app = "old"
    /\ mgrDb = [m \in Managers |-> IF m = "old" THEN "open" ELSE "none"]
    /\ listener = [m \in Managers |-> IF m = "old" THEN "waiting" ELSE "unborn"]
    /\ assets = [m \in Managers |-> IF m = "old" THEN OldWallets ELSE {}]
    /\ records = Wallets /\ dirs = Wallets
    /\ opened = {} /\ dataDb = OldWallets
    /\ canceler = [w \in Wallets |-> IF w \in OldWallets THEN "waiting" ELSE "unborn"]
    /\ funcs = [w \in Wallets |-> {}] /\ sweep = [w \in Wallets |-> {}]
    /\ cancelled = {}
    /\ session = [w \in Wallets |-> "none"]
    /\ mutex = [w \in Wallets |-> Nobody]
    /\ job = [j \in Jobs |-> "idle"] /\ on = [j \in Jobs |-> Nobody]
    /\ pc = [p \in Enders |-> "idle"] /\ target = [p \in Enders |-> "old"]
    /\ at = [p \in Enders |-> Nobody] /\ todo = [p \in Enders |-> {}]
    /\ opener = [m \in Managers |-> "idle"] /\ toOpen = [m \in Managers |-> {}]
    /\ late = {}
    /\ crashed = FALSE

Exited == pc["main"] = "over"
Goto(p, label) == pc' = [pc EXCEPT ![p] = label]
Step(p, from, to) == pc[p] = from /\ Goto(p, to)

\* What Shutdown of the manager ranges over, AllWallets, once it was signalled.
ListWallets(p) == todo' = [todo EXCEPT ![p] = assets[target[p]]]

-----------------------------------------------------------------------------
(* ShutdownContextWithCancel reads cancelFuncs and assigns the longer slice *)
(* without a lock.  A call whose append is late loses what was registered  *)
(* since it read; queries of the user interface make such calls all the    *)
(* time, and their own contexts matter to nobody.  The appends of sessions *)
(* and index runs are then single steps: what a late one would lose, a     *)
(* late query loses as well.                                               *)

\* The home page of the manager of w was reached.
AtHome(w) == \E m \in Managers : w \in Home(m) /\ opener[m] = "over"

LateAppend(w) ==
    /\ w \in opened /\ AtHome(w)
    /\ \E lost \in (SUBSET funcs[w]) \ {{}} : funcs' = [funcs EXCEPT ![w] = @ \ lost]
    /\ UNCHANGED <<managers, disk, loaded, canceler, sweep, cancelled, session, jobs, enders,
                   openers, crashed>>

Register(w, context) ==
    /\ funcs' = [funcs EXCEPT ![w] = @ \cup {context}]
    /\ UNCHANGED <<canceler, sweep, cancelled>>

\* The goroutine Prepare starts: the signal, the range over the slice as it
\* is then, one cancel function after the other, and the report.
CancelerSweeps(w) ==
    /\ canceler[w] = "signalled"
    /\ canceler' = [canceler EXCEPT ![w] = "cancelling"]
    /\ sweep' = [sweep EXCEPT ![w] = funcs[w]]
    /\ UNCHANGED <<managers, disk, loaded, funcs, cancelled, session, jobs, enders,
                   openers, crashed>>

CancelerCancels(w) ==
    /\ canceler[w] = "cancelling"
    /\ \E context \in sweep[w] :
        /\ cancelled' = cancelled \cup {context}
        /\ sweep' = [sweep EXCEPT ![w] = @ \ {context}]
    /\ UNCHANGED <<managers, disk, loaded, canceler, funcs, session, jobs, enders, openers,
                   crashed>>

-----------------------------------------------------------------------------
(* What runs on a wallet                                                   *)

\* A session is there from the moment IsConnectedToDecredNetwork holds until
\* resetSyncData.  It may end at any time, and has to once it is cancelled.
StartSession(w) ==
    /\ w \in Syncing \cap opened \cap Home(app) /\ AtHome(w) /\ session[w] = "none"
    /\ session' = [session EXCEPT ![w] = "running"]
    /\ Register(w, w)
    /\ UNCHANGED <<managers, disk, loaded, jobs, enders, openers, crashed>>

EndSession(w) ==
    /\ session[w] = "running"
    /\ session' = [session EXCEPT ![w] = "over"]
    /\ UNCHANGED <<managers, disk, loaded, contexts, jobs, enders, openers, crashed>>

EndCancelledSession(w) == w \in cancelled /\ EndSession(w)

JobAt(j, from, to) == job[j] = from /\ job' = [job EXCEPT ![j] = to]

\* IndexTransactions: WalletOpened is asked before dbMutex is taken.
CheckWalletOpened(j) ==
    /\ JobAt(j, "idle", "checked")
    /\ \E w \in opened : AtHome(w) /\ on' = [on EXCEPT ![j] = w]
    /\ UNCHANGED <<managers, disk, loaded, contexts, session, mutex, enders, openers, crashed>>

LockDbMutex(j) ==
    /\ JobAt(j, "checked", "locked")
    /\ mutex[on[j]] = Nobody
    /\ mutex' = [mutex EXCEPT ![on[j]] = j]
    /\ Register(on[j], j)
    /\ UNCHANGED <<managers, disk, loaded, session, on, enders, openers, crashed>>

\* Reading the start block fails once the database is closed; GetTransactions
\* of a wallet that is no longer loaded dereferences nil.
BeginIndex(j) ==
    /\ job[j] = "locked"
    /\ \/ /\ on[j] \in dataDb \cap opened
          /\ JobAt(j, "locked", "indexing")
          /\ UNCHANGED <<mutex, crashed>>
       \/ /\ on[j] \in dataDb \ opened
          /\ crashed' = TRUE
          /\ UNCHANGED <<mutex, job>>
       \/ /\ on[j] \notin dataDb
          /\ JobAt(j, "locked", "over")
          /\ mutex' = [mutex EXCEPT ![on[j]] = Nobody]
          /\ UNCHANGED crashed
    /\ UNCHANGED <<managers, disk, loaded, contexts, session, on, enders, openers>>

EndIndex(j) ==
    /\ JobAt(j, "indexing", "over")
    /\ mutex' = [mutex EXCEPT ![on[j]] = Nobody]
    /\ UNCHANGED <<managers, disk, loaded, contexts, session, on, enders, openers, crashed>>

-----------------------------------------------------------------------------
(* OpenWallets, called by the start page on the manager in use             *)

CallOpenWallets(m) ==
    /\ m = app /\ opener[m] = "idle"
    /\ mgrDb[m] = "open"                    \* VerifyStartupPassphrase reads it
    /\ \A w \in assets[m] : session[w] # "running"
    /\ opener' = [opener EXCEPT ![m] = "opening"]
    /\ toOpen' = [toOpen EXCEPT ![m] = assets[m]]
    /\ UNCHANGED <<managers, disk, loaded, contexts, session, jobs, enders, late, crashed>>

OpenWalletsEnds(m, how) == opener' = [opener EXCEPT ![m] = how] /\ UNCHANGED <<toOpen, late>>

\* default: the wallet is opened, or cannot be and the start page is shown again.
OpenOne(m) ==
    /\ opener[m] = "opening"
    /\ \E w \in toOpen[m] :
        IF w \in opened \/ w \notin dirs
        THEN OpenWalletsEnds(m, "idle") /\ UNCHANGED opened
        ELSE /\ opened' = opened \cup {w}
             /\ toOpen' = [toOpen EXCEPT ![m] = @ \ {w}]
             /\ late' = IF canceler[w] = "waiting" THEN late ELSE late \cup {w}
             /\ UNCHANGED opener
    /\ UNCHANGED <<managers, disk, dataDb, contexts, session, jobs, enders, crashed>>

\* case <-mgr.shuttingDown: somebody is blocked sending, which nobody is as
\* long as the goroutine of listenForShutdown receives.
OpenerTakesSignal(m) ==
    /\ opener[m] = "opening" /\ toOpen[m] # {}
    /\ listener[m] # "waiting"
    /\ \E p \in Enders : /\ target[p] = m
                         /\ Step(p, "mgrSend", "mgrNext")
                         /\ ListWallets(p)
    /\ OpenWalletsEnds(m, "over")
    /\ UNCHANGED <<managers, disk, loaded, contexts, session, jobs, target, at, crashed>>

AllOpened(m) ==
    /\ opener[m] = "opening" /\ toOpen[m] = {}
    /\ OpenWalletsEnds(m, "over")
    /\ UNCHANGED <<managers, disk, loaded, contexts, session, jobs, enders, crashed>>

-----------------------------------------------------------------------------
(* Shutdown of a wallet, the one p is at                                   *)

\* Wrong: a signal that nobody receives any more is not waited for.
SignalWalletAnyway(p) ==
    /\ Step(p, "signal", "network")
    /\ canceler' = [canceler EXCEPT ![at[p]] = IF @ = "waiting" THEN "signalled" ELSE @]
    /\ UNCHANGED <<managers, disk, loaded, funcs, sweep, cancelled, session, jobs,
                   target, at, todo, openers, crashed>>

\* Sending true to shuttingDown is a rendezvous with the goroutine of Prepare.
SignalWallet(p) ==
    /\ Step(p, "signal", "network")
    /\ canceler[at[p]] = "waiting"
    /\ canceler' = [canceler EXCEPT ![at[p]] = "signalled"]
    /\ UNCHANGED <<managers, disk, loaded, funcs, sweep, cancelled, session, jobs,
                   target, at, todo, openers, crashed>>

\* Wrong: the session is only waited for, the canceler is trusted to cancel it.
CancelSessionOnlyWaits(p) ==
    /\ pc[p] = "network"
    /\ Goto(p, IF session[at[p]] = "running" THEN "chan" ELSE "unload")
    /\ UNCHANGED <<managers, disk, loaded, contexts, session, jobs, target, at, todo, openers,
                   crashed>>

\* networkCancel is SafelyCancelSync, which calls CancelSync if there is a session.
CancelSession(p) ==
    /\ pc[p] = "network"
    /\ IF session[at[p]] = "running"
       THEN Goto(p, "chan") /\ cancelled' = cancelled \cup {at[p]}
       ELSE Goto(p, "unload") /\ UNCHANGED cancelled
    /\ UNCHANGED <<managers, disk, loaded, canceler, funcs, sweep, session, jobs, target, at,
                   todo, openers, crashed>>

\* A session that has ended meanwhile has set the channel to nil.
ReadSyncCanceled(p) ==
    /\ pc[p] = "chan"
    /\ Goto(p, IF session[at[p]] = "running" THEN "await" ELSE "hung")
    /\ UNCHANGED <<managers, disk, loaded, contexts, session, jobs, target, at, todo, openers,
                   crashed>>

AwaitSession(p) ==
    /\ Step(p, "await", "unload")
    /\ session[at[p]] = "over"
    /\ UNCHANGED <<managers, disk, loaded, contexts, session, jobs, target, at, todo, openers,
                   crashed>>

\* Wrong: dbMutex is not taken, as in the loaders of Bitcoin and Litecoin.
UnloadWalletUnlocked(p) ==
    /\ Step(p, "unload", "closeDb")
    /\ opened' = opened \ {at[p]}
    /\ UNCHANGED <<managers, disk, dataDb, contexts, session, jobs, target, at, todo, openers,
                   crashed>>

\* UnloadWallet of the Decred loader waits for dbMutex.
UnloadWallet(p) ==
    /\ Step(p, "unload", "closeDb")
    /\ at[p] \in opened => mutex[at[p]] = Nobody
    /\ opened' = opened \ {at[p]}
    /\ UNCHANGED <<managers, disk, dataDb, contexts, session, jobs, target, at, todo, openers,
                   crashed>>

CloseWalletDataDb(p) ==
    /\ Step(p, "closeDb", "awaitCancel")
    /\ dataDb' = dataDb \ {at[p]}
    /\ UNCHANGED <<managers, disk, opened, contexts, session, jobs, target, at, todo, openers,
                   crashed>>

\* <-wallet.isCancelDone, and back to the caller.
AwaitCancelDone(p) ==
    /\ Step(p, "awaitCancel", IF p = "deleter" THEN "dropRecord" ELSE "mgrNext")
    /\ canceler[at[p]] = "cancelling" /\ sweep[at[p]] = {}
    /\ canceler' = [canceler EXCEPT ![at[p]] = "done"]
    /\ UNCHANGED <<managers, disk, loaded, funcs, sweep, cancelled, session, jobs,
                   target, at, todo, openers, crashed>>

-----------------------------------------------------------------------------
(* DeleteWallet of the manager and deleteWallet                            *)

\* UnlockWallet needs a loaded wallet.
CallDeleteWallet ==
    /\ Step("deleter", "idle", "signal")
    /\ opener[app] = "over"
    /\ target' = [target EXCEPT !["deleter"] = app]
    /\ \E w \in assets[app] \cap opened : at' = [at EXCEPT !["deleter"] = w]
    /\ UNCHANGED <<managers, disk, loaded, contexts, session, jobs, todo, openers, crashed>>

\* DeleteStruct fails when the manager has closed its database.
DropRecord ==
    /\ pc["deleter"] = "dropRecord"
    /\ IF mgrDb[target["deleter"]] = "open"
       THEN /\ records' = records \ {at["deleter"]}
            /\ Goto("deleter", "removeDir")
       ELSE /\ Goto("deleter", "idle")
            /\ UNCHANGED records
    /\ UNCHANGED <<managers, dirs, loaded, contexts, session, jobs, target, at, todo, openers,
                   crashed>>

\* A directory that cannot be removed is left to the next start.
RemoveDir ==
    /\ Step("deleter", "removeDir", "idle")
    /\ dirs' \in {dirs, dirs \ {at["deleter"]}}
    /\ assets' = [assets EXCEPT ![target["deleter"]] = @ \ {at["deleter"]}]
    /\ UNCHANGED <<app, mgrDb, listener, records, loaded, contexts, session, jobs, target, at,
                   todo, openers, crashed>>

-----------------------------------------------------------------------------
(* Shutdown of the manager p has got                                       *)

\* Received by the goroutine of listenForShutdown.  Its cancelFuncs are empty:
\* initRateSource appended to the slice listenForShutdown then replaced.
SignalManager(p) ==
    /\ Step(p, "mgrSend", "mgrNext")
    /\ listener[target[p]] = "waiting"
    /\ listener' = [listener EXCEPT ![target[p]] = "done"]
    /\ ListWallets(p)
    /\ UNCHANGED <<app, mgrDb, assets, disk, loaded, contexts, session, jobs, target, at,
                   openers, crashed>>

\* Wrong: a wallet whose shutdown has begun is skipped.
NextWalletSkips(p) ==
    /\ pc[p] = "mgrNext"
    /\ \/ \E w \in {v \in todo[p] : canceler[v] = "waiting"} :
            /\ Goto(p, "signal")
            /\ at' = [at EXCEPT ![p] = w]
            /\ todo' = [todo EXCEPT ![p] = @ \ {w}]
       \/ /\ \A w \in todo[p] : canceler[w] # "waiting"
          /\ Goto(p, "mgrClose")
          /\ UNCHANGED <<at, todo>>
    /\ UNCHANGED <<managers, disk, loaded, contexts, session, jobs, target, openers, crashed>>

NextWallet(p) ==
    /\ pc[p] = "mgrNext"
    /\ \/ \E w \in todo[p] :
            /\ Goto(p, "signal")
            /\ at' = [at EXCEPT ![p] = w]
            /\ todo' = [todo EXCEPT ![p] = @ \ {w}]
       \/ /\ todo[p] = {}
          /\ Goto(p, "mgrClose")
          /\ UNCHANGED <<at, todo>>
    /\ UNCHANGED <<managers, disk, loaded, contexts, session, jobs, target, openers, crashed>>

CloseManager(p) ==
    /\ Step(p, "mgrClose", "mgrDone")
    /\ assets' = [assets EXCEPT ![target[p]] = {}]
    /\ mgrDb' = [mgrDb EXCEPT ![target[p]] = "closed"]
    /\ UNCHANGED <<app, listener, disk, loaded, contexts, session, jobs, target, at, todo,
                   openers, crashed>>

-----------------------------------------------------------------------------
(* Who shuts a manager down                                                *)

ShutDown(p, m) == Goto(p, "mgrSend") /\ target' = [target EXCEPT ![p] = m]

\* main: the window was closed.
Quit ==
    /\ pc["main"] = "idle" /\ ShutDown("main", app)
    /\ UNCHANGED <<managers, disk, loaded, contexts, session, jobs, at, todo, openers, crashed>>

Exit ==
    /\ Step("main", "mgrDone", "over")
    /\ UNCHANGED <<managers, disk, loaded, contexts, session, jobs, target, at, todo, openers,
                   crashed>>

\* ChangeAssetsManagerNetwork creates the manager of the other network; if the
\* network cannot be saved, it is shut down again.
NewAssetsManager ==
    /\ pc["switcher"] = "idle" /\ mgrDb["new"] = "none"
    /\ mgrDb' = [mgrDb EXCEPT !["new"] = "open"]
    /\ listener' = [listener EXCEPT !["new"] = "waiting"]
    /\ assets' = [assets EXCEPT !["new"] = NewWallets]
    /\ dataDb' = dataDb \cup NewWallets
    /\ canceler' = [w \in Wallets |-> IF w \in NewWallets THEN "waiting" ELSE canceler[w]]
    /\ Goto("switcher", "created")
    /\ UNCHANGED <<app, disk, opened, funcs, sweep, cancelled, session, jobs, target, at,
                   todo, openers, crashed>>

SaveNetwork ==
    /\ pc["switcher"] = "created"
    /\ \E m \in {app, "new"} : ShutDown("switcher", m)      \* saved, or not
    /\ UNCHANGED <<managers, disk, loaded, contexts, session, jobs, at, todo, openers, crashed>>

\* ChangeAssetsManager, once the old manager is shut down.
UseNewManager ==
    /\ Step("switcher", "mgrDone", "over")
    /\ app' = IF target["switcher"] = "new" THEN app ELSE "new"
    /\ UNCHANGED <<mgrDb, listener, assets, disk, loaded, contexts, session, jobs, target, at,
                   todo, openers, crashed>>

-----------------------------------------------------------------------------
WalletShutdown(p) ==
    \/ SignalWallet(p) \/ CancelSession(p) \/ ReadSyncCanceled(p)
    \/ AwaitSession(p) \/ UnloadWallet(p) \/ CloseWalletDataDb(p) \/ AwaitCancelDone(p)

ManagerShutdown(p) ==
    SignalManager(p) \/ NextWallet(p) \/ CloseManager(p)

\* What a method does once it is called, what may be called, and the rest.
Ender(p) == WalletShutdown(p) \/ ManagerShutdown(p)
Deleter  == DropRecord \/ RemoveDir
Switcher == SaveNetwork \/ UseNewManager
Opener(m) == OpenOne(m) \/ OpenerTakesSignal(m) \/ AllOpened(m)
Canceler(w) == CancelerSweeps(w) \/ CancelerCancels(w)
IndexRun(j) == LockDbMutex(j) \/ BeginIndex(j) \/ EndIndex(j)

Calls ==
    \/ Quit \/ NewAssetsManager \/ CallDeleteWallet
    \/ \E m \in Managers : CallOpenWallets(m)
    \/ \E w \in Wallets : StartSession(w) \/ LateAppend(w)
    \/ \E j \in Jobs : CheckWalletOpened(j)

\* The program stops when main has shut it down or a goroutine panics.
Next ==
    /\ ~Exited /\ ~crashed
    /\ \/ Calls \/ Deleter \/ Switcher \/ Exit
       \/ \E p \in Enders : Ender(p)
       \/ \E m \in Managers : Opener(m)
       \/ \E w \in Wallets : Canceler(w) \/ EndSession(w)
       \/ \E j \in Jobs : IndexRun(j)

Spec == Init /\ [][Next]_vars

Live(A) == ~Exited /\ ~crashed /\ A

FairSpec ==
    /\ Spec
    /\ WF_vars(Live(Deleter)) /\ WF_vars(Live(Switcher)) /\ WF_vars(Live(Exit))
    /\ \A p \in Enders : WF_vars(Live(Ender(p)))
    /\ \A m \in Managers : WF_vars(Live(Opener(m)))
    /\ \A w \in Wallets : /\ WF_vars(Live(Canceler(w)))
                         /\ WF_vars(Live(EndCancelledSession(w)))
    /\ \A j \in Jobs : WF_vars(Live(IndexRun(j)))

-----------------------------------------------------------------------------
(* Properties                                                              *)

\* A wallet is not unloaded while an index run reads it: UnloadWallet waits for
\* dbMutex, and closes the database of the transactions after it.  The exception
\* is a wallet that OpenWallets, which no longer notices the signal its manager
\* was given, opens once more after it was unloaded.
IndexHasItsDatabases ==
    \A j \in Jobs : job[j] = "indexing" =>
        /\ on[j] \in opened
        /\ on[j] \in dataDb \cup late

\* The database of a manager is closed after every wallet it had was shut down
\* to the end: its cancel functions were called, its own database is closed.
\* This holds whoever shut the wallet down, the manager or DeleteWallet.
ManagerClosesLast ==
    \A m \in Managers : mgrDb[m] = "closed" =>
        \A w \in Home(m) : canceler[w] = "done" /\ w \notin dataDb

\* Who a Shutdown waits for at a wallet, once its signal was taken, is there and on his
\* way: a session that is over or cancelled, an index run of this wallet that has
\* dbMutex, the goroutine that cancels, which has not reported to another Shutdown.
Attended(p) ==
    /\ pc[p] = "await" =>
         session[at[p]] = "over" \/ (session[at[p]] = "running" /\ at[p] \in cancelled)
    /\ pc[p] = "unload" /\ mutex[at[p]] # Nobody =>
         \E j \in Jobs : /\ mutex[at[p]] = j /\ on[j] = at[p]
                        /\ job[j] \in {"locked", "indexing"}
    /\ pc[p] = "awaitCancel" => canceler[at[p]] \in {"signalled", "cancelling"}

WaitsAreAttended == \A p \in Enders : Attended(p)

\* As long as the network is not switched, main finds the signal of the manager to
\* be received, and that of every wallet, but one that DeleteWallet shuts down, or has
\* taken off the manager since main listed them.
LoneQuitIsHeard ==
    pc["switcher"] \in {"idle", "created"} =>
        /\ pc["main"] = "mgrSend" => listener[target["main"]] = "waiting"
        /\ pc["main"] = "signal" /\ canceler[at["main"]] # "waiting" =>
             \/ at["main"] \notin assets[target["main"]]
             \/ pc["deleter"] \in AtWallet \ {"signal"} /\ at["deleter"] = at["main"]

\* Whoever shuts something down waits for what is under way, and a lone quit for
\* signals that are received.
ShutdownsAreAnswered == WaitsAreAttended /\ LoneQuitIsHeard

\* What a Shutdown may wait for and never get: a signal somebody else had
\* already taken, and the channel of a session that had already ended.
Stranded(p) ==
    \/ pc[p] = "mgrSend" /\ listener[target[p]] = "done"
    \/ pc[p] = "signal" /\ canceler[at[p]] # "waiting"
    \/ pc[p] = "hung"

Quitting == pc["main"] # "idle"

\* The end of the program waits for many things, dbMutex, the goroutines that
\* cancel, the sessions; only the two of Stranded may keep it waiting.
OnlyStrandedQuitsHang == Quitting ~> (Exited \/ crashed \/ Stranded("main"))

\* "Terminate all the backend processes safely" and then exit (main.go:113-116):
\* a program that was asked to quit comes to its end.
QuitEnds == Quitting ~> (Exited \/ crashed)
=============================================================================
