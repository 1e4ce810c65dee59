-------------------------- MODULE LifecycleProofs ---------------------------
(***************************************************************************)
(* Proofs about Lifecycle, for any wallets of the two networks, any of     *)
(* them synced, and any number of index runs: the types, that a manager    *)
(* closes its database last, that an index run keeps its databases, and    *)
(* the safety under the end of the program: whom a Shutdown waits for is   *)
(* there, and a quit beside no switch finds its signals received.          *)
(***************************************************************************)
EXTENDS Lifecycle, TLAPS

-----------------------------------------------------------------------------
(* Types                                                                   *)

WellPlaced == \A p \in Enders : pc[p] \in AtWallet => at[p] # Nobody

\* TypeOK by what changes together.
ManagersTyped ==
    /\ app \in Managers /\ mgrDb \in [Managers -> {"none", "open", "closed"}]
    /\ listener \in [Managers -> {"unborn", "waiting", "done"}]
    /\ assets \in [Managers -> SUBSET Wallets]
WalletsTyped ==
    /\ records \subseteq Wallets /\ dirs \subseteq Wallets
    /\ opened \subseteq Wallets /\ dataDb \subseteq Wallets
    /\ session \in [Wallets -> {"none", "running", "over"}]
ContextsTyped ==
    /\ canceler \in [Wallets -> {"unborn", "waiting", "signalled", "cancelling", "done"}]
    /\ funcs \in [Wallets -> SUBSET Contexts] /\ sweep \in [Wallets -> SUBSET Contexts]
    /\ cancelled \subseteq Contexts
JobsTyped ==
    /\ mutex \in [Wallets -> Jobs \cup {Nobody}]
    /\ job \in [Jobs -> {"idle", "checked", "locked", "indexing", "over"}]
    /\ on \in [Jobs -> Wallets \cup {Nobody}]
EndersTyped ==
    /\ pc \in [Enders -> EnderStates] /\ target \in [Enders -> Managers]
    /\ at \in [Enders -> Wallets \cup {Nobody}] /\ todo \in [Enders -> SUBSET Wallets]
    /\ WellPlaced
OpenersTyped ==
    /\ opener \in [Managers -> {"idle", "opening", "over"}]
    /\ toOpen \in [Managers -> SUBSET Wallets] /\ late \subseteq Wallets
    /\ crashed \in BOOLEAN

\* The parts make up TypeOK.
LEMMA TypeOKParts ==
    TypeOK <=> /\ ManagersTyped /\ WalletsTyped /\ ContextsTyped
               /\ JobsTyped /\ EndersTyped /\ OpenersTyped
BY DEF TypeOK, ManagersTyped, WalletsTyped, ContextsTyped, JobsTyped, EndersTyped, OpenersTyped,
       WellPlaced

\* The actions, each named, with whom they are of.
LEMMA StepsByName ==
    ASSUME Next
    PROVE  \/ Quit \/ NewAssetsManager \/ CallDeleteWallet \/ DropRecord \/ RemoveDir
           \/ SaveNetwork \/ UseNewManager \/ Exit
           \/ \E m \in Managers : CallOpenWallets(m) \/ OpenOne(m) \/ OpenerTakesSignal(m) \/ AllOpened(m)
           \/ \E w \in Wallets : StartSession(w) \/ LateAppend(w) \/ CancelerSweeps(w)
                                 \/ CancelerCancels(w) \/ EndSession(w)
           \/ \E j \in Jobs : CheckWalletOpened(j) \/ LockDbMutex(j) \/ BeginIndex(j) \/ EndIndex(j)
           \/ \E p \in Enders : SignalWallet(p) \/ CancelSession(p) \/ ReadSyncCanceled(p)
                                \/ AwaitSession(p) \/ UnloadWallet(p) \/ CloseWalletDataDb(p)
                                \/ AwaitCancelDone(p) \/ SignalManager(p) \/ NextWallet(p)
                                \/ CloseManager(p)
BY DEF Next, Calls, Deleter, Switcher, Ender, WalletShutdown, ManagerShutdown, Opener, Canceler,
       IndexRun

\* The initial states are typed.
LEMMA InitTyped == Init => TypeOK
<1> SUFFICES ASSUME Init PROVE TypeOK
  OBVIOUS
<1> USE DEF Init
<1>1. ManagersTyped
  BY DEF ManagersTyped, Managers, Wallets
<1>2. WalletsTyped
  BY DEF WalletsTyped, Wallets
<1>3. ContextsTyped
  BY DEF ContextsTyped
<1>4. JobsTyped
  BY DEF JobsTyped
<1>5. EndersTyped
  BY DEF EndersTyped, WellPlaced, Managers, EnderStates, AtWallet
<1>6. OpenersTyped
  BY DEF OpenersTyped
<1>7. QED
  BY <1>1, <1>2, <1>3, <1>4, <1>5, <1>6, TypeOKParts

\* Every step of the managers, the wallets and their goroutines keeps the types
\* that it does not concern, and those it does.
LEMMA NextTyped == TypeOK /\ [Next]_vars => TypeOK'
<1> SUFFICES ASSUME TypeOK, [Next]_vars PROVE TypeOK'
  OBVIOUS
<1>0. CASE UNCHANGED vars
  BY <1>0 DEF TypeOK, vars, managers, disk, loaded, contexts, jobs, enders, openers
<1> SUFFICES ASSUME Next PROVE TypeOK'
  BY <1>0
<1> USE DEF managers, disk, loaded, contexts, jobs, enders, openers, Step, Goto, JobAt
<1>p. /\ ManagersTyped /\ WalletsTyped /\ ContextsTyped /\ JobsTyped /\ EndersTyped /\ OpenersTyped
  BY TypeOKParts
<1>1. ManagersTyped'
  <2> USE <1>p DEF ManagersTyped
  <2>1. UNCHANGED managers \/ UseNewManager \/ NewAssetsManager \/ RemoveDir
        \/ \E p \in Enders : SignalManager(p) \/ CloseManager(p)
    BY StepsByName DEF Quit, CallDeleteWallet, DropRecord, SaveNetwork, Exit, CallOpenWallets,
       OpenOne, OpenerTakesSignal, AllOpened, StartSession, LateAppend, CancelerSweeps,
       CancelerCancels, EndSession, CheckWalletOpened, LockDbMutex, BeginIndex, EndIndex,
       SignalWallet, CancelSession, ReadSyncCanceled, AwaitSession, UnloadWallet,
       CloseWalletDataDb, AwaitCancelDone, NextWallet
  <2>2. QED
    BY <2>1 DEF UseNewManager, NewAssetsManager, RemoveDir, SignalManager, CloseManager,
       Managers, Wallets
<1>2. WalletsTyped'
  <2> USE <1>p DEF WalletsTyped
  <2>1. UNCHANGED <<disk, loaded, session>> \/ NewAssetsManager \/ RemoveDir \/ DropRecord
        \/ (\E m \in Managers : OpenOne(m)) \/ (\E w \in Wallets : StartSession(w) \/ EndSession(w))
        \/ \E p \in Enders : UnloadWallet(p) \/ CloseWalletDataDb(p)
    BY StepsByName DEF Quit, CallDeleteWallet, SaveNetwork, Exit, CallOpenWallets,
       OpenerTakesSignal, AllOpened, LateAppend, CancelerSweeps, UseNewManager,
       CancelerCancels, CheckWalletOpened, LockDbMutex, BeginIndex, EndIndex,
       SignalWallet, CancelSession, ReadSyncCanceled, AwaitSession, SignalManager, CloseManager,
       AwaitCancelDone, NextWallet
  <2>2. ASSUME NEW m \in Managers, OpenOne(m) PROVE WalletsTyped'
    BY <2>2, <1>p DEF OpenOne, OpenersTyped, OpenWalletsEnds
  <2>3. QED
    BY <2>1, <2>2 DEF NewAssetsManager, RemoveDir, DropRecord, StartSession, EndSession,
       UnloadWallet, CloseWalletDataDb, Wallets
<1>3. ContextsTyped'
  <2> USE <1>p DEF ContextsTyped
  <2>1. UNCHANGED contexts \/ NewAssetsManager
        \/ (\E w \in Wallets : StartSession(w) \/ LateAppend(w) \/ CancelerSweeps(w) \/ CancelerCancels(w))
        \/ (\E j \in Jobs : LockDbMutex(j))
        \/ \E p \in Enders : SignalWallet(p) \/ CancelSession(p) \/ AwaitCancelDone(p)
    BY StepsByName DEF Quit, CallDeleteWallet, DropRecord, RemoveDir, SaveNetwork, UseNewManager,
       Exit, CallOpenWallets, OpenOne, OpenerTakesSignal, AllOpened, EndSession,
       CheckWalletOpened, BeginIndex, EndIndex, ReadSyncCanceled, AwaitSession, UnloadWallet,
       CloseWalletDataDb, SignalManager, NextWallet, CloseManager
  <2>2. ASSUME NEW p \in Enders, CancelSession(p) PROVE ContextsTyped'
    BY <2>2, <1>p, WalletsAssumption DEF CancelSession, EndersTyped, WellPlaced, AtWallet, Contexts
  <2>3. ASSUME NEW w \in Wallets, StartSession(w) \/ LateAppend(w) PROVE ContextsTyped'
    BY <2>3 DEF StartSession, LateAppend, Register, Contexts
  <2>4. ASSUME NEW j \in Jobs, LockDbMutex(j) PROVE ContextsTyped'
    BY <2>4 DEF LockDbMutex, Register, Contexts
  <2>5. QED
    BY <2>1, <2>2, <2>3, <2>4 DEF NewAssetsManager, CancelerSweeps, CancelerCancels, SignalWallet,
       AwaitCancelDone
<1>4. JobsTyped'
  <2> USE <1>p DEF JobsTyped
  <2>1. UNCHANGED jobs
        \/ \E j \in Jobs : CheckWalletOpened(j) \/ LockDbMutex(j) \/ BeginIndex(j) \/ EndIndex(j)
    BY StepsByName DEF Quit, NewAssetsManager, CallDeleteWallet, DropRecord, RemoveDir,
       SaveNetwork, UseNewManager, Exit, CallOpenWallets, OpenOne, OpenerTakesSignal, AllOpened,
       StartSession, LateAppend, CancelerSweeps, CancelerCancels, EndSession, SignalWallet,
       CancelSession, ReadSyncCanceled, AwaitSession, UnloadWallet, CloseWalletDataDb,
       AwaitCancelDone, SignalManager, NextWallet, CloseManager
  <2>2. QED
    BY <2>1, <1>p DEF CheckWalletOpened, LockDbMutex, BeginIndex, EndIndex, WalletsTyped
<1>5. EndersTyped'
  <2> USE <1>p DEF EndersTyped, WellPlaced
  <2>1. UNCHANGED enders
        \/ Quit \/ NewAssetsManager \/ CallDeleteWallet \/ DropRecord \/ RemoveDir
        \/ SaveNetwork \/ UseNewManager \/ Exit \/ (\E m \in Managers : OpenerTakesSignal(m))
        \/ \E p \in Enders : SignalWallet(p) \/ CancelSession(p) \/ ReadSyncCanceled(p)
                             \/ AwaitSession(p) \/ UnloadWallet(p) \/ CloseWalletDataDb(p)
                             \/ AwaitCancelDone(p) \/ SignalManager(p) \/ NextWallet(p)
                             \/ CloseManager(p)
    BY StepsByName DEF CallOpenWallets, OpenOne, AllOpened, StartSession, LateAppend,
       CancelerSweeps, CancelerCancels, EndSession, CheckWalletOpened, LockDbMutex, BeginIndex,
       EndIndex
  <2> USE DEF Enders, EnderStates, AtWallet
  <2>2. ASSUME NEW p \in Enders,
               SignalWallet(p) \/ CancelSession(p) \/ ReadSyncCanceled(p) \/ AwaitSession(p)
               \/ UnloadWallet(p) \/ CloseWalletDataDb(p) \/ AwaitCancelDone(p) \/ CloseManager(p)
        PROVE  EndersTyped'
    BY <2>2 DEF SignalWallet, CancelSession, ReadSyncCanceled, AwaitSession, UnloadWallet,
       CloseWalletDataDb, AwaitCancelDone, CloseManager
  <2>3. ASSUME NEW p \in Enders, NextWallet(p) PROVE EndersTyped'
    BY <2>3, WalletsAssumption DEF NextWallet
  <2>4. ASSUME NEW p \in Enders, NEW m \in Managers,
               SignalManager(p) \/ (Step(p, "mgrSend", "mgrNext") /\ ListWallets(p)
                                    /\ UNCHANGED <<target, at>>)
        PROVE  EndersTyped'
    BY <2>4, <1>p DEF SignalManager, ListWallets, ManagersTyped
  <2>5. CASE CallDeleteWallet
    BY <2>5, <1>p, WalletsAssumption DEF CallDeleteWallet, ManagersTyped, WalletsTyped
  <2>6. CASE Quit \/ SaveNetwork \/ NewAssetsManager
    BY <2>6, <1>p DEF Quit, SaveNetwork, NewAssetsManager, ShutDown, ManagersTyped, Managers
  <2>7. CASE DropRecord \/ RemoveDir \/ UseNewManager \/ Exit
    BY <2>7 DEF DropRecord, RemoveDir, UseNewManager, Exit
  <2>8. QED
    BY <2>1, <2>2, <2>3, <2>4, <2>5, <2>6, <2>7 DEF OpenerTakesSignal
<1>6. OpenersTyped'
  <2> USE <1>p DEF OpenersTyped, OpenWalletsEnds
  <2>1. (UNCHANGED openers /\ crashed' \in BOOLEAN)
        \/ \E m \in Managers : CallOpenWallets(m) \/ OpenOne(m) \/ OpenerTakesSignal(m) \/ AllOpened(m)
    BY StepsByName DEF Quit, NewAssetsManager, CallDeleteWallet, DropRecord, RemoveDir,
       SaveNetwork, UseNewManager, Exit, StartSession, LateAppend, CancelerSweeps,
       CancelerCancels, EndSession, SignalWallet, CancelSession, ReadSyncCanceled, AwaitSession,
       UnloadWallet, CloseWalletDataDb, AwaitCancelDone, SignalManager, NextWallet, CloseManager,
       CheckWalletOpened, LockDbMutex, BeginIndex, EndIndex
  <2>2. QED
    BY <2>1, <1>p DEF CallOpenWallets, OpenOne, OpenerTakesSignal, AllOpened, ManagersTyped
<1>7. QED
  BY <1>1, <1>2, <1>3, <1>4, <1>5, <1>6
     DEF TypeOK, ManagersTyped, WalletsTyped, ContextsTyped, JobsTyped, EndersTyped,
         OpenersTyped, WellPlaced

\* Every variable keeps its type, and a Shutdown that is at a wallet is at one.
THEOREM TypeCorrect == Spec => []TypeOK
<1>1. QED
  BY InitTyped, NextTyped, PTL DEF Spec
-----------------------------------------------------------------------------
(* The manager closes last                                                 *)

\* A wallet whose shutdown has come to its end, from which it never returns.
Gone(w) == canceler[w] = "done" /\ w \notin dataDb

\* Who is at a wallet of his manager, and who lists only those.
AtHomes ==
    /\ \A m \in Managers : assets[m] \subseteq Home(m)
    /\ \A p \in Enders : pc[p] \in AtWallet => at[p] \in Home(target[p])
    /\ \A p \in Enders : pc[p] \in AtWallet \cup {"mgrNext", "mgrClose"} =>
                            todo[p] \subseteq Home(target[p])

\* Nobody uses the manager of the other network before it is created.
CreatedFirst ==
    /\ mgrDb[app] # "none"
    /\ \A p \in Enders : mgrDb[target[p]] # "none"
    /\ pc["switcher"] # "idle" => mgrDb["new"] # "none"

\* DeleteWallet shuts a wallet down, never a manager.
DeletesOnly == pc["deleter"] \in {"idle"} \cup AtWallet /\ todo["deleter"] = {}

\* How far the shutdown of the wallet p is at has come.
Signalled(p) == pc[p] \in AtWallet \ {"signal"} => canceler[at[p]] \notin {"unborn", "waiting"}
DbClosed(p)  == pc[p] \in {"awaitCancel", "dropRecord", "removeDir"} => at[p] \notin dataDb
Cancelled(p) == pc[p] \in {"dropRecord", "removeDir"} => canceler[at[p]] = "done"
InOrder == \A p \in Enders : Signalled(p) /\ DbClosed(p) /\ Cancelled(p)

\* A wallet leaves AllWallets only once it is gone, ...
ListedOrGone ==
    \A m \in Managers : mgrDb[m] # "none" => \A w \in Home(m) : w \in assets[m] \/ Gone(w)

\* ... and the list of who shuts the manager down when it is gone or at hand.
ToDoOrGone ==
    \A p \in Enders \ {"deleter"} :
        /\ pc[p] \in AtWallet \cup {"mgrNext", "mgrClose"} =>
            \A w \in Home(target[p]) :
                w \in todo[p] \/ Gone(w) \/ (pc[p] \in AtWallet /\ at[p] = w)
        /\ pc[p] = "mgrClose" => todo[p] = {}

ShutdownInv ==
    /\ AtHomes /\ CreatedFirst /\ DeletesOnly /\ InOrder
    /\ ListedOrGone /\ ToDoOrGone /\ ManagerClosesLast

\* What the steps of the wallets, of OpenWallets and of index runs leave alone.
shutdownVars == <<app, mgrDb, assets, dataDb, canceler, enders>>

\* The initial states.
LEMMA InitShutdown == Init => ShutdownInv
BY DEF Init, ShutdownInv, AtHomes, CreatedFirst, DeletesOnly, InOrder, Signalled, DbClosed,
       Cancelled, ListedOrGone, ToDoOrGone, ManagerClosesLast, Managers, Home, Enders, AtWallet

\* A step that touches none of these variables disturbs nothing.
LEMMA QuietShutdown == ShutdownInv /\ UNCHANGED shutdownVars => ShutdownInv'
BY DEF shutdownVars, enders, ShutdownInv, AtHomes, CreatedFirst, DeletesOnly, InOrder, Signalled,
       DbClosed, Cancelled, ListedOrGone, ToDoOrGone, ManagerClosesLast, Gone

\* Every step keeps the invariant: the calls, the two that empty the list of wallets,
\* and what an ender does from one label to the next.
LEMMA NextShutdown == TypeOK /\ ShutdownInv /\ [Next]_vars => ShutdownInv'
<1> SUFFICES ASSUME TypeOK, ShutdownInv, [Next]_vars PROVE ShutdownInv'
  OBVIOUS
<1> USE WalletsAssumption
    DEF Step, Goto, managers, disk, loaded, contexts, jobs, enders, openers, Managers, Home,
        Enders, AtWallet, Wallets, TypeOK, ShutdownInv, AtHomes, CreatedFirst, DeletesOnly,
        InOrder, Signalled, DbClosed, Cancelled, ListedOrGone, ToDoOrGone, ManagerClosesLast, Gone
<1>1. CASE Quit
  BY <1>1 DEF Quit, ShutDown
<1>2. CASE NewAssetsManager
  BY <1>2 DEF NewAssetsManager
<1>3. CASE CallDeleteWallet
  BY <1>3 DEF CallDeleteWallet
<1>4. CASE DropRecord
  BY <1>4 DEF DropRecord
<1>5. CASE RemoveDir
  BY <1>5 DEF RemoveDir
<1>6. CASE SaveNetwork
  BY <1>6 DEF SaveNetwork, ShutDown
<1>7. CASE UseNewManager
  BY <1>7 DEF UseNewManager
<1>8. CASE Exit
  BY <1>8 DEF Exit
<1>9. ASSUME NEW m \in Managers, OpenerTakesSignal(m) PROVE ShutdownInv'
  BY <1>9 DEF OpenerTakesSignal, ListWallets
<1>10. ASSUME NEW w \in Wallets, CancelerSweeps(w) PROVE ShutdownInv'
  BY <1>10 DEF CancelerSweeps
<1>11. ASSUME NEW p \in Enders, SignalWallet(p) PROVE ShutdownInv'
  BY <1>11 DEF SignalWallet
<1>12. ASSUME NEW p \in Enders, CancelSession(p) PROVE ShutdownInv'
  BY <1>12 DEF CancelSession
<1>13. ASSUME NEW p \in Enders, ReadSyncCanceled(p) PROVE ShutdownInv'
  BY <1>13 DEF ReadSyncCanceled
<1>14. ASSUME NEW p \in Enders, AwaitSession(p) PROVE ShutdownInv'
  BY <1>14 DEF AwaitSession
<1>15. ASSUME NEW p \in Enders, UnloadWallet(p) PROVE ShutdownInv'
  BY <1>15 DEF UnloadWallet
<1>16. ASSUME NEW p \in Enders, CloseWalletDataDb(p) PROVE ShutdownInv'
  BY <1>16 DEF CloseWalletDataDb
<1>17. ASSUME NEW p \in Enders, AwaitCancelDone(p) PROVE ShutdownInv'
  BY <1>17 DEF AwaitCancelDone
<1>18. ASSUME NEW p \in Enders, SignalManager(p) PROVE ShutdownInv'
  BY <1>18 DEF SignalManager, ListWallets
<1>19. ASSUME NEW p \in Enders, NextWallet(p) PROVE ShutdownInv'
  BY <1>19 DEF NextWallet
<1>20. ASSUME NEW p \in Enders, CloseManager(p) PROVE ShutdownInv'
  BY <1>20 DEF CloseManager
<1>21. CASE UNCHANGED shutdownVars
  BY <1>21, QuietShutdown
<1> HIDE DEF TypeOK, ShutdownInv, Managers, Enders, Wallets
<1>22. CASE Next
  <2>1. UNCHANGED shutdownVars
        \/ Quit \/ NewAssetsManager \/ CallDeleteWallet \/ DropRecord \/ RemoveDir
        \/ SaveNetwork \/ UseNewManager \/ Exit
        \/ (\E m \in Managers : OpenerTakesSignal(m)) \/ (\E w \in Wallets : CancelerSweeps(w))
        \/ \E p \in Enders : SignalWallet(p) \/ CancelSession(p) \/ ReadSyncCanceled(p)
                             \/ AwaitSession(p) \/ UnloadWallet(p) \/ CloseWalletDataDb(p)
                             \/ AwaitCancelDone(p) \/ SignalManager(p) \/ NextWallet(p)
                             \/ CloseManager(p)
    BY <1>22, StepsByName DEF shutdownVars, CallOpenWallets, OpenOne, AllOpened, StartSession,
       LateAppend, Register, CancelerCancels, EndSession, CheckWalletOpened, LockDbMutex,
       BeginIndex, EndIndex
  <2>2. QED
    BY <2>1, <1>1, <1>2, <1>3, <1>4, <1>5, <1>6, <1>7, <1>8, <1>9, <1>10, <1>11, <1>12, <1>13,
       <1>14, <1>15, <1>16, <1>17, <1>18, <1>19, <1>20,
       <1>21
<1>23. QED
  BY <1>21, <1>22 DEF vars, shutdownVars

\* The database of a manager closes after all its wallets have, whatever the other
\* enders do to the same wallets meanwhile.
THEOREM ManagersCloseLast == Spec => []ManagerClosesLast
<1>1. Init => TypeOK /\ ShutdownInv
  BY InitTyped, InitShutdown
<1>2. TypeOK /\ ShutdownInv /\ [Next]_vars => TypeOK' /\ ShutdownInv'
  BY NextTyped, NextShutdown
<1>3. ShutdownInv => ManagerClosesLast
  BY DEF ShutdownInv
<1>4. QED
  BY <1>1, <1>2, <1>3, PTL DEF Spec

-----------------------------------------------------------------------------
(* Index runs keep their databases                                         *)

\* Index runs: who indexes holds dbMutex, and a wallet that is loaded again while its
\* shutdown is about to close its database was opened late.
HoldsMutex ==
    \A j \in Jobs :
        /\ job[j] # "idle" => on[j] \in Wallets
        /\ job[j] \in {"locked", "indexing"} => mutex[on[j]] = j
ReopenedLate ==
    \A p \in Enders : pc[p] = "closeDb" => at[p] \notin opened \ late

IndexInv == HoldsMutex /\ ReopenedLate /\ IndexHasItsDatabases

\* The initial states.
LEMMA InitIndexing == Init => IndexInv
BY DEF Init, IndexInv, HoldsMutex, ReopenedLate, IndexHasItsDatabases

\* What neither an index run nor a loaded wallet notices.
indexVars == <<job, on, mutex, opened, dataDb, late, pc, at>>

\* Every step keeps it.  UnloadWallet waits for the mutex the run holds; who then loads
\* the wallet again is late, since the shutdown has taken the signal before.
LEMMA NextIndexing == TypeOK /\ ShutdownInv /\ IndexInv /\ [Next]_vars => IndexInv'
<1> SUFFICES ASSUME TypeOK, ShutdownInv, IndexInv, [Next]_vars PROVE IndexInv'
  OBVIOUS
<1> USE WalletsAssumption
    DEF Step, Goto, managers, disk, loaded, contexts, jobs, enders, openers, JobAt,
        TypeOK, IndexInv, HoldsMutex, ReopenedLate, IndexHasItsDatabases
<1>1. ASSUME NEW j \in Jobs,
             CheckWalletOpened(j) \/ LockDbMutex(j) \/ BeginIndex(j) \/ EndIndex(j)
      PROVE  IndexInv'
  BY <1>1 DEF CheckWalletOpened, LockDbMutex, BeginIndex, EndIndex
<1>2. ASSUME NEW m \in Managers, OpenOne(m) PROVE IndexInv'
  <2>1. \A p \in Enders : pc[p] = "closeDb" => canceler[at[p]] # "waiting"
    BY DEF ShutdownInv, InOrder, Signalled, AtWallet
  <2>2. QED
    BY <1>2, <2>1 DEF OpenOne, OpenWalletsEnds
<1>3. ASSUME NEW p \in Enders, UnloadWallet(p) PROVE IndexInv'
  BY <1>3 DEF UnloadWallet
<1>4. ASSUME NEW p \in Enders, CloseWalletDataDb(p) PROVE IndexInv'
  BY <1>4 DEF CloseWalletDataDb
<1>5. CASE NewAssetsManager
  BY <1>5 DEF NewAssetsManager
<1>6. CASE UNCHANGED indexVars
  BY <1>6 DEF indexVars
\* What happens elsewhere brings nobody to "closeDb".
<1>7. ASSUME UNCHANGED <<job, on, mutex, opened, dataDb, late>>,
             \A p \in Enders : pc'[p] = "closeDb" => (pc[p] = "closeDb" /\ at'[p] = at[p])
      PROVE  IndexInv'
  BY <1>7
<1> HIDE DEF TypeOK, IndexInv
<1>8. CASE Next
  <2>1. CASE Quit \/ CallDeleteWallet \/ DropRecord \/ RemoveDir \/ SaveNetwork
             \/ UseNewManager \/ Exit
    <3>1. UNCHANGED <<job, on, mutex, opened, dataDb, late>>
      BY <2>1 DEF Quit, CallDeleteWallet, DropRecord, RemoveDir, SaveNetwork, UseNewManager, Exit
    <3>2. \A p \in Enders : pc'[p] = "closeDb" => (pc[p] = "closeDb" /\ at'[p] = at[p])
      BY <2>1 DEF TypeOK, Quit, CallDeleteWallet, DropRecord, RemoveDir, SaveNetwork, ShutDown,
         UseNewManager, Exit
    <3>3. QED
      BY <3>1, <3>2, <1>7
  <2>2. ASSUME NEW m \in Managers, OpenerTakesSignal(m) PROVE IndexInv'
    BY <2>2, <1>7 DEF TypeOK, OpenerTakesSignal, OpenWalletsEnds
  <2>3. ASSUME NEW p \in Enders,
               SignalWallet(p) \/ CancelSession(p) \/ ReadSyncCanceled(p) \/ AwaitSession(p)
               \/ AwaitCancelDone(p) \/ SignalManager(p) \/ NextWallet(p) \/ CloseManager(p)
        PROVE  IndexInv'
    BY <2>3, <1>7 DEF TypeOK, SignalWallet, CancelSession, ReadSyncCanceled, AwaitSession,
       AwaitCancelDone, SignalManager, NextWallet, CloseManager
  <2>4. ASSUME \/ \E m \in Managers : CallOpenWallets(m) \/ AllOpened(m)
               \/ \E w \in Wallets : StartSession(w) \/ LateAppend(w) \/ CancelerSweeps(w)
                                     \/ CancelerCancels(w) \/ EndSession(w)
        PROVE  UNCHANGED indexVars
    BY <2>4 DEF indexVars, CallOpenWallets, AllOpened, OpenWalletsEnds, StartSession, LateAppend,
       CancelerSweeps, CancelerCancels, EndSession
  <2>5. QED
    BY <1>8, StepsByName, <2>1, <2>2, <2>3, <2>4, <1>1, <1>2, <1>3, <1>4, <1>5, <1>6
<1>9. QED
  BY <1>6, <1>8 DEF vars, indexVars

\* An index run that reads a wallet finds it loaded and its database open, but for a
\* wallet that was opened after its shutdown began.
THEOREM IndexRunsHaveTheirDatabases == Spec => []IndexHasItsDatabases
<1>1. Init => TypeOK /\ ShutdownInv /\ IndexInv
  BY InitTyped, InitShutdown, InitIndexing
<1>2. TypeOK /\ ShutdownInv /\ IndexInv /\ [Next]_vars => TypeOK' /\ ShutdownInv' /\ IndexInv'
  BY NextTyped, NextShutdown, NextIndexing
<1>3. IndexInv => IndexHasItsDatabases
  BY DEF IndexInv
<1>4. QED
  BY <1>1, <1>2, <1>3, PTL DEF Spec

-----------------------------------------------------------------------------
(* Whom a Shutdown waits for                                               *)

\* The signal of a wallet is taken once, so one Shutdown at most gets past it; until it
\* has the report, the goroutine of Prepare has it to give.
Past(p) == pc[p] \in AtWallet \ {"signal"}
OnePast == \A p, q \in Enders : Past(p) /\ Past(q) /\ at[p] = at[q] => p = q
ReportIsDue ==
    \A p \in Enders : pc[p] \in AtWallet \ {"signal", "dropRecord", "removeDir"} =>
        canceler[at[p]] \in {"signalled", "cancelling"}

\* What CancelSync waits for was cancelled by it.
SessionIsCancelled ==
    \A p \in Enders : pc[p] \in {"chan", "await"} =>
        at[p] \in cancelled /\ session[at[p]] \in {"running", "over"}

\* dbMutex is held by runs of its wallet.
MutexIsHeld ==
    \A w \in Wallets : mutex[w] # Nobody =>
        \E j \in Jobs : mutex[w] = j /\ on[j] = w /\ job[j] \in {"locked", "indexing"}

WaitInv == OnePast /\ ReportIsDue /\ SessionIsCancelled /\ MutexIsHeld

\* The initial states.
LEMMA InitWaits == Init => WaitInv
BY DEF Init, WaitInv, OnePast, Past, ReportIsDue, SessionIsCancelled, MutexIsHeld, AtWallet

\* What is waited for, and who waits.
waitVars == <<pc, at, canceler, cancelled, session, mutex, job, on>>

\* The steps that keep an ender where he is at his wallet, or take him from there.
LEMMA NextWaits == TypeOK /\ ShutdownInv /\ IndexInv /\ WaitInv /\ [Next]_vars => WaitInv'
<1> SUFFICES ASSUME TypeOK, ShutdownInv, IndexInv, WaitInv, [Next]_vars PROVE WaitInv'
  OBVIOUS
<1>h. HoldsMutex
  BY DEF IndexInv
<1>s. /\ \A p \in Enders : Signalled(p)
      /\ \A p \in Enders : pc[p] \in AtWallet => at[p] \in Home(target[p]) /\ mgrDb[target[p]] # "none"
  BY DEF ShutdownInv, InOrder, AtHomes, CreatedFirst
<1> USE WalletsAssumption
    DEF Step, Goto, managers, disk, loaded, contexts, jobs, enders, openers, JobAt, AtWallet,
        TypeOK, WaitInv, OnePast, Past, ReportIsDue, SessionIsCancelled, MutexIsHeld
<1>1. ASSUME NEW j \in Jobs,
             CheckWalletOpened(j) \/ LockDbMutex(j) \/ BeginIndex(j) \/ EndIndex(j)
      PROVE  WaitInv'
  <2>1. UNCHANGED <<pc, at, canceler, cancelled, session>>
    BY <1>1 DEF CheckWalletOpened, LockDbMutex, BeginIndex, EndIndex, Register
  <2>2. MutexIsHeld'
    BY <1>1, <1>h DEF HoldsMutex, CheckWalletOpened, LockDbMutex, BeginIndex, EndIndex, Register
  <2>3. QED
    BY <2>1, <2>2
<1>2. ASSUME NEW w \in Wallets, StartSession(w) \/ EndSession(w) PROVE WaitInv'
  BY <1>2 DEF StartSession, EndSession, Register
<1>3. ASSUME NEW w \in Wallets, CancelerSweeps(w) \/ CancelerCancels(w) PROVE WaitInv'
  BY <1>3 DEF CancelerSweeps, CancelerCancels
<1>4. ASSUME NEW p \in Enders, SignalWallet(p) PROVE WaitInv'
  BY <1>4, <1>s DEF SignalWallet, Signalled
<1>5. ASSUME NEW p \in Enders, AwaitCancelDone(p) PROVE WaitInv'
  BY <1>5 DEF AwaitCancelDone
<1>6. ASSUME NEW p \in Enders, CancelSession(p) PROVE WaitInv'
  BY <1>6 DEF CancelSession
<1>7. ASSUME NEW p \in Enders,
             ReadSyncCanceled(p) \/ AwaitSession(p) \/ UnloadWallet(p) \/ CloseWalletDataDb(p)
      PROVE  WaitInv'
  BY <1>7 DEF ReadSyncCanceled, AwaitSession, UnloadWallet, CloseWalletDataDb
<1>8. CASE NewAssetsManager
  <2>1. \A p \in Enders : pc[p] \in AtWallet => at[p] \notin NewWallets
    BY <1>8, <1>s DEF NewAssetsManager, Home, Managers
  <2>2. QED
    BY <1>8, <2>1 DEF NewAssetsManager
<1>9. CASE DropRecord
  BY <1>9 DEF DropRecord, Enders
\* What happens elsewhere brings nobody past a signal.
<1>10. ASSUME UNCHANGED <<canceler, cancelled, session, mutex, job, on>>,
              \A p \in Enders : pc'[p] \in AtWallet \ {"signal"}
                                  => (pc'[p] = pc[p] /\ at'[p] = at[p])
       PROVE  WaitInv'
  BY <1>10
<1> HIDE DEF TypeOK, WaitInv, AtWallet
<1>11. CASE Next
  <2>1. CASE Quit \/ CallDeleteWallet \/ RemoveDir \/ SaveNetwork \/ UseNewManager \/ Exit
    <3>1. UNCHANGED <<canceler, cancelled, session, mutex, job, on>>
      BY <2>1 DEF Quit, CallDeleteWallet, RemoveDir, SaveNetwork, UseNewManager, Exit
    <3>2. \A p \in Enders : pc'[p] \in AtWallet \ {"signal"} => (pc'[p] = pc[p] /\ at'[p] = at[p])
      BY <2>1 DEF TypeOK, AtWallet, Quit, CallDeleteWallet, RemoveDir, SaveNetwork, ShutDown,
         UseNewManager, Exit
    <3>3. QED
      BY <3>1, <3>2, <1>10
  <2>2. ASSUME NEW m \in Managers, OpenerTakesSignal(m) PROVE WaitInv'
    BY <2>2, <1>10 DEF TypeOK, AtWallet, OpenerTakesSignal, OpenWalletsEnds
  <2>3. ASSUME NEW p \in Enders, SignalManager(p) \/ NextWallet(p) \/ CloseManager(p)
        PROVE  WaitInv'
    BY <2>3, <1>10 DEF TypeOK, AtWallet, SignalManager, NextWallet, CloseManager
  <2>4. ASSUME \/ \E m \in Managers : CallOpenWallets(m) \/ OpenOne(m) \/ AllOpened(m)
               \/ \E w \in Wallets : LateAppend(w)
        PROVE  UNCHANGED waitVars
    BY <2>4 DEF waitVars, CallOpenWallets, OpenOne, AllOpened, OpenWalletsEnds, LateAppend
  <2>5. UNCHANGED waitVars => WaitInv'
    BY <1>10 DEF waitVars
  <2>6. QED
    BY <1>11, StepsByName, <2>1, <2>2, <2>3, <2>4, <2>5, <1>1, <1>2, <1>3, <1>4, <1>5, <1>6, <1>7,
       <1>8, <1>9
<1>12. CASE UNCHANGED vars
  BY <1>10, <1>12 DEF vars
<1>13. QED
  BY <1>11, <1>12

\* The four parts of the proof so far, together.
AllInv == TypeOK /\ ShutdownInv /\ IndexInv /\ WaitInv

\* They hold in every reachable state.
LEMMA AllInvHolds == Spec => []AllInv
<1>1. Init => AllInv
  BY InitTyped, InitShutdown, InitIndexing, InitWaits DEF AllInv
<1>2. AllInv /\ [Next]_vars => AllInv'
  BY NextTyped, NextShutdown, NextIndexing, NextWaits DEF AllInv
<1>3. QED
  BY <1>1, <1>2, PTL DEF Spec

\* Whatever a Shutdown waits for at a wallet after its signal was taken is under way,
\* whoever else shuts the same wallet down: the safety that OnlyStrandedQuitsHang
\* rests on.
THEOREM ShutdownsAreAttended == Spec => []WaitsAreAttended
<1>1. AllInv => WaitsAreAttended
  <2> SUFFICES ASSUME AllInv, NEW p \in Enders PROVE Attended(p)
    BY DEF WaitsAreAttended
  <2>1. pc[p] \in AtWallet => at[p] \in Wallets
    BY DEF AllInv, TypeOK
  <2>2. QED
    BY <2>1 DEF AllInv, WaitInv, ReportIsDue, SessionIsCancelled, MutexIsHeld, Attended, AtWallet
<1>2. QED
  BY <1>1, AllInvHolds, PTL

-----------------------------------------------------------------------------
(* A quit beside no switch                                                 *)

NotSwitching == pc["switcher"] \in {"idle", "created"}
MainPast(m)  == target["main"] = m /\ pc["main"] \notin {"idle", "mgrSend"}

\* Who can have taken the signal of a manager, and of a wallet of it, while nobody
\* switches: main, which has crossed it off its list, or DeleteWallet.
ManagerHeard ==
    \A m \in Managers :
        /\ listener[m] = "unborn" <=> mgrDb[m] = "none"
        /\ NotSwitching /\ listener[m] = "done" => MainPast(m)
ClosedIsEmpty == \A m \in Managers : mgrDb[m] = "closed" => assets[m] = {}
CrossedOff == pc["main"] \in AtWallet => at["main"] \notin todo["main"]
WalletHeard ==
    NotSwitching =>
        \A m \in Managers : mgrDb[m] # "none" =>
            \A w \in Home(m) : canceler[w] # "waiting" =>
                \/ w \notin assets[m]
                \/ Past("deleter") /\ at["deleter"] = w
                \/ /\ MainPast(m) /\ w \notin todo["main"]
                   /\ pc["main"] = "signal" => at["main"] # w

HeardInv == ManagerHeard /\ ClosedIsEmpty /\ CrossedOff /\ WalletHeard

heardVars == <<listener, mgrDb, assets, canceler, enders>>

\* The initial states.
LEMMA InitHeard == Init => HeardInv
BY WalletsAssumption
   DEF Init, HeardInv, ManagerHeard, ClosedIsEmpty, CrossedOff, WalletHeard, Managers, Home, Enders,
       AtWallet, Wallets

\* Every step keeps it.
LEMMA NextHeard == TypeOK /\ ShutdownInv /\ HeardInv /\ [Next]_vars => HeardInv'
<1> SUFFICES ASSUME TypeOK, ShutdownInv, HeardInv, [Next]_vars PROVE HeardInv'
  OBVIOUS
<1>s. /\ \A p \in Enders : pc[p] \in AtWallet => at[p] \in Home(target[p])
      /\ \A p \in Enders : mgrDb[target[p]] # "none"
      /\ mgrDb[app] # "none"
      /\ pc["deleter"] \in {"idle"} \cup AtWallet
  BY DEF ShutdownInv, AtHomes, CreatedFirst, DeletesOnly
<1> USE WalletsAssumption
    DEF Step, Goto, managers, disk, loaded, contexts, jobs, enders, openers, Managers, Home,
        Enders, AtWallet, Wallets, TypeOK, HeardInv, ManagerHeard, ClosedIsEmpty, CrossedOff,
        WalletHeard, NotSwitching, MainPast, Past
<1>1. CASE Quit
  BY <1>1, <1>s DEF Quit, ShutDown
<1>2. CASE NewAssetsManager
  BY <1>2, <1>s DEF NewAssetsManager
<1>3. CASE CallDeleteWallet
  BY <1>3 DEF CallDeleteWallet
<1>4. CASE DropRecord
  BY <1>4, <1>s DEF DropRecord
<1>5. CASE RemoveDir
  BY <1>5, <1>s DEF RemoveDir
<1>6. CASE SaveNetwork \/ UseNewManager
  BY <1>6 DEF SaveNetwork, ShutDown, UseNewManager
<1>7. CASE Exit
  BY <1>7 DEF Exit
<1>8. ASSUME NEW m \in Managers, OpenerTakesSignal(m) PROVE HeardInv'
  BY <1>8, <1>s DEF OpenerTakesSignal, ListWallets
<1>9. ASSUME NEW w \in Wallets, CancelerSweeps(w) PROVE HeardInv'
  BY <1>9 DEF CancelerSweeps
<1>10. ASSUME NEW p \in Enders, SignalWallet(p) PROVE HeardInv'
  BY <1>10, <1>s DEF SignalWallet
<1>11. ASSUME NEW p \in Enders, CancelSession(p) \/ ReadSyncCanceled(p) \/ AwaitSession(p)
              \/ UnloadWallet(p) \/ CloseWalletDataDb(p)
       PROVE  HeardInv'
  BY <1>11 DEF CancelSession, ReadSyncCanceled, AwaitSession, UnloadWallet, CloseWalletDataDb
<1>12. ASSUME NEW p \in Enders, AwaitCancelDone(p) PROVE HeardInv'
  BY <1>12 DEF AwaitCancelDone
<1>13. ASSUME NEW p \in Enders, SignalManager(p) PROVE HeardInv'
  BY <1>13, <1>s DEF SignalManager, ListWallets
<1>14. ASSUME NEW p \in Enders, NextWallet(p) PROVE HeardInv'
  BY <1>14 DEF NextWallet
<1>15. ASSUME NEW p \in Enders, CloseManager(p) PROVE HeardInv'
  BY <1>15, <1>s DEF CloseManager
<1>16. CASE UNCHANGED heardVars
  BY <1>16 DEF heardVars
<1> HIDE DEF TypeOK, HeardInv, Managers, Enders, Wallets
<1>17. CASE Next
  <2>1. UNCHANGED heardVars
        \/ Quit \/ NewAssetsManager \/ CallDeleteWallet \/ DropRecord \/ RemoveDir
        \/ SaveNetwork \/ UseNewManager \/ Exit
        \/ (\E m \in Managers : OpenerTakesSignal(m)) \/ (\E w \in Wallets : CancelerSweeps(w))
        \/ \E p \in Enders : SignalWallet(p) \/ CancelSession(p) \/ ReadSyncCanceled(p)
                             \/ AwaitSession(p) \/ UnloadWallet(p) \/ CloseWalletDataDb(p)
                             \/ AwaitCancelDone(p) \/ SignalManager(p) \/ NextWallet(p)
                             \/ CloseManager(p)
    BY <1>17, StepsByName DEF heardVars, CallOpenWallets, OpenOne, AllOpened, StartSession,
       LateAppend, Register, CancelerCancels, EndSession, CheckWalletOpened, LockDbMutex,
       BeginIndex, EndIndex
  <2>2. QED
    BY <2>1, <1>1, <1>2, <1>3, <1>4, <1>5, <1>6, <1>7, <1>8, <1>9, <1>10, <1>11, <1>12, <1>13,
       <1>14, <1>15, <1>16
<1>18. QED
  BY <1>16, <1>17 DEF vars, heardVars

\* A quit that no switch of the network runs beside waits for no signal in vain, but
\* that of a wallet the deleter has taken from it.
THEOREM LoneQuitsAreHeard == Spec => []LoneQuitIsHeard
<1>1. Init => HeardInv
  BY InitHeard
<1>2. AllInv /\ HeardInv /\ [Next]_vars => HeardInv'
  BY NextHeard DEF AllInv
<1>3. AllInv /\ HeardInv => LoneQuitIsHeard
  <2> SUFFICES ASSUME AllInv, HeardInv, NotSwitching PROVE LoneQuitIsHeard
    BY DEF LoneQuitIsHeard, NotSwitching
  <2>1. /\ target["main"] \in Managers /\ mgrDb[target["main"]] # "none"
        /\ pc["main"] = "signal" => at["main"] \in Home(target["main"])
        /\ listener[target["main"]] \in {"unborn", "waiting", "done"}
    BY DEF AllInv, TypeOK, ShutdownInv, AtHomes, CreatedFirst, Enders, AtWallet
  <2>2. QED
    BY <2>1 DEF HeardInv, ManagerHeard, WalletHeard, MainPast, Past, LoneQuitIsHeard
<1>4. QED
  BY <1>1, <1>2, <1>3, AllInvHolds, PTL DEF Spec

\* The two together: no wait of a shutdown, and no signal of a lone quit, is for
\* something that is over.
THEOREM QuitsAreAnswered == Spec => []ShutdownsAreAnswered
  BY ShutdownsAreAttended, LoneQuitsAreHeard, PTL DEF ShutdownsAreAnswered
=============================================================================
