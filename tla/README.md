# Cryptopower in TLA+

Cryptopower is a wallet for several currencies (Decred, Bitcoin, Litecoin) with
a user interface in Gio (`ui/`, `app/`) over a library (`libwallet/`). The
library keeps one *asset* per wallet, a *manager* over all of them, and a number
of background jobs: synchronisation, rescans, transaction indexing, mixing,
ticket buying, order scheduling, exchange rates, proposals. Nearly all of its
state is shared between goroutines that no one object owns: the goroutine of
the user interface, one per running job, and the callbacks of the SPV libraries.
That is what these modules are about. Paths below are relative to the root of
the repository.

The models cover the parts of the library in which goroutines share such state:
the synchronisation of all three currencies, the transaction index, the lifecycle
and the records of the wallets, and the background services. The user interface
appears only as the goroutine that calls them.

## Inventory

| Part | State | Operations | What is hard |
|---|---|---|---|
| Decred SPV sync, `libwallet/assets/dcr/sync.go`, `syncnotification.go` | `SyncData`: flags `syncing`, `synced`, `restartSyncRequested`; `cancelSync`, `syncCanceled`; `activeSyncData` of the running session | `SpvSync`, `CancelSync`, `RestartSpvSync`, `DiscoverUsage`, twelve callbacks, `resetSyncData`, the progress ticker | check-then-act under separate locks; nil after a reset; channels closed by several goroutines; waiting for a session that ends at any moment |
| Transaction index and rescan, `dcr/txindex.go`, `rescan.go`, `txandblocknotifications.go`, `wallet/walletdata` | saved transactions, index point (`KeyEndBlock`), `rescanning`, `dbMutex` | `IndexTransactions`, `reindexTransactions`, `RescanBlocksFromHeight`, `CancelRescan`, the block listener | two database transactions per record; a mutex only one of three writers takes; cancellation; reorganisations; a killed program |
| Account mixer, `dcr/account_mixer.go` | `cancelAccountMixer` | start, stop, end | unsynchronised cancel function |
| Ticket buyer, `dcr/ticket.go` | `cancelAutoTicketBuyer`, the buying interval | start, stop, one purchase per interval | failure after it counts as started; interval and expiry arithmetic |
| VSPs and transaction authoring, `dcr/vsp.go`, `dcr/txauthor.go` | saved VSP hosts; the constructed transaction | save, list; add destinations, broadcast | read-modify-write over a network call; a stale cache |
| Wallet lifecycle and records, `assets/wallet/wallet_shared.go` | `shuttingDown`, `isCancelDone`, `cancelFuncs`; the record, the object and the data directory of a wallet, its passphrase and its encrypted seed words | prepare, shutdown, create, rename, delete, change of passphrase | a signal that is received once; three stores and no transaction over them; failure and rollback; a sync that saves the object meanwhile |
| Assets manager, `assets_manager.go` | wallets, `shuttingDown`, `cancelFuncs` | open, create, delete, shutdown | who receives the shutdown signal; order of shutdown |
| Bitcoin and Litecoin sync, `assets/btc/sync.go`, `assets/ltc/sync.go` | flags, `syncstarted`, `syncCtx`, `chainServiceStopped` | sync, cancel, rescan, notification handler | restart against the old handler; a context that is replaced |
| Order scheduler and exchange sync, `instantswap.go`, `instantswap/sync.go` | `CancelOrderScheduler`, `cancelSync` | start, stop, order loop | set under a read lock, cleared without one |
| Rate source, `ext/rate_source.go` | source, tickers, `refreshing`, `disabled` | refresh, toggle source, toggle status, get ticker | a refresh of the old source that ends late |
| Politeia, `internal/politeia` | `cancelSync`, proposals | sync, stop | set under a read lock |
| Badger driver, `badgerdb/` | key prefixes, nested buckets | create, drop, get, put, iterate | drop commits halfway |
| Navigation, `app/` | page stack, modals | display, close, clear | signals to pages; frames against other goroutines |
| DEX client, `dexc/` | cache of bond fees | | mostly the dcrdex library |
| Loaders, queries, logging, configuration, drawing | | | libraries and input/output |

How they interact: the user interface calls the manager and the assets; an
asset's sync starts its index runs and its block listener, and the end of the
sync stops them; the manager's shutdown cancels every context an asset gave out
with `ShutdownContextWithCancel`; rescans and index runs write the database that
queries of the user interface read.

What makes each part correct, in a sentence: at most one session per wallet and
each ends cleanly (sync); no block of the main chain stays out of the index
(index); a job that is stopped stops, and one that ended can be started again
(mixer, buyer, scheduler, Politeia); a shutdown reaches every context once and
returns (lifecycle, manager); the tickers are those of the current source
(rates); a bucket is dropped as a whole and nothing else with it (Badger); the
page that is told it is shown is the one on top (navigation).

## Modules

| Module | Part | Checked in | Proofs |
|---|---|---|---|
| `DcrSync`, `OneAtATime` | Decred SPV sync; the abstract service it implements | `MCDcrSync`, `MCSafety` | `DcrSyncProofs` |
| `TxIndex` | Decred transaction index and rescan | `MCTxIndex`, `MCSafety` | `TxIndexProofs` |
| `WalletRecords` | records, passphrases, creation and deletion of wallets | `WalletRecords`, `MCSafety` | `WalletRecordsProofs` |
| `Lifecycle` | opening, deleting and shutting down | `MCLifecycle` | `LifecycleProofs` |
| `UtxoSync` | Bitcoin and Litecoin sync | `UtxoSync` | `UtxoSyncProofs` |
| `OrderScheduler` | order scheduler | `MCExchange` | `ExchangeProofs` |
| `ExchangeSync`, `OneAtATime` | exchange orders; the abstract service they implement | `MCExchange` | `ExchangeProofs` |
| `Rates` | exchange rate source | `MCExchange`, `MCRates` | `RatesProofs` |
| `Politeia` | proposals | `MCWallet` | `WalletServicesProofs` |
| `TicketBuyer` | Decred ticket buyer | `MCWallet` | `WalletServicesProofs` |
| `AccountMixer` | Decred account mixer | `MCWallet` | `WalletServicesProofs` |

Components that interact are modelled together where the code joins them. `Lifecycle`
holds managers, wallets, sessions and index runs at once, each cut down to what the others
wait for; `WalletRecords` has the syncs that save the objects it creates, changes and
deletes. `MCSafety`, `MCExchange` and `MCWallet` are another matter: they put parts that
share no state into one run, by a variable that says which part a behaviour is of. The
parts that were not chosen rest in their initial states, so their properties hold
trivially there and the run says of each part what a run of its own would.

Order of importance, and of writing: the sync and the index hold the user's balance and
history, the records and the lifecycle guard the wallets themselves, the rest runs beside
them. Invariants are conjunctions of named parts and no module has a `RECURSIVE`
operator, so that all of them can be proved about.

Mutants: beside some actions stands a wrong version of it (`\* Wrong: ...`), which no
behaviour takes. Each one breaks the property it was written against when it takes the
action's place, which shows that the property depends on that line of the code.

History variables say when a property is excused. They are named for what happened
(`overlapped`, `calm`, `skipped`, ...), are set by the step in which it happens, some
are cleared when it is made good, and they guard nothing but bounds. Where the code is
fine as long as two calls do not overlap, this is how the properties say so: they state
exactly which overlap is to blame.

## DcrSync: the synchronisation of a Decred wallet

Goroutines are the processes. *Callers* run the exported methods, *workers* are
the goroutine `SpvSync` starts for each session and the one `DiscoverUsage`
starts, *tickers* are the goroutines of `updateAddressDiscoveryProgress`, *readers*
are the calls of `PeerInfoRaw` and of the DEX wallet's `GetBlock`. A
section under `syncData.mu` is one action; a read or write without the mutex, a
close, a cancel and a wait are actions of their own, so a method is a chain of
program counter values (`pc`, `run`, `tick`).

| Model | Code |
|---|---|
| `syncing synced restartSyncRequested cancelSync syncCanceled` | the fields of `SyncData` (`sync.go:22-43`); a session, its context and its channel have the same number, 0 is nil |
| `active` | `*activeSyncData`: nil (`NoData`) or a record of the fields a guard reads: the syncer, whether `scanStartTime` and `scanStartHeight` are set, the discovery channel |
| `shuttingDown`, `locked` | `IsSyncShuttingDown` and the lock of the wallet |
| `cancelled closed discoveryClosed` | contexts cancelled and channels closed |
| `told`, `indexing` | what the progress listeners heard last; the sessions whose index goroutines (`syncnotification.go:632-649`) still have to tell them, which they may do at any time: `OnSyncCompleted`, late if the session has ended, or `OnSyncCanceled(false)` |
| `reading` | the readers that have found `activeSyncData` set and not used it yet (`sync.go:379-383`, `dex_wallet.go:431-436`) |
| `crash` | where the program stopped: a nil dereference, the close of a nil or a closed channel |
| `CheckSyncing` ... `SpawnSession` | `SpvSync` |
| `ReadCancelSync` ... `EndSyncShuttingDown` | `CancelSync` |
| `FetchCFiltersStarted` ... `SyncedWalletEnd` | the callbacks of `syncnotification.go` |
| `SyncedWalletAgain`, `ReportCompleted`, `ReportBehind` | `syncedWallet` of a wallet that is synced, and the goroutines it starts |
| `ReaderFindsData`, `ReaderAsksSyncer` | `PeerInfoRaw`, `GetBlock` |
| `RunReturns` ... `ResetLocksWallet` | the goroutine of a session after `syncer.Run` |
| `Ticker...`, `Usage...` | `updateAddressDiscoveryProgress`, the goroutine of `DiscoverUsage` |

The syncer is a library. It may go from any stage to any stage, call progress
callbacks as often as it likes, and return at any point between two callbacks;
a cancelled one may return `context.Canceled` or another error.

### Runs

`dcr_sync_serial` (`DcrSyncSerial.cfg`): one caller, two sessions, one ticker, one
reader, the index goroutines, `FairSpec`. One caller means that the calls do not overlap
with each other; they overlap with everything the sessions, tickers and readers do. Two
sessions are the least in which an old session can disturb a new one. Of the syncer's
stages it has the address discovery, the one with the ticker; `safety` and
`dcr_sync_cancel` have all four, and the theorems below hold for any of them. It checks

- `OnlyObserversCrash`: no callback, caller or reset finds the data gone, no channel is
  closed twice. The observers that look at a session from outside do crash and are excepted:
  the progress ticker asks `IsSyncing` and dereferences `activeSyncData` later
  (`syncnotification.go:346-361`), `PeerInfoRaw` and `GetBlock` compare `activeSyncData` with
  nil without the mutex and dereference it, and the syncer in it, once more; a session that
  ends in between has set it to nil;
- `FlagsHaveASession`: `syncing` and `synced` exclude each other and mean that a
  session is there; and a wallet unlocked for account discovery is locked again
  however the session ends;
- `ListenersAgree`: what the listeners heard last agrees with the sessions too, except
  for two reports of the index goroutines of `syncedWallet`, which come after any delay and
  deceive: `OnSyncCanceled(false)`, which reports the end of a session that may go on
  (`syncnotification.go:645`), and an `OnSyncCompleted` (`syncnotification.go:640`) that comes
  when its session has ended, or when another one runs;
- `AwaitedSessionIsCancelled`: whoever waits for the channel of a session has cancelled
  that session, though `CancelSync` reads the function and the channel in two sections;
- `SessionsAreAService`: the sessions implement `OneAtATime`, the abstract service that the
  exchange sync implements too. The mapping takes `running` to the sessions between their
  publication and the reset, and `shown` to the session whose channel is in the field as
  long as the wallet says that it is connected: a session disappears in the very step that
  resets the flags, and the next one begins only after it. In particular two sessions never
  share the data (`AtMostOneSession`, proved below);
- `CancelledSessionsEnd`, `NoTickerOutlivesSync`: liveness.

The first part of `safety` (`Safety.cfg`): two interchangeable callers race through
`SpvSync` (which may refuse invalid peers) and `DiscoverUsage`. Most of the
properties above do not hold here: two callers can pass the checks together and
start two sessions, and `DiscoverUsage` takes over `cancelSync` and clears it.
What survives is checked: `DiscoveryClosedOnce` and `QuiescentIsReset`, that once
all goroutines are done a new sync can start.

`dcr_sync_cancel` shows a disagreement with the code's own comment. `CancelSync` waits on
the field, not on the channel it cancelled: if the session ends between the cancel and the
read, the field is nil and the caller blocks for ever (`CancelSyncIsNotified`).

Fairness (`FairSpec`): weak for each caller inside a method, each worker inside a
callback or at the end of its session, and each ticker, which is what the Go
scheduler gives; calls themselves are not fair. A syncer only has to return once
its context is cancelled (strong fairness, since its callbacks come and go); it
need not make progress. Readers and index goroutines may rest for ever. Nothing is assumed of `AwaitSyncCanceled` beyond that: a
caller may wait for ever.

Deadlock is not checked, since a program that crashed and a wallet that used up its
sessions do stop.

Bounds: `MaxSessions`, `MaxUsages`, `MaxTickers` limit how often goroutines are
started, through guards (`SessionsLeft`, `UsagesLeft`, `TickersLeft`) on the calls;
everything else is finite. `"reports"` in `Ops` lets the index goroutines report: only
`ListenersAgree` can tell, so `safety` does without, as it does without readers.

Observed and not claimed: with invalid peers, `SpvSync` returns before a session
exists and the wallet that was unlocked for it stays unlocked, so
`FlagsHaveASession` is checked without them; the channel is closed before the data are
reset, so `RestartSpvSync` can be refused by the session it just cancelled; `asset.synced`,
read only by the staking page, is not cleared by the reset and is not modelled.

### Proofs: `DcrSyncProofs`

For any number of callers, sessions, usage discoveries and tickers, and whatever
methods they call:

- `TypeCorrect`: `Spec => []TypeOK`. `TypeOK` is not inductive: `CallCancel` adds
  the caller's snapshot to the cancelled contexts and needs `FiresArmed`, that a
  caller about to call a cancel function holds one.
- `DiscoveryNeverClosedTwice`: `Spec => []DiscoveryClosedOnce`. The close is
  guarded by the field and the field is cleared in the same section, but channels
  are also created, by callbacks of several goroutines. The invariant adds that the
  channel the data hold is open (`HeldIsOpen`), and that channels which are held
  or closed belong to tickers already started (`HeldIsBorn`, `ClosedIsBorn`), so a
  new one is fresh.

`Inv` is the conjunction. `InitHasInv` and `NextKeepsInv` show it inductive; under
them there is one lemma per group of actions and half of the invariant (`...Typed`,
`...Discovers`), over four lemmas about the helpers (`QuietKeeps`, `TouchKeeps`,
`TouchSameKeeps`, `StopDiscoveryKeeps`). The assumptions are those of the module:
the bounds are natural numbers and nil is not a record.

- `QuietWalletIsReset`: `Spec => []QuiescentIsReset`, also for callers that race. `ResetInv` ties
  the data to a goroutine that will clear them: data, channel and `synced` need a session that is
  live or about to be spawned (`DataHaveASession`), `syncing` and the cancel function a session or
  a usage discovery (`SyncingHasAWorker`). When all goroutines are done there is neither.

For one caller, written `Serial` in the theorems (any two callers are the same, and
`DiscoverUsage`, whose flags are those of a sync, is not called), and any number of sessions and
tickers: `OneCallerOneSession`, `OneCallersObserversCrash`, `OneCallersListenersAgree`, and,
without invalid peers, `OneCallersFlagsHaveASession`. `Serial` is what the code asks of its callers
and nothing enforces: two callers do pass the checks together, and `AtMostOneSession` does not hold
of them. The instance of `dcr_sync_serial` satisfies it. `SerialInv` is the invariant: the channel
is that of the live session (`ChannelIsOfTheLive`), a live session has its data until it closes the
channel (`LiveHaveData`, `ClosedAreEnding`), and what a caller has read in `SpvSync` still holds when
it acts on it (`SeenHolds`), which is just what a second caller destroys; a session that runs and
has an index goroutine has made the wallet synced (`IndexedAreSynced`). `OnlyObserversCrash` and
`ListenersAgree` are conjuncts of it and inductive only together with the rest. Two results rest
on it:

- `OneCallersSessionsAreAService`: `Spec => SessionsAreAService`. `ArmSession` is `Begin`
  (`CallerBegins`), `ResetSyncData` is `End` (`WorkerEnds`), and any step that leaves the sessions
  and the channel alone is a stutter (`StayingIsAStutter`), since the flags follow the sessions;
- `OneCallerAwaitsWhatItCancelled`: the cancel function and the channel in the fields are of one
  session (`CancelIsOfTheChannel`), and between its reads a caller finds that session or nil
  (`WaitsForItsOwn`). That it may be nil is what `dcr_sync_cancel` shows.

The liveness properties and `CancelSyncIsNotified` stay with TLC.

## TxIndex: the transaction index

The chain of the wallet is a sequence that says for each block on which fork it was
mined; every block holds one transaction of the wallet, named by height and fork, so
that `savedTxs` can tell a replaced block from its successor. `IndexTransactions`
(`LockDbMutex` ... `FinishIndex`), the block listener (`ListenerRegisters` ...
`ListenerFails`) and `RescanBlocksFromHeight` (`StartRescan` ... `RescanEnds`) write
`savedTxs` and `endBlock`, each database transaction being one action: `SaveOrUpdate`
is a delete and a save, `ClearSavedTransactions` a drop and a set. `Kill` keeps the
database and the chain and loses everything else. `Reorganise` replaces up to
`MaxReOrgBlocks` blocks.

The second part of `safety` runs all of it: one rescan at a time from the genesis block
or from the top, one index run of the sync beside it, one reorganisation, one death of
the program, interrupted runs. `OnlyExcusedGaps`: every transaction below the block
where the next index run will start is saved, unless a rescan that has not completed
or an interrupted run left a gap. `excused` and `whole` are history variables: an
excuse ends when an index run that began at the genesis block ends normally. So
reorganisations, lost listeners and deaths between any two database transactions
never leave a gap, which rests on the window of `MaxReOrgBlocks` and on the index point
moving only after a block is saved.

`tx_index_interrupted`: without excuses the invariant fails, since the deferred
function of `IndexTransactions` saves the height of the whole chain also when the run
was cancelled.

Observed and not claimed: a run that is under way when a rescan clears the records writes
its index point after that, and the rescan's own run starts from there. The records below
are then gone until something indexes from the genesis block again; `OnlyExcusedGaps`
excuses exactly that stretch.

Bounds: the window is 1 block instead of 6 and the chain 3 blocks high, so a chain can
leave the window behind, be reorganised across it and be rescanned from both sides
of it. A listener is at most `MaxReOrgBlocks + 1` notifications behind: one that is
further behind when the program dies loses more than the window, and then the code
has no promise to keep. Deadlock is not checked: a chain at `MaxHeight` with nothing left to
do stops.

Abstractions: the library's `GetTransactions` reads blocks from the chain as it is when
it reaches them; unmined transactions, labels and queries are left out; a second
listener beside one that outlived its session is not modelled.

### Proofs: `TxIndexProofs`

For any height and window of the chain, any number of runs, rescans, reorganisations and deaths:
`IndexTypeCorrect` and `GapsAreExcused` (`IndexSpec => []OnlyExcusedGaps`). Types and gaps are proved
together, since the heights a run reads stay in range only because runs hold the mutex and the chain
never shrinks. `GapInv` adds to the property: `OneRun`, only who holds the mutex reads, and a rescan
has one run at a time; `BehindTheChain`, no index point, height or range is above the tip;
`ListenerIsClose`, a notification that is still true lies as far below the tip as there are
notifications behind it, so the listener, which moves the index point, is at most the window behind;
`RunsSave`, what a run has read and no reorganisation can replace is saved; `RunsStartAbove`, a run
deletes nothing below the block where the next run would start. `OnlyExcusedGaps` alone is not
inductive: the end of a run, or the listener, moves the index point and with it everything the
property speaks of. The growth of the chain (`Grows`, which a new block and a reorganisation both are)
is one lemma for each part.

## Lifecycle: opening, deleting and shutting down

Three goroutines shut wallets down, and each has its own program counter: *main*,
once the window is closed (`main.go:110-117`); the *switcher*, which creates the
manager of the other network and shuts the old one down, or the new one if the
choice cannot be saved (`ui/load/appinfo.go:138-220`); and the *deleter*. Per manager
there is an *opener* (`OpenWallets` of the start page) and the goroutine of
`listenForShutdown`, per wallet the *canceler* that `prepare` starts. A send on an
unbuffered channel is one action of sender and receiver. Index runs and sessions are
those of the other two modules, cut down to what a shutdown waits for: an index run
holds `dbMutex`, which `UnloadWallet` of the Decred loader takes; a session is there
until it is reset, and `CancelSync` waits for it as in `DcrSync`.

| Model | Code |
|---|---|
| `mgrDb`, `listener`, `assets`, `app` | `mgr.params.DB`, `mgr.shuttingDown` and who receives it, `mgr.Assets`, `appInfo.AssetsManager` |
| `opened`, `dataDb` | `loader.GetLoadedWallet`, `wallet.walletDataDB` |
| `canceler`, `funcs`, `sweep` | the goroutine of `prepare`, `cancelFuncs`, what is left of its `range` |
| `records`, `dirs` | the wallets of `wallets.db` and their directories |
| `SignalWallet` ... `AwaitCancelDone` | `Wallet.Shutdown` |
| `SignalManager` ... `CloseManager` | `AssetsManager.Shutdown` |
| `CallDeleteWallet`, `DropRecord`, `RemoveDir` | `DeleteWallet`, `deleteWallet` |

`LateAppend` is the unlocked `append` of `ShutdownContextWithCancel`: a call that read
the slice early and assigns it late loses what was registered in between.

`lifecycle` (`Lifecycle.cfg`) lets all of them meet: one wallet per network, one of them
synced, one index run. It checks

- `ManagerClosesLast`: the database of a manager is closed after every wallet was shut
  down to its end, by whomever;
- `IndexHasItsDatabases`: `dbMutex` keeps a wallet loaded under an index run, with the
  exception of wallets that `OpenWallets` opens again after their shutdown (history
  variable `late`): the one signal was consumed by `listenForShutdown`, so its `select`
  (`assets_manager.go:468-471`) can only ever receive that of a second shutdown;
- `ShutdownsAreAnswered`, of two parts. `WaitsAreAttended`: whatever a `Shutdown` waits for is
  under way. The session it waits for has its context cancelled or is over, the index run that
  holds `dbMutex` is one of that wallet, and the canceler that took its signal has not reported to
  anybody else. `LoneQuitIsHeard`: unless the network is switched, main finds a receiver for the
  signal of the manager and of every wallet that no deletion has in hand;
- `OnlyStrandedQuitsHang` (liveness, with weak fairness for every goroutine that is
  inside a method and for sessions once they are cancelled; an index run ends by itself
  because its range of blocks is finite): quitting ends unless main itself waits for a
  receiver that is gone or for the channel of a session that has ended. So neither
  `dbMutex`, nor a lost registration, nor the canceler can hold it up.

`lifecycle_quit`: without the exception the program may not end. It is enough to close
the window while the network is switched or a wallet is deleted: the signals are
received once, and the second `Shutdown` waits for ever.

Bounds: each index run runs once, each wallet in `Syncing` is synced once, the network
is switched once. Some steps no other goroutine can tell apart are merged, such as a
map that is cleared and the database that is closed right after it. Deadlock is not checked: the
program ends.

Observed and not claimed: an index run that was queued at `dbMutex` while the wallet was
unloaded dereferences nil (`crashed`); the context of `initRateSource` is lost when
`listenForShutdown` makes `cancelFuncs` anew; a context whose registration was lost, or
came late, is never cancelled; the log rotator is a global that a new manager replaces
and the shutdown of the old one then closes (`log.go:63-69`, `assets_manager.go:428-432`).

Left out: Politeia, the exchange sync and the DEX client, which `Shutdown` stops first;
`CancelRescan`, which cancels what is already cancelled. What the records hold is the
matter of `WalletRecords`; here a wallet is on record or not.

### Proofs: `LifecycleProofs`

For any wallets of the two networks, any of them synced, and any number of index runs:

- `TypeCorrect`: whoever ends a wallet has one in hand (`WellPlaced`), so that no shutdown is ever at
  a nil wallet;
- `ManagersCloseLast`: `Spec => []ManagerClosesLast`. `ShutdownInv` follows a wallet from the list of its
  manager to its end: it is listed, or on the list of who shuts the manager down, or in his hands, or
  gone (`ListedOrGone`, `ToDoOrGone`); in his hands the steps have come in their order, so that a
  wallet he lets go is gone (`InOrder`); a manager is used only once it is there (`CreatedFirst`), and
  everybody is at a wallet of his own manager (`AtHomes`);
- `IndexRunsHaveTheirDatabases`: `Spec => []IndexHasItsDatabases`. An index run holds `dbMutex`
  (`HoldsMutex`), which `UnloadWallet` takes; a wallet that is loaded while its shutdown is about to close
  its database was opened again (`ReopenedLate`), which is the exception;
- `ShutdownsAreAttended`: `Spec => []WaitsAreAttended`, the safety under `OnlyStrandedQuitsHang`.
  `WaitInv`: a canceler is past its signal for one Shutdown only (`OnePast`), which its report is
  due to (`ReportIsDue`), after the functions it called have cancelled the session
  (`SessionIsCancelled`); the mutex is never held by nobody (`MutexIsHeld`);
- `LoneQuitsAreHeard`: `Spec => []LoneQuitIsHeard`. `HeardInv`: without the switch only main shuts
  a manager down (`ManagerHeard`), and a wallet whose canceler has left is off the list of who
  shuts it down, or in hand (`CrossedOff`, `WalletHeard`), so that no signal is sent twice. The
  two are `QuitsAreAnswered`: `Spec => []ShutdownsAreAnswered`.

`OnlyStrandedQuitsHang`, liveness, stays with TLC.

## WalletRecords: what a wallet is made of

A wallet is a record of `wallets.db`, a `Wallet` object and an upstream wallet in a data
directory, and no transaction spans them. Its passphrase is kept twice: it locks the
upstream wallet and it encrypts the seed words of the record.

| Model | Code |
|---|---|
| `records`, `lastId` | the wallets of `wallets.db`, a Storm database over Bolt with unique names, a counter of identifiers and one writer at a time (external) |
| `wallets`, `listed`, `bad` | the objects, `mgr.Assets`, the wallets that could not be loaded |
| `dirs`, `vaults` | the data directories and what locks the upstream wallet in each |
| a wallet's `name`, `seal` | `Name`; the passphrase that decrypts `EncryptedMnemonic` |
| `session` | the sync of a wallet, cut down to its saves: `MarkWalletAsDiscoveredAccounts`, `SetBirthday` |
| `user` | the call the user is in and what it holds; `Zeros` is a passphrase `changePrivatePassphrase` has overwritten |
| `CreateWallet` ... `CommitNewWallet` | `saveNewWallet` with `prepare` and the loader's `CreateNewWallet` |
| `RenameWallet`, `SaveNewName` | `RenameWallet` |
| `ChangePrivatePassphrase` ... `UndoRekey` | `ChangePrivatePassphraseForWallet` with its rollback |
| `DeleteWallet` ... `RemoveDataDir` | `DeleteWallet`, `deleteWallet`; `DeleteBadWallet` |
| `Restart` | the program dies at any point; `cleanDeletedWallets`, `prepareExistingWallets` |

The user makes one call at a time; the syncs save at any moment; a write may fail where
the code looks at an error. `Save` writes the whole object and creates a record that is
gone. `ShutdownWallet` ends the session of a Decred wallet before it goes on; for a Bitcoin
or Litecoin wallet (`Utxo`) `CancelSync` returns while the waiter still runs (`leaving`).

The third part of `safety` checks

- `SeedFollowsPassphrase`: what opens the upstream wallet opens the recorded seed words;
- `RecordsAreCurrent`: the objects agree with the records when no call is under way;
- `WalletsAreKept`: a wallet that was created and not asked to be deleted has its record
  and its upstream wallet, whatever a later start cleaned up;
- `DeletedStaysDeleted`: the record of a deleted Decred wallet does not come back.

Excuses: `unsaved`, the last save of the object failed; `torn`, the program died with such
a wallet, or in the middle of a change of its passphrase. Nothing else excuses anything: not
a failed creation, not a sync that saves the object in the middle of a change.

`wallet_records_delete`: the waiter of a Bitcoin or Litecoin sync saves the object after the
record was deleted and the wallet is back (`EveryDeletionLasts`). `wallet_records_passphrase`:
after a failed save the rollback is called with zeros and fails, so that the wallet has the new
passphrase and its seed words the old one (`SeedIsReencrypted`).

Bounds: one wallet of each kind, two names (a rename can meet a name that is taken), two
passphrases, two failures (the save of a change and its next one), two deaths (one inside a
call, one after the clean-up of the first). Deadlock is not checked: the user may have nothing
left to do.

Observed and not claimed: a rename whose save fails stays in the object, and if another wallet
takes that name no later save of the object succeeds; a wallet whose passphrase was torn cannot
be given a new one, since the words do not decrypt; `cleanDeletedWallets` also removes the
directories the loader has moved aside (`.bak`).

### Proofs: `WalletRecordsProofs`

For any identifiers, names, passphrases, failures and restarts: `RecordsTypeCorrect`,
`SeedsFollow`, `RecordsFollow`, `NoWalletIsLost`, `DeletionsLast`. The properties speak of moments
when no call is under way. The invariant `RecordsInv` says what holds inside one: `InCall`, what
the call has done so far, place by place (at `commit` the upstream wallet is locked with what
will be the seal; from `reseal` on the passphrases are zeros); `Fresh`, identifiers not yet given
out have left no trace, but for a directory; `Held`, there is an object wherever a session or a
list needs one; `ObjectSeals` and `RecordSeals`, how seals follow vaults through the steps of a
change; `Current`, `Kept`, `Gone`, the properties made inductive. One lemma per group of actions
(`CreationKeeps`, `ChangesKeep`, `SessionsKeep`, `DeletionKeeps`, `RestartKeeps`), one step per
action. The assumptions are the module's: bounds are natural numbers, the values that stand for
nothing are not passphrases nor wallets.

`MCSafetyTypeCorrect` is about the model of the run: `PartsCompose` shows that a behaviour of
`MCSafety` is one of the Decred sync, of its index and of the records, so that the types, and every
other theorem about one of them, hold in it.

## UtxoSync: the synchronisation of Bitcoin and Litecoin wallets

The two wallets have the same code up to names, and one module. A *session* is a call of
`SpvSync` past its check, with its context, its *waiter* (`waitForSyncCompletion`) and its
*starter* (`startSync`), all named by one number; there is one *handler* of the chain's
notifications for all (`handleNotifications`, guarded by `syncstarted`). `syncData.mu` protects
single assignments only, so each is an action.

| Model | Code |
|---|---|
| `syncing synced isRescan syncCtx syncShuttingDown` | the fields of `SyncData`, the context with its cancel function |
| `chainService`, `chainServiceStopped`, `clientStarted` | neutrino's service and the chain client: a service that was stopped never starts again and is made anew |
| `attached`, `upstreamStopping`, `discovered` | what the upstream wallet knows of the client; `ContainsDiscoveredAccounts` |
| `CheckNotSyncing`, `ArmSession` | `SpvSync` |
| `StartWallet` ... `SynchronizeRPC` | `startWallet`, `startSync` |
| `WaiterTicks` ... `WaiterIsCancelled` | `waitForSyncCompletion`, `rescanFinished` |
| `CancelSync` ... `EndCancelSync` | `CancelSync`, `stopSync` and its wait group; `CheckUpstream` and `StopUpstream` are its question and its act |
| `ReloadChainService`, `RenewChainService` | `reloadChainService`, after the peers were changed |
| `CheckForRescan` ... `CancelRescan` | `rescanBlocks`, `CancelRescan` |

`utxo_sync` (`UtxoSync.cfg`):

- `FlagsTellWhatRuns`: between calls the flags, the context, the chain service, the client,
  the upstream wallet and the handler agree. It is excused by calls that overlap
  (`overlapped`), by a waiter that declares the chain current while the sync is being
  cancelled (`lateCurrent`), by a handler that outlasts its session (`lateHandler`) and by a
  failed start (`startFailed`); each of them does break it;
- `StopsAreAttended`: a switch that was disabled has a `CancelSync` on its way that will enable it,
  and an upstream wallet that was stopped has a `stopSync` that will start it again;
- `SwitchIsEnabledAgain` (liveness): `CancelSync` returns, also beside the one a failed start
  calls for itself: they wait for each other's `stopSync`, not for each other. One that is
  `Stranded` is excepted;
- `CancelledSessionEnds` (liveness): waiter and handler of a cancelled session end or join the
  next one.

The exception is real: without it TLC finds a `CancelSync` that never returns. Two
`stopSync` may both find that the upstream wallet is not shutting down (`sync.go:369`). The one that
gets through first starts the wallet again (`sync.go:418`), and `WaitForShutdown` of the other
(`sync.go:395`) waits for the goroutines of a wallet that nobody stops; both `CancelSync` wait for
that one. What is assumed of btcwallet, which is not in the repository, is what the comment at
`sync.go:394` says: `WaitForShutdown` returns when the wallet has shut down, and a wallet that
`Start` has started again has not.

Fairness: weak for goroutines inside a method; strong for the two `select`s that are offered the
end of their context again and again among other cases, since Go chooses among ready cases at
random.

Bounds: one caller (the overlaps that matter are with the goroutines of the sessions, among them a
starter that cancels its own sync), two sessions, two cancellations or reloads, one rescan, a
restored wallet, which has every step a new one has and the initial rescan. Once something excuses
the flags no new call begins; what is under way goes on to its end. Deadlock is not checked: the
bounds are reached.

Observed and not claimed: a handler that is still there when the next session looks leaves that
session without notifications; `Shutdown` of the Bitcoin wallet closes the database of the chain
before it waits for the goroutines (`btc/wallet.go:264-278`).

### Proofs: `UtxoSyncProofs`

For any callers and any number of sessions, cancellations and rescans:

- `UtxoTypeCorrect`. That no more goroutines wait for a rescan than were asked for counts those about
  to submit one, too (`JobsAreCounted`, a cardinality);
- `FlagsAreTrue`: `UtxoSpec => []FlagsTellWhatRuns`. Between calls a session is wholly there (`On`) or
  wholly gone (`Off`); in the middle of a start, a cancellation, a reload or a rescan the state is as far
  from one to the other as that goroutine has come (`Phase`), and as long as nothing excuses the flags
  there is only one such goroutine (`OneChanges`). A waiter selects on the context of the field or on
  one that has ended, and what it declares holds until `CancelSync` finds it in the middle
  (`WaitersFollow`). Contexts are those of armed sessions, so that a new one is live (`Armed`). One
  lemma per goroutine (`SpvSyncTells`, `StarterTells`, `CancelTells`, `OtherCallsTell`, `WaiterTells`,
  `HandlerTells`), over what a step of a goroutine that is alone must establish (`TellsAgain`);
- `StopsHaveAttendants`: `UtxoSpec => []StopsAreAttended`, without any excuse: also calls that overlap
  and starts that fail leave nothing disabled or stopped that nobody attends to. It needs
  `UnarmedAreUnborn`, that the arming of a session takes no starter away from a cancellation; the rest
  is one lemma about a step of one goroutine (`OneGoesOn`).

The two liveness properties stay with TLC.

## The services of the assets manager: OrderScheduler, ExchangeSync, Rates

`exchange_services` (`Exchange.cfg`, module `MCExchange`).

**OrderScheduler.** `StartScheduler` is one chain of program counter values per scheduler
(`sched`), `StopScheduler` another (`stopper`). `CancelOrderSchedulerMu` is only ever
read-locked, so the check, the assignment and the reset of `CancelOrderScheduler` are steps of their
own. Amounts are small integers, requests answer or fail, rates deviate or not; a payment costs a
fee beside its amount, up to `MaxTxFee`, which no check of the code takes account of
(`instantswap.go:200`, `231-236`); the account is drawn on or paid into meanwhile (`UserSpends`).

- `SchedulerIsReachable`: as long as no scheduler is published beside another or beside the call
  that stops it (`overlapped`), the one that trades is the one `StopScheduler` reaches;
- `OrdersSpareTheBalance`: however many orders are paid, they take the account below the balance to
  maintain by the fee of one transaction at most. That balance is what the fee comes out of, as
  the error at `instantswap.go:200` says, and the account does go below it by a fee; what must not
  happen is that orders, each made for a balance read before a sleep, go on eating it. What the
  user paid is the user's (`spends`), an account that never had that balance is not the
  scheduler's doing, and two schedulers at once spend the same balance twice (`overlapped`);
- `StoppedSchedulersEnd` (liveness): a stopped scheduler ends, also while it waits for an order that
  is never confirmed.

Two schedulers, a balance of 3 with 2 to maintain, fees up to 1, limits of 1 and 2 (an order at what
is left and one above it), one payment of or to the user.

**ExchangeSync.** An order is its number, its status a number that only grows at the exchange
(`remote`). A sync walks the saved orders once per server, a page at a time, newest first, and
starts a server anew when something fails (`Retry`); the details page, the order history, the
creation and the deletion of orders write the same database; `StopSync` is the shutdown.

- `CompletedSyncIsFresh` (action property): a sync that completes has saved, of every order, a
  status at least as late as the exchange's when it began, unless an order was deleted (the pages
  shift), the server was left out (`skipped`) or somebody saved an older answer (`overtaken`);
- `ImplementsService`: `OneAtATime` is the abstract service: one run at a time, and the field shows
  it, until the shutdown clears the field. `Stop` waits for nobody, and a call of `Sync` that comes
  after it is not refused, in the code or here (`sync.go:24-35` asks only whether another one is
  shown): it may begin beside one that is ending. The refinement mapping takes `running` to the syncs
  between their two critical sections and `shown` to `cancelSync`.

Two syncs, two orders of two servers, one of them saved before orders had a server, pages of one
order, two attempts, two events.

**Rates.** *Jobs* are the goroutines that use the rate source: a refresh, a change of the source, the
fetch of one rate. A ticker is the source it came from. Coinpaprika answers for all markets at once
and writes what it has into the cache, whoever asked (`PricesCached`); then the cache is read for the
market that was asked for (`CachedPriceRead`), and a market it has no price of becomes a nil ticker,
which is stored. Whoever finds it dereferences it and the program ends (`GetNilTicker`,
`CopyNilTicker`, `crashed`).

- `QuietCacheIsCurrent`: when every job has ended, the cached rates are those of the source chosen
  last, although older refreshes may have stored theirs meanwhile. History variable `calm`: no source
  failed (the fallback writes `source`), no toggle ran beside another or beside the fetch of a single
  rate, and Coinpaprika's answer lacked no market of which the cache held another source's ticker;
- `RefreshesEnd` (liveness): a job that waits on the condition variable is woken, unless the program
  ended on a nil ticker.

Three sources, two markets, two jobs: one that refreshes and one that changes the source under it.

Left out: that `coinpaprikaGetTicker` reads the map without the lock (`rate_source.go:553`), which the
Go runtime may answer with the end of the program if it meets a write in the same instant; and the
branches of `retryGetTicker` for a context that has ended (`rate_source.go:443`, `462-465`). No run of
the program takes them: `initRateSource` (called at `assets_manager.go:241`) appends its cancel function
to `cancelFuncs`, and `listenForShutdown` (called at `246`) replaces that list by an empty one (`376`),
so that the context of the rates never ends.

`rates_privacy` (`RatesPrivacy.cfg`, module `MCRates`): `ToggleStatus` returns exactly when there is
something to change, so privacy mode never disables the source (`PrivacyStopsRefreshes`).

Fairness: each goroutine goes on, that is, requests answer or fail and sleeps end; a job that waits
for another is not enabled. Nothing is assumed of the answers. Deadlock is not checked: jobs are used
up.

Observed and not claimed: two schedulers can run, and the end of the first hides the second; the
balance an order is made for may be hours old when it is paid; a nil ticker of Coinpaprika's ends the
program; the deferred function of a sync that the shutdown has stopped calls nil (`ShutdownCrashesSync` says that nothing else gets there).

### Proofs: `ExchangeProofs`, `RatesProofs`

- `TradingCanBeStopped`: `OneAndInTheField` strengthens `SchedulerIsReachable` by the scheduler that is
  ending and by what a stop has read.
- `OrdersSpareBalance`: `SchedulerSpec => []OrdersSpareTheBalance`. `InvoiceLeavesBalance` carries the
  bound on the amount from the order to its payment, and `BalanceIsKnown` says that meanwhile only the
  user has moved what the scheduler read, as long as no other one trades.
- `SyncIsAService`: `ExchangeSpec => ImplementsService`. `FieldTells`, the field is that of the sync
  under way until the shutdown clears it, is the invariant behind the refinement; every other step of a
  sync, a page or the exchange is a stutter (`Walks`). `ShutdownCrashesSync` from the same invariant.
- `CompletedSyncsAreFresh`: `ExchangeSpec => CompletedSyncIsFresh`. `WalkInv` says what a walk has passed:
  of the servers that are done every order is fresh, of the one at hand those whose rank (the number of
  newer saved orders) is below the offset, unless they are still on the page. The lemmas are about
  ranks: distinct orders have distinct ones, so a page is never longer than its limit
  (`PageIsLimited`); they are dense, so an empty page comes after all orders (`EmptyPageIsTheEnd`); and
  orders that are created only raise them (`RanksGrow`). An update keeps what was fresh fresh, or
  excuses it (`UpdateKeeps`), and an answer is never older than the beginning of the sync
  (`Answered`, since exchanges do not take back what they said, `RemoteAhead`).
- `SchedulerTypeCorrect`, `ExchangeTypeCorrect` and, with `RatesTypeCorrect`, `MCExchangeTypeCorrect`:
  `ExchangeServicesCompose` shows that a behaviour of `MCExchange` is one of each of its parts, so that
  the types, and every other theorem about a part, hold in it. The page at hand and the copy of the
  details page are saved orders with the types they had when they were read.
- `RefreshesTakeTurns`: the safety under `RefreshesEnd`. `refreshing` stands for exactly one refresh
  (`OneRefresh`), and a job that waits is owed a wake-up (`NoWakeUpIsLost`): somebody refreshes, or
  somebody is about to, at the moment of each `Wait`.
- `RatesTypeCorrect`: the fallback finds the next source of the list as long as there is one
  (`NextSourceIsThere`, from the well-foundedness of the numbers).
- `CacheFollowsTheSource`: `RatesSpec => []QuietCacheIsCurrent`. The property speaks of the moments when no
  job runs; `CacheInv` says what holds in between, as long as it is `calm` (`CalmInv`). A toggle comes
  alone (`ToggleAlone`), saves its choice before it changes the source (`ChosenComesNext`) and forces a refresh (`TogglesForce`), which waits for the one under way
  (`Renewing`) and then fills an empty map (`Replacing`): until it has begun, an older refresh may
  store tickers of the old source, afterwards whatever is asked for is of the new one
  (`FetchesAreOwn`), and once it has stored its map so is the cache (`CacheIsOwn`).

## The services of a wallet: Politeia, TicketBuyer, AccountMixer

`wallet_services` (`Wallet.cfg`, module `MCWallet`).

**Politeia.** A sync (`worker`) asks for known proposals page by page, then for the inventory and the
new ones, and starts anew whenever a request fails, which it does while the server is down
(`ServerGoesDown`, `ServerComesUp`). The client is made in two steps that may fail separately, by a
sync or by the details page, whichever comes first. `StopSync` reads the field, calls what it finds and
clears it in three steps, since a read lock keeps nobody out and the deferred reset takes none: it may
call nil (`nilStop`, where the program ends). The details page (`viewer`) and the vote modal look for a
context in the field and, if there is none, put `context.Background()` there in a second step
(`AssignBackground`, `politeia_sync.go:365-367`, `417-419`), over that of a sync that has published
its own in between; the page then saves the record it read before its request. The server's
proposals move on.

- `OneProposalSync`: the field tells of the one sync that is under way, unless two passed the check
  together (`raced`) or the shutdown has stopped it;
- `CompletedProposalSyncIsFresh` (action property): a sync that completes has saved every proposal at
  least as late as it was when the sync began, unless two raced, the pages shifted when one was found
  abandoned (`shifted`), or the details page saved an older copy (`outdated`, until it is made good);
- `StoppedProposalSyncEnds` (liveness): a stop reaches a sync wherever it is, as long as the context
  in the field is the sync's own (`politeiaCtx # s` is the escape). It is not when a later sync, or
  `AssignBackground`, has replaced it: the sync then asks a context that never ends, and if the
  server stays down or the client has an empty policy it goes on for ever.

Two syncs, two proposals, pages of one, one event at the server, one view. Of what may happen at first
`MCWalletInit` leaves out some combinations: the server is down from the start only with an empty
database, and with a filled one there is either a view or a change at the server. After a race nothing
new begins, since it excuses everything.

**TicketBuyer.** A buyer is a call of `StartTicketBuyer`; its goroutine handles each new tip: the price
interval and the expiry as in `runTicketBuyer`, the number of tickets from the balance, one
purchase per tip, each ticket an action of its own. `ongoing` are the purchases whose goroutines
(`ticket.go:437`) are at work; a cancel only marks them, and a purchase that was cancelled may still
buy, fail, or fail after its split transaction was published. Tickets are counted at one unit; what one
then takes from the account, with the fees of the VSP and of two transactions and the change that goes
to the account to be mixed (`ticket.go:486-490`), is a unit at least and otherwise anything.

- `PurchaseFitsItsInterval` (action property): a ticket can only be mined at the price it was made
  for, and there is a block that may hold it;
- `NoPurchaseAtAnOldPrice` (action property): once a tip has been handled, every purchase that goes on
  has the price of the next block and can still be mined at it, however many tips it has lived through
  and however many of them were skipped. It rests on the cancels of `ticket.go:358-363`;
- `BuyerIsReachable`, `SwitchTellsTheTruth` (liveness): what runs is in the field, and what is in the
  field runs or leaves it (`SwitchShowsABuyer`, that it is never a buyer that has ended, is proved
  below).

Two buyers, intervals of 4 blocks and heights up to 6, two blocks before the second interval ends (blocks
may be skipped, so that every offset around the end of an interval occurs), two units of which one is to
be kept.

**AccountMixer.** `cancelAccountMixer` has no lock; a mixer's goroutine sets and clears it, and the
switch, the listener for blocks and `CancelSync` stop what they find there.

- `MixerIsReachable`: a mixer that mixes is in the field, until one was started beside another or
  beside a stop (`mixersMet`).

Two mixers, two goroutines that stop them.

Fairness: weak for each sync and each buyer; the server and the chain may rest for ever. The
mixer has no liveness property. Deadlock is not checked.

Observed and not claimed: a client whose policy was not read stays, and with an empty policy the
batches are empty and the sync asks for ever, until it is stopped; the early return at
`politeia_sync.go:303` keeps the read lock; a proposal sync whose context was overwritten cannot be
stopped; a second mixer hides the first. The balance to maintain of the ticket buyer is not kept, and no
property says that it is: the number of tickets is spendable balance over price (`ticket.go:400-406`),
so that the fees of the VSP and of the transactions come out of it, as does the mixed change; purchases
that were cancelled are not waited for and may spend what the next tip has counted on.

### Proofs: `WalletServicesProofs`

- `SyncIsInTheField`: for any number of syncs, any proposals and any server.
- `CompletedProposalSyncsAreFresh`: for any number of syncs and of proposals and any page size, with
  failures, retries, stops and a details page that saves in between. `ProposalFreshInv` has to carry
  the walk of `handleProposalsUpdate`: every listed record whose place (the number of newer listed
  ones) is below the offset is as late as the server was when the sync began, or still on its page;
  what is on the page has not been changed since it was read; at the inventory every record is that
  late; and from then on what is not to be fetched is. Around it: the server only goes on from whatever
  was read of it (`ServerAhead`), the answers a sync works on are not older than the sync
  (`CopiesAhead`), and without a race one sync is active (`AloneActive`). Records save for an excuse
  only take what the server said, so that `Listed` never loses a member (`RecordsStand`) and no place
  falls. The lemmas on pages (`PageByPlace`, `ProposalPageIsLimited`, `EmptyProposalPage`, `PlacesGrow`)
  say that the next page holds exactly what the offset passes, and that an empty page comes after all.
- `PoliteiaTypeCorrect`.
- `PurchasesFit`: for intervals of any length above two. `IntervalIsKept` says what a buyer remembers of
  the last tip it saw; `ExpiryFits` is the arithmetic of `IntervalEnd`, over `HeightInInterval`,
  `SameInterval` and `NextInterval`, which rest on how division rounds.
- `NoOldPrices`: `BuyerSpec => NoPurchaseAtAnOldPrice`. `PurchasesAtTip` says of the
  purchases that go on that they fit the interval the buyer remembers; a tip that reaches its end
  cancels them all, any other keeps them in it, and new ones fit by `ExpiryFits`.
- `BuyerCanBeStopped`: `FieldIsTaken`, between the look at the field and the assignment nobody else
  sets it, because the modal makes one call at a time.
- `SwitchIsHonest`: `BuyerSpec => []SwitchShowsABuyer`, in every order of starts, failures and stops.
- `MixerTypeCorrect`, `MixerCanBeStopped`.
- `BuyerTypeCorrect` and, with the other two, `MCWalletTypeCorrect`. That the interval a buyer remembers
  stays a number of the chain needs that intervals grow with the height (`IntervalsGrow`);
  `WalletServicesCompose` shows that a behaviour of `MCWallet` is one of each of its parts.

## What is proved and what is only checked

Proved, for every value of the constants and from the assumptions of the modules alone (and `Serial`,
where it is named): the theorems named above, 48 of them listed in `PROJECT.json`. Only model-checked:

- every liveness property, since the prover has no support for fairness;
- the six properties that the code violates, for which there is nothing to prove.

The other way round, `AtMostOneSession`, which `SessionsAreAService` implies, `SwitchShowsABuyer` and the
type invariants of `Lifecycle` and `UtxoSync` are proved and no run checks them as well.

## Not modelled

- VSPs and the authoring of transactions: `SaveVSP` reads, asks and writes one record (two at a time lose
  one), the rest is calls of dcrwallet.
- The Badger driver: sequential. What was seen while reading it: keys are joined without a separator, so
  that different bucket paths can meet in one key; `dropBucket` leaves what is two levels down and
  commits the transaction it works in, which a rollback then does not undo; `Prev` of a cursor stops at
  a nested bucket; the length of a prefix is kept in one byte.
- Navigation (`app/`): a slice of pages that one goroutine uses.
- The DEX client, the loaders, the queries: thin layers over libraries, or sequential reads. What the
  loaders do to a shutdown is in `Lifecycle`.
- Manual ticket purchases, votes, how a VSP is paid, amounts below a unit, progress figures, peers, drawing, forms,
  logging, configuration.
- The two modules of the Decred sync and of the records do not meet in one model: that a Decred sync is
  waited for, which `WalletRecords` assumes, is what `CancelledSessionsEnd` says of `DcrSync`, with the
  exception `dcr_sync_cancel` shows.

## Running

    tlc -workers 2 -config DcrSyncSerial.cfg MCDcrSync
    tlc -workers 2 -config DcrSyncCancel.cfg MCDcrSync                  (violated)
    tlc -workers 2 -config Safety.cfg MCSafety
    tlc -workers 2 -config TxIndexInterrupted.cfg MCTxIndex             (violated)
    tlc -workers 2 -config WalletRecordsDelete.cfg WalletRecords        (violated)
    tlc -workers 2 -config WalletRecordsPassphrase.cfg WalletRecords    (violated)
    tlc -workers 2 -config Lifecycle.cfg MCLifecycle
    tlc -workers 2 -config LifecycleQuit.cfg MCLifecycle                (violated)
    tlc -workers 2 -config UtxoSync.cfg UtxoSync
    tlc -workers 2 -config Exchange.cfg MCExchange
    tlc -workers 2 -config RatesPrivacy.cfg MCRates                     (violated)
    tlc -workers 2 -config Wallet.cfg MCWallet
    for m in *Proofs.tla; do tlapm $m; done

The longest run takes about three minutes, all proofs together some fifteen minutes. A
violated run is one that shows a disagreement between the code and a text of the repository; each is
quoted under `findings` in `PROJECT.json`.
