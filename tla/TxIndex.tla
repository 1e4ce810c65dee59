------------------------------ MODULE TxIndex ------------------------------
(***************************************************************************)
(* The transaction index of a Decred wallet: libwallet/assets/dcr/         *)
(* txindex.go, rescan.go and txandblocknotifications.go over the database  *)
(* of libwallet/assets/wallet/walletdata.                                  *)
(*                                                                         *)
(* The wallet's chain grows and is reorganised while three kinds of        *)
(* goroutines write the database: IndexTransactions, started whenever the  *)
(* wallet is synced and at the end of a rescan; the listener for new       *)
(* blocks; and the rescan, which may drop all records.  Only               *)
(* IndexTransactions takes dbMutex.  The database survives when the        *)
(* program is killed, everything else is lost.                             *)
(*                                                                         *)
(* Every block holds one transaction of the wallet, <<height, fork>>.      *)
(***************************************************************************)
EXTENDS Integers, Sequences

CONSTANTS
    Rescanners,      \* goroutines of RescanBlocksFromHeight
    Syncs,           \* bound: the index runs of syncedWallet that wait or run at a time
    RescanHeights,   \* the heights rescans start from
    MaxReOrgBlocks,  \* how far below the index point indexing starts again
    MaxHeight,       \* bound: the height of the chain
    MaxForks,        \* bound: the number of reorganisations
    MaxKills,        \* bound: how often the program is killed
    Interrupts       \* whether an index run may fail or be cancelled

Indexers == Rescanners \cup Syncs
Nobody   == "nobody"

ASSUME IndexAssumption ==
    /\ MaxReOrgBlocks \in Nat \ {0} /\ MaxHeight \in Nat /\ MaxForks \in Nat /\ MaxKills \in Nat
    /\ RescanHeights \subseteq 0 .. MaxHeight
    /\ Interrupts \in BOOLEAN
    /\ Syncs \cap Rescanners = {} /\ Nobody \notin Indexers

Heights == 0 .. MaxHeight
Txs == (1 .. MaxHeight) \X (0 .. MaxForks)

VARIABLES
    chain,           \* the fork each block of the best chain belongs to
    forks,           \* how many reorganisations there were
    savedTxs,        \* database: the transactions that are saved
    endBlock,        \* database: KeyEndBlock, the last index point
    kills,
    inSync,          \* syncData.synced
    listener,        \* the goroutine of listenForTransactions
    pending,         \* its channel: the transactions of attached blocks
    mutex,           \* who holds dbMutex
    index,           \* where each IndexTransactions is
    height,          \* the block it indexes
    last,            \* the endHeight it read
    rescan,          \* where each rescan is
    rescanFrom,      \* its startHeight
    rescanning,      \* syncData.rescanning
    excused,         \* history: a rescan or an index run cut short may have left a gap
    whole            \* history: an index run that reads everything again

database  == <<savedTxs, endBlock>>
chainVars == <<chain, forks>>
indexVars == <<mutex, index, height, last>>
rescans   == <<rescan, rescanFrom, rescanning>>
listening == <<listener, pending>>
history   == <<excused, whole>>
txIndexVars == <<chainVars, database, kills, inSync, listening, indexVars, rescans, history>>

IndexStates    == {"idle", "locking", "begin", "block", "deleted", "saved", "finish"}
RescanStates   == {"idle", "started", "scanning", "dropped", "indexing"}
ListenerStates == {"none", "starting", "listening", "deleted"}

IndexTypeOK ==
    /\ chain \in Seq(0 .. MaxForks) /\ Len(chain) <= MaxHeight /\ forks \in 0 .. MaxForks
    /\ savedTxs \subseteq Txs /\ endBlock \in Heights /\ kills \in 0 .. MaxKills
    /\ inSync \in BOOLEAN
    /\ listener \in ListenerStates /\ pending \in Seq(Txs)
    /\ mutex \in Indexers \cup {Nobody}
    /\ index \in [Indexers -> IndexStates]
    /\ height \in [Indexers -> 0 .. MaxHeight + 1] /\ last \in [Indexers -> Heights]
    /\ rescan \in [Rescanners -> RescanStates] /\ rescanFrom \in [Rescanners -> Heights]
    /\ rescanning \in BOOLEAN
    /\ excused \in BOOLEAN /\ whole \in [Indexers -> BOOLEAN]

IndexInit ==
    /\ chain = <<>> /\ forks = 0
    /\ savedTxs = {} /\ endBlock = 0 /\ kills = 0
    /\ inSync = FALSE /\ listener = "none" /\ pending = <<>>
    /\ mutex = Nobody
    /\ index = [i \in Indexers |-> "idle"]
    /\ height = [i \in Indexers |-> 0] /\ last = [i \in Indexers |-> 0]
    /\ rescan = [r \in Rescanners |-> "idle"] /\ rescanFrom = [r \in Rescanners |-> 0]
    /\ rescanning = FALSE
    /\ excused = FALSE /\ whole = [i \in Indexers |-> FALSE]

Best == Len(chain)                  \* GetBestBlockHeight
Tx(h) == <<h, chain[h]>>
At(i, label) == index' = [index EXCEPT ![i] = label]

-----------------------------------------------------------------------------
(* The chain, as the wallet follows it                                     *)

\* The notifications reach a listener that has registered.  It is never more
\* than MaxReOrgBlocks blocks behind.
Notify(txs) ==
    IF listener \in {"listening", "deleted"}
    THEN /\ Len(pending) + Len(txs) <= MaxReOrgBlocks + 1
         /\ pending' = pending \o txs
    ELSE UNCHANGED pending

AttachBlock ==
    /\ Best < MaxHeight
    /\ chain' = Append(chain, forks)
    /\ Notify(<<<<Best + 1, forks>>>>)
    /\ UNCHANGED <<forks, database, kills, inSync, listener, indexVars, rescans, history>>

\* At most MaxReOrgBlocks blocks are replaced, by one more.
Reorganise ==
    /\ forks < MaxForks /\ Best < MaxHeight
    /\ \E depth \in 1 .. MaxReOrgBlocks :
        /\ depth <= Best
        /\ forks' = forks + 1
        /\ chain' = [h \in 1 .. Best + 1 |-> IF h <= Best - depth THEN chain[h] ELSE forks']
        /\ Notify([k \in 1 .. depth + 1 |-> <<Best - depth + k, forks'>>])
    /\ UNCHANGED <<database, kills, inSync, listener, indexVars, rescans, history>>

-----------------------------------------------------------------------------
(* The notifications and their listener                                    *)

\* syncedWallet starts an index run in a goroutine of its own and, unless the
\* wallet was synced already, the listener.
IndexWhenSynced(i) ==
    /\ index[i] = "idle"
    /\ inSync' = TRUE
    /\ listener' = IF inSync THEN listener ELSE "starting"
    /\ pending'  = IF inSync THEN pending ELSE <<>>
    /\ At(i, "locking")
    /\ UNCHANGED <<chainVars, database, kills, mutex, height, last, rescans, history>>

\* resetSyncData.  The listener leaves if it is waiting for a notification;
\* one that is busy misses the close of syncCanceled and stays.
SyncEnds ==
    /\ inSync
    /\ inSync' = FALSE
    /\ \/ listener = "listening" /\ listener' = "none" /\ pending' = <<>>
       \/ UNCHANGED listening
    /\ UNCHANGED <<chainVars, database, kills, indexVars, rescans, history>>

\* The goroutine registers for notifications once it runs.
ListenerRegisters ==
    /\ listener = "starting"
    /\ listener' = "listening"
    /\ UNCHANGED <<chainVars, database, kills, inSync, pending, indexVars, rescans, history>>

\* SaveOrUpdate deletes an older record, then saves: two transactions.
ListenerDeletes ==
    /\ listener = "listening" /\ pending # <<>>
    /\ savedTxs' = savedTxs \ {Head(pending)}
    /\ listener' = "deleted"
    /\ UNCHANGED <<chainVars, endBlock, kills, inSync, pending, indexVars, rescans, history>>

ListenerSaves ==
    /\ listener = "deleted"
    /\ savedTxs' = savedTxs \cup {Head(pending)}
    /\ pending' = Tail(pending)
    /\ listener' = "listening"
    /\ UNCHANGED <<chainVars, endBlock, kills, inSync, indexVars, rescans, history>>

\* A transaction that cannot be decoded or saved ends the goroutine.
ListenerFails ==
    /\ listener \in {"listening", "deleted"} /\ pending # <<>>
    /\ listener' = "none" /\ pending' = <<>>
    /\ UNCHANGED <<chainVars, database, kills, inSync, indexVars, rescans, history>>

-----------------------------------------------------------------------------
(* IndexTransactions                                                       *)

LockDbMutex(i) ==
    /\ index[i] = "locking" /\ mutex = Nobody
    /\ mutex' = i
    /\ At(i, "begin")
    /\ UNCHANGED <<chainVars, database, kills, inSync, listening, height, last, rescans, history>>

\* ReadIndexingStartBlock.
StartBlock == IF endBlock > MaxReOrgBlocks THEN endBlock - MaxReOrgBlocks ELSE 0

BeginIndex(i) ==
    /\ index[i] = "begin"
    /\ height' = [height EXCEPT ![i] = StartBlock]
    /\ last' = [last EXCEPT ![i] = Best]
    /\ whole' = [whole EXCEPT ![i] = (StartBlock = 0)]
    /\ At(i, "block")
    /\ UNCHANGED <<chainVars, database, kills, inSync, listening, mutex, rescans, excused>>

\* GetTransactions hands the blocks to rangeFn one by one; the genesis block
\* has no transaction of the wallet.
IndexDeletes(i) ==
    /\ index[i] = "block" /\ height[i] <= last[i]
    /\ savedTxs' = IF height[i] = 0 THEN savedTxs ELSE savedTxs \ {Tx(height[i])}
    /\ At(i, "deleted")
    /\ UNCHANGED <<chainVars, endBlock, kills, inSync, listening, mutex, height, last,
                   rescans, history>>

IndexSaves(i) ==
    /\ index[i] = "deleted"
    /\ savedTxs' = IF height[i] = 0 THEN savedTxs ELSE savedTxs \cup {Tx(height[i])}
    /\ At(i, "saved")
    /\ UNCHANGED <<chainVars, endBlock, kills, inSync, listening, mutex, height, last,
                   rescans, history>>

\* SaveLastIndexPoint of this block.
IndexPointMoves(i) ==
    /\ index[i] = "saved"
    /\ endBlock' = height[i]
    /\ height' = [height EXCEPT ![i] = @ + 1]
    /\ At(i, "block")
    /\ UNCHANGED <<chainVars, savedTxs, kills, inSync, listening, mutex, last, rescans, history>>

IndexReadsAll(i) ==
    /\ index[i] = "block" /\ height[i] > last[i]
    /\ At(i, "finish")
    /\ height' = [height EXCEPT ![i] = 0]
    /\ UNCHANGED <<chainVars, database, kills, inSync, listening, mutex, last, rescans, history>>

\* rangeFn returns an error, or sees that the context was cancelled because
\* the wallet shuts down.
IndexInterrupted(i) ==
    /\ Interrupts /\ index[i] \in {"block", "deleted", "saved"}
    /\ At(i, "finish")
    /\ height' = [height EXCEPT ![i] = 0]
    /\ excused' = TRUE /\ whole' = [whole EXCEPT ![i] = FALSE]
    /\ UNCHANGED <<chainVars, database, kills, inSync, listening, mutex, last, rescans>>

IndexDone(i) ==
    /\ excused' = (excused /\ ~whole[i])
    /\ whole' = [whole EXCEPT ![i] = FALSE]
    /\ last' = [last EXCEPT ![i] = 0]
    /\ At(i, "idle")

\* Wrong: the deferred function saves the height that is the best one now.
FinishIndexAtBest(i) ==
    /\ index[i] = "finish"
    /\ endBlock' = Best
    /\ mutex' = Nobody
    /\ IndexDone(i)
    /\ UNCHANGED <<chainVars, savedTxs, kills, inSync, listening, height, rescans>>

\* The deferred functions: the index point is set to endHeight however the
\* run ended, then the mutex is unlocked.
FinishIndex(i) ==
    /\ index[i] = "finish"
    /\ endBlock' = last[i]
    /\ mutex' = Nobody
    /\ IndexDone(i)
    /\ UNCHANGED <<chainVars, savedTxs, kills, inSync, listening, height, rescans>>

-----------------------------------------------------------------------------
(* RescanBlocksFromHeight                                                  *)

RescanAt(r, label) == rescan' = [rescan EXCEPT ![r] = label]

StartRescan(r) ==
    /\ rescan[r] = "idle" /\ inSync /\ ~rescanning
    /\ \E h \in RescanHeights : h <= Best /\ rescanFrom' = [rescanFrom EXCEPT ![r] = h]
    /\ RescanAt(r, "started")
    /\ UNCHANGED <<chainVars, database, kills, inSync, listening, indexVars, rescanning, history>>

RescanBegins(r) ==
    /\ rescan[r] = "started"
    /\ rescanning' = TRUE
    /\ RescanAt(r, "scanning")
    /\ UNCHANGED <<chainVars, database, kills, inSync, listening, indexVars, rescanFrom, history>>

\* The rescan fails or CancelRescan cancels it.
RescanFails(r) ==
    /\ rescan[r] = "scanning"
    /\ rescanning' = FALSE
    /\ rescanFrom' = [rescanFrom EXCEPT ![r] = 0]
    /\ RescanAt(r, "idle")
    /\ UNCHANGED <<chainVars, database, kills, inSync, listening, indexVars, history>>

\* From the genesis block: ClearSavedTransactions drops the records, then it
\* sets the index point; nobody holds dbMutex.
RescanDrops(r) ==
    /\ rescan[r] = "scanning" /\ rescanFrom[r] = 0
    /\ savedTxs' = {}
    /\ excused' = TRUE /\ whole' = [i \in Indexers |-> FALSE]
    /\ RescanAt(r, "dropped")
    /\ UNCHANGED <<chainVars, endBlock, kills, inSync, listening, indexVars, rescanFrom, rescanning>>

RescanClears(r) ==
    /\ rescan[r] = "dropped"
    /\ endBlock' = 0
    /\ RescanAt(r, "indexing")
    /\ At(r, "locking")
    /\ UNCHANGED <<chainVars, savedTxs, kills, inSync, listening, mutex, height, last,
                   rescanFrom, rescanning, history>>

\* From another height: the index point is set to it.
RescanSetsPoint(r) ==
    /\ rescan[r] = "scanning" /\ rescanFrom[r] # 0
    /\ endBlock' = rescanFrom[r]
    /\ excused' = (excused \/ rescanFrom[r] > endBlock)
    /\ whole' = IF rescanFrom[r] > endBlock THEN [i \in Indexers |-> FALSE] ELSE whole
    /\ rescanFrom' = [rescanFrom EXCEPT ![r] = 0]
    /\ RescanAt(r, "indexing")
    /\ At(r, "locking")
    /\ UNCHANGED <<chainVars, savedTxs, kills, inSync, listening, mutex, height, last,
                   rescanning>>

RescanEnds(r) ==
    /\ rescan[r] = "indexing" /\ index[r] = "idle"
    /\ rescanning' = FALSE
    /\ RescanAt(r, "idle")
    /\ UNCHANGED <<chainVars, database, kills, inSync, listening, indexVars, rescanFrom, history>>

-----------------------------------------------------------------------------
\* The program is killed: only the database and the chain remain.
Kill ==
    /\ kills < MaxKills
    /\ kills' = kills + 1
    /\ inSync' = FALSE /\ listener' = "none" /\ pending' = <<>> /\ mutex' = Nobody
    /\ index' = [i \in Indexers |-> "idle"]
    /\ height' = [i \in Indexers |-> 0] /\ last' = [i \in Indexers |-> 0]
    /\ rescan' = [r \in Rescanners |-> "idle"] /\ rescanFrom' = [r \in Rescanners |-> 0]
    /\ rescanning' = FALSE
    /\ whole' = [i \in Indexers |-> FALSE]
    /\ UNCHANGED <<chainVars, database, excused>>

IndexNext ==
    \/ AttachBlock \/ Reorganise \/ SyncEnds \/ Kill
    \/ ListenerRegisters \/ ListenerDeletes \/ ListenerSaves \/ ListenerFails
    \/ \E i \in Syncs : IndexWhenSynced(i)
    \/ \E i \in Indexers :
        \/ LockDbMutex(i) \/ BeginIndex(i) \/ IndexDeletes(i) \/ IndexSaves(i)
        \/ IndexPointMoves(i) \/ IndexReadsAll(i) \/ IndexInterrupted(i) \/ FinishIndex(i)
    \/ \E r \in Rescanners :
        \/ StartRescan(r) \/ RescanBegins(r) \/ RescanFails(r) \/ RescanDrops(r)
        \/ RescanClears(r) \/ RescanSetsPoint(r) \/ RescanEnds(r)

IndexSpec == IndexInit /\ [][IndexNext]_txIndexVars

-----------------------------------------------------------------------------
(* Properties                                                              *)

\* Every transaction in a block that indexing will not read again is saved:
\* ReadIndexingStartBlock promises that reading on from there is enough.
IndexedBelowStart == \A h \in 1 .. Best : h < StartBlock => Tx(h) \in savedTxs

\* Only a rescan or an index run that was cut short can leave a gap below the
\* start block, until a later run from the genesis block is done: killing the
\* program, reorganising the chain and ending the listener never do, at any
\* point between two of the transactions that write the database.
OnlyExcusedGaps == excused \/ IndexedBelowStart
=============================================================================
