--------------------------- MODULE TxIndexProofs ----------------------------
(***************************************************************************)
(* Proofs about TxIndex, for any number of rescans and index runs, any      *)
(* window for reorganisations and any bounds: the types, and that only a    *)
(* rescan or a run that was cut short leaves a gap below the start block.   *)
(***************************************************************************)
EXTENDS TxIndex, SequenceTheorems, TLAPS

-----------------------------------------------------------------------------
(* The invariant                                                           *)

\* Where a run holds dbMutex, and where it reads blocks.
Holding == {"begin", "block", "deleted", "saved", "finish"}
Reading == {"block", "deleted", "saved"}

\* One run at a time, and a rescan starts one only when its own is over.
OneRun ==
    /\ \A i \in Indexers : index[i] \in Holding => mutex = i
    /\ \A r \in Rescanners : rescan[r] # "indexing" => index[r] = "idle"

\* Nobody is ahead of the chain.
BehindTheChain ==
    /\ endBlock <= Best
    /\ \A r \in Rescanners : rescanFrom[r] <= Best
    /\ \A i \in Indexers :
        /\ last[i] <= Best
        /\ index[i] = "block" => height[i] <= last[i] + 1
        /\ index[i] \in {"deleted", "saved"} => height[i] <= last[i]

\* A notification that is still true is as far below the tip as there are
\* notifications after it: the listener is at most MaxReOrgBlocks behind.
ListenerIsClose ==
    /\ Len(pending) <= MaxReOrgBlocks + 1
    /\ listener \in {"none", "starting"} => pending = <<>>
    /\ listener = "deleted" => pending # <<>>
    /\ \A k \in 1 .. Len(pending) :
        /\ pending[k][1] <= Best /\ pending[k][2] <= forks
        /\ pending[k] = Tx(pending[k][1]) => Best - pending[k][1] <= Len(pending) - k

\* What run i has read: its own block counts once it is saved.
HasRead(i, h) ==
    \/ index[i] \in {"block", "deleted"} /\ h < height[i]
    \/ index[i] = "saved" /\ h <= height[i]
    \/ index[i] = "finish"

\* What a run has read and no reorganisation can replace is saved, unless the
\* gap is excused and the run did not read everything again.
RunsSave ==
    \A i \in Indexers : ~excused \/ whole[i] =>
        \A h \in 1 .. Best :
            HasRead(i, h) /\ h + MaxReOrgBlocks < last[i] => Tx(h) \in savedTxs

\* A run deletes nothing below the start block.
RunsStartAbove ==
    ~excused => \A i \in Indexers : index[i] \in Reading => StartBlock <= height[i]

GapInv ==
    /\ OneRun /\ BehindTheChain /\ ListenerIsClose
    /\ RunsSave /\ RunsStartAbove /\ OnlyExcusedGaps

-----------------------------------------------------------------------------
(* How the chain grows                                                     *)

\* The chain grows by one block over the last depth, which are replaced, and the
\* listener, if it has registered, is notified of every new one.
Grows(depth) ==
    /\ depth \in 0 .. MaxReOrgBlocks /\ depth <= Best /\ Best < MaxHeight
    /\ forks' \in forks .. MaxForks /\ (depth # 0 => forks < forks')
    /\ chain' \in Seq(0 .. MaxForks) /\ Len(chain') = Best + 1
    /\ \A h \in 1 .. Best : h <= Best - depth => chain'[h] = chain[h]
    /\ \A h \in 1 .. Best + 1 : Best - depth < h => chain'[h] = forks'

Notified(depth) ==
    \/ listener \notin {"listening", "deleted"} /\ pending' = pending
    \/ /\ listener \in {"listening", "deleted"}
       /\ pending' \in Seq(Txs)
       /\ Len(pending') = Len(pending) + depth + 1
       /\ Len(pending') <= MaxReOrgBlocks + 1
       /\ \A k \in 1 .. Len(pending) : pending'[k] = pending[k]
       /\ \A k \in Len(pending) + 1 .. Len(pending') :
            pending'[k] = <<Best - depth + k - Len(pending), forks'>>

\* What Notify does with the transactions of the new blocks.
LEMMA NotifyNotifies ==
    ASSUME IndexTypeOK, NEW depth \in Nat, depth <= Best, Best < MaxHeight,
           forks' \in 0 .. MaxForks,
           NEW txs \in Seq(Txs), Len(txs) = depth + 1,
           \A k \in 1 .. depth + 1 : txs[k] = <<Best - depth + k, forks'>>,
           Notify(txs)
    PROVE  Notified(depth)
<1>1. Best \in Nat /\ Len(pending) \in Nat /\ pending \in Seq(Txs)
  BY LenProperties DEF IndexTypeOK, Best
<1>2. CASE listener \notin {"listening", "deleted"}
  BY <1>2 DEF Notify, Notified
<1>3. CASE listener \in {"listening", "deleted"}
  <2>1. pending' = pending \o txs /\ Len(pending) + depth + 1 <= MaxReOrgBlocks + 1
    BY <1>3 DEF Notify
  <2>2. /\ pending' \in Seq(Txs)
        /\ Len(pending') = Len(pending) + depth + 1
        /\ \A k \in 1 .. Len(pending) + (depth + 1) :
              pending'[k] = IF k <= Len(pending) THEN pending[k] ELSE txs[k - Len(pending)]
    <3>1. /\ pending \o txs \in Seq(Txs)
          /\ Len(pending \o txs) = Len(pending) + Len(txs)
          /\ \A i \in 1 .. Len(pending) + Len(txs) : (pending \o txs)[i] =
                     IF i <= Len(pending) THEN pending[i] ELSE txs[i - Len(pending)]
      BY <1>1, ConcatProperties, Zenon
    <3>2. Len(pending) + (depth + 1) = Len(pending) + depth + 1
      BY <1>1
    <3>3. QED
      BY <2>1, <3>1, <3>2, Zenon
  <2>3. \A k \in Len(pending) + 1 .. Len(pending') :
            pending'[k] = <<Best - depth + k - Len(pending), forks'>>
    <3> TAKE k \in Len(pending) + 1 .. Len(pending')
    <3>1. k - Len(pending) \in 1 .. depth + 1 /\ k \in 1 .. Len(pending) + (depth + 1) /\ ~(k <= Len(pending))
      BY <1>1, <2>2
    <3>2. pending'[k] = txs[k - Len(pending)]
      BY <2>2, <3>1
    <3>3. txs[k - Len(pending)] = <<Best - depth + (k - Len(pending)), forks'>>
      BY <3>1
    <3>4. Best - depth + (k - Len(pending)) = Best - depth + k - Len(pending)
      BY <1>1
    <3>5. QED
      BY <3>2, <3>3, <3>4
  <2>4. QED
    BY <1>1, <1>3, <2>1, <2>2, <2>3 DEF Notified
<1>4. QED
  BY <1>2, <1>3

\* A new block grows the chain over none.
LEMMA AttachGrows ==
    ASSUME IndexTypeOK, AttachBlock
    PROVE  Grows(0) /\ Notified(0)
<1>1. Best \in Nat /\ chain \in Seq(0 .. MaxForks) /\ forks \in 0 .. MaxForks /\ MaxForks \in Nat
      /\ MaxReOrgBlocks \in Nat \ {0} /\ MaxHeight \in Nat
  BY LenProperties, IndexAssumption DEF IndexTypeOK, Best
<1>2. Grows(0)
  <2>1. chain' = Append(chain, forks) /\ forks' = forks /\ Best < MaxHeight
    BY DEF AttachBlock
  <2>2. /\ Append(chain, forks) \in Seq(0 .. MaxForks)
        /\ Len(Append(chain, forks)) = Len(chain) + 1
        /\ \A i \in 1 .. Len(chain) : Append(chain, forks)[i] = chain[i]
        /\ Append(chain, forks)[Len(chain) + 1] = forks
    BY <1>1, AppendProperties
  <2>3. QED
    BY <1>1, <2>1, <2>2 DEF Grows, Best
<1>3. Notified(0)
  <2> DEFINE txs == <<<<Best + 1, forks>>>>
  <2>1. txs \in Seq(Txs) /\ Len(txs) = 1 /\ txs[1] = <<Best + 1, forks>>
    <3>1. <<Best + 1, forks>> \in Txs
      BY <1>1 DEF Txs, AttachBlock
    <3>2. QED
      BY <3>1
  <2>2. Notify(txs) /\ forks' = forks /\ Best < MaxHeight
    BY DEF AttachBlock
  <2> HIDE DEF txs
  <2>3. \A k \in 1 .. 0 + 1 : txs[k] = <<Best - 0 + k, forks'>>
    BY <1>1, <2>1, <2>2
  <2>4. 0 \in Nat /\ 0 <= Best /\ Len(txs) = 0 + 1 /\ forks' \in 0 .. MaxForks
    BY <1>1, <2>1, <2>2
  <2>5. QED
    BY <2>1, <2>2, <2>3, <2>4, NotifyNotifies, Zenon
<1>4. QED
  BY <1>2, <1>3

\* A reorganisation grows it over those it replaces.
LEMMA ReorganiseGrows ==
    ASSUME IndexTypeOK, Reorganise
    PROVE  \E depth \in 1 .. MaxReOrgBlocks : Grows(depth) /\ Notified(depth)
<1>1. Best \in Nat /\ chain \in Seq(0 .. MaxForks) /\ forks \in 0 .. MaxForks /\ MaxForks \in Nat
      /\ MaxReOrgBlocks \in Nat \ {0} /\ MaxHeight \in Nat
      /\ \A h \in 1 .. Best : chain[h] \in 0 .. MaxForks
  BY LenProperties, ElementOfSeq, IndexAssumption DEF IndexTypeOK, Best
<1>2. PICK depth \in 1 .. MaxReOrgBlocks :
        /\ depth <= Best
        /\ forks' = forks + 1
        /\ chain' = [h \in 1 .. Best + 1 |-> IF h <= Best - depth THEN chain[h] ELSE forks']
        /\ Notify([k \in 1 .. depth + 1 |-> <<Best - depth + k, forks'>>])
  BY DEF Reorganise
<1>3. Best < MaxHeight /\ forks' \in 0 .. MaxForks
  BY <1>1, <1>2 DEF Reorganise
<1>4. Grows(depth)
  <2>1. chain' \in [1 .. Best + 1 -> 0 .. MaxForks]
    BY <1>1, <1>2, <1>3
  <2>2. chain' \in Seq(0 .. MaxForks) /\ Len(chain') = Best + 1
    BY <1>1, <2>1, SeqDef, LenProperties
  <2>3. QED
    BY <1>1, <1>2, <1>3, <2>2 DEF Grows
<1>5. Notified(depth)
  <2> DEFINE txs == [k \in 1 .. depth + 1 |-> <<Best - depth + k, forks'>>]
  <2>1. txs \in [1 .. depth + 1 -> Txs]
    BY <1>1, <1>2, <1>3 DEF Txs
  <2>2. txs \in Seq(Txs) /\ Len(txs) = depth + 1
    <3>1. depth + 1 \in Nat
      BY <1>1
    <3> HIDE DEF txs
    <3>2. txs \in Seq(Txs)
      BY <2>1, <3>1, SeqDef
    <3>3. DOMAIN txs = 1 .. depth + 1 /\ Len(txs) \in Nat /\ DOMAIN txs = 1 .. Len(txs)
      BY <2>1, <3>2, LenProperties
    <3>4. QED
      BY <3>1, <3>2, <3>3
  <2>3. \A k \in 1 .. depth + 1 : txs[k] = <<Best - depth + k, forks'>>
    OBVIOUS
  <2>4. Notify(txs)
    BY <1>2
  <2>5. depth \in Nat
    BY <1>1
  <2> HIDE DEF txs
  <2>6. QED
    BY <1>2, <1>3, <2>2, <2>3, <2>4, <2>5, NotifyNotifies, Zenon
<1>6. QED
  BY <1>4, <1>5

-----------------------------------------------------------------------------
(* Types                                                                   *)

ChainTyped ==
    /\ chain \in Seq(0 .. MaxForks) /\ Len(chain) <= MaxHeight /\ forks \in 0 .. MaxForks
    /\ listener \in ListenerStates /\ pending \in Seq(Txs)
DatabaseTyped ==
    savedTxs \subseteq Txs /\ endBlock \in Heights /\ kills \in 0 .. MaxKills
RunsTyped ==
    /\ mutex \in Indexers \cup {Nobody}
    /\ index \in [Indexers -> IndexStates]
    /\ height \in [Indexers -> 0 .. MaxHeight + 1] /\ last \in [Indexers -> Heights]
    /\ excused \in BOOLEAN /\ whole \in [Indexers -> BOOLEAN]
RescansTyped ==
    /\ inSync \in BOOLEAN
    /\ rescan \in [Rescanners -> RescanStates] /\ rescanFrom \in [Rescanners -> Heights]
    /\ rescanning \in BOOLEAN

\* The parts make up IndexTypeOK.
LEMMA IndexTypeOKParts ==
    IndexTypeOK <=> ChainTyped /\ DatabaseTyped /\ RunsTyped /\ RescansTyped
BY DEF IndexTypeOK, ChainTyped, DatabaseTyped, RunsTyped, RescansTyped

\* The numbers the types stand for.
LEMMA Numbers ==
    ASSUME IndexTypeOK
    PROVE  /\ Best \in 0 .. MaxHeight /\ endBlock \in Nat /\ StartBlock \in 0 .. MaxHeight
           /\ MaxReOrgBlocks \in Nat \ {0} /\ MaxHeight \in Nat /\ MaxForks \in Nat /\ MaxKills \in Nat
           /\ Len(pending) \in Nat
           /\ pending # <<>> => /\ Len(pending) # 0 /\ Head(pending) = pending[1]
                                /\ Head(pending) \in Txs
           /\ \A h \in 1 .. Best : Tx(h) \in Txs
<1>1. Best \in 0 .. MaxHeight /\ Len(pending) \in Nat
  BY LenProperties, IndexAssumption DEF IndexTypeOK, Best
<1>2. pending # <<>> => /\ Len(pending) # 0 /\ Head(pending) = pending[1]
                        /\ Head(pending) \in Txs
  BY EmptySeq, HeadTailProperties DEF IndexTypeOK
<1>3. ASSUME NEW h \in 1 .. Best PROVE Tx(h) \in Txs
  BY <1>1, ElementOfSeq, IndexAssumption DEF IndexTypeOK, Best, Tx, Txs
<1>4. QED
  BY <1>1, <1>2, <1>3, IndexAssumption DEF IndexTypeOK, StartBlock, Heights

\* The actions, each named, with whom they are of.
LEMMA IndexStepsByName ==
    ASSUME IndexNext
    PROVE  \/ AttachBlock \/ Reorganise \/ SyncEnds \/ Kill
           \/ ListenerRegisters \/ ListenerDeletes \/ ListenerSaves \/ ListenerFails
           \/ \E i \in Syncs : IndexWhenSynced(i)
           \/ \E i \in Indexers :
                \/ LockDbMutex(i) \/ BeginIndex(i) \/ IndexDeletes(i) \/ IndexSaves(i)
                \/ IndexPointMoves(i) \/ IndexReadsAll(i) \/ IndexInterrupted(i) \/ FinishIndex(i)
           \/ \E r \in Rescanners :
                \/ StartRescan(r) \/ RescanBegins(r) \/ RescanFails(r) \/ RescanDrops(r)
                \/ RescanClears(r) \/ RescanSetsPoint(r) \/ RescanEnds(r)
BY DEF IndexNext

\* The initial states are typed.
LEMMA InitIndexTyped == IndexInit => IndexTypeOK
<1>1. 0 \in 0 .. MaxForks /\ 0 \in Heights /\ 0 \in 0 .. MaxKills /\ 0 \in 0 .. MaxHeight + 1 /\ 0 <= MaxHeight
  BY IndexAssumption DEF Heights
<1>2. <<>> \in Seq(0 .. MaxForks) /\ Len(<<>>) = 0 /\ <<>> \in Seq(Txs)
  BY EmptySeq, Zenon
<1>3. QED
  BY <1>1, <1>2 DEF IndexInit, IndexTypeOK, ListenerStates, IndexStates, RescanStates

\* Every step keeps the types.  A run writes only blocks of the chain, and the
\* listener saves only what it was notified of.
LEMMA NextIndexTyped ==
    IndexTypeOK /\ BehindTheChain /\ ListenerIsClose /\ [IndexNext]_txIndexVars => IndexTypeOK'
<1> SUFFICES ASSUME IndexTypeOK, BehindTheChain, ListenerIsClose, [IndexNext]_txIndexVars
             PROVE  IndexTypeOK'
  OBVIOUS
<1> USE DEF chainVars, database, indexVars, rescans, listening, history, At, RescanAt
<1>0. CASE UNCHANGED txIndexVars
  BY <1>0 DEF IndexTypeOK, txIndexVars
<1> SUFFICES ASSUME IndexNext PROVE IndexTypeOK'
  BY <1>0
<1>p. ChainTyped /\ DatabaseTyped /\ RunsTyped /\ RescansTyped
  BY IndexTypeOKParts
<1>n. /\ Best \in 0 .. MaxHeight /\ endBlock \in Nat /\ StartBlock \in 0 .. MaxHeight
      /\ MaxReOrgBlocks \in Nat \ {0} /\ MaxHeight \in Nat /\ MaxForks \in Nat /\ MaxKills \in Nat
      /\ pending # <<>> => Head(pending) \in Txs
      /\ \A h \in 1 .. Best : Tx(h) \in Txs
  BY Numbers
<1>1. ChainTyped'
  <2> USE <1>p DEF ChainTyped, ListenerStates
  <2>1. ASSUME NEW depth \in Nat, Grows(depth), Notified(depth), UNCHANGED listener PROVE ChainTyped'
    BY <2>1, <1>n DEF Grows, Notified, Best
  <2>2. CASE AttachBlock \/ Reorganise
    <3>1. UNCHANGED listener
      BY <2>2 DEF AttachBlock, Reorganise
    <3>2. QED
      BY <2>1, <2>2, <3>1, <1>n, AttachGrows, ReorganiseGrows
  <2>3. CASE UNCHANGED chainVars /\ listener' \in ListenerStates
             /\ (pending' = <<>> \/ pending' = pending)
    BY <2>3, EmptySeq
  <2>4. CASE ListenerSaves
    BY <2>4, HeadTailProperties DEF ListenerSaves, ListenerIsClose
  <2>5. UNCHANGED <<chainVars, listening>>
        \/ AttachBlock \/ Reorganise \/ ListenerSaves \/ SyncEnds \/ Kill
        \/ ListenerRegisters \/ ListenerDeletes \/ ListenerFails
        \/ \E i \in Syncs : IndexWhenSynced(i)
    BY IndexStepsByName DEF LockDbMutex, BeginIndex, IndexDeletes, IndexSaves, IndexPointMoves,
       IndexReadsAll, IndexInterrupted, FinishIndex, StartRescan, RescanBegins, RescanFails,
       RescanDrops, RescanClears, RescanSetsPoint, RescanEnds
  <2>6. QED
    BY <2>2, <2>3, <2>4, <2>5 DEF SyncEnds, Kill, ListenerRegisters, ListenerDeletes,
       ListenerFails, IndexWhenSynced
<1>2. DatabaseTyped'
  <2> USE <1>p, <1>n DEF DatabaseTyped, Heights
  <2>1. UNCHANGED <<database, kills>> \/ Kill \/ ListenerDeletes \/ ListenerSaves
        \/ (\E i \in Indexers : IndexDeletes(i) \/ IndexSaves(i) \/ IndexPointMoves(i) \/ FinishIndex(i))
        \/ \E r \in Rescanners : RescanDrops(r) \/ RescanClears(r) \/ RescanSetsPoint(r)
    BY IndexStepsByName DEF AttachBlock, Reorganise, SyncEnds, ListenerRegisters, ListenerFails,
       IndexWhenSynced, LockDbMutex, BeginIndex, IndexReadsAll, IndexInterrupted,
       StartRescan, RescanBegins, RescanFails, RescanEnds
  <2>2. ASSUME NEW i \in Indexers, index[i] \in {"deleted", "saved"} PROVE height[i] \in 0 .. Best
    BY <2>2, <1>p DEF BehindTheChain, RunsTyped
  <2>3. ASSUME NEW i \in Indexers, IndexSaves(i) PROVE DatabaseTyped'
    <3>1. height[i] # 0 => Tx(height[i]) \in Txs
      BY <2>2, <2>3 DEF IndexSaves
    <3>2. QED
      BY <2>3, <3>1 DEF IndexSaves
  <2>4. ASSUME NEW i \in Indexers, IndexPointMoves(i) PROVE DatabaseTyped'
    BY <2>2, <2>4 DEF IndexPointMoves
  <2>5. CASE ListenerSaves
    BY <2>5 DEF ListenerSaves, ListenerIsClose
  <2>6. CASE Kill \/ ListenerDeletes \/ \E i \in Indexers : IndexDeletes(i)
    BY <2>6 DEF Kill, ListenerDeletes, IndexDeletes
  <2>7. ASSUME NEW i \in Indexers, FinishIndex(i) PROVE DatabaseTyped'
    BY <2>7, <1>p DEF FinishIndex, IndexDone, RunsTyped
  <2>8. ASSUME NEW r \in Rescanners, RescanDrops(r) \/ RescanClears(r) \/ RescanSetsPoint(r)
        PROVE  DatabaseTyped'
    BY <2>8, <1>p DEF RescanDrops, RescanClears, RescanSetsPoint, RescansTyped
  <2>9. QED
    BY <2>1, <2>3, <2>4, <2>5, <2>6, <2>7, <2>8
<1>3. RunsTyped'
  <2>n. 0 \in Heights /\ Best \in Heights /\ StartBlock \in 0 .. MaxHeight + 1 /\ 0 \in 0 .. MaxHeight + 1
    BY <1>n DEF Heights
  <2> USE <1>p, <2>n DEF RunsTyped, IndexStates
  <2>1. ASSUME NEW i \in Indexers,
               IndexWhenSynced(i) \/ LockDbMutex(i) \/ BeginIndex(i) \/ IndexDeletes(i)
               \/ IndexSaves(i) \/ IndexReadsAll(i) \/ IndexInterrupted(i)
               \/ FinishIndex(i)
        PROVE  RunsTyped'
    <3>1. ASSUME IndexWhenSynced(i) \/ LockDbMutex(i) \/ IndexDeletes(i) \/ IndexSaves(i) PROVE RunsTyped'
      BY <3>1 DEF IndexWhenSynced, LockDbMutex, IndexDeletes, IndexSaves
    <3>2. CASE BeginIndex(i)
      BY <3>2 DEF BeginIndex
    <3>3. CASE IndexReadsAll(i) \/ IndexInterrupted(i)
      BY <3>3 DEF IndexReadsAll, IndexInterrupted
    <3>4. CASE FinishIndex(i)
      BY <3>4 DEF FinishIndex, IndexDone
    <3>5. QED
      BY <2>1, <3>1, <3>2, <3>3, <3>4
  <2>2. ASSUME NEW i \in Indexers, IndexPointMoves(i) PROVE RunsTyped'
    BY <2>2, <1>n DEF IndexPointMoves, BehindTheChain, Heights
  <2>3. ASSUME NEW r \in Rescanners, RescanDrops(r) \/ RescanClears(r) \/ RescanSetsPoint(r)
        PROVE  RunsTyped'
    BY <2>3 DEF RescanDrops, RescanClears, RescanSetsPoint, Indexers
  <2>4. CASE Kill
    BY <2>4 DEF Kill
  <2>5. CASE UNCHANGED <<indexVars, history>>
    BY <2>5
  <2>6. UNCHANGED <<indexVars, history>> \/ Kill
        \/ (\E i \in Syncs : IndexWhenSynced(i))
        \/ (\E i \in Indexers : LockDbMutex(i) \/ BeginIndex(i)
                                \/ IndexDeletes(i) \/ IndexSaves(i) \/ IndexPointMoves(i)
                                \/ IndexReadsAll(i) \/ IndexInterrupted(i) \/ FinishIndex(i))
        \/ \E r \in Rescanners : RescanDrops(r) \/ RescanClears(r) \/ RescanSetsPoint(r)
    BY IndexStepsByName DEF AttachBlock, Reorganise, SyncEnds, ListenerRegisters,
       ListenerDeletes, ListenerSaves, ListenerFails, StartRescan, RescanBegins, RescanFails,
       RescanEnds
  <2>7. QED
    BY <2>1, <2>2, <2>3, <2>4, <2>5, <2>6 DEF Indexers
<1>4. RescansTyped'
  <2>n. 0 \in Heights /\ RescanHeights \subseteq Heights
    BY <1>n, IndexAssumption DEF Heights
  <2> USE <1>p, <2>n DEF RescansTyped, RescanStates
  <2>1. ASSUME NEW r \in Rescanners,
               StartRescan(r) \/ RescanBegins(r) \/ RescanFails(r) \/ RescanDrops(r)
               \/ RescanClears(r) \/ RescanSetsPoint(r) \/ RescanEnds(r)
        PROVE  RescansTyped'
    <3>1. CASE StartRescan(r)
      BY <3>1 DEF StartRescan
    <3>2. CASE RescanBegins(r) \/ RescanDrops(r) \/ RescanClears(r) \/ RescanEnds(r)
      BY <3>2 DEF RescanBegins, RescanDrops, RescanClears, RescanEnds
    <3>3. CASE RescanFails(r) \/ RescanSetsPoint(r)
      BY <3>3 DEF RescanFails, RescanSetsPoint
    <3>4. QED
      BY <2>1, <3>1, <3>2, <3>3
  <2>2. CASE UNCHANGED rescans /\ inSync' \in BOOLEAN
    BY <2>2
  <2>3. CASE Kill
    <3>1. /\ inSync' = FALSE /\ rescanning' = FALSE
          /\ rescan' = [r \in Rescanners |-> "idle"] /\ rescanFrom' = [r \in Rescanners |-> 0]
      BY <2>3 DEF Kill
    <3>2. QED
      BY <3>1
  <2>4. (UNCHANGED rescans /\ inSync' \in BOOLEAN) \/ Kill
        \/ \E r \in Rescanners :
                StartRescan(r) \/ RescanBegins(r) \/ RescanFails(r) \/ RescanDrops(r)
                \/ RescanClears(r) \/ RescanSetsPoint(r) \/ RescanEnds(r)
    BY IndexStepsByName DEF AttachBlock, Reorganise, SyncEnds, ListenerRegisters,
       ListenerDeletes, ListenerSaves, ListenerFails, IndexWhenSynced, LockDbMutex, BeginIndex,
       IndexDeletes, IndexSaves, IndexPointMoves, IndexReadsAll, IndexInterrupted, FinishIndex
  <2>5. QED
    BY <2>1, <2>2, <2>3, <2>4
<1>5. QED
  BY <1>1, <1>2, <1>3, <1>4
     DEF IndexTypeOK, ChainTyped, DatabaseTyped, RunsTyped, RescansTyped

-----------------------------------------------------------------------------
(* The invariant is inductive                                              *)

\* The initial states.
LEMMA InitGap == IndexInit => GapInv
<1>1. Len(<<>>) = 0
  BY EmptySeq, Zenon
<1> SUFFICES ASSUME IndexInit PROVE GapInv
  OBVIOUS
<1>2. Best = 0 /\ Len(pending) = 0
  BY <1>1 DEF IndexInit, Best
<1>3. OneRun /\ RunsStartAbove
  <2>1. \A i \in Indexers : index[i] = "idle"
    BY DEF IndexInit
  <2>2. \A r \in Rescanners : index[r] = "idle"
    BY <2>1 DEF Indexers
  <2>3. QED
    BY <2>1, <2>2 DEF OneRun, Holding, RunsStartAbove, Reading
<1>4. BehindTheChain
  BY <1>2 DEF IndexInit, BehindTheChain
<1>5. ListenerIsClose
  BY <1>2, IndexAssumption DEF IndexInit, ListenerIsClose
<1>6. RunsSave /\ OnlyExcusedGaps
  BY <1>2 DEF RunsSave, OnlyExcusedGaps, IndexedBelowStart
<1>7. QED
  BY <1>3, <1>4, <1>5, <1>6 DEF GapInv

\* What the start block hides from a run: all but the window below the index point.
LEMMA BelowStart ==
    ASSUME IndexTypeOK, NEW h \in Nat \ {0}
    PROVE  h < StartBlock <=> h + MaxReOrgBlocks < endBlock
BY Numbers DEF StartBlock

\* A longer chain: what it replaces is in the window of every index point, and the
\* notifications of the new blocks follow those the listener has still to read.
LEMMA GrowthKeepsGap ==
    ASSUME IndexTypeOK, GapInv, NEW depth \in Nat, Grows(depth), Notified(depth),
           UNCHANGED <<listener, database, kills, indexVars, rescans, history>>
    PROVE  GapInv'
<1> USE DEF database, indexVars, rescans, history
<1>n. /\ Best \in 0 .. MaxHeight /\ endBlock \in Nat
      /\ MaxReOrgBlocks \in Nat \ {0} /\ MaxHeight \in Nat /\ MaxForks \in Nat
      /\ Len(pending) \in Nat /\ pending \in Seq(Txs) /\ forks \in Nat
      /\ \A i \in Indexers : last[i] \in Nat
      /\ \A r \in Rescanners : rescanFrom[r] \in Nat
  BY Numbers DEF IndexTypeOK, Heights
<1>b. Best' = Best + 1
  BY DEF Grows, Best
<1> DEFINE NewTx(h) == <<h, chain'[h]>>
<1>t. \A h \in 1 .. Best : h <= Best - depth => NewTx(h) = Tx(h)
  BY DEF Grows, Tx
<1>1. OneRun'
  BY DEF GapInv, OneRun
<1>2. BehindTheChain'
  BY <1>n, <1>b DEF GapInv, BehindTheChain
<1>3. ListenerIsClose'
  <2>1. CASE listener \notin {"listening", "deleted"}
    <3>1. pending = <<>> /\ pending' = <<>>
      BY <2>1 DEF Notified, GapInv, ListenerIsClose, IndexTypeOK, ListenerStates
    <3>2. Len(<<>>) = 0
      BY EmptySeq, Zenon
    <3>3. QED
      BY <1>n, <2>1, <3>1, <3>2 DEF GapInv, ListenerIsClose
  <2>2. CASE listener \in {"listening", "deleted"}
    <3>1. /\ Len(pending') = Len(pending) + depth + 1
          /\ Len(pending') <= MaxReOrgBlocks + 1
          /\ \A k \in 1 .. Len(pending) : pending'[k] = pending[k]
          /\ \A k \in Len(pending) + 1 .. Len(pending') :
                pending'[k] = <<Best - depth + k - Len(pending), forks'>>
      BY <2>2 DEF Notified
    <3>2. pending' # <<>>
      BY <1>n, <3>1, EmptySeq
    <3>3. ASSUME NEW k \in 1 .. Len(pending')
          PROVE  /\ pending'[k][1] <= Best' /\ pending'[k][2] <= forks'
                 /\ pending'[k] = NewTx(pending'[k][1]) =>
                        Best' - pending'[k][1] <= Len(pending') - k
      <4>1. CASE k \in Len(pending) + 1 .. Len(pending')
        <5>1. pending'[k][1] = Best - depth + k - Len(pending) /\ pending'[k][2] = forks'
          BY <3>1, <4>1
        <5>2. forks' \in Nat
          BY <1>n DEF Grows
        <5>3. QED
          BY <1>n, <1>b, <3>1, <4>1, <5>1, <5>2
      <4>2. CASE k \in 1 .. Len(pending)
        <5>1. pending[k] \in Txs /\ pending'[k] = pending[k]
          BY <1>n, <3>1, <4>2, ElementOfSeq
        <5> DEFINE h == pending[k][1]
        <5>2. h \in 1 .. Best /\ pending[k][2] <= forks /\ pending[k][2] \in Nat /\ h <= MaxHeight
          BY <1>n, <4>2, <5>1 DEF GapInv, ListenerIsClose, Txs
        <5>3. pending[k] = Tx(h) => Best - h <= Len(pending) - k
          BY <4>2 DEF GapInv, ListenerIsClose
        <5>4. forks <= forks' /\ forks' \in Nat /\ depth <= Best
          BY <1>n DEF Grows
        <5> HIDE DEF h
        <5>5. pending[k] = NewTx(h) => Best' - h <= Len(pending') - k
          <6>1. CASE h <= Best - depth
            BY <1>n, <1>b, <1>t, <3>1, <4>2, <5>2, <5>3, <6>1
          <6>2. CASE ~(h <= Best - depth)
            <7>1. depth # 0 /\ h \in 1 .. Best + 1 /\ Best - depth < h
              BY <1>n, <5>2, <6>2
            <7>2. chain'[h] = forks' /\ forks < forks'
              BY <7>1 DEF Grows
            <7>3. NewTx(h)[2] = forks' /\ pending[k][2] # forks'
              BY <1>n, <5>2, <5>4, <7>2
            <7>4. QED
              BY <7>3
          <6>3. QED
            BY <6>1, <6>2
        <5>6. h <= Best' /\ pending[k][2] <= forks'
          BY <1>n, <1>b, <5>2, <5>4
        <5>7. QED
          BY <5>1, <5>5, <5>6 DEF h
      <4>3. QED
        BY <1>n, <3>1, <4>1, <4>2
    <3>4. QED
      BY <2>2, <3>1, <3>2, <3>3 DEF ListenerIsClose, Tx
  <2>3. QED
    BY <2>1, <2>2
<1>4. RunsSave'
  <2> SUFFICES ASSUME NEW i \in Indexers, ~excused \/ whole[i], NEW h \in 1 .. Best',
                      HasRead(i, h)', h + MaxReOrgBlocks < last[i]
               PROVE  NewTx(h) \in savedTxs
    BY DEF RunsSave, Tx
  <2>1. last[i] <= Best /\ HasRead(i, h)
    BY DEF GapInv, BehindTheChain, HasRead
  <2>2. h \in 1 .. Best /\ h <= Best - depth
    BY <1>n, <1>b, <2>1 DEF Grows
  <2>3. Tx(h) \in savedTxs
    BY <2>1, <2>2 DEF GapInv, RunsSave
  <2>4. QED
    BY <1>t, <2>2, <2>3
<1>5. RunsStartAbove'
  BY DEF GapInv, RunsStartAbove, StartBlock
<1>6. OnlyExcusedGaps'
  <2> SUFFICES ASSUME ~excused, NEW h \in 1 .. Best', h < StartBlock PROVE NewTx(h) \in savedTxs
    BY DEF OnlyExcusedGaps, IndexedBelowStart, StartBlock, Tx
  <2>1. h + MaxReOrgBlocks < endBlock /\ endBlock <= Best
    BY <1>n, <1>b, BelowStart DEF GapInv, BehindTheChain
  <2>2. h \in 1 .. Best /\ h <= Best - depth
    BY <1>n, <1>b, <2>1 DEF Grows
  <2>3. Tx(h) \in savedTxs
    BY <2>2 DEF GapInv, OnlyExcusedGaps, IndexedBelowStart
  <2>4. QED
    BY <1>t, <2>2, <2>3
<1>7. QED
  BY <1>1, <1>2, <1>3, <1>4, <1>5, <1>6 DEF GapInv

\* One run at a time: a run that is started waits for dbMutex, and the one of a rescan
\* is over before the next.
LEMMA NextOneRun == IndexTypeOK /\ OneRun /\ IndexNext => OneRun'
<1> SUFFICES ASSUME IndexTypeOK, OneRun, IndexNext PROVE OneRun'
  OBVIOUS
<1> USE DEF indexVars, rescans, At, RescanAt, OneRun, Holding
<1>t. /\ index \in [Indexers -> IndexStates] /\ rescan \in [Rescanners -> RescanStates]
      /\ Rescanners \subseteq Indexers /\ Syncs \subseteq Indexers
      /\ Syncs \cap Rescanners = {} /\ Nobody \notin Indexers
  BY IndexAssumption DEF IndexTypeOK, Indexers
<1>1. ASSUME NEW i \in Syncs, IndexWhenSynced(i) PROVE OneRun'
  BY <1>1, <1>t DEF IndexWhenSynced
<1>2. ASSUME NEW i \in Indexers, LockDbMutex(i) PROVE OneRun'
  BY <1>2, <1>t DEF LockDbMutex
<1>3. ASSUME NEW i \in Indexers, BeginIndex(i) \/ IndexDeletes(i) \/ IndexSaves(i) \/ IndexPointMoves(i)
                                 \/ IndexReadsAll(i) \/ IndexInterrupted(i)
      PROVE  OneRun'
  BY <1>3, <1>t DEF BeginIndex, IndexDeletes, IndexSaves, IndexPointMoves, IndexReadsAll,
     IndexInterrupted
<1>4. ASSUME NEW i \in Indexers, FinishIndex(i) PROVE OneRun'
  BY <1>4, <1>t DEF FinishIndex, IndexDone
<1>5. ASSUME NEW r \in Rescanners, StartRescan(r) \/ RescanBegins(r) \/ RescanFails(r) \/ RescanDrops(r)
                                   \/ RescanEnds(r)
      PROVE  OneRun'
  BY <1>5, <1>t DEF StartRescan, RescanBegins, RescanFails, RescanDrops, RescanEnds
<1>6. ASSUME NEW r \in Rescanners, RescanClears(r) \/ RescanSetsPoint(r) PROVE OneRun'
  BY <1>6, <1>t DEF RescanClears, RescanSetsPoint
<1>7. CASE Kill
  BY <1>7, <1>t DEF Kill
<1>8. CASE UNCHANGED <<indexVars, rescans>>
  BY <1>8
<1>9. CASE AttachBlock \/ Reorganise \/ SyncEnds \/ ListenerRegisters \/ ListenerDeletes
           \/ ListenerSaves \/ ListenerFails
  BY <1>8, <1>9 DEF AttachBlock, Reorganise, SyncEnds, ListenerRegisters, ListenerDeletes,
     ListenerSaves, ListenerFails
<1>10. QED
  BY <1>1, <1>2, <1>3, <1>4, <1>5, <1>6, <1>7, <1>9, IndexStepsByName

\* Index points, starts of rescans and ends of runs come from the chain, which only grows.
LEMMA NextBehind ==
    IndexTypeOK /\ BehindTheChain /\ IndexNext /\ UNCHANGED chainVars => BehindTheChain'
<1> SUFFICES ASSUME IndexTypeOK, BehindTheChain, IndexNext, UNCHANGED chainVars PROVE BehindTheChain'
  OBVIOUS
<1> USE DEF chainVars, database, indexVars, rescans, At, RescanAt, BehindTheChain
<1>n. /\ Best \in Nat /\ endBlock \in Nat /\ StartBlock \in Nat /\ MaxReOrgBlocks \in Nat \ {0}
      /\ index \in [Indexers -> IndexStates]
      /\ last \in [Indexers -> Nat] /\ height \in [Indexers -> Nat]
      /\ rescan \in [Rescanners -> RescanStates] /\ rescanFrom \in [Rescanners -> Nat]
      /\ Rescanners \subseteq Indexers /\ Syncs \subseteq Indexers
  BY Numbers DEF IndexTypeOK, Heights, Indexers
<1>b. Best' = Best
  BY DEF Best
<1>1. ASSUME NEW i \in Syncs, IndexWhenSynced(i) PROVE BehindTheChain'
  BY <1>1, <1>n, <1>b DEF IndexWhenSynced
<1>2. ASSUME NEW i \in Indexers, LockDbMutex(i) \/ IndexDeletes(i) \/ IndexSaves(i) \/ IndexPointMoves(i)
                                 \/ IndexReadsAll(i) \/ IndexInterrupted(i)
      PROVE  BehindTheChain'
  BY <1>2, <1>n, <1>b DEF LockDbMutex, IndexDeletes, IndexSaves, IndexPointMoves, IndexReadsAll,
     IndexInterrupted
<1>3. ASSUME NEW i \in Indexers, BeginIndex(i) PROVE BehindTheChain'
  BY <1>3, <1>n, <1>b DEF BeginIndex, StartBlock
<1>4. ASSUME NEW i \in Indexers, FinishIndex(i) PROVE BehindTheChain'
  BY <1>4, <1>n, <1>b DEF FinishIndex, IndexDone
<1>5. ASSUME NEW r \in Rescanners, StartRescan(r) PROVE BehindTheChain'
  BY <1>5, <1>n, <1>b, IndexAssumption DEF StartRescan
<1>6. ASSUME NEW r \in Rescanners, RescanBegins(r) \/ RescanFails(r) \/ RescanDrops(r)
                                   \/ RescanClears(r) \/ RescanSetsPoint(r) \/ RescanEnds(r)
      PROVE  BehindTheChain'
  BY <1>6, <1>n, <1>b DEF RescanBegins, RescanFails, RescanDrops, RescanClears, RescanSetsPoint,
     RescanEnds
<1>7. CASE Kill
  BY <1>7, <1>n, <1>b DEF Kill
<1>8. CASE UNCHANGED <<indexVars, rescanFrom, endBlock>>
  BY <1>8, <1>b
<1>9. CASE AttachBlock \/ Reorganise \/ SyncEnds \/ ListenerRegisters \/ ListenerDeletes
           \/ ListenerSaves \/ ListenerFails
  BY <1>8, <1>9 DEF AttachBlock, Reorganise, SyncEnds, ListenerRegisters, ListenerDeletes,
     ListenerSaves, ListenerFails
<1>10. QED
  BY <1>1, <1>2, <1>3, <1>4, <1>5, <1>6, <1>7, <1>9, IndexStepsByName

\* The listener reads what it was notified of in order.
LEMMA NextListener ==
    IndexTypeOK /\ ListenerIsClose /\ IndexNext /\ UNCHANGED chainVars => ListenerIsClose'
<1> SUFFICES ASSUME IndexTypeOK, ListenerIsClose, IndexNext, UNCHANGED chainVars PROVE ListenerIsClose'
  OBVIOUS
<1> USE DEF chainVars, listening
<1>n. /\ Best \in Nat /\ MaxReOrgBlocks \in Nat \ {0} /\ forks \in Nat
      /\ Len(pending) \in Nat /\ pending \in Seq(Txs) /\ listener \in ListenerStates
      /\ Len(<<>>) = 0
  BY Numbers, EmptySeq DEF IndexTypeOK
<1>b. Best' = Best /\ \A h : Tx(h)' = Tx(h)
  BY DEF Best, Tx
<1>1. CASE pending' = <<>> /\ listener' \in {"none", "starting"}
  BY <1>1, <1>n DEF ListenerIsClose
<1>2. CASE UNCHANGED pending /\ (listener' = listener \/ (listener' = "listening" /\ pending = <<>>)
                                \/ (listener' = "deleted" /\ pending # <<>>))
  BY <1>2, <1>n, <1>b DEF ListenerIsClose, Tx
<1>3. CASE ListenerSaves
  <2>1. listener' = "listening" /\ pending' = Tail(pending) /\ pending # <<>>
    BY <1>3 DEF ListenerSaves, ListenerIsClose
  <2>2. /\ Len(pending') = Len(pending) - 1
        /\ \A k \in 1 .. Len(pending') : pending'[k] = pending[k + 1]
    BY <1>n, <2>1, HeadTailProperties
  <2>3. \A k \in 1 .. Len(pending') : k + 1 \in 1 .. Len(pending)
                                      /\ Len(pending) - (k + 1) = Len(pending') - k
    BY <1>n, <2>2
  <2>4. QED
    BY <1>n, <1>b, <2>1, <2>2, <2>3 DEF ListenerIsClose, Tx
<1>4. \/ UNCHANGED listening
      \/ AttachBlock \/ Reorganise \/ SyncEnds \/ Kill
      \/ ListenerRegisters \/ ListenerDeletes \/ ListenerSaves \/ ListenerFails
      \/ \E i \in Syncs : IndexWhenSynced(i)
  BY IndexStepsByName DEF LockDbMutex, BeginIndex, IndexDeletes, IndexSaves, IndexPointMoves,
     IndexReadsAll, IndexInterrupted, FinishIndex, StartRescan, RescanBegins, RescanFails,
     RescanDrops, RescanClears, RescanSetsPoint, RescanEnds
<1>5. ~AttachBlock /\ ~Reorganise
  <2>1. ASSUME NEW depth \in Nat, Grows(depth) PROVE FALSE
    BY <2>1, <1>n, <1>b DEF Grows, Best
  <2>2. QED
    BY <2>1, <1>n, AttachGrows, ReorganiseGrows
<1>6. CASE SyncEnds \/ Kill \/ ListenerRegisters \/ ListenerDeletes \/ ListenerFails
           \/ \E i \in Syncs : IndexWhenSynced(i)
  BY <1>1, <1>2, <1>6 DEF SyncEnds, Kill, ListenerRegisters, ListenerDeletes, ListenerFails,
     IndexWhenSynced, ListenerIsClose
<1>7. QED
  BY <1>2, <1>3, <1>4, <1>5, <1>6

\* What the listener deletes is in no run's and in no index point's part of the chain.
LEMMA ListenerDeletesAbove ==
    ASSUME IndexTypeOK, ListenerIsClose, pending # <<>>, NEW h \in 1 .. Best,
           Head(pending) = Tx(h)
    PROVE  Best <= h + MaxReOrgBlocks
<1>1. /\ Best \in Nat /\ MaxReOrgBlocks \in Nat /\ Len(pending) \in Nat /\ Len(pending) # 0
      /\ Head(pending) = pending[1]
  BY Numbers
<1>2. Tx(h)[1] = h
  BY DEF Tx
<1>3. Best - h <= Len(pending) - 1 /\ Len(pending) <= MaxReOrgBlocks + 1
  BY <1>1, <1>2 DEF ListenerIsClose
<1>4. QED
  BY <1>1, <1>3

\* Saved blocks stay saved, but for the one a run is at and the window of the listener,
\* as long as a rescan does not drop them.
LEMMA SavedStay ==
    ASSUME IndexTypeOK, BehindTheChain, ListenerIsClose, IndexNext, UNCHANGED chainVars,
           NEW h \in 1 .. Best, Tx(h) \in savedTxs, h + MaxReOrgBlocks < Best,
           \A i \in Indexers : index[i] = "block" => h # height[i],
           \A r \in Rescanners : ~RescanDrops(r)
    PROVE  Tx(h) \in savedTxs'
<1> USE DEF database
<1>1. ASSUME NEW i \in Indexers, IndexDeletes(i) PROVE Tx(h) \in savedTxs'
  BY <1>1 DEF IndexDeletes, Tx
<1>2. CASE ListenerDeletes
  BY <1>2, ListenerDeletesAbove, Numbers DEF ListenerDeletes
<1>3. savedTxs \subseteq savedTxs' \/ ListenerDeletes \/ \E i \in Indexers : IndexDeletes(i)
  BY IndexStepsByName DEF AttachBlock, Reorganise, SyncEnds, Kill, ListenerRegisters, ListenerSaves,
     ListenerFails, IndexWhenSynced, LockDbMutex, BeginIndex, IndexSaves, IndexPointMoves,
     IndexReadsAll, IndexInterrupted, FinishIndex, StartRescan, RescanBegins, RescanFails,
     RescanClears, RescanSetsPoint, RescanEnds
<1>4. QED
  BY <1>1, <1>2, <1>3

\* What a run has read stays saved, and grows as the run goes on.
LEMMA NextRunsSave ==
    IndexTypeOK /\ GapInv /\ IndexNext /\ UNCHANGED chainVars => RunsSave'
<1> SUFFICES ASSUME IndexTypeOK, GapInv, IndexNext, UNCHANGED chainVars,
                    NEW i \in Indexers, (~excused \/ whole[i])',
                    NEW h \in 1 .. Best', HasRead(i, h)', (h + MaxReOrgBlocks < last[i])'
             PROVE  Tx(h)' \in savedTxs'
  BY DEF RunsSave
<1> USE DEF At, RescanAt, indexVars, rescans, history, database
<1>n. /\ Best \in Nat /\ endBlock \in Nat /\ StartBlock \in Nat /\ MaxReOrgBlocks \in Nat \ {0}
      /\ index \in [Indexers -> IndexStates]
      /\ last \in [Indexers -> Nat] /\ height \in [Indexers -> Nat]
  BY Numbers DEF IndexTypeOK, Heights
<1>t. /\ whole \in [Indexers -> BOOLEAN] /\ excused \in BOOLEAN
      /\ Rescanners \subseteq Indexers /\ Syncs \subseteq Indexers
  BY DEF IndexTypeOK, Indexers
<1>b. Best' = Best /\ Tx(h)' = Tx(h) /\ h \in 1 .. Best
  BY DEF chainVars, Best, Tx
\* A run that has just begun has read nothing yet ...
<1>0. ASSUME NEW j \in Indexers, BeginIndex(j) PROVE Tx(h) \in savedTxs'
  <2>1. CASE i = j
    <3>1. /\ index'[i] = "block" /\ height'[i] = StartBlock /\ UNCHANGED excused
          /\ whole'[i] <=> StartBlock = 0
      <4>1. index'[i] = "block" /\ height'[i] = StartBlock /\ UNCHANGED excused
        BY <1>0, <1>n, <2>1 DEF BeginIndex
      <4>2. whole' = [whole EXCEPT ![i] = (StartBlock = 0)]
        BY <1>0, <2>1 DEF BeginIndex
      <4>3. whole'[i] <=> StartBlock = 0
        BY <1>t, <4>2, Zenon
      <4>4. QED
        BY <4>1, <4>3
    <3>3. h < StartBlock
      BY <3>1 DEF HasRead
    <3>4. StartBlock # 0
      BY <1>b, <1>n, <3>3
    <3>5. ~excused
      BY <3>1, <3>4, Zenon
    <3>6. QED
      BY <1>0, <1>b, <3>3, <3>5 DEF GapInv, OnlyExcusedGaps, IndexedBelowStart, BeginIndex
  <2>2. CASE i # j
    BY <1>0, <1>n, <1>b, <2>2 DEF BeginIndex, GapInv, RunsSave, HasRead
  <2>3. QED
    BY <2>1, <2>2
\* ... the block it saves counts from then on ...
<1>1. ASSUME NEW j \in Indexers, IndexSaves(j) PROVE Tx(h) \in savedTxs'
  BY <1>1, <1>n, <1>b DEF IndexSaves, GapInv, RunsSave, HasRead
\* ... and all else was read before the step.
<1>2. ASSUME \A j \in Indexers : ~BeginIndex(j) /\ ~IndexSaves(j) PROVE Tx(h) \in savedTxs'
  <2>1. /\ last'[i] = last[i] /\ HasRead(i, h) /\ (~excused \/ whole[i])
        /\ \A r \in Rescanners : ~RescanDrops(r)
    <3> DEFINE Before == last'[i] = last[i] /\ HasRead(i, h) /\ (~excused \/ whole[i])
    <3>1. ASSUME NEW r \in Rescanners PROVE ~RescanDrops(r)
      BY <1>t DEF RescanDrops
    <3>2. ASSUME UNCHANGED <<indexVars, history>> PROVE Before
      <4>1. last'[i] = last[i] /\ HasRead(i, h)
        BY <3>2 DEF HasRead
      <4>2. ~excused \/ whole[i]
        BY <3>2, Zenon
      <4>3. QED
        BY <4>1, <4>2, Zenon
    <3>3. ASSUME NEW j \in Syncs, IndexWhenSynced(j) PROVE Before
      BY <3>3, <1>n, <1>t DEF IndexWhenSynced, HasRead
    <3>4. ASSUME NEW j \in Indexers, LockDbMutex(j) \/ IndexDeletes(j) \/ IndexPointMoves(j) PROVE Before
      BY <3>4, <1>n, <1>b DEF LockDbMutex, IndexDeletes, IndexPointMoves, HasRead
    <3>5. ASSUME NEW j \in Indexers, IndexReadsAll(j) PROVE Before
      BY <3>5, <1>n, <1>b DEF IndexReadsAll, HasRead
    <3>6. ASSUME NEW j \in Indexers, IndexInterrupted(j) PROVE Before
      BY <3>6, <1>n, <1>t DEF IndexInterrupted, HasRead
    <3>7. ASSUME NEW j \in Indexers, FinishIndex(j) PROVE Before
      <4>1. i # j /\ index[i] \in Holding /\ index[j] \in Holding
        BY <3>7, <1>n DEF FinishIndex, IndexDone, HasRead, Holding
      <4>2. QED
        BY <4>1 DEF GapInv, OneRun
    <3>8. ASSUME NEW r \in Rescanners, RescanClears(r) \/ RescanSetsPoint(r) PROVE Before
      BY <3>8, <1>n, <1>t DEF RescanClears, RescanSetsPoint, HasRead
    <3>9. ASSUME Kill PROVE Before
      BY <3>9 DEF Kill, HasRead
    <3>10. \/ UNCHANGED <<indexVars, history>> \/ Kill
           \/ \E j \in Syncs : IndexWhenSynced(j)
           \/ \E j \in Indexers : LockDbMutex(j) \/ IndexDeletes(j) \/ IndexPointMoves(j)
                                  \/ IndexReadsAll(j) \/ IndexInterrupted(j) \/ FinishIndex(j)
           \/ \E r \in Rescanners : RescanClears(r) \/ RescanSetsPoint(r)
      BY <1>2, <3>1, IndexStepsByName DEF AttachBlock, Reorganise, SyncEnds, ListenerRegisters,
         ListenerDeletes, ListenerSaves, ListenerFails, StartRescan, RescanBegins, RescanFails,
         RescanEnds
    <3>11. Before
      BY <3>2, <3>3, <3>4, <3>5, <3>6, <3>7, <3>8, <3>9, <3>10
    <3>12. QED
      BY <3>1, <3>11
  <2>2. Tx(h) \in savedTxs /\ h + MaxReOrgBlocks < last[i] /\ last[i] <= Best
    BY <2>1, <1>b DEF GapInv, RunsSave, BehindTheChain
  <2>3. \A j \in Indexers : index[j] = "block" => h # height[j]
    BY <2>1, <1>n DEF GapInv, OneRun, Holding, HasRead, IndexTypeOK
  <2>4. QED
    BY <1>n, <1>b, <2>1, <2>2, <2>3, SavedStay DEF GapInv
<1>3. QED
  BY <1>0, <1>1, <1>2, <1>b

\* A rescan that is no excuse does not raise the index point.
LEMMA RescanLowers ==
    ASSUME IndexTypeOK, NEW r \in Rescanners, RescanClears(r) \/ RescanSetsPoint(r), ~excused'
    PROVE  ~excused /\ StartBlock' \in Nat /\ StartBlock' <= StartBlock
<1>1. endBlock \in Nat /\ rescanFrom[r] \in Nat /\ MaxReOrgBlocks \in Nat
  BY Numbers DEF IndexTypeOK, Heights
<1>2. ~excused /\ endBlock' \in Nat /\ endBlock' <= endBlock
  <2>1. CASE RescanClears(r)
    BY <1>1, <2>1 DEF RescanClears, history
  <2>2. CASE RescanSetsPoint(r)
    <3>1. ~excused /\ ~(rescanFrom[r] > endBlock) /\ endBlock' = rescanFrom[r]
      BY <2>2, Zenon DEF RescanSetsPoint
    <3>2. QED
      BY <1>1, <3>1
  <2>3. QED
    BY <2>1, <2>2
<1>3. /\ endBlock > MaxReOrgBlocks => StartBlock = endBlock - MaxReOrgBlocks
      /\ ~(endBlock > MaxReOrgBlocks) => StartBlock = 0
  BY DEF StartBlock
<1>4. /\ endBlock' > MaxReOrgBlocks => StartBlock' = endBlock' - MaxReOrgBlocks
      /\ ~(endBlock' > MaxReOrgBlocks) => StartBlock' = 0
  BY DEF StartBlock
<1>5. QED
  BY <1>1, <1>2, <1>3, <1>4

\* A run starts at the start block and moves the index point no further than itself, so
\* that it never deletes below the start block.
LEMMA NextRunsStartAbove ==
    IndexTypeOK /\ GapInv /\ IndexNext /\ UNCHANGED chainVars => RunsStartAbove'
<1> SUFFICES ASSUME IndexTypeOK, GapInv, IndexNext, UNCHANGED chainVars,
                    ~excused', NEW i \in Indexers, index'[i] \in Reading
             PROVE  StartBlock' <= height'[i]
  BY DEF RunsStartAbove
<1> USE DEF At, RescanAt, indexVars, rescans, history, database
<1>n. /\ endBlock \in Nat /\ StartBlock \in Nat /\ MaxReOrgBlocks \in Nat \ {0}
      /\ index \in [Indexers -> IndexStates] /\ height \in [Indexers -> Nat]
      /\ \A r \in Rescanners : rescanFrom[r] \in Nat
  BY Numbers DEF IndexTypeOK, Heights
<1>t. /\ whole \in [Indexers -> BOOLEAN] /\ excused \in BOOLEAN
      /\ Rescanners \subseteq Indexers /\ Syncs \subseteq Indexers
  BY DEF IndexTypeOK, Indexers
<1>1. ASSUME NEW j \in Indexers, BeginIndex(j) PROVE StartBlock' <= height'[i]
  <2>1. StartBlock' = StartBlock /\ excused' = excused
    BY <1>1 DEF BeginIndex, StartBlock
  <2>2. QED
    BY <1>1, <1>n, <2>1 DEF BeginIndex, GapInv, RunsStartAbove, Reading
<1>2. ASSUME NEW j \in Indexers, IndexPointMoves(j) PROVE StartBlock' <= height'[i]
  <2>1. i = j
    BY <1>2, <1>n DEF IndexPointMoves, GapInv, OneRun, Holding, Reading
  <2>2. QED
    BY <1>2, <1>n, <2>1 DEF IndexPointMoves, StartBlock
<1>3. ASSUME NEW j \in Indexers, FinishIndex(j) PROVE FALSE
  BY <1>3, <1>n DEF FinishIndex, IndexDone, GapInv, OneRun, Holding, Reading
<1>4. ASSUME NEW r \in Rescanners, RescanClears(r) \/ RescanSetsPoint(r) PROVE StartBlock' <= height'[i]
  <2>1. ~excused /\ StartBlock' <= StartBlock /\ StartBlock' \in Nat
    BY <1>4, RescanLowers
  <2>2. index[i] \in Reading /\ height'[i] = height[i]
    BY <1>4, <1>n, <1>t DEF RescanClears, RescanSetsPoint, Reading
  <2>3. StartBlock <= height[i]
    BY <2>1, <2>2 DEF GapInv, RunsStartAbove
  <2>4. QED
    BY <1>n, <2>1, <2>2, <2>3
<1>5. CASE ~excused /\ UNCHANGED endBlock /\ index[i] \in Reading /\ height'[i] = height[i]
  BY <1>5 DEF GapInv, RunsStartAbove, StartBlock
<1>6. ASSUME NEW j \in Indexers, LockDbMutex(j) \/ IndexDeletes(j) \/ IndexSaves(j)
                                 \/ IndexReadsAll(j) \/ IndexInterrupted(j)
      PROVE  StartBlock' <= height'[i]
  BY <1>5, <1>6, <1>n DEF LockDbMutex, IndexDeletes, IndexSaves, IndexReadsAll, IndexInterrupted,
     Reading
<1>7. ASSUME NEW j \in Syncs, IndexWhenSynced(j) PROVE StartBlock' <= height'[i]
  BY <1>5, <1>7, <1>n, <1>t DEF IndexWhenSynced, Reading
<1>8. ASSUME NEW r \in Rescanners, RescanDrops(r) PROVE FALSE
  BY <1>8 DEF RescanDrops
<1>9. CASE Kill
  BY <1>9 DEF Kill, Reading
<1>10. CASE UNCHANGED <<indexVars, history, endBlock>>
  BY <1>5, <1>10
<1>11. \/ UNCHANGED <<indexVars, history, endBlock>> \/ Kill
       \/ \E j \in Syncs : IndexWhenSynced(j)
       \/ \E j \in Indexers : LockDbMutex(j) \/ BeginIndex(j) \/ IndexDeletes(j) \/ IndexSaves(j)
                              \/ IndexPointMoves(j) \/ IndexReadsAll(j) \/ IndexInterrupted(j)
                              \/ FinishIndex(j)
       \/ \E r \in Rescanners : RescanDrops(r) \/ RescanClears(r) \/ RescanSetsPoint(r)
  BY IndexStepsByName DEF AttachBlock, Reorganise, SyncEnds, ListenerRegisters,
     ListenerDeletes, ListenerSaves, ListenerFails, StartRescan, RescanBegins, RescanFails,
     RescanEnds
<1>12. QED
  BY <1>1, <1>2, <1>3, <1>4, <1>6, <1>7, <1>8, <1>9, <1>10, <1>11

\* The index point moves up only over what the run has read, ...
LEMMA NextOnlyExcused ==
    IndexTypeOK /\ GapInv /\ IndexNext /\ UNCHANGED chainVars => OnlyExcusedGaps'
<1> SUFFICES ASSUME IndexTypeOK, GapInv, IndexNext, UNCHANGED chainVars,
                    ~excused', NEW h \in 1 .. Best', (h < StartBlock)'
             PROVE  Tx(h)' \in savedTxs'
  BY DEF OnlyExcusedGaps, IndexedBelowStart
<1> USE DEF At, RescanAt, indexVars, rescans, history, database
<1>n. /\ Best \in Nat /\ endBlock \in Nat /\ StartBlock \in Nat /\ MaxReOrgBlocks \in Nat \ {0}
      /\ index \in [Indexers -> IndexStates]
      /\ height \in [Indexers -> Nat] /\ last \in [Indexers -> Nat]
      /\ \A r \in Rescanners : rescanFrom[r] \in Nat
  BY Numbers DEF IndexTypeOK, Heights
<1>t. whole \in [Indexers -> BOOLEAN] /\ excused \in BOOLEAN
  BY DEF IndexTypeOK
<1>b. Best' = Best /\ Tx(h)' = Tx(h) /\ h \in 1 .. Best
  BY DEF chainVars, Best, Tx
<1>1. ASSUME NEW j \in Indexers, FinishIndex(j) PROVE Tx(h) \in savedTxs'
  <2>1. (~excused \/ whole[j]) /\ HasRead(j, h) /\ savedTxs' = savedTxs
    BY <1>1, <1>t DEF FinishIndex, IndexDone, HasRead
  <2>2. h + MaxReOrgBlocks < last[j]
    BY <1>1, <1>n, <1>b DEF FinishIndex, StartBlock
  <2>3. QED
    BY <1>b, <2>1, <2>2 DEF GapInv, RunsSave
<1>2. ASSUME NEW j \in Indexers, IndexPointMoves(j) PROVE Tx(h) \in savedTxs'
  <2>1. ~excused /\ savedTxs' = savedTxs /\ index[j] = "saved" /\ endBlock' = height[j]
    BY <1>2 DEF IndexPointMoves
  <2>2. h + MaxReOrgBlocks < height[j]
    BY <1>n, <1>b, <2>1 DEF StartBlock
  <2>3. HasRead(j, h) /\ h + MaxReOrgBlocks < last[j]
    BY <1>n, <1>b, <2>1, <2>2 DEF HasRead, GapInv, BehindTheChain
  <2>4. QED
    BY <1>b, <2>1, <2>3 DEF GapInv, RunsSave
\* ... and all other steps leave it or lower it.
<1>3. ASSUME \A j \in Indexers : ~FinishIndex(j) /\ ~IndexPointMoves(j) PROVE Tx(h) \in savedTxs'
  <2>1. /\ ~excused /\ StartBlock' \in Nat /\ StartBlock' <= StartBlock
        /\ \A r \in Rescanners : ~RescanDrops(r)
    <3>1. ASSUME NEW r \in Rescanners PROVE ~RescanDrops(r)
      BY DEF RescanDrops
    <3>2. ASSUME NEW r \in Rescanners, RescanClears(r) \/ RescanSetsPoint(r)
          PROVE  ~excused /\ StartBlock' \in Nat /\ StartBlock' <= StartBlock
      BY <3>2, RescanLowers
    <3>3. \/ UNCHANGED endBlock /\ ~excused
          \/ \E r \in Rescanners : RescanClears(r) \/ RescanSetsPoint(r)
      BY <1>3, <3>1, IndexStepsByName DEF AttachBlock, Reorganise, SyncEnds, Kill,
         ListenerRegisters, ListenerDeletes, ListenerSaves, ListenerFails, IndexWhenSynced,
         LockDbMutex, BeginIndex, IndexDeletes, IndexSaves, IndexReadsAll, IndexInterrupted,
         StartRescan, RescanBegins, RescanFails, RescanEnds
    <3>4. UNCHANGED endBlock => StartBlock' \in Nat /\ StartBlock' <= StartBlock
      <4>1. UNCHANGED endBlock => StartBlock' = StartBlock
        BY DEF StartBlock
      <4>2. QED
        BY <1>n, <4>1
    <3>5. QED
      BY <3>1, <3>2, <3>3, <3>4
  <2>2. h < StartBlock /\ h + MaxReOrgBlocks < Best
    <3>1. h < StartBlock /\ endBlock <= Best
      BY <1>n, <1>b, <2>1 DEF GapInv, BehindTheChain
    <3>2. h + MaxReOrgBlocks < endBlock
      BY <1>b, <1>n, <3>1, BelowStart
    <3>3. QED
      BY <1>n, <1>b, <3>1, <3>2
  <2>3. Tx(h) \in savedTxs
    BY <1>b, <2>1, <2>2 DEF GapInv, OnlyExcusedGaps, IndexedBelowStart
  <2>4. \A j \in Indexers : index[j] = "block" => h # height[j]
    BY <1>n, <1>b, <2>1, <2>2 DEF GapInv, RunsStartAbove, Reading
  <2>5. QED
    BY <1>b, <2>1, <2>2, <2>3, <2>4, SavedStay DEF GapInv
<1>4. QED
  BY <1>1, <1>2, <1>3, <1>b

\* Every step keeps the invariant.
LEMMA NextGap == IndexTypeOK /\ GapInv /\ [IndexNext]_txIndexVars => GapInv'
<1> SUFFICES ASSUME IndexTypeOK, GapInv, [IndexNext]_txIndexVars PROVE GapInv'
  OBVIOUS
<1>1. CASE UNCHANGED txIndexVars
  BY <1>1 DEF txIndexVars, chainVars, database, indexVars, rescans, listening, history, GapInv,
     OneRun, BehindTheChain, ListenerIsClose, RunsSave, RunsStartAbove, OnlyExcusedGaps,
     IndexedBelowStart, HasRead, StartBlock, Tx, Best
<1>2. CASE AttachBlock \/ Reorganise
  <2>1. UNCHANGED <<listener, database, kills, indexVars, rescans, history>>
    BY <1>2 DEF AttachBlock, Reorganise
  <2>2. QED
    BY <1>2, <2>1, Numbers, AttachGrows, ReorganiseGrows, GrowthKeepsGap
<1>3. CASE IndexNext /\ UNCHANGED chainVars
  BY <1>3, NextOneRun, NextBehind, NextListener, NextRunsSave, NextRunsStartAbove, NextOnlyExcused
     DEF GapInv
<1>4. IndexNext => AttachBlock \/ Reorganise \/ UNCHANGED chainVars
  BY IndexStepsByName DEF SyncEnds, Kill, ListenerRegisters, ListenerDeletes, ListenerSaves,
     ListenerFails, IndexWhenSynced, LockDbMutex, BeginIndex, IndexDeletes, IndexSaves,
     IndexPointMoves, IndexReadsAll, IndexInterrupted, FinishIndex, StartRescan, RescanBegins,
     RescanFails, RescanDrops, RescanClears, RescanSetsPoint, RescanEnds
<1>5. QED
  BY <1>1, <1>2, <1>3, <1>4

\* Every variable keeps its type: a run only writes transactions of blocks the chain has,
\* and the listener those of the notifications it has got.
THEOREM IndexTypeCorrect == IndexSpec => []IndexTypeOK
<1>1. IndexInit => IndexTypeOK /\ GapInv
  BY InitIndexTyped, InitGap
<1>2. IndexTypeOK /\ GapInv /\ [IndexNext]_txIndexVars => IndexTypeOK' /\ GapInv'
  BY NextIndexTyped, NextGap DEF GapInv
<1>3. QED
  BY <1>1, <1>2, PTL DEF IndexSpec

\* Whatever happens between two of the transactions that write the database, a kill
\* included, only a rescan or a run cut short leaves a gap below the start block.
THEOREM GapsAreExcused == IndexSpec => []OnlyExcusedGaps
<1>1. IndexInit => IndexTypeOK /\ GapInv
  BY InitIndexTyped, InitGap
<1>2. IndexTypeOK /\ GapInv /\ [IndexNext]_txIndexVars => IndexTypeOK' /\ GapInv'
  BY NextIndexTyped, NextGap DEF GapInv
<1>3. GapInv => OnlyExcusedGaps
  BY DEF GapInv
<1>4. QED
  BY <1>1, <1>2, <1>3, PTL DEF IndexSpec
=============================================================================
