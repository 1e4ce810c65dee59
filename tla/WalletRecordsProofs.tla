-------------------------- MODULE WalletRecordsProofs --------------------------
(***************************************************************************)
(* For any number of wallets, names, passphrases, failures and restarts:   *)
(* the seed words follow the passphrase, the objects agree with the        *)
(* records, no wallet is lost and no deleted one comes back.  And MCSafety,*)
(* the model of the records with the parts of DcrSyncProofs and            *)
(* TxIndexProofs.                                                          *)
(***************************************************************************)
EXTENDS MCSafety, DcrSyncProofs, TxIndexProofs, TLAPS

Creating == {"begin", "mkdir", "setup", "commit"}

\* Nothing is known yet of the identifiers that were not given out.
Fresh ==
    \A i \in Ids : i > lastId =>
        /\ records[i] = NoWallet /\ wallets[i] = NoWallet
        /\ i \notin bad \cup created \cup deleting

\* What the call the user is in has done so far.
InCall ==
    /\ user.at = "idle" => user.id = 0
    /\ user.at \in Creating =>
         /\ user.id = lastId + 1 /\ user.id \in Ids
         /\ user.name \in Names /\ user.seal \in Seals
    /\ user.at \notin Creating \cup {"idle"} => user.id \in listed
    /\ user.at \in {"setup", "commit"} => user.id \in dirs
    /\ user.at = "commit" => vaults[user.id] = user.seal
    /\ user.at = "rekey" => user.new \in Passphrases /\ user.seal = user.new
    /\ user.at \in {"reseal", "save", "undo"} => user.new = Zeros
    /\ user.at = "reseal" => vaults[user.id] = user.seal /\ user.seal \in Seals
    /\ user.at \in {"shutdown", "drop", "remove"} => user.id \in deleting

\* The objects behind the lists and the sessions.
Held ==
    /\ \A i \in Ids : session[i] # "none" => wallets[i] # NoWallet
    /\ \A i \in bad : wallets[i] = NoWallet
    /\ listed \subseteq dirs

\* What locks an upstream wallet is what encrypts the words of its object and, but for
\* a save that is due or has failed, of its record.
ObjectSeals ==
    \A i \in dirs \ torn :
        wallets[i] # NoWallet /\ ~(user.id = i /\ user.at = "reseal")
        => wallets[i].seal = vaults[i]

RecordSeals ==
    \A i \in dirs \ (unsaved \cup torn) :
        records[i] # NoWallet /\ ~(user.id = i /\ user.at \in {"reseal", "save"})
        => records[i].seal = vaults[i]

Current ==
    \A i \in listed \ unsaved :
        ~(user.id = i /\ user.at \in {"rename", "save", "remove"}) => records[i] = wallets[i]

Kept ==
    \A i \in created \ deleting : records[i] # NoWallet /\ i \in dirs /\ vaults[i] # NoVault

\* Sessions that were waited for are gone, so that nothing saves what was dropped.
Gone ==
    /\ \A i \in deleting \ Utxo : i \notin listed => records[i] = NoWallet /\ session[i] = "none"
    /\ user.at \in {"drop", "remove"} /\ user.id \notin Utxo => session[user.id] = "none"
    /\ user.at = "remove" /\ user.id \notin Utxo => records[user.id] = NoWallet

RecordsInv ==
    /\ RecordsTypeOK /\ Fresh /\ InCall /\ Held /\ ObjectSeals /\ RecordSeals
    /\ Current /\ Kept /\ Gone

-----------------------------------------------------------------------------
\* A first start finds nothing, and the invariant holds of it.
LEMMA InitHolds == RecordsInit => RecordsInv
<1> SUFFICES ASSUME RecordsInit PROVE RecordsInv
    OBVIOUS
<1> USE RecordBounds, UtxoWallets, DistinctSecrets, NoWalletIsNone
    DEF RecordsInit, Ids, Idle, Seals
<1>1. RecordsTypeOK
    BY DEF RecordsTypeOK, UserCalls, Places
<1>2. Fresh /\ InCall /\ Held
    BY DEF Fresh, InCall, Held, Creating
<1>3. ObjectSeals /\ RecordSeals /\ Current /\ Kept /\ Gone
    BY DEF ObjectSeals, RecordSeals, Current, Kept, Gone
<1> QED BY <1>1, <1>2, <1>3 DEF RecordsInv

-----------------------------------------------------------------------------
(* How a call moves on                                                     *)

\* A call that goes on keeps its arguments.
LEMMA UserMoves ==
    ASSUME user \in UserCalls, NEW place \in Places, UserGoes(place)
    PROVE  /\ user' \in UserCalls /\ user'.at = place
           /\ user'.id = user.id /\ user'.name = user.name /\ user'.old = user.old
           /\ user'.new = user.new /\ user'.seal = user.seal
BY DEF UserCalls, UserGoes

\* A call that returns forgets its arguments.
LEMMA UserReturns ==
    ASSUME UserIsDone
    PROVE  user' \in UserCalls /\ user'.at = "idle" /\ user'.id = 0
BY DEF UserCalls, UserIsDone, Idle, Places, Seals

-----------------------------------------------------------------------------
(* Creating a wallet                                                       *)

\* Creating a wallet, with whatever fails, keeps the invariant.
LEMMA CreationKeeps ==
    ASSUME RecordsInv,
           \/ \E name \in Names, seal \in Seals : CreateWallet(name, seal)
           \/ BeginNewWallet \/ MakeDataDir \/ SetupWallet \/ CommitNewWallet
    PROVE  RecordsInv'
<1> USE RecordBounds, UtxoWallets, DistinctSecrets, NoWalletIsNone
    DEF RecordsInv, Ids, UserAt, Fails, OthersUnchanged
<1>1. ASSUME NEW name \in Names, NEW seal \in Seals, CreateWallet(name, seal)
      PROVE  RecordsInv'
    <2>1. /\ user' \in UserCalls /\ user'.at = "begin" /\ user'.id = lastId + 1
          /\ user'.name = name /\ user'.seal = seal /\ lastId + 1 \in Ids
      <3>1. lastId \in 0 .. MaxWallets /\ lastId < MaxWallets
          BY <1>1 DEF CreateWallet, RecordsTypeOK
      <3>4. lastId + 1 \in Ids
          BY <3>1
      <3>2. Idle \in UserCalls
          BY DEF UserCalls, Idle, Places, Seals
      <3>3. user' = [Idle EXCEPT !.at = "begin", !.id = lastId + 1, !.name = name, !.seal = seal]
          BY <1>1 DEF CreateWallet
      <3> HIDE DEF Ids
      <3> QED BY <1>1, <3>2, <3>3, <3>4 DEF UserCalls, Places
    <2> USE <1>1, <2>1 DEF CreateWallet
    <2>2. RecordsTypeOK' /\ Fresh' /\ Held' /\ Kept'
        BY DEF RecordsTypeOK, Fresh, Held, Kept
    <2>3. InCall'
        BY DEF RecordsTypeOK, InCall, Creating
    <2>4. ObjectSeals' /\ RecordSeals'
        BY DEF RecordsTypeOK, ObjectSeals, RecordSeals, InCall
    <2>5. Current' /\ Gone'
        BY DEF RecordsTypeOK, Current, Gone, InCall
    <2> QED BY <2>2, <2>3, <2>4, <2>5
<1>2. CASE BeginNewWallet
    <2>1. user' \in UserCalls /\ \/ user'.at = "idle" /\ user'.id = 0
                                 \/ /\ user'.at = "mkdir" /\ user'.id = user.id
                                    /\ user'.name = user.name /\ user'.seal = user.seal
        BY <1>2, UserMoves, UserReturns DEF BeginNewWallet, Places, RecordsTypeOK
    <2> USE <1>2, <2>1 DEF BeginNewWallet
    <2>2. RecordsTypeOK' /\ Fresh' /\ Held' /\ Kept'
        BY DEF RecordsTypeOK, Fresh, Held, Kept
    <2>3. InCall'
        BY DEF RecordsTypeOK, InCall, Creating
    <2>4. ObjectSeals' /\ RecordSeals'
        BY DEF RecordsTypeOK, ObjectSeals, RecordSeals, InCall
    <2>5. Current' /\ Gone'
        BY DEF RecordsTypeOK, Current, Gone, InCall
    <2> QED BY <2>2, <2>3, <2>4, <2>5
<1>3. CASE MakeDataDir
    <2>1. user' \in UserCalls /\ \/ user'.at = "idle" /\ user'.id = 0
                                 \/ /\ user'.at = "setup" /\ user'.id = user.id
                                    /\ user'.name = user.name /\ user'.seal = user.seal
        BY <1>3, UserMoves, UserReturns DEF MakeDataDir, Places, RecordsTypeOK
    <2>2. /\ user.at = "mkdir" /\ user.id = lastId + 1 /\ user.id \in Ids
          /\ user.name \in Names /\ user.seal \in Seals
          /\ records[user.id] = NoWallet /\ wallets[user.id] = NoWallet
          /\ user.id \notin listed \cup bad \cup created \cup deleting
        BY <1>3 DEF MakeDataDir, InCall, Creating, Fresh, RecordsTypeOK
    <2>3. /\ vaults' \in [Ids -> Seals \cup {NoVault}]
          /\ \A i \in Ids \ {user.id} : vaults'[i] = vaults[i]
        BY <1>3 DEF MakeDataDir, RecordsTypeOK
    <2>4. /\ \/ dirs' = dirs \cup {user.id} /\ user'.at = "setup"
             \/ dirs' = dirs \ {user.id} /\ user'.at = "idle"
          /\ UNCHANGED <<records, wallets, session, unsaved, lastId, listed, bad, restarts,
                         torn, created, deleting>>
          /\ failures' \in 0 .. MaxFailures
        BY <1>3, UserMoves, UserReturns DEF MakeDataDir, Places, RecordsTypeOK
    <2> USE <2>1, <2>2, <2>3, <2>4
    <2>5. RecordsTypeOK'
        BY DEF RecordsTypeOK
    <2>6. Fresh' /\ Held' /\ Kept'
        BY DEF RecordsTypeOK, Fresh, Held, Kept
    <2>7. InCall'
        BY DEF RecordsTypeOK, InCall, Creating
    <2>8. ObjectSeals' /\ RecordSeals'
        BY DEF RecordsTypeOK, ObjectSeals, RecordSeals
    <2>9. Current' /\ Gone'
        BY DEF RecordsTypeOK, Current, Gone
    <2> QED BY <2>5, <2>6, <2>7, <2>8, <2>9
<1>4. CASE SetupWallet
    <2>1. user' \in UserCalls
          /\ \/ user'.at = "idle" /\ user'.id = 0
             \/ /\ user'.at = "commit" /\ user'.id = user.id /\ vaults'[user.id] = user.seal
                /\ user'.name = user.name /\ user'.seal = user.seal
        BY <1>4, UserMoves, UserReturns
        DEF SetupWallet, Places, RecordsTypeOK, InCall, Creating
    <2>2. /\ user.at = "setup" /\ user.id = lastId + 1 /\ user.id \in Ids /\ user.id \in dirs
          /\ user.name \in Names /\ user.seal \in Seals
          /\ records[user.id] = NoWallet /\ wallets[user.id] = NoWallet
          /\ user.id \notin listed \cup bad \cup created \cup deleting
        BY <1>4 DEF SetupWallet, InCall, Creating, Fresh, RecordsTypeOK
    <2>3. vaults' \in [Ids -> Seals \cup {NoVault}]
          /\ \A i \in Ids \ {user.id} : vaults'[i] = vaults[i]
        BY <1>4, <2>2 DEF SetupWallet, RecordsTypeOK
    <2>4. UNCHANGED <<records, wallets, session, unsaved, lastId, listed, bad, dirs, restarts,
                      torn, created, deleting>> /\ failures' \in 0 .. MaxFailures
        BY <1>4 DEF SetupWallet, RecordsTypeOK
    <2> USE <2>1, <2>2, <2>3, <2>4
    <2>5. RecordsTypeOK'
        BY DEF RecordsTypeOK
    <2>6. Fresh' /\ Held' /\ Kept'
        BY DEF RecordsTypeOK, Fresh, Held, Kept
    <2>7. InCall'
        BY DEF RecordsTypeOK, InCall, Creating
    <2>8. ObjectSeals' /\ RecordSeals'
        BY DEF RecordsTypeOK, ObjectSeals, RecordSeals
    <2>9. Current' /\ Gone'
        BY DEF RecordsTypeOK, Current, Gone
    <2> QED BY <2>5, <2>6, <2>7, <2>8, <2>9
<1>5. CASE CommitNewWallet
    <2> DEFINE kept == [name |-> user.name, seal |-> user.seal]
    <2>1. user' \in UserCalls /\ user'.at = "idle" /\ user'.id = 0
        BY <1>5, UserReturns DEF CommitNewWallet
    <2>2. /\ user.at = "commit" /\ user.id = lastId + 1 /\ user.id \in Ids /\ user.id \in dirs
          /\ records[user.id] = NoWallet /\ wallets[user.id] = NoWallet
          /\ session[user.id] = "none"
          /\ user.id \notin listed \cup bad \cup created \cup deleting
          /\ vaults[user.id] = user.seal /\ user.seal \in Seals /\ user.seal # NoVault
        BY <1>5 DEF CommitNewWallet, InCall, Creating, Fresh, Held, RecordsTypeOK, Seals
    <2>3. kept \in WalletObjects /\ kept # NoWallet /\ kept.seal = user.seal
        BY <1>5, <2>2 DEF CommitNewWallet, InCall, Creating, WalletObjects
    <2>4. /\ UNCHANGED <<vaults, session, unsaved, bad, dirs, restarts, torn, deleting>>
          /\ failures' \in 0 .. MaxFailures
        BY <1>5 DEF CommitNewWallet, RecordsTypeOK
    <2>5. \/ UNCHANGED <<records, wallets, listed, created, lastId>>
          \/ /\ lastId' = user.id /\ records' = [records EXCEPT ![user.id] = kept]
             /\ \/ UNCHANGED <<wallets, listed, created>>
                \/ /\ listed' = listed \cup {user.id} /\ created' = created \cup {user.id}
                   /\ wallets' = [wallets EXCEPT ![user.id] = kept]
        BY <1>5 DEF CommitNewWallet
    <2> HIDE DEF kept
    <2> USE <2>1, <2>2, <2>3, <2>4
    <2>6. CASE UNCHANGED <<records, wallets, listed, created, lastId>>
      <3> USE <2>6
      <3>2. RecordsTypeOK'
          BY DEF RecordsTypeOK
      <3>3. Fresh' /\ Held' /\ Kept'
          BY DEF RecordsTypeOK, Fresh, Held, Kept
      <3>4. InCall'
          BY DEF RecordsTypeOK, InCall, Creating
      <3>5. ObjectSeals' /\ RecordSeals'
          BY DEF RecordsTypeOK, ObjectSeals, RecordSeals
      <3>6. Current' /\ Gone'
          BY DEF RecordsTypeOK, Current, Gone
      <3> QED BY <3>2, <3>3, <3>4, <3>5, <3>6
    <2>7. CASE /\ lastId' = user.id /\ records' = [records EXCEPT ![user.id] = kept]
               /\ UNCHANGED <<wallets, listed, created>>
      <3>1. records' \in [Ids -> WalletObjects \cup {NoWallet}] /\ records'[user.id] = kept
            /\ \A i \in Ids \ {user.id} : records'[i] = records[i]
          BY <2>7 DEF RecordsTypeOK
      <3> USE <2>7, <3>1
      <3>2. RecordsTypeOK'
          BY DEF RecordsTypeOK
      <3>3. Fresh' /\ Held' /\ Kept'
          BY DEF RecordsTypeOK, Fresh, Held, Kept
      <3>4. InCall'
          BY DEF RecordsTypeOK, InCall, Creating
      <3>5. ObjectSeals' /\ RecordSeals'
          BY DEF RecordsTypeOK, ObjectSeals, RecordSeals
      <3>6. Current' /\ Gone'
          BY DEF RecordsTypeOK, Current, Gone
      <3> QED BY <3>2, <3>3, <3>4, <3>5, <3>6
    <2>8. CASE /\ lastId' = user.id /\ records' = [records EXCEPT ![user.id] = kept]
               /\ listed' = listed \cup {user.id} /\ created' = created \cup {user.id}
               /\ wallets' = [wallets EXCEPT ![user.id] = kept]
      <3>1. /\ records' \in [Ids -> WalletObjects \cup {NoWallet}]
            /\ wallets' \in [Ids -> WalletObjects \cup {NoWallet}]
            /\ records'[user.id] = kept /\ wallets'[user.id] = kept
            /\ \A i \in Ids \ {user.id} : records'[i] = records[i] /\ wallets'[i] = wallets[i]
          BY <2>8 DEF RecordsTypeOK
      <3> USE <2>8, <3>1
      <3>2. RecordsTypeOK'
          BY DEF RecordsTypeOK
      <3>3. Fresh' /\ Held' /\ Kept'
          BY DEF RecordsTypeOK, Fresh, Held, Kept
      <3>4. InCall'
          BY DEF RecordsTypeOK, InCall, Creating
      <3>5. ObjectSeals' /\ RecordSeals'
        <4>1. ObjectSeals'
            BY DEF RecordsTypeOK, ObjectSeals
        <4>2. RecordSeals'
            BY DEF RecordsTypeOK, RecordSeals
        <4> QED BY <4>1, <4>2
      <3>6. Current' /\ Gone'
          BY DEF RecordsTypeOK, Current, Gone
      <3> QED BY <3>2, <3>3, <3>4, <3>5, <3>6
    <2> QED BY <2>5, <2>6, <2>7, <2>8
<1> QED BY <1>1, <1>2, <1>3, <1>4, <1>5

-----------------------------------------------------------------------------
(* Changing what the record holds                                          *)

\* What a save leaves, whether it succeeds or not.
LEMMA SaveOutcome ==
    ASSUME RecordsTypeOK, NEW id \in Ids, wallets[id] # NoWallet,
           SavesObject(id) \/ SaveFails(id)
    PROVE  /\ records' \in [Ids -> WalletObjects \cup {NoWallet}] /\ unsaved' \subseteq Ids
           /\ failures' \in 0 .. MaxFailures
           /\ \A i \in Ids \ {id} : records'[i] = records[i] /\ (i \in unsaved' <=> i \in unsaved)
           /\ \/ records'[id] = wallets[id] /\ id \notin unsaved'
              \/ records'[id] = records[id] /\ id \in unsaved'
<1>1. CASE SavesObject(id)
    BY <1>1 DEF SavesObject, RecordsTypeOK
<1>2. CASE SaveFails(id)
    BY <1>2, RecordBounds DEF SaveFails, Fails, RecordsTypeOK
<1> QED BY <1>1, <1>2

\* Renaming, changing the passphrase, with its undoing, and verifying the seed keep it.
LEMMA ChangesKeep ==
    ASSUME RecordsInv,
           \/ \E id \in Ids, name \in Names : RenameWallet(id, name)
           \/ SaveNewName
           \/ \E id \in Ids, old, new \in Passphrases : ChangePrivatePassphrase(id, old, new)
           \/ Rekey \/ Reseal \/ SaveNewSeal \/ UndoRekey
           \/ \E id \in Ids : VerifySeed(id)
    PROVE  RecordsInv'
<1> USE RecordBounds, UtxoWallets, DistinctSecrets, NoWalletIsNone
    DEF RecordsInv, Ids, UserAt, Fails, OthersUnchanged
<1>1. ASSUME NEW id \in Ids, NEW name \in Names, RenameWallet(id, name)
      PROVE  RecordsInv'
    <2>1. user' \in UserCalls /\ user'.at = "rename" /\ user'.id = id
        BY <1>1 DEF RenameWallet, UserCalls, Idle, Places, Seals
    <2>2. /\ user.at = "idle" /\ user.id = 0 /\ id \in listed /\ wallets[id] \in WalletObjects
          /\ UNCHANGED <<records, vaults, session, failures, unsaved, lastId, listed, bad,
                         dirs, restarts, torn, created, deleting>>
        BY <1>1 DEF RenameWallet, RecordsTypeOK, InCall
    <2>3. /\ wallets' \in [Ids -> WalletObjects \cup {NoWallet}]
          /\ wallets'[id] \in WalletObjects /\ wallets'[id].seal = wallets[id].seal
          /\ \A i \in Ids \ {id} : wallets'[i] = wallets[i]
      <3> DEFINE renamed == [wallets[id] EXCEPT !.name = name]
      <3>1. wallets' = [wallets EXCEPT ![id] = renamed]
          BY <1>1 DEF RenameWallet
      <3>2. renamed \in WalletObjects /\ renamed.seal = wallets[id].seal
          BY <2>2 DEF WalletObjects
      <3> HIDE DEF renamed
      <3> QED BY <3>1, <3>2 DEF RecordsTypeOK
    <2> USE <2>1, <2>2, <2>3
    <2>4. RecordsTypeOK'
        BY DEF RecordsTypeOK
    <2>5. Fresh' /\ Held' /\ Kept'
        BY DEF RecordsTypeOK, Fresh, Held, Kept
    <2>6. InCall'
        BY DEF RecordsTypeOK, InCall, Creating
    <2>7. ObjectSeals' /\ RecordSeals'
        BY DEF RecordsTypeOK, ObjectSeals, RecordSeals
    <2>8. Current' /\ Gone'
        BY DEF RecordsTypeOK, Current, Gone
    <2> QED BY <2>4, <2>5, <2>6, <2>7, <2>8
<1>2. CASE SaveNewName
    <2>1. user' \in UserCalls /\ user'.at = "idle" /\ user'.id = 0
        BY <1>2, UserReturns DEF SaveNewName
    <2>2. /\ user.at = "rename" /\ user.id \in listed /\ user.id \in Ids
          /\ wallets[user.id] # NoWallet
          /\ UNCHANGED <<wallets, vaults, session, lastId, listed, bad, dirs, restarts, torn,
                         created, deleting>>
        BY <1>2 DEF SaveNewName, RecordsTypeOK, InCall, Creating
    <2>3. SavesObject(user.id) \/ SaveFails(user.id)
        BY <1>2 DEF SaveNewName
    <2>4. /\ records' \in [Ids -> WalletObjects \cup {NoWallet}] /\ unsaved' \subseteq Ids
          /\ failures' \in 0 .. MaxFailures
          /\ \A i \in Ids \ {user.id} :
                records'[i] = records[i] /\ (i \in unsaved' <=> i \in unsaved)
          /\ \/ records'[user.id] = wallets[user.id] /\ user.id \notin unsaved'
             \/ records'[user.id] = records[user.id] /\ user.id \in unsaved'
        BY <2>2, <2>3, SaveOutcome
    <2> USE <2>1, <2>2, <2>4
    <2>5. RecordsTypeOK'
        BY DEF RecordsTypeOK
    <2>6. Fresh' /\ Held' /\ Kept'
        BY DEF RecordsTypeOK, Fresh, Held, Kept
    <2>7. InCall'
        BY DEF RecordsTypeOK, InCall, Creating
    <2>8. ObjectSeals' /\ RecordSeals'
        BY DEF RecordsTypeOK, ObjectSeals, RecordSeals
    <2>9. Current' /\ Gone'
        BY DEF RecordsTypeOK, Current, Gone
    <2> QED BY <2>5, <2>6, <2>7, <2>8, <2>9
<1>3. ASSUME NEW id \in Ids, NEW old \in Passphrases, NEW new \in Passphrases,
             ChangePrivatePassphrase(id, old, new)
      PROVE  RecordsInv'
    <2>1. /\ user' \in UserCalls /\ user'.at = "rekey" /\ user'.id = id
          /\ user'.new = new /\ user'.seal = new
        BY <1>3 DEF ChangePrivatePassphrase, UserCalls, Idle, Places, Seals
    <2>2. /\ user.at = "idle" /\ user.id = 0 /\ id \in listed
          /\ UNCHANGED <<records, wallets, vaults, session, failures, unsaved, lastId, listed,
                         bad, dirs, restarts, torn, created, deleting>>
        BY <1>3 DEF ChangePrivatePassphrase, InCall
    <2> USE <2>1, <2>2
    <2>3. RecordsTypeOK'
        BY DEF RecordsTypeOK
    <2>4. Fresh' /\ Held' /\ Kept'
        BY DEF RecordsTypeOK, Fresh, Held, Kept
    <2>5. InCall'
        BY DEF RecordsTypeOK, InCall, Creating
    <2>6. ObjectSeals' /\ RecordSeals'
        BY DEF RecordsTypeOK, ObjectSeals, RecordSeals
    <2>7. Current' /\ Gone'
        BY DEF RecordsTypeOK, Current, Gone
    <2> QED BY <2>3, <2>4, <2>5, <2>6, <2>7
<1>4. CASE Rekey
    <2>1. /\ user.at = "rekey" /\ user.id \in listed /\ user.id \in Ids
          /\ user.new \in Passphrases /\ user.seal = user.new
          /\ UNCHANGED <<records, wallets, session, unsaved, lastId, listed, bad, dirs,
                         restarts, torn, created, deleting>>
          /\ failures' \in 0 .. MaxFailures
        BY <1>4 DEF Rekey, RecordsTypeOK, InCall, Creating
    <2>2. \/ /\ vaults' = vaults
             /\ user' \in UserCalls /\ user'.at = "idle" /\ user'.id = 0
          \/ /\ vaults' = [vaults EXCEPT ![user.id] = user.new]
             /\ user' \in UserCalls /\ user'.at = "reseal" /\ user'.id = user.id
             /\ user'.new = Zeros /\ user'.seal = user.seal
      <3>1. CASE UserIsDone /\ UNCHANGED vaults
          BY <3>1, UserReturns
      <3>2. CASE /\ vaults' = [vaults EXCEPT ![user.id] = user.new]
                 /\ user' = [user EXCEPT !.at = "reseal", !.old = Zeros, !.new = Zeros]
          BY <3>2 DEF RecordsTypeOK, UserCalls, Places
      <3> QED BY <1>4, <3>1, <3>2 DEF Rekey
    <2>3. /\ vaults' \in [Ids -> Seals \cup {NoVault}]
          /\ \A i \in Ids \ {user.id} : vaults'[i] = vaults[i]
          /\ vaults'[user.id] \in {vaults[user.id], user.new}
          /\ user'.at = "idle" => vaults' = vaults
          /\ user'.at = "reseal" => vaults'[user.id] = user.new
        BY <2>1, <2>2 DEF RecordsTypeOK, Seals
    <2>4. user.new \in Seals /\ user.new # NoVault
        BY <2>1 DEF Seals
    <2> USE <2>1, <2>2, <2>3, <2>4
    <2>5. RecordsTypeOK'
        BY DEF RecordsTypeOK
    <2>6. Fresh' /\ Held' /\ Kept'
        BY DEF RecordsTypeOK, Fresh, Held, Kept
    <2>7. InCall'
        BY DEF RecordsTypeOK, InCall, Creating
    <2>8. ObjectSeals' /\ RecordSeals'
        BY DEF RecordsTypeOK, ObjectSeals, RecordSeals
    <2>9. Current' /\ Gone'
        BY DEF RecordsTypeOK, Current, Gone
    <2> QED BY <2>5, <2>6, <2>7, <2>8, <2>9
<1>5. CASE Reseal
    <2>1. /\ user.at = "reseal" /\ user.id \in listed /\ user.id \in Ids
          /\ user.seal \in Seals /\ vaults[user.id] = user.seal /\ user.new = Zeros
          /\ wallets[user.id] \in WalletObjects
          /\ UNCHANGED <<records, vaults, session, failures, unsaved, lastId, listed, bad,
                         dirs, restarts, torn, created, deleting>>
        BY <1>5 DEF Reseal, RecordsTypeOK, InCall, Creating
    <2>2. /\ user' \in UserCalls /\ user'.at = "save" /\ user'.id = user.id
          /\ user'.new = user.new
        BY <1>5, UserMoves DEF Reseal, Places, RecordsTypeOK
    <2>3. /\ wallets' \in [Ids -> WalletObjects \cup {NoWallet}]
          /\ wallets'[user.id] \in WalletObjects /\ wallets'[user.id].seal = user.seal
          /\ \A i \in Ids \ {user.id} : wallets'[i] = wallets[i]
      <3> DEFINE sealed == [wallets[user.id] EXCEPT !.seal = user.seal]
      <3>1. wallets' = [wallets EXCEPT ![user.id] = sealed]
          BY <1>5 DEF Reseal
      <3>2. sealed \in WalletObjects /\ sealed.seal = user.seal
          BY <2>1 DEF WalletObjects
      <3> HIDE DEF sealed
      <3> QED BY <3>1, <3>2, <2>1 DEF RecordsTypeOK
    <2> USE <2>1, <2>2, <2>3
    <2>4. RecordsTypeOK'
        BY DEF RecordsTypeOK
    <2>5. Fresh' /\ Held' /\ Kept'
        BY DEF RecordsTypeOK, Fresh, Held, Kept
    <2>6. InCall'
        BY DEF RecordsTypeOK, InCall, Creating
    <2>7. ObjectSeals' /\ RecordSeals'
        BY DEF RecordsTypeOK, ObjectSeals, RecordSeals
    <2>8. Current' /\ Gone'
        BY DEF RecordsTypeOK, Current, Gone
    <2> QED BY <2>4, <2>5, <2>6, <2>7, <2>8
<1>6. CASE SaveNewSeal
    <2>1. /\ user.at = "save" /\ user.id \in listed /\ user.id \in Ids /\ user.new = Zeros
          /\ wallets[user.id] # NoWallet
          /\ UNCHANGED <<wallets, vaults, session, lastId, listed, bad, dirs, restarts, torn,
                         created, deleting>>
        BY <1>6 DEF SaveNewSeal, RecordsTypeOK, InCall, Creating
    <2>2. /\ user' \in UserCalls
          /\ \/ user'.at = "idle" /\ user'.id = 0 /\ SavesObject(user.id)
             \/ /\ user'.at = "undo" /\ user'.id = user.id /\ user'.new = user.new
                /\ SaveFails(user.id)
        BY <1>6, UserMoves, UserReturns DEF SaveNewSeal, Places, RecordsTypeOK
    <2>3. /\ records' \in [Ids -> WalletObjects \cup {NoWallet}] /\ unsaved' \subseteq Ids
          /\ failures' \in 0 .. MaxFailures
          /\ \A i \in Ids \ {user.id} :
                records'[i] = records[i] /\ (i \in unsaved' <=> i \in unsaved)
          /\ \/ records'[user.id] = wallets[user.id] /\ user.id \notin unsaved'
             \/ records'[user.id] = records[user.id] /\ user.id \in unsaved'
        BY <2>1, <2>2, SaveOutcome
    <2> USE <2>1, <2>2, <2>3
    <2>4. RecordsTypeOK'
        BY DEF RecordsTypeOK
    <2>5. Fresh' /\ Held' /\ Kept'
        BY DEF RecordsTypeOK, Fresh, Held, Kept
    <2>6. InCall'
        BY DEF RecordsTypeOK, InCall, Creating
    <2>7. ObjectSeals' /\ RecordSeals'
        BY DEF RecordsTypeOK, ObjectSeals, RecordSeals
    <2>8. Current' /\ Gone'
        BY DEF RecordsTypeOK, Current, Gone
    <2> QED BY <2>4, <2>5, <2>6, <2>7, <2>8
<1>7. CASE UndoRekey
    <2>1. user' \in UserCalls /\ user'.at = "idle" /\ user'.id = 0
        BY <1>7, UserReturns DEF UndoRekey
    <2>2. /\ user.at = "undo" /\ user.id \in listed /\ user.id \in Ids
          /\ vaults[user.id] # user.new
        BY <1>7 DEF UndoRekey, RecordsTypeOK, InCall, Creating, Seals
    <2>3. UNCHANGED <<records, wallets, vaults, session, failures, unsaved, lastId, listed,
                      bad, dirs, restarts, torn, created, deleting>>
        BY <1>7, <2>2 DEF UndoRekey
    <2> USE <2>1, <2>2, <2>3
    <2>4. RecordsTypeOK'
        BY DEF RecordsTypeOK
    <2>5. Fresh' /\ Held' /\ Kept'
        BY DEF RecordsTypeOK, Fresh, Held, Kept
    <2>6. InCall'
        BY DEF RecordsTypeOK, InCall, Creating
    <2>7. ObjectSeals' /\ RecordSeals'
        BY DEF RecordsTypeOK, ObjectSeals, RecordSeals
    <2>8. Current' /\ Gone'
        BY DEF RecordsTypeOK, Current, Gone
    <2> QED BY <2>4, <2>5, <2>6, <2>7, <2>8
<1>8. ASSUME NEW id \in Ids, VerifySeed(id)
      PROVE  RecordsInv'
    <2>1. /\ user.at = "idle" /\ user.id = 0 /\ id \in listed /\ wallets[id] # NoWallet
          /\ UNCHANGED <<wallets, vaults, session, user, lastId, listed, bad, dirs, restarts,
                         torn, created, deleting>>
        BY <1>8 DEF VerifySeed, RecordsTypeOK, InCall
    <2>2. /\ records' \in [Ids -> WalletObjects \cup {NoWallet}] /\ unsaved' \subseteq Ids
          /\ failures' \in 0 .. MaxFailures
          /\ \A i \in Ids \ {id} : records'[i] = records[i] /\ (i \in unsaved' <=> i \in unsaved)
          /\ \/ records'[id] = wallets[id] /\ id \notin unsaved'
             \/ records'[id] = records[id] /\ id \in unsaved'
        BY <1>8, <2>1, SaveOutcome DEF VerifySeed
    <2> USE <2>1, <2>2
    <2>3. RecordsTypeOK'
        BY DEF RecordsTypeOK
    <2>4. Fresh' /\ Held' /\ Kept'
        BY DEF RecordsTypeOK, Fresh, Held, Kept
    <2>5. InCall'
        BY DEF RecordsTypeOK, InCall, Creating
    <2>6. ObjectSeals' /\ RecordSeals'
        BY DEF RecordsTypeOK, ObjectSeals, RecordSeals
    <2>7. Current' /\ Gone'
        BY DEF RecordsTypeOK, Current, Gone
    <2> QED BY <2>3, <2>4, <2>5, <2>6, <2>7
<1> QED BY <1>1, <1>2, <1>3, <1>4, <1>5, <1>6, <1>7, <1>8

-----------------------------------------------------------------------------
(* The syncs of the wallets                                                *)

\* A sync that starts, saves its object and ends keeps it.
LEMMA SessionsKeep ==
    ASSUME RecordsInv, SessionSteps
    PROVE  RecordsInv'
<1> USE RecordBounds, UtxoWallets, NoWalletIsNone DEF RecordsInv, Ids, OthersUnchanged
<1> SUFFICES ASSUME NEW id \in Ids, StartSession(id) \/ SessionSaves(id) \/ EndSession(id)
             PROVE  RecordsInv'
    BY DEF SessionSteps
<1>1. CASE StartSession(id) \/ EndSession(id)
    <2>1. /\ UNCHANGED <<records, wallets, vaults, user, failures, unsaved, lastId, listed,
                         bad, dirs, restarts, torn, created, deleting>>
          /\ wallets[id] # NoWallet \/ session'[id] = "none"
          /\ \A i \in Ids \ {id} : session'[i] = session[i]
          /\ session' \in [Ids -> {"none", "running", "leaving"}]
          /\ \/ session'[id] = "none"
             \/ id \in listed /\ ~(user.id = id /\ user.at \in {"drop", "remove"})
        BY <1>1 DEF StartSession, EndSession, RecordsTypeOK
    <2> USE <2>1
    <2>2. RecordsTypeOK'
        BY DEF RecordsTypeOK
    <2>3. Fresh' /\ Held' /\ Kept'
        BY DEF RecordsTypeOK, Fresh, Held, Kept
    <2>4. InCall'
        BY DEF RecordsTypeOK, InCall, Creating
    <2>5. ObjectSeals' /\ RecordSeals'
        BY DEF RecordsTypeOK, ObjectSeals, RecordSeals
    <2>6. Current' /\ Gone'
        BY DEF RecordsTypeOK, Current, Gone, InCall, Creating
    <2> QED BY <2>2, <2>3, <2>4, <2>5, <2>6
<1>2. CASE SessionSaves(id)
    <2>1. /\ session[id] # "none" /\ wallets[id] # NoWallet
          /\ UNCHANGED <<wallets, vaults, session, user, lastId, listed, bad, dirs, restarts,
                         torn, created, deleting>>
        BY <1>2 DEF SessionSaves, Held
    <2>2. /\ records' \in [Ids -> WalletObjects \cup {NoWallet}] /\ unsaved' \subseteq Ids
          /\ failures' \in 0 .. MaxFailures
          /\ \A i \in Ids \ {id} : records'[i] = records[i] /\ (i \in unsaved' <=> i \in unsaved)
          /\ \/ records'[id] = wallets[id] /\ id \notin unsaved'
             \/ records'[id] = records[id] /\ id \in unsaved'
        BY <1>2, <2>1, SaveOutcome DEF SessionSaves
    <2> USE <2>1, <2>2
    <2>3. RecordsTypeOK'
        BY DEF RecordsTypeOK
    <2>4. Fresh' /\ Held' /\ Kept'
        BY DEF RecordsTypeOK, Fresh, Held, Kept
    <2>5. InCall'
        BY DEF RecordsTypeOK, InCall, Creating
    <2>6. ObjectSeals' /\ RecordSeals'
        BY DEF RecordsTypeOK, ObjectSeals, RecordSeals
    <2>7. Current' /\ Gone'
        BY DEF RecordsTypeOK, Current, Gone, InCall, Creating
    <2> QED BY <2>3, <2>4, <2>5, <2>6, <2>7
<1> QED BY <1>1, <1>2

-----------------------------------------------------------------------------
(* Deleting a wallet                                                       *)

\* Deleting a wallet, whatever of it fails, keeps it.
LEMMA DeletionKeeps ==
    ASSUME RecordsInv,
           \/ \E id \in Ids, passphrase \in Passphrases : DeleteWallet(id, passphrase)
           \/ ShutdownWallet \/ DropRecord \/ RemoveDataDir
           \/ \E id \in Ids : DeleteBadWallet(id)
    PROVE  RecordsInv'
<1> USE RecordBounds, UtxoWallets, NoWalletIsNone
    DEF RecordsInv, Ids, UserAt, Fails, OthersUnchanged
<1>1. ASSUME NEW id \in Ids, NEW passphrase \in Passphrases, DeleteWallet(id, passphrase)
      PROVE  RecordsInv'
    <2>1. user' \in UserCalls /\ user'.at = "shutdown" /\ user'.id = id
        BY <1>1 DEF DeleteWallet, UserCalls, Idle, Places, Seals
    <2>2. /\ user.at = "idle" /\ user.id = 0 /\ id \in listed
          /\ deleting' = deleting \cup {id}
          /\ UNCHANGED <<records, wallets, vaults, session, failures, unsaved, lastId, listed,
                         bad, dirs, restarts, torn, created>>
        BY <1>1 DEF DeleteWallet, InCall
    <2> USE <2>1, <2>2
    <2>3. RecordsTypeOK'
        BY DEF RecordsTypeOK
    <2>4. Fresh' /\ Held' /\ Kept'
        BY DEF RecordsTypeOK, Fresh, Held, Kept
    <2>5. InCall'
        BY DEF RecordsTypeOK, InCall, Creating
    <2>6. ObjectSeals' /\ RecordSeals'
        BY DEF RecordsTypeOK, ObjectSeals, RecordSeals
    <2>7. Current' /\ Gone'
        BY DEF RecordsTypeOK, Current, Gone
    <2> QED BY <2>3, <2>4, <2>5, <2>6, <2>7
<1>2. CASE ShutdownWallet
    <2>1. user' \in UserCalls /\ user'.at = "drop" /\ user'.id = user.id
        BY <1>2, UserMoves DEF ShutdownWallet, Places, RecordsTypeOK
    <2>2. /\ user.at = "shutdown" /\ user.id \in listed /\ user.id \in Ids
          /\ user.id \in deleting
          /\ UNCHANGED <<records, wallets, vaults, failures, unsaved, lastId, listed, bad,
                         dirs, restarts, torn, created, deleting>>
        BY <1>2 DEF ShutdownWallet, RecordsTypeOK, InCall, Creating
    <2>3. /\ session' \in [Ids -> {"none", "running", "leaving"}]
          /\ \A i \in Ids \ {user.id} : session'[i] = session[i]
          /\ user.id \notin Utxo => session'[user.id] = "none"
          /\ session[user.id] = "none" => session'[user.id] = "none"
        BY <1>2, <2>2 DEF ShutdownWallet, RecordsTypeOK
    <2> USE <2>1, <2>2, <2>3
    <2>4. RecordsTypeOK'
        BY DEF RecordsTypeOK
    <2>5. Fresh' /\ Held' /\ Kept'
        BY DEF RecordsTypeOK, Fresh, Held, Kept
    <2>6. InCall'
        BY DEF RecordsTypeOK, InCall, Creating
    <2>7. ObjectSeals' /\ RecordSeals'
        BY DEF RecordsTypeOK, ObjectSeals, RecordSeals
    <2>8. Current' /\ Gone'
        BY DEF RecordsTypeOK, Current, Gone
    <2> QED BY <2>4, <2>5, <2>6, <2>7, <2>8
<1>3. CASE DropRecord
    <2>1. /\ user.at = "drop" /\ user.id \in listed /\ user.id \in Ids
          /\ user.id \in deleting
          /\ UNCHANGED <<wallets, vaults, session, unsaved, lastId, listed, bad, dirs,
                         restarts, torn, created, deleting>>
          /\ failures' \in 0 .. MaxFailures
      <3>1. user.at = "drop" /\ user.id \in listed /\ user.id \in deleting
          BY <1>3 DEF DropRecord, InCall, Creating
      <3>2. UNCHANGED <<wallets, vaults, session, unsaved, lastId, listed, bad, dirs,
                        restarts, torn, created, deleting>>
          BY <1>3 DEF DropRecord
      <3>3. failures' \in 0 .. MaxFailures
          BY <1>3 DEF DropRecord, RecordsTypeOK
      <3> QED BY <3>1, <3>2, <3>3 DEF RecordsTypeOK
    <2>2. /\ user' \in UserCalls
          /\ \/ user'.at = "idle" /\ user'.id = 0 /\ records' = records
             \/ /\ user'.at = "remove" /\ user'.id = user.id
                /\ records' = [records EXCEPT ![user.id] = NoWallet]
        BY <1>3, UserMoves, UserReturns DEF DropRecord, Places, RecordsTypeOK
    <2>3. /\ records' \in [Ids -> WalletObjects \cup {NoWallet}]
          /\ \A i \in Ids \ {user.id} : records'[i] = records[i]
          /\ records'[user.id] \in {records[user.id], NoWallet}
          /\ user'.at = "remove" => records'[user.id] = NoWallet
        BY <2>1, <2>2 DEF RecordsTypeOK
    <2> USE <2>1, <2>2, <2>3
    <2>4. RecordsTypeOK'
        BY DEF RecordsTypeOK
    <2>5. Fresh' /\ Held' /\ Kept'
        BY DEF RecordsTypeOK, Fresh, Held, Kept
    <2>6. InCall'
        BY DEF RecordsTypeOK, InCall, Creating
    <2>7. ObjectSeals' /\ RecordSeals'
        BY DEF RecordsTypeOK, ObjectSeals, RecordSeals
    <2>8. Current' /\ Gone'
        BY DEF RecordsTypeOK, Current, Gone
    <2> QED BY <2>4, <2>5, <2>6, <2>7, <2>8
<1>4. CASE RemoveDataDir
    <2>1. user' \in UserCalls /\ user'.at = "idle" /\ user'.id = 0
        BY <1>4, UserReturns DEF RemoveDataDir
    <2>2. /\ user.at = "remove" /\ user.id \in listed /\ user.id \in Ids
          /\ user.id \in deleting /\ listed' = listed \ {user.id}
          /\ UNCHANGED <<records, wallets, session, unsaved, lastId, bad, restarts, torn,
                         created, deleting>>
          /\ failures' \in 0 .. MaxFailures
      <3>1. user.at = "remove" /\ user.id \in listed /\ user.id \in deleting
          BY <1>4 DEF RemoveDataDir, InCall, Creating
      <3>2. /\ listed' = listed \ {user.id}
            /\ UNCHANGED <<records, wallets, session, unsaved, lastId, bad, restarts, torn,
                           created, deleting>>
          BY <1>4 DEF RemoveDataDir
      <3>3. failures' \in 0 .. MaxFailures
          BY <1>4 DEF RemoveDataDir, RecordsTypeOK
      <3> QED BY <3>1, <3>2, <3>3 DEF RecordsTypeOK
    <2>3. /\ \A i \in Ids \ {user.id} : vaults'[i] = vaults[i]
          /\ vaults' \in [Ids -> Seals \cup {NoVault}]
          /\ \/ dirs' = dirs /\ vaults' = vaults
             \/ dirs' = dirs \ {user.id}
        BY <1>4 DEF RemoveDataDir, RecordsTypeOK
    <2> USE <2>1, <2>2, <2>3
    <2>4. RecordsTypeOK'
        BY DEF RecordsTypeOK
    <2>5. Fresh' /\ Held' /\ Kept'
        BY DEF RecordsTypeOK, Fresh, Held, Kept
    <2>6. InCall'
        BY DEF RecordsTypeOK, InCall, Creating
    <2>7. ObjectSeals' /\ RecordSeals'
        BY DEF RecordsTypeOK, ObjectSeals, RecordSeals
    <2>8. Current' /\ Gone'
        BY DEF RecordsTypeOK, Current, Gone
    <2> QED BY <2>4, <2>5, <2>6, <2>7, <2>8
<1>5. ASSUME NEW id \in Ids, DeleteBadWallet(id)
      PROVE  RecordsInv'
    <2>1. /\ user.at = "idle" /\ user.id = 0 /\ id \in bad /\ wallets[id] = NoWallet
          /\ session[id] = "none" /\ id \notin listed
          /\ bad' = bad \ {id} /\ dirs' = dirs \ {id} /\ deleting' = deleting \cup {id}
          /\ UNCHANGED <<wallets, session, user, failures, unsaved, lastId, listed, restarts,
                         torn, created>>
        BY <1>5 DEF DeleteBadWallet, RecordsTypeOK, InCall, Held
    <2>2. /\ records' \in [Ids -> WalletObjects \cup {NoWallet}] /\ records'[id] = NoWallet
          /\ vaults' \in [Ids -> Seals \cup {NoVault}]
          /\ \A i \in Ids \ {id} : records'[i] = records[i] /\ vaults'[i] = vaults[i]
        BY <1>5 DEF DeleteBadWallet, RecordsTypeOK
    <2> USE <2>1, <2>2
    <2>3. RecordsTypeOK'
        BY DEF RecordsTypeOK
    <2>4. Fresh' /\ Held' /\ Kept'
        BY DEF RecordsTypeOK, Fresh, Held, Kept
    <2>5. InCall'
        BY DEF RecordsTypeOK, InCall, Creating
    <2>6. ObjectSeals' /\ RecordSeals'
        BY DEF RecordsTypeOK, ObjectSeals, RecordSeals
    <2>7. Current' /\ Gone'
        BY DEF RecordsTypeOK, Current, Gone
    <2> QED BY <2>3, <2>4, <2>5, <2>6, <2>7
<1> QED BY <1>1, <1>2, <1>3, <1>4, <1>5

-----------------------------------------------------------------------------
(* The end of the program and its next start                               *)

\* A kill at any point and the next start keep it.
LEMMA RestartKeeps ==
    ASSUME RecordsInv, Restart
    PROVE  RecordsInv'
<1> USE RecordBounds, UtxoWallets, NoWalletIsNone DEF RecordsInv, Ids
<1>1. user' \in UserCalls /\ user'.at = "idle" /\ user'.id = 0
    BY UserReturns DEF Restart, UserIsDone
<1>2. /\ dirs' = {i \in dirs : records[i] # NoWallet} /\ listed' = dirs'
      /\ bad' = {i \in Ids : records[i] # NoWallet /\ i \notin dirs'}
      /\ UNCHANGED <<records, lastId, failures, created, deleting>>
      /\ restarts' \in 0 .. MaxRestarts /\ unsaved' = {}
  <2>1. /\ dirs' = dirs \cap {i \in Ids : records[i] # NoWallet} /\ listed' = dirs'
        /\ bad' = {i \in Ids : records[i] # NoWallet} \ dirs'
        /\ UNCHANGED <<records, lastId, failures, created, deleting>> /\ unsaved' = {}
      BY DEF Restart
  <2>2. restarts' \in 0 .. MaxRestarts
      BY DEF Restart, RecordsTypeOK
  <2>3. dirs \subseteq Ids
      BY DEF RecordsTypeOK
  <2> HIDE DEF Ids
  <2> QED BY <2>1, <2>2, <2>3
<1>3. /\ vaults' \in [Ids -> Seals \cup {NoVault}]
      /\ \A i \in dirs' : vaults'[i] = vaults[i]
    BY <1>2 DEF Restart, RecordsTypeOK
<1>4. /\ wallets' \in [Ids -> WalletObjects \cup {NoWallet}]
      /\ \A i \in Ids : wallets'[i] = IF i \in listed' THEN records[i] ELSE NoWallet
    BY <1>2 DEF Restart, RecordsTypeOK
<1>5. /\ session' \in [Ids -> {"none", "running", "leaving"}]
      /\ \A i \in Ids : session'[i] = "none"
    BY DEF Restart
<1>6. /\ torn' \subseteq Ids /\ torn \cup unsaved \subseteq torn'
      /\ user.at \in {"reseal", "save", "undo"} => user.id \in torn'
  <2>1. user.at \in {"reseal", "save", "undo"} => user.id \in Ids
      BY DEF InCall, Creating, RecordsTypeOK
  <2> QED BY <2>1 DEF Restart, RecordsTypeOK
<1> USE <1>1, <1>2, <1>3, <1>4, <1>5, <1>6
<1>7. RecordsTypeOK'
    BY DEF RecordsTypeOK
<1>8. Fresh' /\ Held' /\ Kept'
    BY DEF RecordsTypeOK, Fresh, Held, Kept
<1>9. InCall'
    BY DEF RecordsTypeOK, InCall, Creating
<1>10. ObjectSeals' /\ RecordSeals'
    BY DEF RecordsTypeOK, ObjectSeals, RecordSeals
<1>11. Current' /\ Gone'
    BY DEF RecordsTypeOK, Current, Gone, Held
<1> QED BY <1>7, <1>8, <1>9, <1>10, <1>11

-----------------------------------------------------------------------------
(* The theorems                                                            *)

\* The inductive invariant holds in every reachable state.
THEOREM RecordsInvHolds == RecordsSpec => []RecordsInv
<1>1. RecordsInit => RecordsInv
    BY InitHolds
<1>2. RecordsInv /\ [RecordsNext]_recordVars => RecordsInv'
  <2> SUFFICES ASSUME RecordsInv, [RecordsNext]_recordVars PROVE RecordsInv'
      OBVIOUS
  <2>1. CASE UserSteps
      BY <2>1, CreationKeeps, ChangesKeep, DeletionKeeps DEF UserSteps
  <2>2. CASE SessionSteps
      BY <2>2, SessionsKeep
  <2>3. CASE Restart
      BY <2>3, RestartKeeps
  <2>4. CASE UNCHANGED recordVars
      BY <2>4 DEF recordVars, RecordsInv, RecordsTypeOK, Fresh, InCall, Held, ObjectSeals,
         RecordSeals, Current, Kept, Gone
  <2> QED BY <2>1, <2>2, <2>3, <2>4 DEF RecordsNext
<1> QED BY <1>1, <1>2, PTL DEF RecordsSpec

\* Wallets, lists, sessions and calls keep their types, and what is listed has an object.
THEOREM RecordsTypeCorrect == RecordsSpec => []RecordsTypeOK
<1>1. RecordsInv => RecordsTypeOK
    BY DEF RecordsInv
<1> QED BY <1>1, RecordsInvHolds, PTL

\* What opens the upstream wallet opens the seed words of the record.
THEOREM SeedsFollow == RecordsSpec => []SeedFollowsPassphrase
<1>1. RecordsInv => SeedFollowsPassphrase
  <2> SUFFICES ASSUME RecordsInv, NEW id \in Ids, id \notin unsaved, id \notin torn,
                      id \in listed, user.id # id
               PROVE  records[id] # NoWallet /\ records[id].seal = vaults[id]
      BY DEF SeedFollowsPassphrase
  <2>1. records[id] = wallets[id] /\ wallets[id] # NoWallet /\ id \in dirs
      BY DEF RecordsInv, Current, RecordsTypeOK, Held
  <2> QED BY <2>1 DEF RecordsInv, RecordSeals
<1> QED BY <1>1, RecordsInvHolds, PTL

\* The object in memory and the record agree.
THEOREM RecordsFollow == RecordsSpec => []RecordsAreCurrent
<1>1. RecordsInv => RecordsAreCurrent
    BY DEF RecordsInv, Current, RecordsAreCurrent
<1> QED BY <1>1, RecordsInvHolds, PTL

\* No wallet is lost that its user did not ask to delete.
THEOREM NoWalletIsLost == RecordsSpec => []WalletsAreKept
<1>1. RecordsInv => WalletsAreKept
    BY DEF RecordsInv, Kept, WalletsAreKept
<1> QED BY <1>1, RecordsInvHolds, PTL

\* A deleted Decred wallet stays deleted.
THEOREM DeletionsLast == RecordsSpec => []DeletedStaysDeleted
<1>1. RecordsInv => DeletedStaysDeleted
    BY DEF RecordsInv, Gone, DeletedStaysDeleted
<1> QED BY <1>1, RecordsInvHolds, PTL

-----------------------------------------------------------------------------
(* The parts together                                                      *)

\* A behaviour of the model that TLC checks is, seen from each part, one of that
\* part, so that what is proved of each holds in it.
LEMMA PartsCompose == MCSafetySpec => Spec /\ IndexSpec /\ RecordsSpec
<1>1. MCSafetyInit => Init /\ IndexInit /\ RecordsInit
    BY DEF MCSafetyInit
<1>2. ASSUME [MCSafetyNext]_<<part, vars, txIndexVars, recordVars>>
      PROVE  [Next]_vars /\ [IndexNext]_txIndexVars /\ [RecordsNext]_recordVars
    BY <1>2 DEF MCSafetyNext
<1> QED BY <1>1, <1>2, PTL DEF MCSafetySpec, Spec, IndexSpec, RecordsSpec

\* Types of the three parts, whichever of them runs.
THEOREM MCSafetyTypeCorrect == MCSafetySpec => []MCSafetyTypeOK
<1>1. TypeOK /\ IndexTypeOK /\ RecordsTypeOK => MCSafetyTypeOK
    BY DEF MCSafetyTypeOK
<1> QED BY <1>1, PartsCompose, TypeCorrect, IndexTypeCorrect, RecordsTypeCorrect, PTL
=============================================================================
