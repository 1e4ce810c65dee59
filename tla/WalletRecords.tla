---------------------------- MODULE WalletRecords ----------------------------
(***************************************************************************)
(* The wallets as wallets.db records them: creating, renaming and deleting *)
(* a wallet, changing its passphrase, and what the next start makes of it. *)
(*                                                                         *)
(* Three things make a wallet and no transaction spans them: its record in *)
(* wallets.db, the Wallet object in memory, and the upstream wallet in its *)
(* data directory.  The passphrase is kept twice: the upstream wallet is   *)
(* locked with it (vault), and it encrypts the seed words in the record    *)
(* (seal).  The user does one thing at a time; the sync of each wallet     *)
(* saves its object at any moment; any write may fail, and the program may *)
(* be killed between any two steps.                                        *)
(*                                                                         *)
(* wallets.db is a Storm database over Bolt, with one writer at a time,    *)
(* unique names and a counter of identifiers: external.                    *)
(***************************************************************************)
EXTENDS Integers, FiniteSets

CONSTANTS
    MaxWallets,     \* bound: identifiers given out
    Utxo,           \* the identifiers of Bitcoin and Litecoin wallets
    Names, Passphrases,
    Zeros,          \* a passphrase that was overwritten with zeros
    NoWallet, NoVault, NoSeal,
    MaxFailures,    \* bound: steps that fail
    MaxRestarts     \* bound: starts after the first

Ids == 1 .. MaxWallets

ASSUME RecordBounds == MaxWallets \in Nat /\ MaxFailures \in Nat /\ MaxRestarts \in Nat
ASSUME UtxoWallets == Utxo \subseteq Ids
ASSUME DistinctSecrets == Zeros \notin Passphrases /\ NoVault \notin Passphrases
                          /\ NoSeal \notin Passphrases
                          /\ NoVault # NoSeal /\ Zeros # NoVault /\ Zeros # NoSeal

\* A wallet that only watches has neither words nor a passphrase.
Seals == Passphrases \cup {NoSeal}
WalletObjects == [name : Names, seal : Seals]

ASSUME NoWalletIsNone == NoWallet \notin WalletObjects

VARIABLES
    records,        \* wallets.db
    lastId,         \* the counter of wallets.db
    wallets,        \* the Wallet objects, which a goroutine may keep
    listed,         \* the wallets of mgr.Assets
    bad,            \* its BadWallets, which could not be loaded
    dirs,           \* the data directories
    vaults,         \* what locks the upstream wallet in a data directory
    session,        \* the sync of a wallet: "leaving" once it is told to end
    user,           \* what the user is doing: [at, id] and what the call holds
    failures, restarts,
    unsaved,        \* history: the last save of the object failed
    torn,           \* history: the program ended with such a wallet, or while it
                    \* changed a passphrase
    created,        \* history: the wallets that were created
    deleting        \* history: the wallets the user asked to delete

recordVars == <<records, lastId, wallets, listed, bad, dirs, vaults, session, user,
                failures, restarts, unsaved, torn, created, deleting>>

Idle == [at |-> "idle", id |-> 0, name |-> NoWallet, old |-> NoSeal, new |-> NoSeal,
         seal |-> NoSeal]

Places == {"idle", "begin", "mkdir", "setup", "commit", "rename", "rekey", "reseal",
           "save", "undo", "shutdown", "drop", "remove"}

UserCalls == [at : Places, id : Ids \cup {0}, name : Names \cup {NoWallet},
              old : Seals \cup {Zeros}, new : Seals \cup {Zeros}, seal : Seals \cup {Zeros}]

RecordsTypeOK ==
    /\ records \in [Ids -> WalletObjects \cup {NoWallet}]
    /\ wallets \in [Ids -> WalletObjects \cup {NoWallet}]
    /\ lastId \in 0 .. MaxWallets
    /\ listed \subseteq {i \in Ids : wallets[i] # NoWallet}
    /\ bad \subseteq Ids /\ dirs \subseteq Ids
    /\ vaults \in [Ids -> Seals \cup {NoVault}]
    /\ session \in [Ids -> {"none", "running", "leaving"}]
    /\ user \in UserCalls
    /\ failures \in 0 .. MaxFailures /\ restarts \in 0 .. MaxRestarts
    /\ unsaved \subseteq Ids /\ torn \subseteq Ids
    /\ created \subseteq Ids /\ deleting \subseteq Ids

RecordsInit ==
    /\ records = [i \in Ids |-> NoWallet] /\ wallets = records
    /\ lastId = 0 /\ listed = {} /\ bad = {} /\ dirs = {}
    /\ vaults = [i \in Ids |-> NoVault]
    /\ session = [i \in Ids |-> "none"]
    /\ user = Idle
    /\ failures = 0 /\ restarts = 0
    /\ unsaved = {} /\ torn = {} /\ created = {} /\ deleting = {}

-----------------------------------------------------------------------------
UserAt(place) == user.at = place
UserGoes(place) == user' = [user EXCEPT !.at = place]
UserIsDone == user' = Idle

Fails == failures < MaxFailures /\ failures' = failures + 1

NameTaken(name) == \E i \in Ids : records[i] # NoWallet /\ records[i].name = name
NameTakenByOther(id, name) ==
    \E i \in Ids \ {id} : records[i] # NoWallet /\ records[i].name = name

\* saveNewWallet holds the only write transaction of wallets.db.
DbLocked == user.at \in {"mkdir", "setup", "commit"}

\* wallet.db.Save writes the whole object and, if the record is gone, creates it.
\* A name that another record has makes it fail.
SavesObject(id) ==
    /\ ~DbLocked /\ ~NameTakenByOther(id, wallets[id].name)
    /\ records' = [records EXCEPT ![id] = wallets[id]]
    /\ unsaved' = unsaved \ {id}
    /\ UNCHANGED failures

SaveFails(id) ==
    /\ ~DbLocked
    /\ IF NameTakenByOther(id, wallets[id].name) THEN UNCHANGED failures ELSE Fails
    /\ unsaved' = unsaved \cup {id}
    /\ UNCHANGED records

OthersUnchanged == UNCHANGED <<lastId, listed, bad, dirs, restarts, torn, created, deleting>>

-----------------------------------------------------------------------------
\* Creating, restoring and importing a wallet (seal NoSeal: one that only watches).

CreateWallet(name, seal) ==
    /\ UserAt("idle") /\ lastId < MaxWallets /\ ~NameTaken(name)
    /\ user' = [Idle EXCEPT !.at = "begin", !.id = lastId + 1, !.name = name, !.seal = seal]
    /\ UNCHANGED <<records, wallets, vaults, session, failures, unsaved>> /\ OthersUnchanged

\* db.Save inside the transaction, which gives the object its identifier.
BeginNewWallet ==
    /\ UserAt("begin")
    /\ IF NameTaken(user.name) THEN UserIsDone ELSE UserGoes("mkdir")
    /\ UNCHANGED <<records, wallets, vaults, session, failures, unsaved>> /\ OthersUnchanged

\* A directory that is there already is moved away with all it holds.
MakeDataDir ==
    /\ UserAt("mkdir")
    /\ vaults' = [vaults EXCEPT ![user.id] = NoVault]
    /\ \/ dirs' = dirs \cup {user.id} /\ UserGoes("setup") /\ UNCHANGED failures
       \/ dirs' = dirs \ {user.id} /\ UserIsDone /\ Fails
    /\ UNCHANGED <<records, wallets, session, unsaved, lastId, listed, bad, restarts, torn,
                   created, deleting>>

\* Wrong: the error of the loader is dropped.
SetupWalletUnchecked ==
    /\ UserAt("setup") /\ UserGoes("commit")
    /\ \/ /\ vaults' = [vaults EXCEPT ![user.id] = user.seal]
          /\ UNCHANGED failures
       \/ UNCHANGED vaults /\ Fails
    /\ UNCHANGED <<records, wallets, session, unsaved>> /\ OthersUnchanged

\* prepare and the loader's CreateNewWallet; a failure may come after the upstream
\* wallet was made, and rolls only the record back.
SetupWallet ==
    /\ UserAt("setup")
    /\ \/ /\ vaults' = [vaults EXCEPT ![user.id] = user.seal]
          /\ UserGoes("commit") /\ UNCHANGED failures
       \/ /\ vaults' \in {vaults, [vaults EXCEPT ![user.id] = user.seal]}
          /\ UserIsDone /\ Fails
    /\ UNCHANGED <<records, wallets, session, unsaved>> /\ OthersUnchanged

\* Wrong: the manager lists the wallet without looking at the error.
CommitNewWalletUnchecked ==
    LET id == user.id
        wallet == [name |-> user.name, seal |-> user.seal]
    IN /\ UserAt("commit") /\ UserIsDone
       /\ listed' = listed \cup {id}
       /\ \/ /\ records' = [records EXCEPT ![id] = wallet]
             /\ wallets' = [wallets EXCEPT ![id] = wallet]
             /\ created' = created \cup {id}
             /\ lastId' = id
             /\ UNCHANGED failures
          \/ Fails /\ UNCHANGED <<records, wallets, created, lastId>>
       /\ UNCHANGED <<vaults, session, unsaved, bad, dirs, restarts, torn, deleting>>

\* The asset around the wallet of Bitcoin and Litecoin may fail to load its chain: the
\* wallet is then on record and unknown to the manager until the next start.
CommitNewWallet ==
    LET id == user.id
        wallet == [name |-> user.name, seal |-> user.seal]
        Committed == records' = [records EXCEPT ![id] = wallet] /\ lastId' = id
    IN /\ UserAt("commit") /\ UserIsDone
       /\ \/ /\ Committed
             /\ wallets' = [wallets EXCEPT ![id] = wallet]
             /\ listed' = listed \cup {id} /\ created' = created \cup {id}
             /\ UNCHANGED failures
          \/ /\ Committed /\ id \in Utxo /\ Fails
             /\ UNCHANGED <<wallets, listed, created>>
          \/ Fails /\ UNCHANGED <<records, lastId, wallets, listed, created>>
       /\ UNCHANGED <<vaults, session, unsaved, bad, dirs, restarts, torn, deleting>>

-----------------------------------------------------------------------------
\* Changing what the record holds.

RenameWallet(id, name) ==
    /\ UserAt("idle") /\ id \in listed /\ ~NameTaken(name)
    /\ wallets' = [wallets EXCEPT ![id].name = name]
    /\ user' = [Idle EXCEPT !.at = "rename", !.id = id]
    /\ UNCHANGED <<records, vaults, session, failures, unsaved>> /\ OthersUnchanged

\* Wrong: the new name is not saved.
SaveNewNameNever ==
    /\ UserAt("rename") /\ UserIsDone
    /\ UNCHANGED <<records, wallets, vaults, session, failures, unsaved>> /\ OthersUnchanged

SaveNewName ==
    /\ UserAt("rename") /\ UserIsDone
    /\ SavesObject(user.id) \/ SaveFails(user.id)
    /\ UNCHANGED <<wallets, vaults, session>> /\ OthersUnchanged

\* The words are decrypted with the old passphrase and encrypted with the new one.
ChangePrivatePassphrase(id, old, new) ==
    /\ UserAt("idle") /\ id \in listed /\ wallets[id].seal = old
    /\ user' = [Idle EXCEPT !.at = "rekey", !.id = id, !.old = old, !.new = new, !.seal = new]
    /\ UNCHANGED <<records, wallets, vaults, session, failures, unsaved>> /\ OthersUnchanged

\* changePrivatePassphrase: on its way out it overwrites both passphrases with zeros.
Rekey ==
    /\ UserAt("rekey")
    /\ \/ /\ vaults[user.id] = user.old
          /\ vaults' = [vaults EXCEPT ![user.id] = user.new]
          /\ user' = [user EXCEPT !.at = "reseal", !.old = Zeros, !.new = Zeros]
          /\ UNCHANGED failures
       \/ /\ UserIsDone /\ UNCHANGED vaults
          /\ IF vaults[user.id] = user.old THEN Fails ELSE UNCHANGED failures
    /\ UNCHANGED <<records, wallets, session, unsaved>> /\ OthersUnchanged

\* Wrong: the words encrypted anew are not put into the object.
ResealTypeOnly ==
    /\ UserAt("reseal") /\ UserGoes("save")
    /\ UNCHANGED <<wallets, records, vaults, session, failures, unsaved>> /\ OthersUnchanged

Reseal ==
    /\ UserAt("reseal")
    /\ wallets' = [wallets EXCEPT ![user.id].seal = user.seal]
    /\ UserGoes("save")
    /\ UNCHANGED <<records, vaults, session, failures, unsaved>> /\ OthersUnchanged

SaveNewSeal ==
    /\ UserAt("save")
    /\ \/ SavesObject(user.id) /\ UserIsDone
       \/ SaveFails(user.id) /\ UserGoes("undo")
    /\ UNCHANGED <<wallets, vaults, session>> /\ OthersUnchanged

\* The second changePrivatePassphrase, with what the first one left of the passphrases.
UndoRekey ==
    /\ UserAt("undo") /\ UserIsDone
    /\ vaults' = IF vaults[user.id] = user.new
                 THEN [vaults EXCEPT ![user.id] = user.old] ELSE vaults
    /\ UNCHANGED <<records, wallets, session, failures, unsaved>> /\ OthersUnchanged

\* VerifySeedForWallet saves that the wallet is backed up.
VerifySeed(id) ==
    /\ UserAt("idle") /\ id \in listed /\ wallets[id].seal # NoSeal
    /\ SavesObject(id) \/ SaveFails(id)
    /\ UNCHANGED <<wallets, vaults, session, user>> /\ OthersUnchanged

-----------------------------------------------------------------------------
\* The sync of a wallet, cut down to what it does to the record.

StartSession(id) ==
    /\ id \in listed /\ session[id] = "none"
    /\ ~(user.id = id /\ user.at \in {"drop", "remove"})
    /\ session' = [session EXCEPT ![id] = "running"]
    /\ UNCHANGED <<records, wallets, vaults, user, failures, unsaved>> /\ OthersUnchanged

\* MarkWalletAsDiscoveredAccounts and SetBirthday.
SessionSaves(id) ==
    /\ session[id] # "none"
    /\ SavesObject(id) \/ SaveFails(id)
    /\ UNCHANGED <<wallets, vaults, session, user>> /\ OthersUnchanged

EndSession(id) ==
    /\ session[id] # "none"
    /\ session' = [session EXCEPT ![id] = "none"]
    /\ UNCHANGED <<records, wallets, vaults, user, failures, unsaved>> /\ OthersUnchanged

-----------------------------------------------------------------------------
\* Deleting a wallet.

DeleteWallet(id, passphrase) ==
    /\ UserAt("idle") /\ id \in listed /\ vaults[id] \in {passphrase, NoSeal}
    /\ user' = [Idle EXCEPT !.at = "shutdown", !.id = id]
    /\ deleting' = deleting \cup {id}
    /\ UNCHANGED <<records, wallets, vaults, session, failures, unsaved, lastId, listed,
                   bad, dirs, restarts, torn, created>>

\* Wrong: no session is waited for.
ShutdownWalletNoWait ==
    /\ UserAt("shutdown") /\ UserGoes("drop")
    /\ session' = [session EXCEPT ![user.id] = IF @ # "none" THEN "leaving" ELSE "none"]
    /\ UNCHANGED <<records, wallets, vaults, failures, unsaved>> /\ OthersUnchanged

\* networkCancel waits for the goroutine of a Decred session; the one that waits for a
\* Bitcoin or Litecoin wallet to be synced is told to end and not waited for.
ShutdownWallet ==
    /\ UserAt("shutdown") /\ UserGoes("drop")
    /\ session' = [session EXCEPT ![user.id] =
                      IF @ # "none" /\ user.id \in Utxo THEN "leaving" ELSE "none"]
    /\ UNCHANGED <<records, wallets, vaults, failures, unsaved>> /\ OthersUnchanged

DropRecord ==
    /\ UserAt("drop") /\ ~DbLocked
    /\ \/ /\ records' = [records EXCEPT ![user.id] = NoWallet]
          /\ UserGoes("remove") /\ UNCHANGED failures
       \/ UserIsDone /\ Fails /\ UNCHANGED records
    /\ UNCHANGED <<wallets, vaults, session, unsaved>> /\ OthersUnchanged

\* A directory that cannot be removed now is left for the next start.
RemoveDataDir ==
    /\ UserAt("remove") /\ UserIsDone
    /\ listed' = listed \ {user.id}
    /\ \/ /\ dirs' = dirs \ {user.id} /\ vaults' = [vaults EXCEPT ![user.id] = NoVault]
          /\ UNCHANGED failures
       \/ Fails /\ UNCHANGED <<dirs, vaults>>
    /\ UNCHANGED <<records, wallets, session, unsaved, lastId, bad, restarts, torn, created,
                   deleting>>

DeleteBadWallet(id) ==
    /\ UserAt("idle") /\ id \in bad
    /\ bad' = bad \ {id}
    /\ records' = [records EXCEPT ![id] = NoWallet]
    /\ dirs' = dirs \ {id} /\ vaults' = [vaults EXCEPT ![id] = NoVault]
    /\ deleting' = deleting \cup {id}
    /\ UNCHANGED <<wallets, session, user, failures, unsaved, lastId, listed, restarts,
                   torn, created>>

-----------------------------------------------------------------------------
\* The program ends, at any point, and starts again: cleanDeletedWallets removes the
\* directories that no record names, prepareExistingWallets loads the records; one
\* without its directory is a bad wallet.
Restart ==
    LET recorded == {i \in Ids : records[i] # NoWallet}
    IN /\ restarts < MaxRestarts /\ restarts' = restarts + 1
       /\ dirs' = dirs \cap recorded
       /\ vaults' = [i \in Ids |-> IF i \in dirs' THEN vaults[i] ELSE NoVault]
       /\ listed' = dirs' /\ bad' = recorded \ dirs'
       /\ wallets' = [i \in Ids |-> IF i \in listed' THEN records[i] ELSE NoWallet]
       /\ session' = [i \in Ids |-> "none"]
       /\ user' = Idle
       /\ torn' = torn \cup unsaved
                  \cup (IF user.at \in {"reseal", "save", "undo"} THEN {user.id} ELSE {})
       /\ unsaved' = {}
       /\ UNCHANGED <<records, lastId, failures, created, deleting>>

UserSteps ==
    \/ \E name \in Names, seal \in Seals : CreateWallet(name, seal)
    \/ BeginNewWallet \/ MakeDataDir \/ SetupWallet \/ CommitNewWallet
    \/ \E id \in Ids, name \in Names : RenameWallet(id, name)
    \/ SaveNewName
    \/ \E id \in Ids, old, new \in Passphrases : ChangePrivatePassphrase(id, old, new)
    \/ Rekey \/ Reseal \/ SaveNewSeal \/ UndoRekey
    \/ \E id \in Ids : VerifySeed(id)
    \/ \E id \in Ids, passphrase \in Passphrases : DeleteWallet(id, passphrase)
    \/ ShutdownWallet \/ DropRecord \/ RemoveDataDir
    \/ \E id \in Ids : DeleteBadWallet(id)

SessionSteps == \E id \in Ids : StartSession(id) \/ SessionSaves(id) \/ EndSession(id)

RecordsNext == UserSteps \/ SessionSteps \/ Restart

RecordsSpec == RecordsInit /\ [][RecordsNext]_recordVars

-----------------------------------------------------------------------------
\* The passphrase is kept twice, and no transaction spans the two: what opens the
\* upstream wallet also opens the seed words of the record, unless the save of a change
\* failed or the program ended in the middle of one.
SeedFollowsPassphrase ==
    \A id \in Ids \ (unsaved \cup torn) :
        id \in listed /\ user.id # id => records[id] # NoWallet /\ records[id].seal = vaults[id]

\* The object in memory and the record agree whenever nothing is under way: neither a
\* save of the sync with an old name or seal nor a failed creation can part them.
RecordsAreCurrent ==
    \A id \in listed \ unsaved : user.id # id => records[id] = wallets[id]

\* A wallet the user has made and not asked to delete has its record and its upstream
\* wallet, wherever the program was killed and whatever the next start cleaned up.
WalletsAreKept ==
    \A id \in created \ deleting : records[id] # NoWallet /\ vaults[id] # NoVault

\* A wallet that was deleted does not come back, if its sync was waited for.
DeletedStaysDeleted ==
    \A id \in deleting \ Utxo : id \notin listed => records[id] = NoWallet

\* The same of every wallet, as the comment of networkCancel has it ("safely shutdown
\* sync if in progress before a task that would be affected by syncing is run").
EveryDeletionLasts ==
    \A id \in deleting : id \notin listed => records[id] = NoWallet

\* The seed words of a wallet are encrypted with its passphrase, as the comment of
\* ChangePrivatePassphraseForWallet has it ("re-encrypts the seed with the new
\* passphrase"), also when the record could not be saved and the change is undone.
SeedIsReencrypted ==
    \A id \in listed \ torn : user.id # id => records[id].seal = vaults[id]
=============================================================================
