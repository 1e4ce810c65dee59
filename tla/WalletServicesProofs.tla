------------------------ MODULE WalletServicesProofs --------------------------
(***************************************************************************)
(* Proofs about the services of a wallet. Politeia: as long as no two      *)
(* syncs have passed the check and Shutdown has not begun to stop one, the *)
(* field and the one sync that is under way are of each other; and a sync  *)
(* that completes has left no proposal older than it found the server,     *)
(* unless what the property names excuses it. TicketBuyer: a buyer that    *)
(* runs can be stopped, every ticket can only be mined in the interval     *)
(* whose price it pays, and no purchase goes on at an old price.           *)
(* AccountMixer: types, and that a mixer can be stopped. All hold for any  *)
(* number of the processes and any value of the other constants.           *)
(***************************************************************************)
EXTENDS MCWallet, FiniteSetTheorems, TLAPS

-----------------------------------------------------------------------------
(* Politeia                                                                *)

ProposalShape ==
    /\ DOMAIN worker = ProposalSyncs
    /\ \A s \in ProposalSyncs : "pc" \in DOMAIN worker[s]

ProposalInv == ProposalShape /\ OneProposalSync

\* A sync goes to where label says, and the others stay.
ProposalMoves(s, label) ==
    /\ ProposalShape' /\ worker'[s].pc = label
    /\ \A r \in ProposalSyncs \ {s} : worker'[r] = worker[r]

\* Where a sync is under way.
ProposalLabels == {"top", "policy", "updates", "page", "ask", "update", "inventory", "fetch", "save",
           "ending"}
Onward(s) == worker[s].pc \in ProposalLabels /\ ProposalShape' /\ worker'[s].pc \in ProposalLabels
             /\ \A r \in ProposalSyncs \ {s} : worker'[r] = worker[r]

\* The three ways a sync moves.
LEMMA GoingMoves ==
    ASSUME ProposalShape, NEW s \in ProposalSyncs, NEW label, WorkerGoes(s, label)
    PROVE  ProposalMoves(s, label)
BY DEF ProposalShape, WorkerGoes, ProposalMoves

\* A sync that starts a stage moves there.
LEMMA StartingMoves ==
    ASSUME ProposalShape, NEW s \in ProposalSyncs, NEW label, WorkerStarts(s, label)
    PROVE  ProposalMoves(s, label)
<1>1. NotSyncing(label).pc = label /\ "pc" \in DOMAIN NotSyncing(label)
  BY DEF NotSyncing
<1>2. QED
  BY <1>1 DEF ProposalShape, WorkerStarts, ProposalMoves

\* A sync that takes another record moves to the state of that record.
LEMMA RecordMoves ==
    ASSUME ProposalShape, NEW s \in ProposalSyncs, NEW w, "pc" \in DOMAIN w,
           worker' = [worker EXCEPT ![s] = w]
    PROVE  ProposalMoves(s, w.pc)
BY DEF ProposalShape, ProposalMoves

\* While a sync is under way its steps keep it so, but for the last.
LEMMA StepGoesOnward ==
    ASSUME ProposalShape, NEW s \in ProposalSyncs,
           WorkerStep(s), ~PublishProposalSync(s), ~EndProposalSync(s)
    PROVE  Onward(s)
<1> USE DEF WorkerAt, ProposalLabels, Onward
<1>0. ASSUME NEW label \in ProposalLabels, ProposalMoves(s, label), worker[s].pc \in ProposalLabels PROVE Onward(s)
  BY <1>0 DEF ProposalMoves
<1>a. TryAgain(s) => ProposalMoves(s, "top")
  BY StartingMoves DEF TryAgain
<1>1. CASE ExitProposalSync(s)
  BY <1>0, <1>1, StartingMoves DEF ExitProposalSync
<1>2. CASE GetClient(s)
  BY <1>0, <1>a, <1>2, GoingMoves DEF GetClient
<1>3. CASE ServerPolicy(s)
  BY <1>0, <1>a, <1>3, GoingMoves DEF ServerPolicy
<1>4. CASE RefuseWithoutPolicy(s)
  BY <1>0, <1>a, <1>4 DEF RefuseWithoutPolicy
<1>5. CASE CheckForUpdates(s)
  BY <1>0, <1>5, GoingMoves DEF CheckForUpdates
<1>6. CASE NextProposalPage(s)
  BY <1>0, <1>a, <1>6, StartingMoves DEF NextProposalPage, ProposalShape
<1>7. CASE AskKnownProposals(s)
  BY <1>0, <1>a, <1>7 DEF AskKnownProposals, ProposalShape
<1>8. CASE UpdateProposalDetails(s)
  BY <1>0, <1>a, <1>8 DEF UpdateProposalDetails, ProposalShape
<1>9. CASE HandleNewProposals(s)
  BY <1>0, <1>a, <1>9 DEF HandleNewProposals, ProposalShape, NotSyncing
<1>10. CASE FetchBatchProposals(s)
  BY <1>0, <1>a, <1>10 DEF FetchBatchProposals, ProposalShape
<1>11. CASE SaveFetchedProposal(s)
  BY <1>0, <1>a, <1>11 DEF SaveFetchedProposal, ProposalShape
<1>12. CASE CompleteProposalSync(s)
  BY <1>0, <1>12, StartingMoves DEF CompleteProposalSync
<1>13. QED
  BY <1>1, <1>2, <1>3, <1>4, <1>5, <1>6, <1>7, <1>8, <1>9, <1>10, <1>11, <1>12 DEF WorkerStep
-----------------------------------------------------------------------------
(* The field of the cancel function                                        *)

\* The invariant holds at first.
LEMMA InitHasProposalInv == PoliteiaInit => ProposalInv
<1> SUFFICES ASSUME PoliteiaInit PROVE ProposalInv
  OBVIOUS
<1>1. \A s \in ProposalSyncs : worker[s] = NotSyncing("unborn")
  BY DEF PoliteiaInit
<1>2. ProposalShape
  BY <1>1 DEF PoliteiaInit, ProposalShape, NotSyncing
<1>3. OneProposalSync
  BY <1>1 DEF PoliteiaInit, OneProposalSync, WorkerActive, NotSyncing, NoProposalSync,
              ProposalSyncs
<1>4. QED
  BY <1>2, <1>3 DEF ProposalInv

\* A sync that is under way stays so.
LEMMA OnwardKeepsProposalInv ==
    ASSUME ProposalInv, NEW s \in ProposalSyncs, Onward(s),
           UNCHANGED <<cancelProposals, raced, stopper>>
    PROVE  ProposalInv'
<1>1. \A r \in ProposalSyncs :
        (worker'[r].pc \notin {"unborn", "publish", "done"}) <=> WorkerActive(r)
  BY DEF Onward, ProposalLabels, WorkerActive
<1>2. QED
  BY <1>1 DEF ProposalInv, Onward, OneProposalSync, WorkerActive

\* Steps of a sync.
LEMMA StepKeepsProposalInv ==
    ASSUME ProposalInv, NEW s \in ProposalSyncs, WorkerStep(s) \/ CheckNoProposalSync(s)
    PROVE  ProposalInv'
<1>1. CASE PublishProposalSync(s)
  <2>1. ProposalMoves(s, "top") /\ worker[s].pc = "publish"
    BY <1>1, StartingMoves DEF ProposalInv, PublishProposalSync, WorkerAt
  <2>2. /\ cancelProposals' = s /\ UNCHANGED stopper
        /\ raced' = (raced \/ \E r \in ProposalSyncs : WorkerActive(r))
    BY <1>1 DEF PublishProposalSync, stopping
  <2>3. ~raced' => \A r \in ProposalSyncs : ~WorkerActive(r)
    BY <2>2
  <2>4. OneProposalSync'
    BY <2>1, <2>2, <2>3 DEF ProposalMoves, OneProposalSync, WorkerActive
  <2>5. QED
    BY <2>1, <2>4 DEF ProposalInv, ProposalMoves
<1>2. CASE EndProposalSync(s)
  <2>1. ProposalMoves(s, "done") /\ worker[s].pc = "ending"
    BY <1>2, GoingMoves DEF ProposalInv, EndProposalSync, WorkerAt
  <2>2. cancelProposals' = NoProposalSync /\ UNCHANGED <<stopper, raced>>
    BY <1>2 DEF EndProposalSync, stopping
  <2>3. ~raced /\ stopper = "idle" => \A r \in ProposalSyncs \ {s} : ~WorkerActive(r)
    BY <2>1 DEF ProposalInv, OneProposalSync, WorkerActive
  <2>4. OneProposalSync'
    BY <2>1, <2>2, <2>3 DEF ProposalMoves, OneProposalSync, WorkerActive, NoProposalSync,
       ProposalSyncs
  <2>5. QED
    BY <2>1, <2>4 DEF ProposalInv, ProposalMoves
<1>3. CASE CheckNoProposalSync(s)
  <2>1. /\ worker[s].pc = "unborn" /\ (ProposalMoves(s, "publish") \/ ProposalMoves(s, "done"))
        /\ UNCHANGED <<cancelProposals, raced, stopper>>
    <3>1. WorkerGoes(s, "publish") \/ WorkerGoes(s, "done")
      BY <1>3 DEF CheckNoProposalSync
    <3>2. worker[s].pc = "unborn" /\ UNCHANGED <<cancelProposals, raced, stopper>>
      BY <1>3 DEF CheckNoProposalSync, OnlyWorker, politeiaFields, stopping, WorkerAt
    <3>3. QED
      BY <3>1, <3>2, GoingMoves DEF ProposalInv
  <2>2. QED
    BY <2>1 DEF ProposalInv, ProposalMoves, OneProposalSync, WorkerActive
<1>4. CASE WorkerStep(s) /\ ~PublishProposalSync(s) /\ ~EndProposalSync(s)
  <2>1. UNCHANGED <<cancelProposals, raced, stopper>>
    <3>1. OnlyWorker \/ GetClient(s) \/ ServerPolicy(s) \/ UpdateProposalDetails(s)
          \/ SaveFetchedProposal(s)
      BY <1>4 DEF WorkerStep, ExitProposalSync, RefuseWithoutPolicy, CheckForUpdates,
                  NextProposalPage, AskKnownProposals, HandleNewProposals,
                  FetchBatchProposals, CompleteProposalSync
    <3>2. CASE OnlyWorker
      BY <3>2 DEF OnlyWorker, politeiaFields, stopping
    <3>3. CASE GetClient(s) \/ ServerPolicy(s)
      BY <3>3 DEF GetClient, ServerPolicy, politeiaFields, stopping
    <3>4. CASE UpdateProposalDetails(s)
      BY <3>4 DEF UpdateProposalDetails, politeiaFields, stopping
    <3>5. CASE SaveFetchedProposal(s)
      BY <3>5 DEF SaveFetchedProposal, politeiaFields, stopping
    <3>6. QED
      BY <3>1, <3>2, <3>3, <3>4, <3>5
  <2>2. QED
    BY <1>4, <2>1, StepGoesOnward, OnwardKeepsProposalInv DEF ProposalInv
<1>5. QED
  BY <1>1, <1>2, <1>3, <1>4

\* Every step keeps the invariant.
LEMMA NextKeepsProposalInv == ProposalInv /\ [PoliteiaNext]_politeiaVars => ProposalInv'
<1> SUFFICES ASSUME ProposalInv, [PoliteiaNext]_politeiaVars PROVE ProposalInv'
  OBVIOUS
<1>1. ASSUME NEW s \in ProposalSyncs, WorkerStep(s) \/ CheckNoProposalSync(s) PROVE ProposalInv'
  BY <1>1, StepKeepsProposalInv
<1>2. CASE StopProposalSync
  <2>1. UNCHANGED worker /\ stopper' # "idle"
    BY <1>2 DEF StopProposalSync, CheckBeforeStopSync, CallCancelSync, ClearCancelSync
  <2>2. QED
    BY <2>1 DEF ProposalInv, ProposalShape, OneProposalSync
<1>3. CASE \/ ViewerStep \/ ServerComesUp \/ OpenProposal \/ ProposalMovesOn
           \/ ServerGoesDown \/ UNCHANGED politeiaVars
  <2>1. UNCHANGED <<worker, cancelProposals, raced, stopper>>
    BY <1>3 DEF ViewerStep, AssignBackground, ReadProposal, GetViewersClient,
                ViewersServerPolicy, SaveDescription, OnlyViewer, ServerComesUp, OpenProposal,
                ProposalMovesOn, ServerGoesDown, politeiaVars, politeiaFields, stopping
  <2>2. QED
    BY <2>1 DEF ProposalInv, ProposalShape, OneProposalSync, WorkerActive
<1>4. QED
  BY <1>1, <1>2, <1>3 DEF PoliteiaNext

\* As long as no two syncs have passed the check, and until StopSync begins, IsSyncing
\* tells of the one that is under way.
THEOREM SyncIsInTheField == PoliteiaSpec => []OneProposalSync
<1>1. ProposalInv => OneProposalSync
  BY DEF ProposalInv
<1>2. QED
  BY <1>1, InitHasProposalInv, NextKeepsProposalInv, PTL DEF PoliteiaSpec

-----------------------------------------------------------------------------
(* The walk of a sync over the proposals                                   *)

WorkerLabels == {"unborn", "publish", "done"} \cup ProposalLabels
CopyPages   == UNION {[S -> Records] : S \in SUBSET Tokens}
StatusPages == UNION {[S -> ProposalStatuses] : S \in SUBSET Tokens}
Workers ==
    [pc : WorkerLabels, offset : 0 .. MaxProposals, page : CopyPages, fresh : StatusPages,
     fetch : SUBSET Tokens]

ViewerLabels == {"none", "assign", "read", "client", "policy", "asked"}

\* Where the page has the copy of a record.
WithACopy == {"client", "policy", "asked"}

\* The variables of the walk are typed.
ProposalsTyped ==
    /\ worker \in [ProposalSyncs -> Workers]
    /\ record \in [Tokens -> Records] /\ inventory \in [Tokens -> ProposalStatuses]
    /\ begunAt \in [ProposalSyncs -> [Tokens -> ProposalStatuses]]
    /\ viewer \in [pc : ViewerLabels, token : Tokens \cup {1}, copy : Records]
    /\ viewer.pc \in WithACopy => viewer.token \in Tokens

\* Whatever was read of proposal t, status, came from the server.
Was(t, status) ==
    status # "none" /\ inventory[t] # "none" /\ (status = "abandoned" => inventory[t] = "abandoned")

\* The server goes on from what it was when a sync began, and from what was read of it.
ServerAhead ==
    /\ \A s \in ProposalSyncs, t \in Tokens : Rank[begunAt[s][t]] <= Rank[inventory[t]]
    /\ \A t \in Tokens : record[t] = NoRecord \/ Was(t, record[t].status)
    /\ viewer.pc \in WithACopy => /\ Was(viewer.token, viewer.copy.status)
                                   /\ record[viewer.token].status # "none"

\* The copies a sync works on: those of the records, and the server's answers, which are
\* not older than the sync.
CopiesAhead(s) ==
    /\ worker[s].pc \in {"ask", "update"} =>
          \A t \in DOMAIN worker[s].page :
              Was(t, worker[s].page[t].status) /\ worker[s].page[t].status # "abandoned"
    /\ worker[s].pc = "update" => DOMAIN worker[s].page \subseteq DOMAIN worker[s].fresh
    /\ worker[s].pc \in {"update", "save"} =>
          \A t \in DOMAIN worker[s].fresh :
              /\ Was(t, worker[s].fresh[t])
              /\ Rank[worker[s].fresh[t]] >= Rank[begunAt[s][t]]
    /\ worker[s].pc \in {"fetch", "save"} => \A t \in worker[s].fetch : inventory[t] # "none"
    /\ worker[s].pc = "save" => DOMAIN worker[s].fresh \subseteq worker[s].fetch
    /\ worker[s].pc \in {"top", "policy", "updates"} => worker[s].offset = 0

\* Until two syncs raced, one is under way at most.
AloneActive ==
    ~raced => \A r, s \in ProposalSyncs : WorkerActive(r) /\ WorkerActive(s) => r = s

\* Nothing excuses a sync as a whole.
Calm == ~raced /\ ~shifted

\* Not older than the server was when sync s began, or excused.
UpToDate(s, t) == t \in outdated \/ Rank[record[t].status] >= Rank[begunAt[s][t]]

NewerListed(t) == {u \in Listed : u > t}
Place(t) == Cardinality(NewerListed(t))

\* An abandoned proposal stays abandoned under the eyes of the details page.
ViewIsTrue ==
    viewer.pc \in WithACopy /\ viewer.copy.status = "abandoned"
        => record[viewer.token].status = "abandoned"

\* What the walk of sync s has passed is up to date; what is on its page is listed, and
\* as the page says; what is to be fetched is not there yet.
WalkedProposals(s) ==
    /\ worker[s].pc \in {"page", "ask", "update"} =>
          \A t \in Listed : Place(t) < worker[s].offset =>
              \/ UpToDate(s, t)
              \/ worker[s].pc # "page" /\ t \in DOMAIN worker[s].page
    /\ worker[s].pc \in {"ask", "update"} =>
          \A t \in DOMAIN worker[s].page :
              /\ t \in Listed
              /\ record[t].status = worker[s].page[t].status \/ t \in outdated
    /\ worker[s].pc = "inventory" => \A t \in Tokens : record[t] = NoRecord \/ UpToDate(s, t)
    /\ worker[s].pc \in {"fetch", "save"} =>
          /\ \A t \in Tokens : t \in worker[s].fetch \/ UpToDate(s, t)
          /\ \A t \in worker[s].fetch : record[t] = NoRecord

ProposalWalkInv ==
    /\ ServerAhead /\ AloneActive /\ \A s \in ProposalSyncs : CopiesAhead(s)
    /\ Calm => ViewIsTrue /\ \A s \in ProposalSyncs : WalkedProposals(s)

ProposalFreshInv == ProposalsTyped /\ ProposalWalkInv

-----------------------------------------------------------------------------
(* Pages of proposals                                                      *)

\* A set of numbers has a least one.
LEMMA FirstIsThere ==
    ASSUME NEW S, S \subseteq Nat, S # {}
    PROVE  \E k \in S : \A l \in S : k <= l
<1> DEFINE less == {pair \in Nat \X Nat : pair[1] < pair[2]}
<1>1. less = OpToRel(<, Nat)
  BY Zenon DEF OpToRel
<1>2. IsWellFoundedOn(less, Nat)
  BY <1>1, NatLessThanWellFounded, Zenon
<1>3. \A k, l \in Nat : <<l, k>> \notin less => k <= l
  OBVIOUS
<1> HIDE DEF less
<1>4. \E k \in S : \A l \in S : <<l, k>> \notin less
  BY <1>2, WFMin
<1>5. QED
  BY <1>3, <1>4

\* A set of proposals has a newest one.
LEMMA LastIsThere ==
    ASSUME NEW S, S \subseteq Tokens, S # {}
    PROVE  \E t \in S : \A u \in S : u <= t
<1> DEFINE older == {k \in Nat : \E t \in S : k = MaxProposals - t}
<1>1. MaxProposals \in Nat /\ \A t \in S : t \in Nat /\ MaxProposals - t \in older
  BY PoliteiaBounds DEF Tokens
<1>2. older # {} /\ older \subseteq Nat
  BY <1>1
<1>3. PICK k \in older : \A l \in older : k <= l
  <2> HIDE DEF older
  <2>1. QED
    BY <1>2, FirstIsThere
<1>4. PICK t \in S : k = MaxProposals - t
  OBVIOUS
<1>5. \A u \in S : u <= t
  <2> HIDE DEF older
  <2>1. QED
    BY <1>1, <1>3, <1>4
<1>6. QED
  BY <1>5

\* The places of the listed proposals are numbers, and fall from the older to the newer.
LEMMA PlacesFall ==
    /\ Listed \subseteq Tokens /\ Tokens \subseteq Nat /\ IsFiniteSet(Listed)
    /\ \A t \in Tokens : IsFiniteSet(NewerListed(t)) /\ Place(t) \in Nat
    /\ \A t \in Tokens, u \in Listed : t < u => Place(u) < Place(t)
<1>1. Tokens \subseteq Nat /\ IsFiniteSet(Tokens)
  BY PoliteiaBounds, FS_Interval DEF Tokens
<1>2. Listed \subseteq Tokens /\ IsFiniteSet(Listed)
  BY <1>1, FS_Subset DEF Listed
<1>3. ASSUME NEW t \in Tokens PROVE IsFiniteSet(NewerListed(t)) /\ Place(t) \in Nat
  <2>1. NewerListed(t) \in SUBSET Listed
    BY DEF NewerListed
  <2>2. IsFiniteSet(NewerListed(t))
    BY <1>2, <2>1, FS_Subset
  <2>3. QED
    BY <2>2, FS_CardinalityType DEF Place
<1>4. ASSUME NEW t \in Tokens, NEW u \in Listed, t < u PROVE Place(u) < Place(t)
  <2>0. t \in Nat /\ u \in Nat /\ u \in Tokens /\ \A v \in Listed : v \in Nat
    BY <1>1, <1>2
  <2>1. NewerListed(u) \in SUBSET NewerListed(t) /\ u \in NewerListed(t) /\ u \notin NewerListed(u)
    <3>1. \A v \in Listed : v > u => v > t
      BY <1>4, <2>0
    <3>2. u > t /\ ~(u > u)
      BY <1>4, <2>0
    <3>3. QED
      BY <3>1, <3>2 DEF NewerListed
  <2>2. Cardinality(NewerListed(u)) <= Cardinality(NewerListed(t))
        /\ (Cardinality(NewerListed(u)) = Cardinality(NewerListed(t))
               => NewerListed(u) = NewerListed(t))
    BY <1>3, <2>1, FS_Subset
  <2>3. Place(u) \in Nat /\ Place(t) \in Nat
    BY <1>3, <2>0
  <2>4. QED
    BY <2>1, <2>2, <2>3 DEF Place
<1>5. QED
  BY <1>1, <1>2, <1>3, <1>4

\* The page from an offset holds the proposals whose places the limit allows.
LEMMA PageByPlace ==
    ASSUME NEW offset
    PROVE  PageFrom(offset) =
               {t \in Listed : Place(t) >= offset /\ (Limit = 0 \/ Place(t) < offset + Limit)}
BY DEF PageFrom, Place, NewerListed

\* A page is not longer than its limit, and the walk stays among the proposals.
LEMMA ProposalPageIsLimited ==
    ASSUME NEW offset \in 0 .. MaxProposals
    PROVE  /\ PageFrom(offset) \in SUBSET Tokens
           /\ Cardinality(PageFrom(offset)) \in Nat
           /\ Limit # 0 => Cardinality(PageFrom(offset)) <= Limit
           /\ offset + Cardinality(PageFrom(offset)) \in 0 .. MaxProposals
<1> DEFINE page == PageFrom(offset)
           place == [t \in page |-> Place(t)]
<1>0. MaxProposals \in Nat /\ Limit \in Nat /\ offset \in Nat /\ offset <= MaxProposals
  BY PoliteiaBounds DEF Limit
<1>1. /\ page \subseteq Listed /\ page \subseteq Tokens
      /\ \A t \in page : Place(t) \in Nat /\ Place(t) >= offset
                         /\ (Limit = 0 \/ Place(t) < offset + Limit)
  BY PlacesFall, PageByPlace
<1>2. \A t \in page : Place(t) < MaxProposals
  <2> SUFFICES ASSUME NEW t \in page PROVE Place(t) < MaxProposals
    OBVIOUS
  <2>1. NewerListed(t) \in SUBSET (t + 1 .. MaxProposals) /\ t \in 1 .. MaxProposals
    <3>1. t \in 1 .. MaxProposals
      BY <1>1 DEF Tokens
    <3>2. \A u \in NewerListed(t) : u \in 1 .. MaxProposals /\ u > t
      BY DEF NewerListed, Listed, Tokens
    <3>3. QED
      BY <1>0, <3>1, <3>2
  <2>2. IsFiniteSet(t + 1 .. MaxProposals)
        /\ Cardinality(t + 1 .. MaxProposals) <= MaxProposals - t
    <3>1. t + 1 \in Int /\ MaxProposals \in Int
      BY <1>0, <2>1
    <3>2. IsFiniteSet(t + 1 .. MaxProposals)
          /\ Cardinality(t + 1 .. MaxProposals)
                = IF t + 1 > MaxProposals THEN 0 ELSE MaxProposals - (t + 1) + 1
      BY <3>1, FS_Interval
    <3>3. QED
      BY <1>0, <2>1, <3>2
  <2>3. Cardinality(NewerListed(t)) <= Cardinality(t + 1 .. MaxProposals)
    BY <2>1, <2>2, FS_Subset
  <2>4. Cardinality(t + 1 .. MaxProposals) \in Nat /\ Place(t) \in Nat
    BY <1>1, <2>2, FS_CardinalityType
  <2>5. QED
    BY <1>0, <2>1, <2>2, <2>3, <2>4 DEF Place
<1>3. \A t, u \in page : Place(t) = Place(u) => t = u
  <2>1. \A t, u \in page : t \in Nat /\ u \in Nat /\ (t < u => Place(u) < Place(t))
    BY <1>0, <1>1, PlacesFall
  <2>2. QED
    BY <1>1, <2>1
<1>4. ASSUME NEW T, IsFiniteSet(T), \A t \in page : Place(t) \in T
      PROVE  IsFiniteSet(page) /\ Cardinality(page) <= Cardinality(T)
  <2>1. place \in [page -> T] /\ \A t, u \in page : place[t] = place[u] => t = u
    BY <1>3, <1>4
  <2> HIDE DEF place, page
  <2>2. place \in Injection(page, T)
    BY <2>1 DEF Injection, IsInjective
  <2>3. QED
    BY <1>4, <2>2, FS_Injection
<1> HIDE DEF place, page
<1>5. ASSUME Limit # 0 PROVE Cardinality(page) <= Limit
  <2>1. offset \in Int /\ offset + Limit - 1 \in Int
    BY <1>0
  <2>2. IsFiniteSet(offset .. offset + Limit - 1)
        /\ Cardinality(offset .. offset + Limit - 1)
              = IF offset > offset + Limit - 1 THEN 0 ELSE (offset + Limit - 1) - offset + 1
    BY <2>1, FS_Interval
  <2>3. Cardinality(offset .. offset + Limit - 1) = Limit
    BY <1>0, <1>5, <2>2
  <2>4. \A t \in page : Place(t) \in offset .. offset + Limit - 1
    BY <1>0, <1>1, <1>5
  <2>5. QED
    BY <1>4, <2>2, <2>3, <2>4
<1>6. IsFiniteSet(page) /\ Cardinality(page) <= MaxProposals - offset
  <2>1. offset \in Int /\ MaxProposals - 1 \in Int
    BY <1>0
  <2>2. IsFiniteSet(offset .. MaxProposals - 1)
        /\ Cardinality(offset .. MaxProposals - 1)
              = IF offset > MaxProposals - 1 THEN 0 ELSE (MaxProposals - 1) - offset + 1
    BY <2>1, FS_Interval
  <2>3. Cardinality(offset .. MaxProposals - 1) = MaxProposals - offset
    BY <1>0, <2>2
  <2>4. \A t \in page : Place(t) \in offset .. MaxProposals - 1
    BY <1>0, <1>1, <1>2
  <2>5. QED
    BY <1>4, <2>2, <2>3, <2>4
<1>7. Cardinality(page) \in Nat
  BY <1>6, FS_CardinalityType
<1>8. QED
  BY <1>0, <1>1, <1>5, <1>6, <1>7 DEF page

\* A page without proposals is behind all of them.
LEMMA EmptyProposalPage ==
    ASSUME NEW offset \in 0 .. MaxProposals, PageFrom(offset) = {}
    PROVE  \A t \in Listed : Place(t) < offset
<1> DEFINE behind == {t \in Listed : ~(Place(t) < offset)}
<1> SUFFICES ASSUME behind # {} PROVE FALSE
  OBVIOUS
<1>0. offset \in Nat /\ Limit \in Nat /\ MaxProposals \in Nat
  BY PoliteiaBounds DEF Limit
<1>1. behind \subseteq Tokens
  BY PlacesFall
<1>2. PICK t \in behind : \A u \in behind : u <= t
  <2> HIDE DEF behind
  <2>1. QED
    BY <1>1, LastIsThere
<1>3. t \in Listed /\ t \in Tokens /\ t \in Nat /\ Place(t) \in Nat /\ offset <= Place(t)
      /\ IsFiniteSet(NewerListed(t))
  BY <1>0, <1>1, <1>2, PlacesFall
<1>4. Place(t) <= offset
  <2>1. CASE NewerListed(t) = {}
    BY <1>0, <2>1, FS_EmptySet DEF Place
  <2>2. CASE NewerListed(t) # {}
    <3>1. NewerListed(t) \subseteq Listed /\ Listed \subseteq Nat
      BY PlacesFall DEF NewerListed
    <3>2. PICK u \in NewerListed(t) : \A v \in NewerListed(t) : u <= v
      <4>1. NewerListed(t) \subseteq Nat
        BY <3>1
      <4>2. QED
        BY <2>2, <4>1, FirstIsThere
    <3>3. u \in Listed /\ u \in Tokens /\ t < u /\ u \in Nat
      BY <1>3, <3>1, PlacesFall DEF NewerListed
    <3>4. Place(u) < offset
      <4>1. u \notin behind
        BY <1>2, <1>3, <3>3
      <4>2. QED
        BY <3>3, <4>1
    <3>5. NewerListed(t) = NewerListed(u) \cup {u} /\ u \notin NewerListed(u)
      <4>1. \A v \in Listed : v > u \/ v = u => v > t
        BY <1>3, <3>1, <3>3
      <4>2. \A v \in Listed : v > t => v > u \/ v = u
        <5>1. \A v \in Listed : v > t => u <= v
          BY <3>2 DEF NewerListed
        <5>2. QED
          BY <3>1, <3>3, <5>1
      <4>3. ~(u > u)
        BY <3>3
      <4>4. QED
        BY <3>3, <4>1, <4>2, <4>3 DEF NewerListed
    <3>6. Place(t) = Place(u) + 1
      <4>1. IsFiniteSet(NewerListed(u))
        BY <3>3, PlacesFall
      <4>2. Cardinality(NewerListed(u) \cup {u}) = Cardinality(NewerListed(u)) + 1
        BY <3>5, <4>1, FS_AddElement
      <4>3. QED
        BY <3>5, <4>2 DEF Place
    <3>7. Place(u) \in Nat
      BY <3>3, PlacesFall
    <3>8. QED
      BY <1>0, <1>3, <3>4, <3>6, <3>7
  <2>3. QED
    BY <2>1, <2>2
<1>5. Place(t) >= offset /\ (Limit = 0 \/ Place(t) < offset + Limit)
  BY <1>0, <1>3, <1>4
<1>6. QED
  BY <1>3, <1>5, PageByPlace

\* The places are numbers after a step too, and do not fall if no proposal is lost.
LEMMA PlacesGrow ==
    /\ \A t \in Tokens : Place(t)' \in Nat
    /\ Listed \subseteq Listed' => \A t \in Tokens : Place(t) <= Place(t)'
<1>1. IsFiniteSet(Tokens)
  BY PoliteiaBounds, FS_Interval DEF Tokens
<1>2. ASSUME NEW t \in Tokens PROVE IsFiniteSet(NewerListed(t)') /\ Place(t)' \in Nat
  <2>1. NewerListed(t)' \in SUBSET Tokens
    BY DEF NewerListed, Listed
  <2>2. IsFiniteSet(NewerListed(t)')
    BY <1>1, <2>1, FS_Subset
  <2>3. QED
    BY <2>2, FS_CardinalityType DEF Place
<1>3. ASSUME Listed \subseteq Listed', NEW t \in Tokens PROVE Place(t) <= Place(t)'
  <2>1. NewerListed(t) \in SUBSET NewerListed(t)'
    BY <1>3 DEF NewerListed
  <2>2. QED
    BY <1>2, <2>1, FS_Subset DEF Place
<1>4. QED
  BY <1>2, <1>3

-----------------------------------------------------------------------------
(* Copies and the records of the syncs                                     *)

\* The record of sync s changes, and those of the others do not.
WorkerTurns(s, w) ==
    /\ worker' \in [ProposalSyncs -> Workers] /\ worker'[s] = w
    /\ \A r \in ProposalSyncs \ {s} : worker'[r] = worker[r]

\* Functions of proposals are the pages a sync may have.
LEMMA ProposalPages ==
    /\ << >> \in CopyPages /\ << >> \in StatusPages /\ DOMAIN << >> = {}
    /\ \A S \in SUBSET Tokens : [S -> Records] \subseteq CopyPages
                                /\ [S -> ProposalStatuses] \subseteq StatusPages
    /\ \A page \in CopyPages : DOMAIN page \subseteq Tokens /\ page \in [DOMAIN page -> Records]
    /\ \A fresh \in StatusPages :
          DOMAIN fresh \subseteq Tokens /\ fresh \in [DOMAIN fresh -> ProposalStatuses]
<1>1. << >> \in [{} -> Records] /\ << >> \in [{} -> ProposalStatuses] /\ DOMAIN << >> = {}
  OBVIOUS
<1>2. QED
  BY <1>1 DEF CopyPages, StatusPages

\* The record of a sync, by its fields.
LEMMA WorkerFields ==
    ASSUME ProposalsTyped, NEW s \in ProposalSyncs
    PROVE  /\ worker[s].pc \in WorkerLabels /\ worker[s].offset \in 0 .. MaxProposals
           /\ worker[s].page \in CopyPages /\ worker[s].fresh \in StatusPages
           /\ worker[s].fetch \in SUBSET Tokens
<1>1. worker[s] \in Workers
  BY DEF ProposalsTyped
<1> HIDE DEF WorkerLabels, CopyPages, StatusPages
<1>2. QED
  BY <1>1 DEF Workers

\* A step that sets the record of one sync.
LEMMA RecordIsTurned ==
    ASSUME ProposalsTyped, NEW s \in ProposalSyncs, NEW w \in Workers,
           worker' = [worker EXCEPT ![s] = w]
    PROVE  WorkerTurns(s, w)
BY DEF WorkerTurns, ProposalsTyped

\* A sync goes to where label says, with what it has.
LEMMA WorkerGoesTurns ==
    ASSUME ProposalsTyped, NEW s \in ProposalSyncs, NEW label \in WorkerLabels,
           WorkerGoes(s, label)
    PROVE  /\ WorkerTurns(s, [worker[s] EXCEPT !.pc = label])
           /\ worker'[s].pc = label /\ worker'[s].offset = worker[s].offset
           /\ worker'[s].page = worker[s].page /\ worker'[s].fresh = worker[s].fresh
           /\ worker'[s].fetch = worker[s].fetch
<1>1. worker[s] \in Workers
  BY DEF ProposalsTyped
<1>2. worker' = [worker EXCEPT ![s] = [worker[s] EXCEPT !.pc = label]]
  BY DEF WorkerGoes, ProposalsTyped
<1> HIDE DEF WorkerLabels, CopyPages, StatusPages
<1>3. WorkerTurns(s, [worker[s] EXCEPT !.pc = label])
  <2> DEFINE w == [worker[s] EXCEPT !.pc = label]
  <2>1. w \in Workers
    BY <1>1 DEF Workers
  <2> HIDE DEF w
  <2>2. QED
    BY <1>2, <2>1, RecordIsTurned DEF w
<1>4. QED
  BY <1>1, <1>3 DEF WorkerTurns, Workers

\* A sync starts a stage with nothing.
LEMMA WorkerStartsTurns ==
    ASSUME ProposalsTyped, NEW s \in ProposalSyncs, NEW label \in WorkerLabels,
           WorkerStarts(s, label)
    PROVE  WorkerTurns(s, NotSyncing(label))
<1>1. 0 \in 0 .. MaxProposals /\ {} \in SUBSET Tokens
  BY PoliteiaBounds
<1> HIDE DEF WorkerLabels, CopyPages, StatusPages
<1>2. NotSyncing(label) \in Workers
  BY <1>1, ProposalPages DEF NotSyncing, Workers
<1>3. QED
  BY <1>2, RecordIsTurned DEF WorkerStarts

-----------------------------------------------------------------------------
(* Steps that keep the invariant                                           *)

\* The statuses have ranks.
LEMMA RanksAreNumbers ==
    /\ \A status \in ProposalStatuses : Rank[status] \in Nat
    /\ Rank["none"] = 0 /\ Rank["abandoned"] = 2
    /\ "none" \in ProposalStatuses /\ "abandoned" \in ProposalStatuses
BY DEF Rank, ProposalStatuses

\* The records stand but for those that are saved from a copy; none is lost.
RecordsStand ==
    /\ Listed \subseteq Listed'
    /\ \A t \in Tokens :
          /\ t \in outdated' \/ (t \notin outdated /\ record'[t].status = record[t].status)
          /\ record[t] = NoRecord => record'[t] = NoRecord

\* A sync that rests has walked nowhere.
LEMMA RestingWorker ==
    ASSUME NEW s \in ProposalSyncs,
           worker'[s].pc \in {"unborn", "publish", "top", "policy", "updates", "ending", "done"},
           worker'[s].pc \in {"top", "policy", "updates"} => worker'[s].offset = 0
    PROVE  CopiesAhead(s)' /\ WalkedProposals(s)'
BY DEF CopiesAhead, WalkedProposals

\* A sync that does not move, as long as the records stand.
LEMMA StandingWorker ==
    ASSUME ProposalsTyped, NEW s \in ProposalSyncs, WalkedProposals(s), RecordsStand,
           worker'[s] = worker[s], begunAt'[s] = begunAt[s]
    PROVE  WalkedProposals(s)'
<1>1. \A t \in Tokens : UpToDate(s, t) => UpToDate(s, t)'
  BY DEF RecordsStand, UpToDate
<1>2. Listed \subseteq Tokens /\ Listed' \subseteq Tokens
  BY DEF Listed
<1>3. \A t \in Listed' : t \in Listed \/ UpToDate(s, t)'
  <2> SUFFICES ASSUME NEW t \in Listed', t \notin Listed PROVE UpToDate(s, t)'
    OBVIOUS
  <2>1. t \in Tokens /\ record'[t].status # record[t].status
    BY DEF Listed
  <2>2. QED
    BY <2>1 DEF RecordsStand, UpToDate
<1>4. \A t \in Tokens : Place(t)' < worker[s].offset => Place(t) < worker[s].offset
  <2>1. \A t \in Tokens : Place(t) \in Nat /\ Place(t)' \in Nat /\ Place(t) <= Place(t)'
    BY PlacesFall, PlacesGrow DEF RecordsStand
  <2>2. worker[s].offset \in Nat
    BY WorkerFields, PoliteiaBounds
  <2>3. QED
    BY <2>1, <2>2
<1>5. worker[s].pc \in {"page", "ask", "update"} =>
          \A t \in Listed' : Place(t)' < worker[s].offset =>
              \/ UpToDate(s, t)'
              \/ worker[s].pc # "page" /\ t \in DOMAIN worker[s].page
  BY <1>1, <1>2, <1>3, <1>4 DEF WalkedProposals
<1>6. worker[s].pc \in {"ask", "update"} =>
          \A t \in DOMAIN worker[s].page :
              /\ t \in Listed'
              /\ record'[t].status = worker[s].page[t].status \/ t \in outdated'
  BY <1>2 DEF WalkedProposals, RecordsStand
<1>7. worker[s].pc = "inventory" =>
          \A t \in Tokens : record'[t] = NoRecord \/ UpToDate(s, t)'
  BY <1>1 DEF WalkedProposals, RecordsStand
<1>8. worker[s].pc \in {"fetch", "save"} =>
          /\ \A t \in Tokens : t \in worker[s].fetch \/ UpToDate(s, t)'
          /\ \A t \in worker[s].fetch : record'[t] = NoRecord
  BY <1>1, WorkerFields DEF WalkedProposals, RecordsStand
<1>9. QED
  BY <1>5, <1>6, <1>7, <1>8 DEF WalkedProposals

\* A sync that moves while nothing else changes.
LEMMA MovingWorker ==
    ASSUME ProposalFreshInv, NEW s \in ProposalSyncs, NEW w, WorkerTurns(s, w),
           UNCHANGED <<record, outdated, shifted, inventory, viewer, begunAt, raced>>,
           w.pc \in {"unborn", "publish", "done"} \/ WorkerActive(s),
           CopiesAhead(s)', Calm => WalkedProposals(s)'
    PROVE  ProposalFreshInv'
<1>1. ProposalsTyped'
  BY DEF ProposalFreshInv, ProposalsTyped, WorkerTurns
<1>2. ServerAhead'
  BY DEF ProposalFreshInv, ProposalWalkInv, ServerAhead, Was
<1>3. AloneActive'
  <2>1. \A r \in ProposalSyncs : WorkerActive(r)' => WorkerActive(r)
    BY DEF WorkerTurns, WorkerActive
  <2>2. QED
    BY <2>1 DEF ProposalFreshInv, ProposalWalkInv, AloneActive
<1>4. \A r \in ProposalSyncs : CopiesAhead(r)'
  <2>1. \A r \in ProposalSyncs \ {s} : CopiesAhead(r)'
    BY DEF ProposalFreshInv, ProposalWalkInv, WorkerTurns, CopiesAhead, Was
  <2>2. QED
    BY <2>1
<1>5. ASSUME Calm' PROVE ViewIsTrue' /\ \A r \in ProposalSyncs : WalkedProposals(r)'
  <2>1. Calm
    BY <1>5 DEF Calm
  <2>2. RecordsStand
    BY DEF RecordsStand, Listed
  <2>3. \A r \in ProposalSyncs \ {s} : WalkedProposals(r)'
    BY <2>1, <2>2, StandingWorker DEF ProposalFreshInv, ProposalWalkInv, WorkerTurns
  <2>4. ViewIsTrue'
    BY <2>1 DEF ProposalFreshInv, ProposalWalkInv, ViewIsTrue
  <2>5. QED
    BY <2>1, <2>3, <2>4
<1>6. QED
  BY <1>1, <1>2, <1>3, <1>4, <1>5 DEF ProposalFreshInv, ProposalWalkInv

\* What is not moved by a sync: records that stand, and a server that goes on.
LEMMA StandingWorkers ==
    ASSUME ProposalFreshInv, UNCHANGED <<worker, begunAt, raced, shifted>>,
           ProposalsTyped', ServerAhead', Calm => RecordsStand /\ ViewIsTrue',
           \A t \in Tokens : /\ inventory[t] # "none" => inventory'[t] # "none"
                             /\ inventory[t] = "abandoned" => inventory'[t] = "abandoned"
    PROVE  ProposalFreshInv'
<1>1. AloneActive'
  BY DEF ProposalFreshInv, ProposalWalkInv, AloneActive, WorkerActive
<1>2. ASSUME NEW s \in ProposalSyncs PROVE CopiesAhead(s)'
  <2>1. DOMAIN worker[s].page \subseteq Tokens /\ DOMAIN worker[s].fresh \subseteq Tokens
        /\ worker[s].fetch \subseteq Tokens
    BY WorkerFields, ProposalPages DEF ProposalFreshInv
  <2>2. QED
    BY <2>1 DEF ProposalFreshInv, ProposalWalkInv, CopiesAhead, Was
<1>3. ASSUME Calm' PROVE ViewIsTrue' /\ \A s \in ProposalSyncs : WalkedProposals(s)'
  <2>1. Calm
    BY <1>3 DEF Calm
  <2>2. QED
    BY <2>1, StandingWorker DEF ProposalFreshInv, ProposalWalkInv
<1>4. QED
  BY <1>1, <1>2, <1>3 DEF ProposalFreshInv, ProposalWalkInv

-----------------------------------------------------------------------------
(* The steps of a sync                                                     *)

\* A sync that tries again begins from the top.
LEMMA TryAgainRests ==
    ASSUME ProposalsTyped, NEW s \in ProposalSyncs, NEW label,
           label \in {"top", "ending", "done"}, WorkerStarts(s, label)
    PROVE  /\ WorkerTurns(s, NotSyncing(label))
           /\ CopiesAhead(s)' /\ WalkedProposals(s)'
           /\ worker'[s].pc = label
<1>1. label \in WorkerLabels
  BY DEF WorkerLabels, ProposalLabels
<1>2. WorkerTurns(s, NotSyncing(label))
  BY <1>1, WorkerStartsTurns
<1>3. worker'[s].pc = label /\ worker'[s].offset = 0
  BY <1>2 DEF WorkerTurns, NotSyncing
<1>4. QED
  BY <1>2, <1>3, RestingWorker

\* A step that only tries again.
LEMMA TryAgainKeeps ==
    ASSUME ProposalFreshInv, NEW s \in ProposalSyncs, WorkerActive(s), NEW label,
           label \in {"top", "ending", "done"}, WorkerStarts(s, label),
           UNCHANGED <<record, outdated, shifted, inventory, viewer, begunAt, raced>>
    PROVE  ProposalFreshInv'
BY TryAgainRests, MovingWorker DEF ProposalFreshInv

\* A step that goes on from the top, where nothing is passed yet.
LEMMA TopKeeps ==
    ASSUME ProposalFreshInv, NEW s \in ProposalSyncs, NEW label,
           worker[s].pc \in {"top", "policy", "updates"}, label \in {"policy", "updates", "page"},
           WorkerGoes(s, label),
           UNCHANGED <<record, outdated, shifted, inventory, viewer, begunAt, raced>>
    PROVE  ProposalFreshInv'
<1> DEFINE w == [worker[s] EXCEPT !.pc = label]
<1>1. WorkerTurns(s, w)
  BY WorkerGoesTurns DEF ProposalFreshInv, WorkerLabels, ProposalLabels
<1>2. worker'[s].pc = label /\ worker'[s].offset = 0
  BY WorkerGoesTurns
     DEF ProposalFreshInv, ProposalWalkInv, CopiesAhead, WorkerLabels, ProposalLabels
<1>3. CopiesAhead(s)' /\ WalkedProposals(s)'
  <2>1. \A t \in Listed' : ~(Place(t)' < 0)
    BY PlacesGrow DEF Listed
  <2>2. QED
    BY <1>2, <2>1 DEF CopiesAhead, WalkedProposals
<1>4. WorkerActive(s)
  BY DEF WorkerActive
<1> HIDE DEF w
<1>5. QED
  BY <1>1, <1>3, <1>4, MovingWorker

\* Until the first page.
LEMMA FirstStepsKeep ==
    ASSUME ProposalFreshInv, NEW s \in ProposalSyncs,
           \/ ExitProposalSync(s) \/ GetClient(s) \/ ServerPolicy(s)
           \/ RefuseWithoutPolicy(s) \/ CheckForUpdates(s)
    PROVE  ProposalFreshInv'
<1>1. /\ UNCHANGED <<record, outdated, shifted, inventory, viewer, begunAt, raced>>
      /\ worker[s].pc \in {"top", "policy", "updates"}
      /\ \/ WorkerStarts(s, "top") \/ WorkerStarts(s, "ending")
         \/ WorkerGoes(s, "policy") \/ WorkerGoes(s, "updates") \/ WorkerGoes(s, "page")
  BY DEF ExitProposalSync, GetClient, ServerPolicy, RefuseWithoutPolicy, CheckForUpdates,
         TryAgain, WorkerAt, OnlyWorker, records, serverState
<1>2. WorkerActive(s)
  BY <1>1 DEF WorkerActive
<1>3. QED
  BY <1>1, <1>2, TryAgainKeeps, TopKeeps

\* An abandoned proposal needs nothing more, and one that is not there is not there.
LEMMA UnlistedIsUpToDate ==
    ASSUME ProposalFreshInv, NEW s \in ProposalSyncs, NEW t \in Tokens, t \notin Listed
    PROVE  record[t] = NoRecord \/ UpToDate(s, t)
<1>1. CASE record[t].status = "none"
  BY <1>1 DEF ProposalFreshInv, ProposalWalkInv, ServerAhead, Was
<1>2. CASE record[t].status = "abandoned" /\ record[t] # NoRecord
  <2>1. Rank[begunAt[s][t]] <= Rank["abandoned"]
    BY <1>2 DEF ProposalFreshInv, ProposalWalkInv, ServerAhead, Was
  <2>2. Rank[begunAt[s][t]] \in Nat
    BY RanksAreNumbers DEF ProposalFreshInv, ProposalsTyped
  <2>3. QED
    BY <1>2, <2>1, <2>2, RanksAreNumbers DEF UpToDate
<1>3. QED
  BY <1>1, <1>2 DEF Listed

\* The next page holds what the walk passes with it; an empty one comes after all.
LEMMA NextProposalPageKeeps ==
    ASSUME ProposalFreshInv, NEW s \in ProposalSyncs, NextProposalPage(s)
    PROVE  ProposalFreshInv'
<1> DEFINE offset == worker[s].offset
           tokens == PageFrom(offset)
           page == [t \in tokens |-> record[t]]
           next == offset + Cardinality(tokens)
<1>0. /\ UNCHANGED <<record, outdated, shifted, inventory, viewer, begunAt, raced>>
      /\ worker[s].pc = "page" /\ WorkerActive(s) /\ ProposalsTyped
      /\ offset \in 0 .. MaxProposals
  BY WorkerFields DEF NextProposalPage, OnlyWorker, records, serverState, WorkerAt, WorkerActive,
         ProposalFreshInv
<1>1. CASE TryAgain(s)
  BY <1>0, <1>1, TryAgainKeeps DEF TryAgain
<1>2. CASE tokens = {} /\ WorkerStarts(s, "inventory")
  <2> DEFINE w == NotSyncing("inventory")
  <2>1. WorkerTurns(s, w)
    BY <1>0, <1>2, WorkerStartsTurns DEF WorkerLabels, ProposalLabels
  <2>2. worker'[s].pc = "inventory"
    BY <2>1 DEF WorkerTurns, NotSyncing
  <2>3. CopiesAhead(s)'
    BY <2>2 DEF CopiesAhead
  <2>4. ASSUME Calm PROVE WalkedProposals(s)'
    <3>1. \A t \in Listed : Place(t) < offset
      BY <1>0, <1>2, EmptyProposalPage
    <3>2. \A t \in Listed : UpToDate(s, t)
      BY <1>0, <2>4, <3>1 DEF ProposalFreshInv, ProposalWalkInv, WalkedProposals
    <3>3. \A t \in Tokens : record[t] = NoRecord \/ UpToDate(s, t)
      BY <3>2, UnlistedIsUpToDate
    <3>4. \A t \in Tokens : record'[t] = NoRecord \/ UpToDate(s, t)'
      BY <1>0, <3>3 DEF UpToDate
    <3>5. QED
      BY <2>2, <3>4 DEF WalkedProposals
  <2> HIDE DEF w
  <2>5. QED
    BY <1>0, <2>1, <2>3, <2>4, MovingWorker
<1>3. CASE worker' = [worker EXCEPT ![s].pc = "ask", ![s].offset = @ + Cardinality(tokens),
                                    ![s].page = page]
  <2> DEFINE w == [worker[s] EXCEPT !.pc = "ask", !.offset = next, !.page = page]
  <2>1. /\ tokens \in SUBSET Tokens /\ next \in 0 .. MaxProposals /\ Cardinality(tokens) \in Nat
        /\ Limit # 0 => Cardinality(tokens) <= Limit
    BY <1>0, ProposalPageIsLimited
  <2>2. page \in CopyPages /\ DOMAIN page = tokens
    <3>1. page \in [tokens -> Records]
      BY <1>0, <2>1 DEF ProposalsTyped
    <3>2. QED
      BY <2>1, <3>1, ProposalPages
  <2>3. w \in Workers
    <3>1. worker[s] \in Workers /\ "ask" \in WorkerLabels
      BY <1>0 DEF ProposalsTyped, WorkerLabels, ProposalLabels
    <3> HIDE DEF next, page, WorkerLabels, CopyPages, StatusPages
    <3>2. QED
      BY <2>1, <2>2, <3>1 DEF Workers
  <2>4. /\ WorkerTurns(s, w)
        /\ worker'[s].pc = "ask" /\ worker'[s].offset = next /\ worker'[s].page = page
    <3>1. worker' = [worker EXCEPT ![s] = w]
      BY <1>0, <1>3 DEF ProposalsTyped
    <3>2. WorkerTurns(s, w)
      <4> HIDE DEF w
      <4>1. QED
        BY <1>0, <2>3, <3>1, RecordIsTurned
    <3>3. worker[s] \in Workers
      BY <1>0 DEF ProposalsTyped
    <3> HIDE DEF next, page, WorkerLabels, CopyPages, StatusPages
    <3>4. QED
      BY <3>2, <3>3 DEF WorkerTurns, Workers
  <2>5. \A t \in tokens : t \in Listed /\ page[t] = record[t]
    BY DEF PageFrom
  <2> HIDE DEF page, tokens, next, w, offset
  <2>6. CopiesAhead(s)'
    <3>1. \A t \in tokens : /\ page[t].status \notin {"none", "abandoned"}
                           /\ inventory'[t] # "none"
      <4>1. \A t \in Listed : t \in Tokens /\ record[t] # NoRecord /\ record[t].status # "abandoned"
        BY DEF Listed, NoRecord
      <4>2. \A t \in Listed : Was(t, record[t].status)
        BY <4>1 DEF ProposalFreshInv, ProposalWalkInv, ServerAhead
      <4>3. QED
        BY <1>0, <2>5, <4>1, <4>2 DEF Was
    <3>2. QED
      BY <2>2, <2>4, <3>1 DEF CopiesAhead, Was
  <2>7. ASSUME Calm PROVE WalkedProposals(s)'
    <3>1. Listed' = Listed /\ \A t \in Tokens : Place(t)' = Place(t) /\ Place(t) \in Nat
      BY <1>0, PlacesFall DEF Listed, Place, NewerListed
    <3>2. ASSUME NEW t \in Listed, Place(t) < next PROVE UpToDate(s, t) \/ t \in tokens
      <4>0. t \in Tokens /\ Place(t) \in Nat /\ Limit \in Nat /\ offset \in Nat
        <5>1. t \in Tokens
          BY DEF Listed
        <5>2. Limit \in Nat
          BY PoliteiaBounds DEF Limit
        <5>3. offset \in Nat
          BY <1>0, PoliteiaBounds
        <5>4. QED
          BY <3>1, <5>1, <5>2, <5>3
      <4>1. CASE Place(t) < offset
        BY <1>0, <2>7, <4>1 DEF ProposalFreshInv, ProposalWalkInv, WalkedProposals, offset
      <4>2. CASE ~(Place(t) < offset)
        <5>1. Place(t) >= offset /\ (Limit = 0 \/ Place(t) < offset + Limit)
          BY <2>1, <3>2, <4>0, <4>2 DEF next
        <5>2. QED
          BY <5>1, PageByPlace DEF tokens
      <4>3. QED
        BY <4>1, <4>2
    <3>3. \A t \in Tokens : UpToDate(s, t)' <=> UpToDate(s, t)
      BY <1>0 DEF UpToDate
    <3>4. Listed \subseteq Tokens
      BY DEF Listed
    <3>5. \A t \in tokens : t \in Listed' /\ record'[t].status = page[t].status
      BY <1>0, <2>5, <3>1
    <3>6. QED
      BY <2>2, <2>4, <3>1, <3>2, <3>3, <3>4, <3>5 DEF WalkedProposals
  <2>8. QED
    BY <1>0, <2>4, <2>6, <2>7, MovingWorker
<1>4. QED
  BY <1>1, <1>2, <1>3 DEF NextProposalPage

\* The answers to a page are those of now, and cover the page.
LEMMA AskKnownProposalsKeeps ==
    ASSUME ProposalFreshInv, NEW s \in ProposalSyncs, AskKnownProposals(s)
    PROVE  ProposalFreshInv'
<1> DEFINE page == worker[s].page
           fresh == [t \in DOMAIN page |-> inventory[t]]
           w == [worker[s] EXCEPT !.pc = "update", !.fresh = fresh]
<1>0. /\ UNCHANGED <<record, outdated, shifted, inventory, viewer, begunAt, raced>>
      /\ worker[s].pc = "ask" /\ WorkerActive(s) /\ ProposalsTyped /\ worker[s] \in Workers
  BY DEF AskKnownProposals, OnlyWorker, records, serverState, WorkerAt, WorkerActive,
         ProposalFreshInv, ProposalsTyped
<1>1. CASE TryAgain(s)
  BY <1>0, <1>1, TryAgainKeeps DEF TryAgain
<1>2. CASE worker' = [worker EXCEPT ![s].pc = "update", ![s].fresh = fresh]
  <2>1. fresh \in StatusPages /\ DOMAIN fresh = DOMAIN page /\ DOMAIN page \subseteq Tokens
    BY <1>0, ProposalPages, WorkerFields DEF ProposalsTyped
  <2>2. worker' = [worker EXCEPT ![s] = w]
    BY <1>0, <1>2 DEF ProposalsTyped
  <2>3. /\ WorkerTurns(s, w)
        /\ worker'[s].pc = "update" /\ worker'[s].offset = worker[s].offset
        /\ worker'[s].page = page /\ worker'[s].fresh = fresh
    <3>1. "update" \in WorkerLabels
      BY DEF WorkerLabels, ProposalLabels
    <3> HIDE DEF fresh, WorkerLabels, CopyPages, StatusPages
    <3>2. w \in Workers
      BY <1>0, <2>1, <3>1 DEF Workers
    <3>3. WorkerTurns(s, w)
      <4> HIDE DEF w
      <4>1. QED
        BY <1>0, <2>2, <3>2, RecordIsTurned
    <3>4. QED
      BY <1>0, <3>3 DEF WorkerTurns, Workers
  <2>4. CopiesAhead(s)'
    <3>1. \A t \in DOMAIN page : Was(t, page[t].status) /\ page[t].status # "abandoned"
      BY <1>0 DEF ProposalFreshInv, ProposalWalkInv, CopiesAhead
    <3>2. \A t \in DOMAIN page : Was(t, fresh[t]) /\ Rank[fresh[t]] >= Rank[begunAt[s][t]]
      <4>1. \A t \in DOMAIN page : Rank[begunAt[s][t]] <= Rank[inventory[t]]
        BY <2>1 DEF ProposalFreshInv, ProposalWalkInv, ServerAhead
      <4>2. \A t \in DOMAIN page : Rank[begunAt[s][t]] \in Nat /\ Rank[inventory[t]] \in Nat
        BY <1>0, <2>1, RanksAreNumbers DEF ProposalsTyped
      <4>3. QED
        BY <3>1, <4>1, <4>2 DEF Was
    <3> HIDE DEF page, fresh
    <3>3. QED
      BY <1>0, <2>1, <2>3, <3>1, <3>2 DEF CopiesAhead, Was
  <2>5. ASSUME Calm PROVE WalkedProposals(s)'
    <3>1. Listed' = Listed /\ \A t \in Tokens : Place(t)' = Place(t)
      BY <1>0 DEF Listed, Place, NewerListed
    <3>2. WalkedProposals(s)
      BY <2>5 DEF ProposalFreshInv, ProposalWalkInv
    <3>3. \A t \in Tokens : UpToDate(s, t)' <=> UpToDate(s, t)
      BY <1>0 DEF UpToDate
    <3>4. Listed \subseteq Tokens
      BY DEF Listed
    <3> HIDE DEF page, fresh
    <3>5. QED
      BY <1>0, <2>3, <3>1, <3>2, <3>3, <3>4 DEF WalkedProposals, page
  <2> HIDE DEF w
  <2>6. QED
    BY <1>0, <2>3, <2>4, <2>5, MovingWorker
<1>3. QED
  BY <1>1, <1>2 DEF AskKnownProposals

\* What is new at the server is to be fetched, and of the rest there is a record.
LEMMA HandleNewProposalsKeeps ==
    ASSUME ProposalFreshInv, NEW s \in ProposalSyncs, HandleNewProposals(s)
    PROVE  ProposalFreshInv'
<1> DEFINE new == {t \in Tokens : record[t] = NoRecord /\ inventory[t] # "none"}
           w == [NotSyncing("fetch") EXCEPT !.fetch = new]
<1>0. /\ UNCHANGED <<record, outdated, shifted, inventory, viewer, begunAt, raced>>
      /\ worker[s].pc = "inventory" /\ WorkerActive(s) /\ ProposalsTyped
  BY DEF HandleNewProposals, OnlyWorker, records, serverState, WorkerAt, WorkerActive,
         ProposalFreshInv
<1>1. CASE TryAgain(s)
  BY <1>0, <1>1, TryAgainKeeps DEF TryAgain
<1>2. CASE worker' = [worker EXCEPT ![s] = w]
  <2>1. WorkerTurns(s, w) /\ worker'[s].pc = "fetch" /\ worker'[s].fetch = new
    <3>1. "fetch" \in WorkerLabels /\ 0 \in 0 .. MaxProposals /\ new \in SUBSET Tokens
      BY PoliteiaBounds DEF WorkerLabels, ProposalLabels
    <3> HIDE DEF new, WorkerLabels, CopyPages, StatusPages
    <3>2. w \in Workers /\ w.pc = "fetch" /\ w.fetch = new
      BY <3>1, ProposalPages DEF Workers, NotSyncing
    <3> HIDE DEF w
    <3>3. QED
      BY <1>0, <1>2, <3>2, RecordIsTurned DEF WorkerTurns
  <2>2. CopiesAhead(s)'
    BY <1>0, <2>1 DEF CopiesAhead
  <2>3. ASSUME Calm PROVE WalkedProposals(s)'
    <3>1. \A t \in Tokens : record[t] = NoRecord \/ UpToDate(s, t)
      BY <1>0, <2>3 DEF ProposalFreshInv, ProposalWalkInv, WalkedProposals
    <3>2. ASSUME NEW t \in Tokens, record[t] = NoRecord, inventory[t] = "none"
          PROVE  UpToDate(s, t)
      <4>1. Rank[begunAt[s][t]] <= Rank["none"] /\ Rank[begunAt[s][t]] \in Nat
        BY <1>0, <3>2, RanksAreNumbers
           DEF ProposalFreshInv, ProposalWalkInv, ServerAhead, ProposalsTyped
      <4>2. QED
        BY <3>2, <4>1, RanksAreNumbers DEF UpToDate, NoRecord
    <3>3. \A t \in Tokens : t \in new \/ UpToDate(s, t)
      BY <3>1, <3>2
    <3>4. \A t \in Tokens : UpToDate(s, t)' <=> UpToDate(s, t)
      BY <1>0 DEF UpToDate
    <3>5. \A t \in new : record'[t] = NoRecord
      BY <1>0
    <3> HIDE DEF new
    <3>6. QED
      BY <2>1, <3>3, <3>4, <3>5 DEF WalkedProposals
  <2> HIDE DEF w
  <2>4. QED
    BY <1>0, <2>1, <2>2, <2>3, MovingWorker
<1>3. QED
  BY <1>1, <1>2 DEF HandleNewProposals

\* A batch is what the server says now of proposals that are still to be fetched.
LEMMA FetchBatchKeeps ==
    ASSUME ProposalFreshInv, NEW s \in ProposalSyncs, FetchBatchProposals(s)
    PROVE  ProposalFreshInv'
<1>0. /\ UNCHANGED <<record, outdated, shifted, inventory, viewer, begunAt, raced>>
      /\ worker[s].pc = "fetch" /\ WorkerActive(s) /\ ProposalsTyped /\ worker[s] \in Workers
  BY DEF FetchBatchProposals, OnlyWorker, records, serverState, WorkerAt, WorkerActive,
         ProposalFreshInv, ProposalsTyped
<1>1. CASE TryAgain(s)
  BY <1>0, <1>1, TryAgainKeeps DEF TryAgain
<1>2. ASSUME NEW t \in worker[s].fetch,
             worker' = [worker EXCEPT ![s].pc = "save", ![s].fresh = [u \in {t} |-> inventory[u]]]
      PROVE  ProposalFreshInv'
  <2> DEFINE fresh == [u \in {t} |-> inventory[u]]
             w == [worker[s] EXCEPT !.pc = "save", !.fresh = fresh]
  <2>1. fresh \in StatusPages /\ DOMAIN fresh = {t} /\ t \in Tokens /\ fresh[t] = inventory[t]
    <3>1. t \in Tokens
      BY <1>0, WorkerFields
    <3>2. fresh \in [{t} -> ProposalStatuses]
      BY <1>0, <3>1 DEF ProposalsTyped
    <3>3. QED
      BY <3>1, <3>2, ProposalPages
  <2>2. worker' = [worker EXCEPT ![s] = w]
    BY <1>0, <1>2 DEF ProposalsTyped
  <2>3. /\ WorkerTurns(s, w)
        /\ worker'[s].pc = "save" /\ worker'[s].fresh = fresh
        /\ worker'[s].fetch = worker[s].fetch
    <3>1. "save" \in WorkerLabels
      BY DEF WorkerLabels, ProposalLabels
    <3> HIDE DEF fresh, WorkerLabels, CopyPages, StatusPages
    <3>2. w \in Workers
      BY <1>0, <2>1, <3>1 DEF Workers
    <3>3. WorkerTurns(s, w)
      <4> HIDE DEF w
      <4>1. QED
        BY <1>0, <2>2, <3>2, RecordIsTurned
    <3>4. QED
      BY <1>0, <3>3 DEF WorkerTurns, Workers
  <2> HIDE DEF fresh
  <2>4. CopiesAhead(s)'
    <3>1. \A u \in worker[s].fetch : inventory[u] # "none"
      BY <1>0 DEF ProposalFreshInv, ProposalWalkInv, CopiesAhead
    <3>2. Rank[inventory[t]] >= Rank[begunAt[s][t]]
      <4>1. Rank[begunAt[s][t]] <= Rank[inventory[t]]
        BY <2>1 DEF ProposalFreshInv, ProposalWalkInv, ServerAhead
      <4>2. Rank[begunAt[s][t]] \in Nat /\ Rank[inventory[t]] \in Nat
        BY <1>0, <2>1, RanksAreNumbers DEF ProposalsTyped
      <4>3. QED
        BY <4>1, <4>2
    <3>3. QED
      BY <1>0, <1>2, <2>1, <2>3, <3>1, <3>2 DEF CopiesAhead, Was
  <2>5. ASSUME Calm PROVE WalkedProposals(s)'
    <3>1. \A u \in Tokens : UpToDate(s, u)' <=> UpToDate(s, u)
      BY <1>0 DEF UpToDate
    <3>2. QED
      BY <1>0, <2>3, <2>5, <3>1 DEF ProposalFreshInv, ProposalWalkInv, WalkedProposals
  <2> HIDE DEF w
  <2>6. QED
    BY <1>0, <2>3, <2>4, <2>5, MovingWorker
<1>3. QED
  BY <1>1, <1>2 DEF FetchBatchProposals

\* A sync that saves what the server says: it is alone, or excused.
LEMMA SavingWorker ==
    ASSUME ProposalFreshInv, NEW s \in ProposalSyncs, NEW w, WorkerTurns(s, w), WorkerActive(s),
           NEW t \in Tokens, NEW status, Was(t, status), record' \in [Tokens -> Records],
           record'[t].status = status, \A u \in Tokens \ {t} : record'[u] = record[u],
           UNCHANGED <<inventory, viewer, begunAt, raced>>, shifted => shifted',
           CopiesAhead(s)', Calm' => WalkedProposals(s)' /\ ViewIsTrue'
    PROVE  ProposalFreshInv'
<1>1. ProposalsTyped'
  BY DEF ProposalFreshInv, ProposalsTyped, WorkerTurns
<1>2. ServerAhead'
  <2>1. \A u \in Tokens : record'[u] = NoRecord \/ Was(u, record'[u].status)
    BY DEF ProposalFreshInv, ProposalWalkInv, ServerAhead
  <2>2. viewer.pc \in WithACopy => viewer.token \in Tokens /\ record'[viewer.token].status # "none"
    BY DEF ProposalFreshInv, ProposalsTyped, ProposalWalkInv, ServerAhead, Was
  <2>3. QED
    BY <2>1, <2>2 DEF ProposalFreshInv, ProposalWalkInv, ServerAhead, Was
<1>3. AloneActive'
  <2>1. \A r \in ProposalSyncs : WorkerActive(r)' => WorkerActive(r)
    BY DEF WorkerTurns, WorkerActive
  <2>2. QED
    BY <2>1 DEF ProposalFreshInv, ProposalWalkInv, AloneActive
<1>4. \A r \in ProposalSyncs : CopiesAhead(r)'
  <2>1. \A r \in ProposalSyncs \ {s} : CopiesAhead(r)'
    BY DEF ProposalFreshInv, ProposalWalkInv, WorkerTurns, CopiesAhead, Was
  <2>2. QED
    BY <2>1
<1>5. ASSUME Calm' PROVE ViewIsTrue' /\ \A r \in ProposalSyncs : WalkedProposals(r)'
  <2>1. Calm
    BY <1>5 DEF Calm, ProposalFreshInv, ProposalsTyped
  <2>2. ASSUME NEW r \in ProposalSyncs, r # s PROVE WalkedProposals(r)'
    <3>1. worker'[r].pc \in {"unborn", "publish", "done"}
      BY <2>1, <2>2 DEF ProposalFreshInv, ProposalWalkInv, AloneActive, Calm, WorkerActive,
                        WorkerTurns
    <3>2. QED
      BY <3>1 DEF WalkedProposals
  <2>3. QED
    BY <1>5, <2>2
<1>6. QED
  BY <1>1, <1>2, <1>3, <1>4, <1>5 DEF ProposalFreshInv, ProposalWalkInv

\* An answer is dropped from the page when the record is as it says, or was made so.
LEMMA UpdateDetailsKeeps ==
    ASSUME ProposalFreshInv, NEW s \in ProposalSyncs, UpdateProposalDetails(s)
    PROVE  ProposalFreshInv'
<1> DEFINE page == worker[s].page
           fresh == worker[s].fresh
<1>0. /\ UNCHANGED <<inventory, viewer, begunAt, raced>>
      /\ worker[s].pc = "update" /\ WorkerActive(s) /\ ProposalsTyped /\ worker[s] \in Workers
  BY DEF UpdateProposalDetails, serverState, WorkerAt, WorkerActive, ProposalFreshInv,
         ProposalsTyped
<1>1. CASE TryAgain(s) /\ UNCHANGED records
  BY <1>0, <1>1, TryAgainKeeps DEF TryAgain, records
<1>2. CASE /\ DOMAIN page = {} /\ UNCHANGED records
           /\ worker' = [worker EXCEPT ![s].pc = "page", ![s].fresh = << >>]
  <2> DEFINE w == [worker[s] EXCEPT !.pc = "page", !.fresh = << >>]
  <2>1. worker' = [worker EXCEPT ![s] = w]
    BY <1>0, <1>2 DEF ProposalsTyped
  <2>2. /\ WorkerTurns(s, w)
        /\ worker'[s].pc = "page" /\ worker'[s].offset = worker[s].offset
    <3>1. "page" \in WorkerLabels
      BY DEF WorkerLabels, ProposalLabels
    <3> HIDE DEF WorkerLabels, CopyPages, StatusPages
    <3>2. w \in Workers
      BY <1>0, <3>1, ProposalPages DEF Workers
    <3>3. WorkerTurns(s, w)
      <4> HIDE DEF w
      <4>1. QED
        BY <1>0, <2>1, <3>2, RecordIsTurned
    <3>4. QED
      BY <1>0, <3>3 DEF WorkerTurns, Workers
  <2>3. CopiesAhead(s)'
    BY <2>2 DEF CopiesAhead
  <2>4. ASSUME Calm PROVE WalkedProposals(s)'
    <3>1. Listed' = Listed /\ \A t \in Tokens : Place(t)' = Place(t)
      BY <1>2 DEF Listed, Place, NewerListed, records
    <3>2. \A t \in Tokens : UpToDate(s, t)' <=> UpToDate(s, t)
      BY <1>0, <1>2 DEF UpToDate, records
    <3>3. Listed \subseteq Tokens
      BY DEF Listed
    <3>4. QED
      BY <1>0, <1>2, <2>2, <2>4, <3>1, <3>2, <3>3
         DEF ProposalFreshInv, ProposalWalkInv, WalkedProposals
  <2> HIDE DEF w
  <2>5. QED
    BY <1>0, <1>2, <2>2, <2>3, <2>4, MovingWorker DEF records
<1>3. ASSUME NEW t \in DOMAIN page,
             worker' = [worker EXCEPT ![s].page = [u \in DOMAIN page \ {t} |-> page[u]]],
             \/ page[t].status = fresh[t] /\ UNCHANGED records
             \/ /\ page[t].status # fresh[t]
                /\ record' = [record EXCEPT ![t].status = fresh[t]]
                /\ shifted' = (shifted \/ fresh[t] = "abandoned")
                /\ outdated' = MadeGood(t, fresh[t])
      PROVE  ProposalFreshInv'
  <2> DEFINE rest == [u \in DOMAIN page \ {t} |-> page[u]]
             w == [worker[s] EXCEPT !.page = rest]
  <2>1. /\ rest \in CopyPages /\ DOMAIN rest = DOMAIN page \ {t} /\ DOMAIN page \subseteq Tokens
        /\ \A u \in DOMAIN rest : rest[u] = page[u]
        /\ DOMAIN fresh \subseteq Tokens /\ \A u \in DOMAIN fresh : fresh[u] \in ProposalStatuses
    <3>1. page \in CopyPages /\ fresh \in StatusPages
      BY <1>0, WorkerFields
    <3>2. DOMAIN page \subseteq Tokens /\ page \in [DOMAIN page -> Records]
          /\ DOMAIN fresh \subseteq Tokens /\ fresh \in [DOMAIN fresh -> ProposalStatuses]
      BY <3>1, ProposalPages
    <3> HIDE DEF page, fresh
    <3>3. rest \in [DOMAIN page \ {t} -> Records]
      BY <3>2
    <3>4. rest \in CopyPages
      BY <3>2, <3>3, ProposalPages
    <3>5. QED
      BY <3>2, <3>4
  <2>2. worker' = [worker EXCEPT ![s] = w]
    BY <1>0, <1>3 DEF ProposalsTyped
  <2>3. /\ WorkerTurns(s, w)
        /\ worker'[s].pc = "update" /\ worker'[s].offset = worker[s].offset
        /\ worker'[s].page = rest /\ worker'[s].fresh = fresh
    <3> HIDE DEF rest, WorkerLabels, CopyPages, StatusPages
    <3>1. w \in Workers
      BY <1>0, <2>1 DEF Workers
    <3>2. WorkerTurns(s, w)
      <4> HIDE DEF w
      <4>1. QED
        BY <1>0, <2>2, <3>1, RecordIsTurned
    <3>3. QED
      BY <1>0, <3>2 DEF WorkerTurns, Workers
  <2>4. /\ t \in Tokens /\ t \in DOMAIN fresh /\ fresh[t] \in ProposalStatuses
        /\ Was(t, fresh[t]) /\ Rank[fresh[t]] >= Rank[begunAt[s][t]]
    BY <1>0, <2>1 DEF ProposalFreshInv, ProposalWalkInv, CopiesAhead
  <2> HIDE DEF rest, w
  <2>5. CopiesAhead(s)'
    <3>1. CopiesAhead(s)
      BY DEF ProposalFreshInv, ProposalWalkInv
    <3>2. QED
      BY <1>0, <2>1, <2>3, <3>1 DEF CopiesAhead, Was
  <2>6. CASE page[t].status = fresh[t] /\ UNCHANGED records
    <3>1. ASSUME Calm PROVE WalkedProposals(s)'
      <4>1. Listed' = Listed /\ \A u \in Tokens : Place(u)' = Place(u)
        BY <2>6 DEF Listed, Place, NewerListed, records
      <4>2. \A u \in Tokens : UpToDate(s, u)' <=> UpToDate(s, u)
        BY <1>0, <2>6 DEF UpToDate, records
      <4>3. WalkedProposals(s)
        BY <3>1 DEF ProposalFreshInv, ProposalWalkInv
      <4>4. UpToDate(s, t)
        BY <1>0, <2>4, <2>6, <4>3 DEF WalkedProposals, UpToDate
      <4>5. Listed \subseteq Tokens
        BY DEF Listed
      <4>6. \A u \in Listed' : Place(u)' < worker[s].offset =>
                UpToDate(s, u)' \/ u \in DOMAIN rest
        BY <1>0, <2>1, <4>1, <4>2, <4>3, <4>4, <4>5 DEF WalkedProposals
      <4>7. \A u \in DOMAIN rest : /\ u \in Listed'
                                   /\ record'[u].status = rest[u].status \/ u \in outdated'
        BY <1>0, <2>1, <2>6, <4>1, <4>3 DEF WalkedProposals, records
      <4>8. QED
        BY <2>3, <4>6, <4>7 DEF WalkedProposals
    <3>2. QED
      BY <1>0, <2>3, <2>5, <2>6, <3>1, MovingWorker DEF records
  <2>7. CASE /\ page[t].status # fresh[t]
             /\ record' = [record EXCEPT ![t].status = fresh[t]]
             /\ shifted' = (shifted \/ fresh[t] = "abandoned")
             /\ outdated' = MadeGood(t, fresh[t])
    <3>1. /\ record' \in [Tokens -> Records] /\ record'[t].status = fresh[t]
          /\ \A u \in Tokens \ {t} : record'[u] = record[u]
      <4> HIDE DEF fresh
      <4>1. record[t] \in Records
        BY <1>0, <2>4 DEF ProposalsTyped
      <4>2. record' = [record EXCEPT ![t] = [record[t] EXCEPT !.status = fresh[t]]]
        BY <1>0, <2>4, <2>7 DEF ProposalsTyped
      <4>3. [record[t] EXCEPT !.status = fresh[t]] \in Records
            /\ [record[t] EXCEPT !.status = fresh[t]].status = fresh[t]
        BY <2>4, <4>1 DEF Records
      <4>4. QED
        BY <1>0, <2>4, <4>2, <4>3 DEF ProposalsTyped
    <3>2. outdated \ {t} \subseteq outdated'
      BY <2>7 DEF MadeGood
    <3>3. ASSUME Calm' PROVE WalkedProposals(s)' /\ ViewIsTrue'
      <4>1. Calm /\ fresh[t] \notin {"none", "abandoned"}
        BY <1>0, <2>4, <2>7, <3>3 DEF Calm, Was
      <4>2. WalkedProposals(s) /\ ViewIsTrue
        BY <4>1 DEF ProposalFreshInv, ProposalWalkInv
      <4>3. t \in Listed /\ \A u \in DOMAIN page : u \in Listed
        BY <1>0, <4>2 DEF WalkedProposals
      <4>4. Listed' = Listed
        <5>1. \A u \in Tokens : u \in Listed' <=> u \in Listed
          BY <2>4, <3>1, <4>1, <4>3 DEF Listed
        <5>2. Listed \subseteq Tokens /\ Listed' \subseteq Tokens
          BY DEF Listed
        <5>3. QED
          BY <5>1, <5>2
      <4>5. \A u \in Tokens : Place(u)' = Place(u)
        BY <4>4 DEF Place, NewerListed
      <4>6. UpToDate(s, t)'
        BY <1>0, <2>4, <3>1 DEF UpToDate
      <4>7. \A u \in Tokens : UpToDate(s, u) => UpToDate(s, u)'
        BY <1>0, <3>1, <3>2, <4>6 DEF UpToDate
      <4>8. \A u \in Listed' : Place(u)' < worker[s].offset =>
                UpToDate(s, u)' \/ u \in DOMAIN rest
        <5>1. Listed \subseteq Tokens
          BY DEF Listed
        <5>2. QED
          BY <1>0, <2>1, <4>2, <4>4, <4>5, <4>6, <4>7, <5>1 DEF WalkedProposals
      <4>9. \A u \in DOMAIN rest : /\ u \in Listed'
                                   /\ record'[u].status = rest[u].status \/ u \in outdated'
        BY <1>0, <2>1, <3>1, <3>2, <4>2, <4>3, <4>4 DEF WalkedProposals
      <4>10. ViewIsTrue'
        <5>1. CASE viewer.token = t
          BY <1>0, <4>2, <4>3, <5>1 DEF ViewIsTrue, Listed
        <5>2. CASE viewer.token # t
          BY <1>0, <3>1, <4>2, <5>2 DEF ViewIsTrue, ProposalsTyped
        <5>3. QED
          BY <5>1, <5>2
      <4>11. QED
        BY <2>3, <4>8, <4>9, <4>10 DEF WalkedProposals
    <3>4. shifted => shifted'
      BY <2>7
    <3>5. QED
      BY <1>0, <2>3, <2>4, <2>5, <3>1, <3>3, <3>4, SavingWorker
  <2>8. QED
    BY <1>3, <2>6, <2>7
<1>4. QED
  <2>1. CASE DOMAIN page = {}
    BY <1>2, <2>1 DEF UpdateProposalDetails
  <2>2. CASE DOMAIN page # {}
    <3>1. PICK t \in DOMAIN page :
             LET old == page[t]
                 new == fresh[t]
                 rest == [u \in DOMAIN page \ {t} |-> page[u]]
             IN CASE old.status = new ->
                       worker' = [worker EXCEPT ![s].page = rest] /\ UNCHANGED records
                  [] old.status # new /\ record[t].id # old.id ->
                       TryAgain(s) /\ UNCHANGED records
                  [] OTHER ->
                       /\ worker' = [worker EXCEPT ![s].page = rest]
                       /\ record' = [record EXCEPT ![t].status = new]
                       /\ shifted' = (shifted \/ new = "abandoned")
                       /\ outdated' = MadeGood(t, new)
      BY <2>2 DEF UpdateProposalDetails
    <3>2. CASE page[t].status = fresh[t]
      BY <1>3, <3>1, <3>2
    <3>3. CASE page[t].status # fresh[t] /\ record[t].id # page[t].id
      BY <1>1, <3>1, <3>3
    <3>4. CASE page[t].status # fresh[t] /\ record[t].id = page[t].id
      BY <1>3, <3>1, <3>4
    <3>5. QED
      BY <3>2, <3>3, <3>4
  <2>3. QED
    BY <2>1, <2>2

\* A record saved over another has the status and the identity of what is saved.
LEMMA OverwriteSaves ==
    ASSUME ProposalsTyped, NEW t \in Tokens, NEW status \in ProposalStatuses,
           NEW id \in 0 .. MaxProposalSyncs, Overwrite(t, status, id)
    PROVE  /\ record' \in [Tokens -> Records] /\ record'[t].status = status
           /\ \A u \in Tokens \ {t} : record'[u] = record[u]
<1>1. [status |-> status, id |-> id] \in Records
  BY DEF Records
<1>2. QED
  BY <1>1 DEF Overwrite, ProposalsTyped

\* A fetched proposal is saved, and is no longer to be fetched.
LEMMA SaveFetchedKeeps ==
    ASSUME ProposalFreshInv, NEW s \in ProposalSyncs, SaveFetchedProposal(s)
    PROVE  ProposalFreshInv'
<1> DEFINE fresh == worker[s].fresh
<1>0. /\ UNCHANGED <<inventory, viewer, begunAt, raced>>
      /\ worker[s].pc = "save" /\ WorkerActive(s) /\ ProposalsTyped /\ worker[s] \in Workers
  BY DEF SaveFetchedProposal, serverState, WorkerAt, WorkerActive, ProposalFreshInv,
         ProposalsTyped
<1>1. CASE TryAgain(s) /\ UNCHANGED records
  BY <1>0, <1>1, TryAgainKeeps DEF TryAgain, records
<1>2. ASSUME NEW t \in DOMAIN fresh, Overwrite(t, fresh[t], s), UNCHANGED <<outdated, shifted>>,
             worker' = [worker EXCEPT ![s].pc = "fetch", ![s].fresh = << >>,
                                      ![s].fetch = @ \ {t}]
      PROVE  ProposalFreshInv'
  <2> DEFINE fetch == worker[s].fetch \ {t}
             w == [worker[s] EXCEPT !.pc = "fetch", !.fresh = << >>, !.fetch = fetch]
  <2>1. /\ t \in Tokens /\ fresh[t] \in ProposalStatuses /\ t \in worker[s].fetch
        /\ Was(t, fresh[t]) /\ Rank[fresh[t]] >= Rank[begunAt[s][t]]
    <3>1. DOMAIN fresh \subseteq Tokens /\ fresh \in [DOMAIN fresh -> ProposalStatuses]
      BY <1>0, WorkerFields, ProposalPages
    <3>2. QED
      BY <1>0, <3>1 DEF ProposalFreshInv, ProposalWalkInv, CopiesAhead
  <2>2. worker' = [worker EXCEPT ![s] = w]
    BY <1>0, <1>2 DEF ProposalsTyped
  <2>3. WorkerTurns(s, w) /\ worker'[s].pc = "fetch" /\ worker'[s].fetch = fetch
    <3>1. "fetch" \in WorkerLabels /\ fetch \in SUBSET Tokens
      BY <1>0, WorkerFields DEF WorkerLabels, ProposalLabels
    <3> HIDE DEF fetch, WorkerLabels, CopyPages, StatusPages
    <3>2. w \in Workers
      BY <1>0, <3>1, ProposalPages DEF Workers
    <3>3. WorkerTurns(s, w)
      <4> HIDE DEF w
      <4>1. QED
        BY <1>0, <2>2, <3>2, RecordIsTurned
    <3>4. QED
      BY <1>0, <3>3 DEF WorkerTurns, Workers
  <2> HIDE DEF w
  <2>4. CopiesAhead(s)'
    BY <1>0, <2>3 DEF ProposalFreshInv, ProposalWalkInv, CopiesAhead
  <2>5. /\ record' \in [Tokens -> Records] /\ record'[t].status = fresh[t]
        /\ \A u \in Tokens \ {t} : record'[u] = record[u]
    <3>1. s \in 0 .. MaxProposalSyncs
      BY PoliteiaBounds DEF ProposalSyncs
    <3>2. QED
      BY <1>0, <1>2, <2>1, <3>1, OverwriteSaves
  <2>6. ASSUME Calm' PROVE WalkedProposals(s)' /\ ViewIsTrue'
    <3>1. Calm
      BY <1>0, <1>2, <2>6 DEF Calm
    <3>2. WalkedProposals(s) /\ ViewIsTrue
      BY <3>1 DEF ProposalFreshInv, ProposalWalkInv
    <3>3. UpToDate(s, t)'
      BY <1>0, <2>1, <2>5 DEF UpToDate
    <3>4. \A u \in Tokens : u \in fetch \/ UpToDate(s, u)'
      BY <1>0, <1>2, <2>5, <3>2, <3>3 DEF WalkedProposals, UpToDate
    <3>5. \A u \in fetch : record'[u] = NoRecord
      BY <1>0, <2>5, <3>2, WorkerFields DEF WalkedProposals
    <3>6. ViewIsTrue'
      <4>1. record[t].status = "none"
        BY <1>0, <2>1, <3>2 DEF WalkedProposals, NoRecord
      <4>2. QED
        BY <1>0, <2>5, <3>2, <4>1 DEF ViewIsTrue, ProposalsTyped
    <3>7. QED
      BY <2>3, <3>4, <3>5, <3>6 DEF WalkedProposals
  <2>7. QED
    BY <1>0, <1>2, <2>1, <2>3, <2>4, <2>5, <2>6, SavingWorker
<1>3. QED
  BY <1>1, <1>2 DEF SaveFetchedProposal

\* A sync that is checked, or is complete, has walked nowhere.
LEMMA EndsKeep ==
    ASSUME ProposalFreshInv, NEW s \in ProposalSyncs,
           CheckNoProposalSync(s) \/ CompleteProposalSync(s)
    PROVE  ProposalFreshInv'
<1>0. /\ UNCHANGED <<record, outdated, shifted, inventory, viewer, begunAt, raced>>
      /\ ProposalsTyped
  BY DEF CheckNoProposalSync, CompleteProposalSync, OnlyWorker, records, serverState,
         ProposalFreshInv
<1>1. CASE CompleteProposalSync(s)
  BY <1>0, <1>1, TryAgainKeeps DEF CompleteProposalSync, WorkerAt, WorkerActive
<1>2. ASSUME NEW label \in {"publish", "done"}, WorkerGoes(s, label) PROVE ProposalFreshInv'
  <2> DEFINE w == [worker[s] EXCEPT !.pc = label]
  <2>1. WorkerTurns(s, w) /\ worker'[s].pc = label
    BY <1>0, <1>2, WorkerGoesTurns DEF WorkerLabels
  <2>2. CopiesAhead(s)' /\ WalkedProposals(s)'
    BY <2>1, RestingWorker
  <2>3. w.pc \in {"unborn", "publish", "done"}
    BY <2>1 DEF WorkerTurns
  <2> HIDE DEF w
  <2>4. QED
    BY <1>0, <2>1, <2>2, <2>3, MovingWorker
<1>3. QED
  BY <1>1, <1>2 DEF CheckNoProposalSync

\* What a sync began with changes as it begins and ends; it then rests.
LEMMA BeginningKeeps ==
    ASSUME ProposalFreshInv, NEW s \in ProposalSyncs, NEW w, WorkerTurns(s, w),
           NEW begun \in [Tokens -> ProposalStatuses], begunAt' = [begunAt EXCEPT ![s] = begun],
           \A t \in Tokens : Rank[begun[t]] <= Rank[inventory[t]],
           CopiesAhead(s)', WalkedProposals(s)',
           raced => raced', ~raced' => \A r \in ProposalSyncs \ {s} : WorkerActive(s)' =>
                                           ~WorkerActive(r),
           UNCHANGED <<record, outdated, shifted, inventory, viewer>>
    PROVE  ProposalFreshInv'
<1>1. ProposalsTyped' /\ \A r \in ProposalSyncs \ {s} : begunAt'[r] = begunAt[r]
  BY DEF ProposalFreshInv, ProposalsTyped, WorkerTurns
<1>2. ServerAhead'
  <2>1. \A r \in ProposalSyncs, t \in Tokens : Rank[begunAt'[r][t]] <= Rank[inventory[t]]
    BY <1>1 DEF ProposalFreshInv, ProposalWalkInv, ServerAhead, ProposalsTyped
  <2>2. QED
    BY <2>1 DEF ProposalFreshInv, ProposalWalkInv, ServerAhead, Was
<1>3. AloneActive'
  <2>1. \A r \in ProposalSyncs \ {s} : WorkerActive(r)' => WorkerActive(r)
    BY DEF WorkerTurns, WorkerActive
  <2>2. QED
    BY <2>1 DEF ProposalFreshInv, ProposalWalkInv, AloneActive, ProposalsTyped
<1>4. \A r \in ProposalSyncs : CopiesAhead(r)'
  <2>1. \A r \in ProposalSyncs \ {s} : CopiesAhead(r)'
    BY <1>1 DEF ProposalFreshInv, ProposalWalkInv, WorkerTurns, CopiesAhead, Was
  <2>2. QED
    BY <2>1
<1>5. ASSUME Calm' PROVE ViewIsTrue' /\ \A r \in ProposalSyncs : WalkedProposals(r)'
  <2>1. Calm
    BY <1>5 DEF Calm
  <2>2. RecordsStand
    BY DEF RecordsStand, Listed
  <2>3. \A r \in ProposalSyncs \ {s} : WalkedProposals(r)'
    BY <1>1, <2>1, <2>2, StandingWorker DEF ProposalFreshInv, ProposalWalkInv, WorkerTurns
  <2>4. ViewIsTrue'
    BY <2>1 DEF ProposalFreshInv, ProposalWalkInv, ViewIsTrue
  <2>5. QED
    BY <2>3, <2>4
<1>6. QED
  BY <1>1, <1>2, <1>3, <1>4, <1>5 DEF ProposalFreshInv, ProposalWalkInv

\* A sync is published when it finds nothing active, or the race is known.
LEMMA PublishKeeps ==
    ASSUME ProposalFreshInv, NEW s \in ProposalSyncs, PublishProposalSync(s)
    PROVE  ProposalFreshInv'
<1>1. WorkerTurns(s, NotSyncing("top"))
  BY WorkerStartsTurns
     DEF PublishProposalSync, ProposalFreshInv, WorkerLabels, ProposalLabels
<1>2. worker'[s].pc = "top" /\ worker'[s].offset = 0
  BY <1>1 DEF WorkerTurns, NotSyncing
<1>3. CopiesAhead(s)' /\ WalkedProposals(s)'
  BY <1>2, RestingWorker
<1>4. /\ inventory \in [Tokens -> ProposalStatuses] /\ begunAt' = [begunAt EXCEPT ![s] = inventory]
      /\ UNCHANGED <<record, outdated, shifted, inventory, viewer>>
      /\ raced' = (raced \/ \E r \in ProposalSyncs : WorkerActive(r))
  BY DEF PublishProposalSync, records, serverState, ProposalFreshInv, ProposalsTyped
<1>5. \A t \in Tokens : Rank[inventory[t]] <= Rank[inventory[t]]
  <2>1. \A t \in Tokens : Rank[inventory[t]] \in Nat
    BY <1>4, RanksAreNumbers
  <2>2. QED
    BY <2>1
<1>6. /\ raced => raced'
      /\ ~raced' => \A r \in ProposalSyncs \ {s} : WorkerActive(s)' => ~WorkerActive(r)
  BY <1>4
<1>7. QED
  BY <1>1, <1>3, <1>4, <1>5, <1>6, BeginningKeeps

\* A sync that has ended began with nothing.
LEMMA EndKeeps ==
    ASSUME ProposalFreshInv, NEW s \in ProposalSyncs, EndProposalSync(s)
    PROVE  ProposalFreshInv'
<1> DEFINE begun == [t \in Tokens |-> "none"]
<1>1. WorkerTurns(s, [worker[s] EXCEPT !.pc = "done"]) /\ worker'[s].pc = "done"
  BY WorkerGoesTurns DEF EndProposalSync, ProposalFreshInv, WorkerLabels
<1>2. CopiesAhead(s)' /\ WalkedProposals(s)'
  BY <1>1, RestingWorker
<1>3. /\ begun \in [Tokens -> ProposalStatuses] /\ begunAt' = [begunAt EXCEPT ![s] = begun]
      /\ UNCHANGED <<record, outdated, shifted, inventory, viewer, raced>>
  BY RanksAreNumbers DEF EndProposalSync, records, serverState
<1>4. \A t \in Tokens : Rank[begun[t]] <= Rank[inventory[t]]
  <2>1. \A t \in Tokens : Rank[inventory[t]] \in Nat
    BY RanksAreNumbers DEF ProposalFreshInv, ProposalsTyped
  <2>2. QED
    BY <2>1, RanksAreNumbers
<1>5. ~WorkerActive(s)'
  BY <1>1 DEF WorkerActive
<1> HIDE DEF begun
<1>6. QED
  BY <1>1, <1>2, <1>3, <1>4, <1>5, BeginningKeeps

-----------------------------------------------------------------------------
(* The details page and the server                                         *)

\* The page goes on with the copy it has, if any, or takes one of a record that is there.
LEMMA ViewingKeeps ==
    ASSUME ProposalFreshInv,
           UNCHANGED <<worker, begunAt, raced, shifted, record, outdated, inventory>>,
           \/ \E label \in {"assign", "read"} : ViewerGoes(label)
           \/ viewer.pc \in WithACopy /\ \E label \in ViewerLabels : ViewerGoes(label)
           \/ viewer' = NothingOpen
           \/ Reads
    PROVE  ProposalFreshInv'
<1>0. /\ viewer \in [pc : ViewerLabels, token : Tokens \cup {1}, copy : Records]
      /\ record \in [Tokens -> Records]
  BY DEF ProposalFreshInv, ProposalsTyped
<1>1. \A label \in ViewerLabels :
          ViewerGoes(label) => /\ viewer' \in [pc : ViewerLabels, token : Tokens \cup {1},
                                               copy : Records]
                               /\ viewer'.pc = label /\ viewer'.token = viewer.token
                               /\ viewer'.copy = viewer.copy
  BY <1>0 DEF ViewerGoes
<1>2. NothingOpen \in [pc : ViewerLabels, token : Tokens \cup {1}, copy : Records]
      /\ NothingOpen.pc \notin WithACopy
  <2>1. NoRecord \in Records
    BY PoliteiaBounds DEF NoRecord, Records, ProposalStatuses
  <2>2. QED
    BY <2>1 DEF NothingOpen, ViewerLabels, WithACopy
<1>3. Reads => \/ viewer' = NothingOpen
               \/ \E t \in Tokens :
                     /\ record[t] # NoRecord /\ viewer'.token = t /\ viewer'.copy = record[t]
                     /\ viewer' \in [pc : ViewerLabels, token : Tokens \cup {1}, copy : Records]
  <2> SUFFICES ASSUME Reads, viewer' # NothingOpen
               PROVE  \E t \in Tokens :
                         /\ record[t] # NoRecord /\ viewer'.token = t /\ viewer'.copy = record[t]
                         /\ viewer' \in [pc : ViewerLabels, token : Tokens \cup {1},
                                         copy : Records]
    OBVIOUS
  <2>1. PICK t \in Tokens : /\ record[t] # NoRecord
                            /\ viewer' = [pc |-> IF client = "nil" THEN "client" ELSE "asked",
                                          token |-> t, copy |-> record[t]]
    BY DEF Reads
  <2>2. QED
    BY <1>0, <2>1 DEF ViewerLabels
<1>4. \/ /\ viewer' \in [pc : ViewerLabels, token : Tokens \cup {1}, copy : Records]
         /\ viewer'.pc \notin WithACopy
      \/ /\ viewer' \in [pc : ViewerLabels, token : Tokens \cup {1}, copy : Records]
         /\ viewer.pc \in WithACopy /\ viewer'.token = viewer.token
         /\ viewer'.copy = viewer.copy
      \/ \E t \in Tokens :
            /\ record[t] # NoRecord /\ viewer'.token = t /\ viewer'.copy = record[t]
            /\ viewer' \in [pc : ViewerLabels, token : Tokens \cup {1}, copy : Records]
  BY <1>1, <1>2, <1>3 DEF ViewerLabels, WithACopy
<1>5. ProposalsTyped'
  BY <1>4 DEF ProposalFreshInv, ProposalsTyped
<1>6. ServerAhead'
  BY <1>0, <1>4 DEF ProposalFreshInv, ProposalWalkInv, ServerAhead, Was
<1>7. RecordsStand /\ (Calm => ViewIsTrue')
  BY <1>4 DEF RecordsStand, Listed, ViewIsTrue, ProposalFreshInv, ProposalWalkInv
<1>8. QED
  BY <1>5, <1>6, <1>7, StandingWorkers

\* A copy that is saved excuses its record, or is as the record is.
LEMMA SaveDescriptionKeeps ==
    ASSUME ProposalFreshInv, SaveDescription
    PROVE  ProposalFreshInv'
<1> DEFINE t == viewer.token
           status == viewer.copy.status
<1>1. /\ viewer.pc \in WithACopy /\ viewer' = NothingOpen
      /\ UNCHANGED <<worker, begunAt, raced, shifted, inventory>>
  BY DEF SaveDescription, WithACopy, serverState, records
<1>2. CASE UNCHANGED records
  BY <1>1, <1>2, ViewingKeeps DEF records
<1>3. CASE /\ Overwrite(t, status, viewer.copy.id)
           /\ outdated' = IF status # record[t].status THEN outdated \cup {t} ELSE outdated
  <2>1. /\ t \in Tokens /\ status \in ProposalStatuses /\ Was(t, status)
        /\ viewer.copy.id \in 0 .. MaxProposalSyncs
        /\ record[t].status # "none" /\ ProposalsTyped
    BY <1>1 DEF ProposalFreshInv, ProposalsTyped, ProposalWalkInv, ServerAhead, Records
  <2>2. /\ record' \in [Tokens -> Records] /\ record'[t].status = status
        /\ \A u \in Tokens \ {t} : record'[u] = record[u]
    BY <1>3, <2>1, OverwriteSaves
  <2>0. /\ viewer' \in [pc : ViewerLabels, token : Tokens \cup {1}, copy : Records]
        /\ viewer'.pc \notin WithACopy
    <3>1. NoRecord \in Records
      BY PoliteiaBounds DEF NoRecord, Records, ProposalStatuses
    <3>2. QED
      BY <1>1, <3>1 DEF NothingOpen, ViewerLabels, WithACopy
  <2>3. ProposalsTyped'
    BY <1>1, <2>0, <2>1, <2>2 DEF ProposalsTyped
  <2> HIDE DEF t, status
  <2>4. ServerAhead'
    <3>1. \A u \in Tokens : record'[u] = NoRecord \/ Was(u, record'[u].status)
      BY <2>1, <2>2 DEF ProposalFreshInv, ProposalWalkInv, ServerAhead
    <3>2. QED
      BY <1>1, <2>0, <3>1 DEF ProposalFreshInv, ProposalWalkInv, ServerAhead, Was
  <2>5. ASSUME Calm PROVE RecordsStand /\ ViewIsTrue'
    <3>1. status = "abandoned" => record[t].status = "abandoned"
      BY <1>1, <2>5 DEF ProposalFreshInv, ProposalWalkInv, ViewIsTrue, t, status
    <3>2. \A u \in Tokens : u \in Listed => u \in Listed'
      BY <2>1, <2>2, <3>1 DEF Listed, Was
    <3>3. Listed \subseteq Listed'
      BY <3>2 DEF Listed
    <3>4. \A u \in Tokens : u \in outdated'
                            \/ (u \notin outdated /\ record'[u].status = record[u].status)
      BY <1>3, <2>1, <2>2
    <3>5. \A u \in Tokens : record[u] = NoRecord => record'[u] = NoRecord
      BY <2>1, <2>2 DEF NoRecord
    <3>6. QED
      BY <2>0, <3>3, <3>4, <3>5 DEF RecordsStand, ViewIsTrue
  <2>6. QED
    BY <1>1, <2>3, <2>4, <2>5, StandingWorkers
<1>4. QED
  BY <1>2, <1>3 DEF SaveDescription

\* The steps of the page.
LEMMA ViewerStepsKeep ==
    ASSUME ProposalFreshInv, OpenProposal \/ ViewerStep
    PROVE  ProposalFreshInv'
<1>1. CASE SaveDescription
  BY <1>1, SaveDescriptionKeeps
<1>2. CASE OpenProposal \/ AssignBackground \/ ReadProposal
  <2>1. UNCHANGED <<worker, begunAt, raced, shifted, record, outdated, inventory>>
    BY <1>2 DEF OpenProposal, AssignBackground, ReadProposal, OnlyViewer, records, serverState
  <2>2. Reads \/ \E label \in {"assign", "read"} : ViewerGoes(label)
    BY <1>2 DEF OpenProposal, AssignBackground, ReadProposal
  <2>3. QED
    BY <2>1, <2>2, ViewingKeeps
<1>3. CASE GetViewersClient \/ ViewersServerPolicy
  <2>1. UNCHANGED <<worker, begunAt, raced, shifted, record, outdated, inventory>>
    BY <1>3 DEF GetViewersClient, ViewersServerPolicy, records, serverState
  <2>2. viewer.pc \in WithACopy
    BY <1>3 DEF GetViewersClient, ViewersServerPolicy, WithACopy
  <2>3. viewer' = NothingOpen \/ \E label \in ViewerLabels : ViewerGoes(label)
    BY <1>3 DEF GetViewersClient, ViewersServerPolicy, ViewerLabels
  <2>4. QED
    BY <2>1, <2>2, <2>3, ViewingKeeps
<1>4. QED
  BY <1>1, <1>2, <1>3 DEF ViewerStep

\* The server only goes on.
LEMMA MovesOnKeeps ==
    ASSUME ProposalFreshInv, ProposalMovesOn
    PROVE  ProposalFreshInv'
<1>1. PICK t \in Tokens : \E status \in Later(inventory[t]) :
                              inventory' = [inventory EXCEPT ![t] = status]
  BY DEF ProposalMovesOn
<1>2. PICK status \in Later(inventory[t]) : inventory' = [inventory EXCEPT ![t] = status]
  BY <1>1
<1>3. UNCHANGED <<worker, begunAt, raced, shifted, record, outdated, viewer>>
  BY DEF ProposalMovesOn, records
<1>4. /\ status \in ProposalStatuses \ {"none"} /\ inventory[t] \in ProposalStatuses
      /\ inventory[t] # "abandoned" /\ Rank[inventory[t]] <= Rank[status]
  <2>1. inventory[t] \in ProposalStatuses
    BY DEF ProposalFreshInv, ProposalsTyped
  <2>2. QED
    BY <1>2, <2>1 DEF Later, ProposalStatuses, Rank
<1>5. ProposalsTyped'
  BY <1>2, <1>3, <1>4 DEF ProposalFreshInv, ProposalsTyped
<1>6. \A u \in Tokens : /\ inventory[u] # "none" => inventory'[u] # "none"
                        /\ inventory[u] = "abandoned" => inventory'[u] = "abandoned"
  BY <1>2, <1>4 DEF ProposalFreshInv, ProposalsTyped
<1>7. ServerAhead'
  <2>1. \A s \in ProposalSyncs, u \in Tokens :
            /\ Rank[begunAt[s][u]] \in Nat /\ Rank[inventory[u]] \in Nat
            /\ Rank[begunAt[s][u]] <= Rank[inventory[u]]
    BY RanksAreNumbers DEF ProposalFreshInv, ProposalsTyped, ProposalWalkInv, ServerAhead
  <2>2. Rank[status] \in Nat
    BY <1>4, RanksAreNumbers
  <2>3. \A s \in ProposalSyncs, u \in Tokens : Rank[begunAt[s][u]] <= Rank[inventory'[u]]
    <3>1. SUFFICES ASSUME NEW s \in ProposalSyncs, NEW u \in Tokens
                   PROVE  Rank[begunAt[s][u]] <= Rank[inventory'[u]]
      OBVIOUS
    <3>2. CASE u = t
      <4>1. inventory'[u] = status
        BY <1>2, <3>2 DEF ProposalFreshInv, ProposalsTyped
      <4>2. QED
        BY <1>4, <2>1, <2>2, <3>2, <4>1
    <3>3. CASE u # t
      BY <1>2, <2>1, <3>3 DEF ProposalFreshInv, ProposalsTyped
    <3>4. QED
      BY <3>2, <3>3
  <2>4. QED
    BY <1>3, <1>6, <2>3 DEF ProposalFreshInv, ProposalsTyped, ProposalWalkInv, ServerAhead, Was
<1>8. RecordsStand /\ (Calm => ViewIsTrue')
  BY <1>3 DEF RecordsStand, Listed, ProposalFreshInv, ProposalWalkInv, ViewIsTrue
<1>9. QED
  BY <1>3, <1>5, <1>6, <1>7, <1>8, StandingWorkers

\* A step that touches neither the walk nor what it reads.
LEMMA OtherStepsKeep ==
    ASSUME ProposalFreshInv,
           UNCHANGED <<worker, begunAt, raced, shifted, record, outdated, viewer, inventory>>
    PROVE  ProposalFreshInv'
<1>1. ProposalsTyped' /\ ServerAhead'
  BY DEF ProposalFreshInv, ProposalsTyped, ProposalWalkInv, ServerAhead, Was
<1>2. RecordsStand /\ (Calm => ViewIsTrue')
  BY DEF RecordsStand, Listed, ProposalFreshInv, ProposalWalkInv, ViewIsTrue
<1>3. QED
  BY <1>1, <1>2, StandingWorkers

-----------------------------------------------------------------------------
(* The theorem                                                             *)

\* The invariant holds in every state.
LEMMA ProposalWalkHolds == PoliteiaSpec => []ProposalFreshInv
<1>1. PoliteiaInit => ProposalFreshInv
  <2> SUFFICES ASSUME PoliteiaInit PROVE ProposalFreshInv
    OBVIOUS
  <2>1. \A s \in ProposalSyncs : worker[s] = NotSyncing("unborn")
    BY DEF PoliteiaInit
  <2>2. NotSyncing("unborn") \in Workers
    <3>1. "unborn" \in WorkerLabels /\ 0 \in 0 .. MaxProposals /\ {} \in SUBSET Tokens
      BY PoliteiaBounds DEF WorkerLabels
    <3> HIDE DEF WorkerLabels, CopyPages, StatusPages
    <3>2. QED
      BY <3>1, ProposalPages DEF NotSyncing, Workers
  <2>3. /\ inventory \in [Tokens -> ProposalStatuses] /\ record \in [Tokens -> Records]
        /\ \A t \in Tokens : record[t] = NoRecord \/ Was(t, record[t].status)
    <3>1. 0 \in 0 .. MaxProposalSyncs
      BY PoliteiaBounds
    <3>2. NoRecord \in Records /\ \A status \in ProposalStatuses : SavedAs(status) \in Records
      BY <3>1 DEF NoRecord, SavedAs, Records, ProposalStatuses
    <3>3. /\ Published \in [Tokens -> ProposalStatuses]
          /\ \A t \in Tokens : Published[t] \in {"active", "pre"}
      BY DEF Published, ProposalStatuses
    <3>4. CASE record = [t \in Tokens |-> NoRecord] /\ inventory = Published
      BY <3>2, <3>3, <3>4
    <3>5. CASE /\ record = [t \in Tokens |-> SavedAs(Published[t])]
               /\ inventory = [Published EXCEPT ![1] = "finished"]
      <4>1. \A t \in Tokens : inventory[t] \in {"active", "pre", "finished"}
        BY <3>3, <3>5
      <4>2. inventory \in [Tokens -> ProposalStatuses]
        BY <3>3, <3>5 DEF ProposalStatuses
      <4>3. \A t \in Tokens : record[t].status \in {"active", "pre"}
        BY <3>3, <3>5 DEF SavedAs
      <4>4. QED
        BY <3>2, <3>3, <3>5, <4>1, <4>2, <4>3 DEF Was
    <3>6. QED
      BY <3>4, <3>5 DEF PoliteiaInit
  <2>4. ProposalsTyped
    <3>1. worker \in [ProposalSyncs -> Workers]
      <4> HIDE DEF Workers
      <4>1. QED
        BY <2>2 DEF PoliteiaInit
    <3>2. /\ viewer \in [pc : ViewerLabels, token : Tokens \cup {1}, copy : Records]
          /\ viewer.pc \notin WithACopy
      <4>1. NoRecord \in Records
        BY PoliteiaBounds DEF NoRecord, Records, ProposalStatuses
      <4>2. QED
        BY <4>1 DEF PoliteiaInit, NothingOpen, ViewerLabels, WithACopy
    <3>3. begunAt \in [ProposalSyncs -> [Tokens -> ProposalStatuses]]
      BY RanksAreNumbers DEF PoliteiaInit
    <3>4. QED
      BY <2>3, <3>1, <3>2, <3>3 DEF ProposalsTyped
  <2>5. ServerAhead
    <3>1. \A t \in Tokens : Rank[inventory[t]] \in Nat
      BY <2>3, RanksAreNumbers
    <3>2. \A s \in ProposalSyncs, t \in Tokens : Rank[begunAt[s][t]] = 0
      BY RanksAreNumbers DEF PoliteiaInit
    <3>3. viewer.pc \notin WithACopy
      BY DEF PoliteiaInit, NothingOpen, WithACopy
    <3>4. QED
      BY <2>3, <3>1, <3>2, <3>3 DEF ServerAhead
  <2>6. AloneActive /\ \A s \in ProposalSyncs : CopiesAhead(s) /\ WalkedProposals(s)
    BY <2>1 DEF AloneActive, WorkerActive, CopiesAhead, WalkedProposals, NotSyncing
  <2>7. ViewIsTrue
    BY DEF PoliteiaInit, NothingOpen, ViewIsTrue, WithACopy
  <2>8. QED
    BY <2>4, <2>5, <2>6, <2>7 DEF ProposalFreshInv, ProposalWalkInv
<1>2. ProposalFreshInv /\ [PoliteiaNext]_politeiaVars => ProposalFreshInv'
  <2> SUFFICES ASSUME ProposalFreshInv, [PoliteiaNext]_politeiaVars PROVE ProposalFreshInv'
    OBVIOUS
  <2>1. ASSUME NEW s \in ProposalSyncs, WorkerStep(s) PROVE ProposalFreshInv'
    <3>1. CASE PublishProposalSync(s)
      BY <3>1, PublishKeeps
    <3>2. CASE EndProposalSync(s)
      BY <3>2, EndKeeps
    <3>3. CASE \/ ExitProposalSync(s) \/ GetClient(s) \/ ServerPolicy(s)
               \/ RefuseWithoutPolicy(s) \/ CheckForUpdates(s)
      BY <3>3, FirstStepsKeep
    <3>4. CASE NextProposalPage(s)
      BY <3>4, NextProposalPageKeeps
    <3>5. CASE AskKnownProposals(s)
      BY <3>5, AskKnownProposalsKeeps
    <3>6. CASE UpdateProposalDetails(s)
      BY <3>6, UpdateDetailsKeeps
    <3>7. CASE HandleNewProposals(s)
      BY <3>7, HandleNewProposalsKeeps
    <3>8. CASE FetchBatchProposals(s)
      BY <3>8, FetchBatchKeeps
    <3>9. CASE SaveFetchedProposal(s)
      BY <3>9, SaveFetchedKeeps
    <3>10. CASE CompleteProposalSync(s)
      BY <3>10, EndsKeep
    <3>11. QED
      BY <2>1, <3>1, <3>2, <3>3, <3>4, <3>5, <3>6, <3>7, <3>8, <3>9, <3>10 DEF WorkerStep
  <2>2. CASE OpenProposal \/ ViewerStep
    BY <2>2, ViewerStepsKeep
  <2>3. CASE ServerComesUp \/ StopProposalSync \/ ServerGoesDown
    BY <2>3, OtherStepsKeep
       DEF ServerComesUp, StopProposalSync, CheckBeforeStopSync, CallCancelSync,
           ClearCancelSync, ServerGoesDown, records, serverState
  <2>4. ASSUME NEW s \in ProposalSyncs, CheckNoProposalSync(s) PROVE ProposalFreshInv'
    BY <2>4, EndsKeep
  <2>5. CASE ProposalMovesOn
    BY <2>5, MovesOnKeeps
  <2>6. CASE UNCHANGED politeiaVars
    BY <2>6, OtherStepsKeep DEF politeiaVars, records, serverState
  <2>7. QED
    BY <2>1, <2>2, <2>3, <2>4, <2>5, <2>6 DEF PoliteiaNext
<1>3. QED
  BY <1>1, <1>2, PTL DEF PoliteiaSpec

\* A sync of the proposals that completes has saved, of every proposal, a status at least
\* as late as the server's when the sync began, whatever failed and was tried again and
\* however many pages there were, unless what excuses it happened.
THEOREM CompletedProposalSyncsAreFresh == PoliteiaSpec => CompletedProposalSyncIsFresh
<1>1. ProposalFreshInv =>
          \A s \in ProposalSyncs : CompleteProposalSync(s) /\ ~raced /\ ~shifted =>
              \A t \in Tokens \ outdated : Rank[record[t].status] >= Rank[begunAt[s][t]]
  BY DEF ProposalFreshInv, ProposalWalkInv, Calm, WalkedProposals, UpToDate,
         CompleteProposalSync, WorkerAt
<1>2. QED
  BY <1>1, ProposalWalkHolds, PTL DEF CompletedProposalSyncIsFresh

\* Every variable of the proposals keeps its type, for any number of syncs and proposals.
THEOREM PoliteiaTypeCorrect == PoliteiaSpec => []PoliteiaTypeOK
<1> DEFINE Rest ==
        /\ cancelProposals \in ProposalSyncs \cup {NoProposalSync}
        /\ politeiaCtx \in ProposalSyncs \cup {NoProposalSync, Background}
        /\ endedCtx \subseteq ProposalSyncs
        /\ client \in {"nil", "noPolicy", "emptyPolicy", "ready"}
        /\ outdated \subseteq Tokens
        /\ serverEvents \in 0 .. MaxServerEvents /\ views \in 0 .. MaxViews
        /\ stopper \in {"idle", "call", "clear", "done"} /\ nilStop \in BOOLEAN
        /\ serverUp \in BOOLEAN /\ raced \in BOOLEAN /\ shifted \in BOOLEAN
<1>1. PoliteiaInit => Rest
  BY DEF PoliteiaInit
<1>2. Rest /\ ProposalFreshInv /\ [PoliteiaNext]_politeiaVars => Rest'
  <2> SUFFICES ASSUME Rest, ProposalFreshInv, [PoliteiaNext]_politeiaVars PROVE Rest'
    OBVIOUS
  <2> USE DEF politeiaFields, serverState, records, stopping
  <2>1. ASSUME NEW s \in ProposalSyncs, WorkerStep(s) PROVE Rest'
    <3>1. CASE PublishProposalSync(s)
      BY <3>1 DEF PublishProposalSync
    <3>2. CASE EndProposalSync(s)
      BY <3>2 DEF EndProposalSync
    <3>3. CASE GetClient(s) \/ ServerPolicy(s)
      BY <3>3 DEF GetClient, ServerPolicy
    <3>4. CASE UpdateProposalDetails(s)
      <4>1. outdated' \subseteq outdated /\ shifted' \in BOOLEAN
        BY <3>4 DEF UpdateProposalDetails, MadeGood
      <4>2. UNCHANGED <<politeiaFields, client, viewer, serverState, views, stopping, raced>>
        BY <3>4 DEF UpdateProposalDetails
      <4>3. QED
        BY <4>1, <4>2
    <3>5. CASE SaveFetchedProposal(s)
      <4>1. outdated' = outdated /\ shifted' = shifted
        BY <3>5 DEF SaveFetchedProposal
      <4>2. UNCHANGED <<politeiaFields, client, viewer, serverState, views, stopping, raced>>
        BY <3>5 DEF SaveFetchedProposal
      <4>3. QED
        BY <4>1, <4>2
    <3>6. CASE OnlyWorker
      BY <3>6 DEF OnlyWorker
    <3>7. QED
      BY <2>1, <3>1, <3>2, <3>3, <3>4, <3>5, <3>6
         DEF WorkerStep, ExitProposalSync, RefuseWithoutPolicy, CheckForUpdates,
             NextProposalPage, AskKnownProposals, HandleNewProposals, FetchBatchProposals,
             CompleteProposalSync
  <2>2. CASE OpenProposal
    <3>1. views' \in 0 .. MaxViews
      BY <2>2, PoliteiaBounds DEF OpenProposal
    <3>2. QED
      BY <2>2, <3>1 DEF OpenProposal
  <2>3. CASE ViewerStep
    <3>1. CASE AssignBackground
      BY <3>1 DEF AssignBackground
    <3>2. CASE ReadProposal
      BY <3>2 DEF ReadProposal, OnlyViewer
    <3>3. CASE GetViewersClient \/ ViewersServerPolicy
      BY <3>3 DEF GetViewersClient, ViewersServerPolicy
    <3>4. CASE SaveDescription
      <4>1. /\ shifted' = shifted /\ viewer.token \in Tokens
            /\ outdated' \subseteq outdated \cup {viewer.token}
        BY <3>4 DEF SaveDescription, ProposalFreshInv, ProposalsTyped, WithACopy
      <4>2. UNCHANGED <<politeiaFields, client, serverState, views, stopping, raced>>
        BY <3>4 DEF SaveDescription
      <4>3. QED
        BY <4>1, <4>2
    <3>5. QED
      BY <2>3, <3>1, <3>2, <3>3, <3>4 DEF ViewerStep
  <2>4. CASE ServerComesUp \/ StopProposalSync
    BY <2>4 DEF ServerComesUp, StopProposalSync, CheckBeforeStopSync, CallCancelSync,
                ClearCancelSync
  <2>5. ASSUME NEW s \in ProposalSyncs, CheckNoProposalSync(s) PROVE Rest'
    BY <2>5 DEF CheckNoProposalSync, OnlyWorker
  <2>6. CASE ProposalMovesOn \/ ServerGoesDown
    <3>1. serverEvents' \in 0 .. MaxServerEvents
      BY <2>6, PoliteiaBounds DEF ProposalMovesOn, ServerGoesDown, ServerEvent
    <3>2. QED
      BY <2>6, <3>1 DEF ProposalMovesOn, ServerGoesDown
  <2>7. CASE UNCHANGED politeiaVars
    BY <2>7 DEF politeiaVars
  <2>8. QED
    BY <2>1, <2>2, <2>3, <2>4, <2>5, <2>6, <2>7 DEF PoliteiaNext
<1>3. Rest /\ ProposalFreshInv => PoliteiaTypeOK
  <2> SUFFICES ASSUME Rest, ProposalFreshInv PROVE PoliteiaTypeOK
    OBVIOUS
  <2>1. ASSUME NEW s \in ProposalSyncs
        PROVE  /\ worker[s].pc \in WorkerLabels /\ worker[s].offset \in 0 .. MaxProposals
               /\ DOMAIN worker[s].page \subseteq Tokens /\ worker[s].fetch \subseteq Tokens
               /\ \A t \in DOMAIN worker[s].page : worker[s].page[t] \in Records
    BY WorkerFields, ProposalPages DEF ProposalFreshInv
  <2>2. viewer.pc \in ViewerLabels /\ viewer.copy \in Records
    BY DEF ProposalFreshInv, ProposalsTyped
  <2>3. QED
    BY <2>1, <2>2
       DEF PoliteiaTypeOK, ProposalFreshInv, ProposalsTyped, WorkerLabels, ProposalLabels,
           ViewerLabels
<1> HIDE DEF Rest
<1>4. QED
  BY <1>1, <1>2, <1>3, ProposalWalkHolds, PTL DEF PoliteiaSpec

-----------------------------------------------------------------------------
(* TicketBuyer                                                             *)

BuyerLabels == {"unborn", "publish", "vsp", "failed", "run", "stop", "done"}

PurchaseRecords == [at : Nat, left : Int, expiry : Int, cancelled : BOOLEAN]

\* What the steps assume of the shape of the state.
BuyerShape ==
    /\ buyer \in [Buyers -> [pc : BuyerLabels, nextIntervalStart : Int, expiry : Int, seen : Nat]]
    /\ ongoing \in [Buyers -> SUBSET PurchaseRecords]
    /\ funds \in Int /\ tip \in Nat

\* The modal makes one call at a time; between the look at the field and the
\* assignment nobody else sets it; and whoever has published and was not stopped is
\* in it.
FieldIsTaken ==
    /\ \A a, b \in Buyers : Starting(a) /\ Starting(b) => a = b
    /\ \A b \in Buyers : BuyerAt(b, "publish") => cancelAutoTicketBuyer = NoBuyer
    /\ \A b \in Buyers : buyer[b].pc \in {"vsp", "run"}
                            => cancelAutoTicketBuyer = b \/ b \in stoppedBuyers

\* The interval a buyer remembers is that of the last tip it saw, with the expiry at
\* its end; or it is over for tickets, and the next tip is late for it.
IntervalIsKept ==
    \A b \in Buyers :
        /\ buyer[b].seen <= tip
        /\ \/ buyer[b].seen + 2 >= buyer[b].nextIntervalStart
           \/ /\ buyer[b].nextIntervalStart = IntervalEnd(buyer[b].seen)
              /\ buyer[b].expiry = buyer[b].nextIntervalStart

\* A purchase that was not cancelled is one of the interval its buyer remembers: it has
\* the expiry of the buyer, and the price of the blocks before it.
PurchasesAreOfTheInterval ==
    \A b \in Buyers : \A p \in ongoing[b] : ~p.cancelled =>
        /\ BuyerAt(b, "run") /\ p.expiry = buyer[b].expiry
        /\ PriceOf(p) = Interval(p.expiry - 1)

BuyerInv == BuyerShape /\ FieldIsTaken /\ IntervalIsKept /\ PurchasesAreOfTheInterval

-----------------------------------------------------------------------------
(* Price intervals                                                         *)

\* A height lies between the start and the end of its interval.
LEMMA HeightInInterval ==
    ASSUME NEW h \in Nat
    PROVE  /\ Interval(h) \in Nat /\ IntervalEnd(h) \in Nat
           /\ IntervalEnd(h) - StakeDiffWindowSize <= h /\ h < IntervalEnd(h)
<1> USE TicketBuyerBounds
<1>1. Interval(h) \in Nat /\ Interval(h) * StakeDiffWindowSize <= h
      /\ h < Interval(h) * StakeDiffWindowSize + StakeDiffWindowSize
  BY SMTT(30) DEF Interval
<1>2. IntervalEnd(h) = Interval(h) * StakeDiffWindowSize + StakeDiffWindowSize
      /\ IntervalEnd(h) \in Int
  BY <1>1, SMTT(30) DEF IntervalEnd
<1>3. QED
  BY <1>1, <1>2

\* A height between the start and the end of an interval is in it.
LEMMA SameInterval ==
    ASSUME NEW g \in Nat, NEW h \in Nat,
           IntervalEnd(g) - StakeDiffWindowSize <= h, h < IntervalEnd(g)
    PROVE  Interval(h) = Interval(g) /\ IntervalEnd(h) = IntervalEnd(g)
<1> DEFINE W == StakeDiffWindowSize
<1>1. Interval(g) \in Nat /\ Interval(h) \in Nat /\ W \in Nat /\ W > 0
  BY HeightInInterval, TicketBuyerBounds
<1>2. (Interval(h) - Interval(g)) * W = IntervalEnd(h) - IntervalEnd(g)
  BY <1>1, SMTT(30) DEF IntervalEnd
<1>3. IntervalEnd(h) - IntervalEnd(g) < W /\ IntervalEnd(h) - IntervalEnd(g) > -W
  BY <1>1, HeightInInterval
<1>4. ASSUME NEW d \in Int, d * W < W, d * W > -W PROVE d = 0
  BY <1>1, <1>4, SMTT(30)
<1>5. Interval(h) = Interval(g)
  <2> DEFINE d == Interval(h) - Interval(g)
  <2>1. d \in Int /\ d * W < W /\ d * W > -W
    BY <1>1, <1>2, <1>3
  <2>2. d = 0
    BY <1>4, <2>1
  <2>3. QED
    BY <1>1, <2>2
<1>6. QED
  BY <1>5 DEF IntervalEnd

\* The interval after the one that ends at a height.
LEMMA NextInterval ==
    ASSUME NEW g \in Nat, NEW h \in Nat, h = IntervalEnd(g)
    PROVE  IntervalEnd(h) = IntervalEnd(g) + StakeDiffWindowSize
<1> DEFINE W == StakeDiffWindowSize
<1>1. Interval(g) \in Nat /\ Interval(h) \in Nat /\ W \in Nat /\ W > 0
  BY HeightInInterval, TicketBuyerBounds
<1>2. (Interval(h) - Interval(g) - 1) * W = IntervalEnd(h) - IntervalEnd(g) - W
  BY <1>1, SMTT(30) DEF IntervalEnd
<1>3. IntervalEnd(h) - IntervalEnd(g) - W < W /\ IntervalEnd(h) - IntervalEnd(g) - W > -W
  BY <1>1, HeightInInterval
<1>4. ASSUME NEW d \in Int, d * W < W, d * W > -W PROVE d = 0
  BY <1>1, <1>4, SMTT(30)
<1>5. IntervalEnd(h) - IntervalEnd(g) - W = 0
  <2> DEFINE d == Interval(h) - Interval(g) - 1
  <2>1. d \in Int /\ d * W < W /\ d * W > -W
    BY <1>1, <1>2, <1>3
  <2>2. d = 0
    BY <1>4, <2>1
  <2>3. QED
    BY <1>1, <1>2, <2>2
<1>6. QED
  BY <1>1, <1>5, HeightInInterval

\* The expiry of a tip whose next tickets can still be mined: all of the blocks that
\* may hold them are in the interval of the next block.
LEMMA ExpiryFits ==
    ASSUME NEW t \in Nat, NEW e, t + 2 # IntervalEnd(t),
           e = IntervalEnd(t) + IF t + 1 = IntervalEnd(t) THEN StakeDiffWindowSize ELSE 0
    PROVE  /\ e \in Int /\ t + 2 < e
           /\ Interval(t + 1) = Interval(t + 2) /\ Interval(t + 1) = Interval(e - 1)
<1> USE TicketBuyerBounds
<1>1. IntervalEnd(t) \in Nat /\ IntervalEnd(t) - StakeDiffWindowSize <= t /\ t < IntervalEnd(t)
  BY HeightInInterval
<1>2. CASE t + 1 = IntervalEnd(t)
  <2>1. e = IntervalEnd(t + 1) /\ e = t + 1 + StakeDiffWindowSize
    BY <1>1, <1>2, NextInterval
  <2>2. Interval(t + 2) = Interval(t + 1)
    BY <2>1, SameInterval
  <2>3. e - 1 \in Nat /\ Interval(e - 1) = Interval(t + 1)
    BY <2>1, SameInterval
  <2>4. QED
    BY <2>1, <2>2, <2>3
<1>3. CASE t + 1 # IntervalEnd(t)
  <2>1. e = IntervalEnd(t) /\ t + 2 < e
    BY <1>1, <1>3
  <2>2. Interval(t + 1) = Interval(t) /\ Interval(t + 2) = Interval(t)
    BY <1>1, <2>1, SameInterval
  <2>3. Interval(e - 1) = Interval(t)
    BY <1>1, <2>1, SameInterval
  <2>4. QED
    BY <1>1, <2>1, <2>2, <2>3
<1>4. QED
  BY <1>2, <1>3
-----------------------------------------------------------------------------
(* Steps                                                                   *)

\* A buyer that is elsewhere remembers no interval; the others stay.
LEMMA EntersHandling ==
    ASSUME BuyerShape, NEW b \in Buyers, NEW label \in BuyerLabels, BuyerEnters(b, label)
    PROVE  /\ buyer' \in [Buyers -> [pc : BuyerLabels, nextIntervalStart : Int, expiry : Int, seen : Nat]]
           /\ buyer'[b].pc = label /\ buyer'[b].nextIntervalStart = 0 /\ buyer'[b].seen = 0
           /\ \A a \in Buyers \ {b} : buyer'[a] = buyer[a]
BY DEF BuyerShape, BuyerEnters, NotRunning

\* So every buyer still keeps its interval.
LEMMA EnteredKeepsInterval ==
    ASSUME BuyerShape, IntervalIsKept, NEW b \in Buyers, NEW label \in BuyerLabels,
           BuyerEnters(b, label), UNCHANGED tip
    PROVE  IntervalIsKept'
<1>1. tip \in Nat
  BY DEF BuyerShape
<1>2. ASSUME NEW a \in Buyers
      PROVE  /\ buyer'[a].seen <= tip
             /\ \/ buyer'[a].seen + 2 >= buyer'[a].nextIntervalStart
                \/ /\ buyer'[a].nextIntervalStart = IntervalEnd(buyer'[a].seen)
                   /\ buyer'[a].expiry = buyer'[a].nextIntervalStart
  <2>1. CASE a = b
    BY <1>1, <2>1, EntersHandling
  <2>2. CASE a # b
    <3>1. buyer'[a] = buyer[a]
      BY <2>2, EntersHandling
    <3>2. QED
      BY <3>1 DEF IntervalIsKept
  <2>3. QED
    BY <2>1, <2>2
<1>3. QED
  BY <1>2 DEF IntervalIsKept, IntervalEnd, Interval

\* A purchase that is cancelled stays what it was otherwise.
LEMMA CancelledPurchases ==
    ASSUME BuyerShape, NEW b \in Buyers
    PROVE  /\ Cancelled(b) \in SUBSET PurchaseRecords
           /\ \A p \in Cancelled(b) : p.cancelled
<1>1. ongoing[b] \subseteq PurchaseRecords
  BY DEF BuyerShape
<1>2. ASSUME NEW p \in ongoing[b]
      PROVE  /\ [p EXCEPT !.cancelled = TRUE] \in PurchaseRecords
             /\ [p EXCEPT !.cancelled = TRUE].cancelled
  <2>1. p \in PurchaseRecords
    BY <1>1
  <2>2. QED
    BY <2>1 DEF PurchaseRecords
<1>3. QED
  BY <1>2 DEF Cancelled

\* The invariant holds at first.
LEMMA InitHasBuyerInv == BuyerInit => BuyerInv
<1> SUFFICES ASSUME BuyerInit PROVE BuyerInv
  OBVIOUS
<1> USE TicketBuyerBounds DEF BuyerInit
<1>1. \A b \in Buyers : buyer[b] = NotRunning("unborn") /\ ongoing[b] = {}
  OBVIOUS
<1>2. BuyerShape
  BY <1>1 DEF BuyerShape, NotRunning, BuyerLabels
<1>3. FieldIsTaken
  BY <1>1 DEF FieldIsTaken, Starting, BuyerAt, NotRunning
<1>4. PurchasesAreOfTheInterval
  BY <1>1 DEF PurchasesAreOfTheInterval
<1>5. IntervalIsKept
  BY <1>1 DEF IntervalIsKept, NotRunning
<1>6. QED
  BY <1>2, <1>3, <1>4, <1>5 DEF BuyerInv

\* Calls: the start of a buyer, its failure and its end.
LEMMA CallKeepsBuyerInv ==
    ASSUME BuyerInv, NEW b \in Buyers,
           CheckNotRunning(b) \/ BuyerStep(b) \/ ExitOnError(b)
    PROVE  BuyerInv'
<1> USE DEF BuyerInv
<1>1. PICK place \in BuyerLabels : BuyerEnters(b, place)
  BY DEF CheckNotRunning, BuyerStep, PublishBuyer, ContactVSP, ModalStops, ExitStopped,
         ExitOnError, LeaveLoop, EndBuyer, BuyerEnters, BuyerLabels
<1>2. /\ UNCHANGED <<funds, tip>>
      /\ \/ ongoing' = [ongoing EXCEPT ![b] = Cancelled(b)]
         \/ ~BuyerAt(b, "run") /\ UNCHANGED ongoing
  BY DEF CheckNotRunning, BuyerStep, PublishBuyer, ContactVSP, ModalStops, ExitStopped,
         ExitOnError, LeaveLoop, EndBuyer, BuyerAt
<1>3. IntervalIsKept'
  BY <1>1, <1>2, EnteredKeepsInterval
<1>4. BuyerShape' /\ PurchasesAreOfTheInterval'
  <2>1. /\ buyer' \in [Buyers -> [pc : BuyerLabels, nextIntervalStart : Int, expiry : Int,
                                  seen : Nat]]
        /\ \A a \in Buyers \ {b} : buyer'[a] = buyer[a]
    BY <1>1, EntersHandling
  <2>2. /\ ongoing' \in [Buyers -> SUBSET PurchaseRecords]
        /\ \A p \in ongoing'[b] : p.cancelled
        /\ \A a \in Buyers \ {b} : ongoing'[a] = ongoing[a]
    BY <1>2, CancelledPurchases DEF BuyerShape, PurchasesAreOfTheInterval
  <2>3. BuyerShape'
    BY <1>2, <2>1, <2>2 DEF BuyerShape
  <2>4. PurchasesAreOfTheInterval'
    BY <2>1, <2>2 DEF PurchasesAreOfTheInterval, BuyerAt, PriceOf, Interval
  <2>5. QED
    BY <2>3, <2>4
<1> HIDE DEF BuyerInv
<1>5. FieldIsTaken /\ BuyerShape
  BY DEF BuyerInv
<1>6. FieldIsTaken'
  <2> USE DEF FieldIsTaken, Starting, BuyerAt, buyerField
  <2>0. ASSUME NEW label \in BuyerLabels, BuyerEnters(b, label)
        PROVE  buyer'[b].pc = label /\ \A a \in Buyers \ {b} : buyer'[a].pc = buyer[a].pc
    BY <1>5, <2>0, EntersHandling
  <2>1. CASE CheckNotRunning(b)
    <3>1. /\ \/ buyer'[b].pc = "failed"
             \/ buyer'[b].pc = "publish" /\ cancelAutoTicketBuyer = NoBuyer
          /\ \A a \in Buyers \ {b} : buyer'[a].pc = buyer[a].pc
      <4>1. CASE BuyerEnters(b, "failed")
        BY <2>0, <4>1 DEF BuyerEnters, BuyerLabels
      <4>2. CASE BuyerEnters(b, "publish") /\ cancelAutoTicketBuyer = NoBuyer
        BY <2>0, <4>2 DEF BuyerEnters, BuyerLabels
      <4>3. QED
        BY <2>1, <4>1, <4>2 DEF CheckNotRunning
    <3>2. UNCHANGED <<cancelAutoTicketBuyer, stoppedBuyers>> /\ \A a \in Buyers : ~Starting(a)
      BY <2>1 DEF CheckNotRunning
    <3>3. QED
      BY <1>5, <3>1, <3>2
  <2>2. CASE PublishBuyer(b)
    <3>1. /\ buyer[b].pc = "publish" /\ buyer'[b].pc = "vsp"
          /\ \A a \in Buyers \ {b} : buyer'[a].pc = buyer[a].pc
          /\ cancelAutoTicketBuyer' = b /\ stoppedBuyers' = stoppedBuyers
      BY <2>0, <2>2 DEF PublishBuyer, BuyerEnters, BuyerLabels
    <3>2. \A a \in Buyers \ {b} : buyer[a].pc \notin {"publish", "vsp", "failed"}
      BY <1>5, <3>1
    <3>3. \A a \in Buyers : buyer[a].pc = "run" => a \in stoppedBuyers
      BY <1>5, <3>1 DEF NoBuyer, Buyers
    <3>4. QED
      BY <3>1, <3>2, <3>3
  <2>3. CASE ContactVSP(b)
    <3>1. /\ buyer[b].pc = "vsp" /\ buyer'[b].pc \in {"run", "failed"}
          /\ \A a \in Buyers \ {b} : buyer'[a].pc = buyer[a].pc
          /\ cancelAutoTicketBuyer' = cancelAutoTicketBuyer /\ stoppedBuyers' = stoppedBuyers
      BY <2>0, <2>3 DEF ContactVSP, BuyerEnters, BuyerLabels
    <3>2. QED
      BY <1>5, <3>1
  <2>4. CASE ModalStops(b) \/ EndBuyer(b) \/ ExitStopped(b) \/ ExitOnError(b)
    <3>1. /\ buyer'[b].pc \in {"done", "stop"}
          /\ \A a \in Buyers \ {b} : buyer'[a].pc = buyer[a].pc
      BY <2>0, <2>4 DEF ModalStops, EndBuyer, ExitStopped, ExitOnError, LeaveLoop, BuyerEnters,
             BuyerLabels
    <3>2. StopAutoTicketsPurchase \/ UNCHANGED <<cancelAutoTicketBuyer, stoppedBuyers>>
      BY <2>4 DEF ModalStops, EndBuyer, ExitStopped, ExitOnError, LeaveLoop
    <3>3. CASE StopAutoTicketsPurchase
      BY <1>5, <3>1, <3>3 DEF StopAutoTicketsPurchase, NoBuyer, Buyers
    <3>4. CASE UNCHANGED <<cancelAutoTicketBuyer, stoppedBuyers>>
      BY <1>5, <3>1, <3>4
    <3>5. QED
      BY <3>2, <3>3, <3>4
  <2>5. QED
    BY <2>1, <2>2, <2>3, <2>4 DEF BuyerStep
<1>7. QED
  BY <1>3, <1>4, <1>6 DEF BuyerInv

\* SwitchOff stops the buyer that is in the field.
LEMMA SwitchKeepsInv == ASSUME BuyerInv, SwitchOff PROVE BuyerInv'
<1>1. BuyerShape' /\ PurchasesAreOfTheInterval'
  BY DEF BuyerInv, SwitchOff, BuyerShape, PurchasesAreOfTheInterval, BuyerAt, PriceOf, Interval
<1>2. FieldIsTaken'
  BY DEF BuyerInv, SwitchOff, StopAutoTicketsPurchase, FieldIsTaken, Starting, BuyerAt
<1>3. IntervalIsKept'
  BY DEF BuyerInv, SwitchOff, IntervalIsKept, IntervalEnd, Interval
<1>4. QED
  BY <1>1, <1>2, <1>3 DEF BuyerInv

\* A new tip is no buyer's yet.
LEMMA TipKeepsInv == ASSUME BuyerInv, TipChanges PROVE BuyerInv'
<1>1. tip' \in Nat /\ tip' > tip /\ tip \in Nat
  BY DEF BuyerInv, BuyerShape, TipChanges
<1>2. BuyerShape' /\ PurchasesAreOfTheInterval'
  BY <1>1 DEF BuyerInv, TipChanges, BuyerShape, PurchasesAreOfTheInterval, BuyerAt, PriceOf,
              Interval
<1>3. FieldIsTaken'
  BY DEF BuyerInv, TipChanges, FieldIsTaken, Starting, BuyerAt, buyerField
<1>4. IntervalIsKept'
  <2>1. \A b \in Buyers : buyer[b].seen <= tip /\ buyer[b].seen \in Nat
    BY DEF BuyerInv, IntervalIsKept, BuyerShape
  <2>2. \A b \in Buyers : buyer[b].seen <= tip'
    BY <1>1, <2>1
  <2>3. QED
    BY <2>2 DEF BuyerInv, TipChanges, IntervalIsKept, IntervalEnd, Interval
<1>5. QED
  BY <1>2, <1>3, <1>4 DEF BuyerInv

\* A buyer has handled the tip: it is where it was, and remembers an interval of the
\* tip or one that is over.
Handled(b, r) ==
    /\ r \in [pc : BuyerLabels, nextIntervalStart : Int, expiry : Int, seen : Nat]
    /\ r.pc = buyer[b].pc /\ r.seen = tip
    /\ \/ tip + 2 >= r.nextIntervalStart
       \/ r.nextIntervalStart = IntervalEnd(tip) /\ r.expiry = r.nextIntervalStart

\* Where the buyers are, and their intervals, are kept as long as they are handled so.
LEMMA HandledKeeps ==
    ASSUME BuyerShape, FieldIsTaken, IntervalIsKept, NEW b \in Buyers, NEW r, Handled(b, r),
           buyer' = [buyer EXCEPT ![b] = r], UNCHANGED <<buyerField, tip>>
    PROVE  /\ buyer' \in [Buyers -> [pc : BuyerLabels, nextIntervalStart : Int, expiry : Int, seen : Nat]]
           /\ FieldIsTaken' /\ IntervalIsKept'
<1>1. /\ buyer' \in [Buyers -> [pc : BuyerLabels, nextIntervalStart : Int, expiry : Int, seen : Nat]]
      /\ buyer'[b] = r /\ \A a \in Buyers \ {b} : buyer'[a] = buyer[a]
  BY DEF BuyerShape, Handled
<1>2. \A a \in Buyers : buyer'[a].pc = buyer[a].pc
  BY <1>1 DEF Handled
<1>3. FieldIsTaken'
  BY <1>2 DEF FieldIsTaken, Starting, BuyerAt, buyerField
<1>4. ASSUME NEW a \in Buyers
      PROVE  /\ buyer'[a].seen <= tip
             /\ \/ buyer'[a].seen + 2 >= buyer'[a].nextIntervalStart
                \/ /\ buyer'[a].nextIntervalStart = IntervalEnd(buyer'[a].seen)
                   /\ buyer'[a].expiry = buyer'[a].nextIntervalStart
  <2>1. CASE a = b
    BY <1>1, <2>1 DEF Handled, BuyerShape
  <2>2. CASE a # b
    <3>1. buyer'[a] = buyer[a]
      BY <1>1, <2>2
    <3>2. QED
      BY <3>1 DEF IntervalIsKept
  <2>3. QED
    BY <2>1, <2>2
<1>5. IntervalIsKept'
  BY <1>4 DEF IntervalIsKept, IntervalEnd, Interval
<1>6. QED
  BY <1>1, <1>3, <1>5

\* A buyer that was in time for the interval of the tip it saw is in it, and what it
\* remembers of it is that of the tip.
LEMMA InTime ==
    ASSUME BuyerShape, IntervalIsKept, NEW b \in Buyers, ~LateForInterval(b)
    PROVE  /\ tip + 2 < IntervalEnd(tip)
           /\ buyer[b].nextIntervalStart = IntervalEnd(tip) /\ buyer[b].expiry = IntervalEnd(tip)
<1> DEFINE s == buyer[b].seen
           next == buyer[b].nextIntervalStart
<1>1. s \in Nat /\ tip \in Nat /\ s <= tip /\ next \in Int /\ tip + 2 < next
  BY DEF BuyerShape, IntervalIsKept, LateForInterval
<1>2. next = IntervalEnd(s) /\ buyer[b].expiry = next
  BY <1>1 DEF IntervalIsKept
<1>3. IntervalEnd(s) - StakeDiffWindowSize <= tip /\ tip < IntervalEnd(s)
  <2>1. IntervalEnd(s) - StakeDiffWindowSize <= s /\ IntervalEnd(s) \in Nat
    BY <1>1, HeightInInterval
  <2>2. QED
    BY <1>1, <1>2, <2>1, TicketBuyerBounds
<1>4. IntervalEnd(tip) = IntervalEnd(s)
  BY <1>1, <1>3, SameInterval
<1>5. QED
  BY <1>1, <1>2, <1>4

\* NewInterval, with the expiry of the interval of the tip, or none at its end.
LEMMA NewIntervalHandles ==
    ASSUME BuyerShape, IntervalIsKept, NEW b \in Buyers, NEW expiry \in Int,
           BuyerAt(b, "run"), NewInterval(b, expiry),
           tip + 2 >= IntervalEnd(tip) \/ expiry = IntervalEnd(tip)
    PROVE  \E r : Handled(b, r) /\ buyer' = [buyer EXCEPT ![b] = r]
<1>1. tip \in Nat /\ IntervalEnd(tip) \in Nat
      /\ buyer[b] \in [pc : BuyerLabels, nextIntervalStart : Int, expiry : Int, seen : Nat]
  BY HeightInInterval DEF BuyerShape
<1>2. CASE LateForInterval(b)
  <2> DEFINE r == [pc |-> "run", nextIntervalStart |-> IntervalEnd(tip), expiry |-> expiry,
                   seen |-> tip]
  <2>1. buyer' = [buyer EXCEPT ![b] = r]
    BY <1>2 DEF NewInterval
  <2>2. r \in [pc : BuyerLabels, nextIntervalStart : Int, expiry : Int, seen : Nat]
        /\ r.pc = "run" /\ r.seen = tip /\ r.nextIntervalStart = IntervalEnd(tip)
        /\ r.expiry = expiry
    BY <1>1 DEF BuyerLabels
  <2> HIDE DEF r
  <2>3. Handled(b, r)
    BY <1>1, <2>2 DEF Handled, BuyerAt
  <2>4. QED
    BY <2>1, <2>3
<1>3. CASE ~LateForInterval(b)
  <2>1. buyer' = [buyer EXCEPT ![b] = Seen(b)]
    BY <1>3 DEF NewInterval
  <2>2. /\ Seen(b) \in [pc : BuyerLabels, nextIntervalStart : Int, expiry : Int, seen : Nat]
        /\ Seen(b).pc = buyer[b].pc /\ Seen(b).seen = tip
        /\ Seen(b).nextIntervalStart = buyer[b].nextIntervalStart
        /\ Seen(b).expiry = buyer[b].expiry
    BY <1>1 DEF Seen
  <2>3. Handled(b, Seen(b))
    BY <1>3, <2>2, InTime DEF Handled
  <2>4. QED
    BY <2>1, <2>3
<1>4. QED
  BY <1>2, <1>3
\* What is bought at a tip is in time for its interval, as ExpiryFits has it.
LEMMA ExpiryOfPurchase ==
    ASSUME BuyerShape, IntervalIsKept, NEW b \in Buyers,
           ~(LateForInterval(b) /\ tip + 2 = IntervalEnd(tip))
    PROVE  /\ tip + 2 # IntervalEnd(tip) /\ ExpiryFor(b) = ExpiryAtTip /\ ExpiryFor(b) \in Int
           /\ tip + 2 >= IntervalEnd(tip) \/ ExpiryFor(b) = IntervalEnd(tip)
<1>1. tip \in Nat /\ IntervalEnd(tip) \in Nat /\ StakeDiffWindowSize \in Nat
  BY HeightInInterval, TicketBuyerBounds DEF BuyerShape
<1>2. CASE LateForInterval(b)
  BY <1>1, <1>2 DEF ExpiryFor, ExpiryAtTip
<1>3. CASE ~LateForInterval(b)
  <2>1. tip + 2 < IntervalEnd(tip) /\ ExpiryFor(b) = IntervalEnd(tip)
    BY <1>3, InTime DEF ExpiryFor
  <2>2. QED
    BY <1>1, <2>1 DEF ExpiryAtTip
<1>4. QED
  BY <1>2, <1>3

\* A purchase loses a ticket, bought or not.
LEMMA TicketKeepsInv ==
    ASSUME BuyerInv, NEW b \in Buyers, BuyTicket(b) \/ TicketFails(b)
    PROVE  BuyerInv'
<1>1. PICK p \in ongoing[b] : TicketsLeft(b, p)
  BY DEF BuyTicket, TicketFails
<1>2. /\ UNCHANGED <<buyerField, buyer, tip>> /\ funds' \in Int
      /\ p \in PurchaseRecords /\ ongoing \in [Buyers -> SUBSET PurchaseRecords]
  <2>1. funds \in Int /\ ongoing \in [Buyers -> SUBSET PurchaseRecords]
    BY DEF BuyerInv, BuyerShape
  <2>2. QED
    BY <2>1 DEF BuyTicket, TicketFails
<1>3. FieldIsTaken' /\ IntervalIsKept'
  BY <1>2 DEF BuyerInv, FieldIsTaken, Starting, BuyerAt, buyerField, IntervalIsKept, IntervalEnd,
              Interval
<1> DEFINE q == [p EXCEPT !.left = @ - 1]
<1>4. /\ q \in PurchaseRecords /\ q.at = p.at /\ q.expiry = p.expiry
      /\ q.cancelled = p.cancelled
  BY <1>2 DEF PurchaseRecords
<1>5. /\ \A a \in Buyers \ {b} : ongoing'[a] = ongoing[a]
      /\ ongoing'[b] = (ongoing[b] \ {p}) \cup (IF p.left = 1 THEN {} ELSE {q})
      /\ ongoing' \in [Buyers -> SUBSET PurchaseRecords]
  <2> HIDE DEF q
  <2>1. ongoing' = [ongoing EXCEPT ![b] =
                       (ongoing[b] \ {p}) \cup (IF p.left = 1 THEN {} ELSE {q})]
    BY <1>1, <1>2 DEF TicketsLeft, q
  <2>2. QED
    BY <1>2, <1>4, <2>1
<1> HIDE DEF q
<1>6. BuyerShape'
  BY <1>2, <1>5 DEF BuyerInv, BuyerShape
<1>7. PurchasesAreOfTheInterval'
  BY <1>2, <1>4, <1>5 DEF BuyerInv, PurchasesAreOfTheInterval, BuyerAt, PriceOf, Interval
<1>8. QED
  BY <1>3, <1>6, <1>7 DEF BuyerInv

\* When a tip is handled the purchases of an interval that ends are cancelled, and those
\* that are kept are of the interval of the next block, as is what is bought.
LEMMA PurchasesAtTip ==
    ASSUME BuyerInv, NEW b \in Buyers, SkipEndOfInterval(b) \/ BuyAtTip(b)
    PROVE  /\ ongoing' \in [Buyers -> SUBSET PurchaseRecords]
           /\ \A a \in Buyers \ {b} : ongoing'[a] = ongoing[a]
           /\ \A p \in ongoing'[b] : ~p.cancelled =>
                 /\ p.expiry = buyer'[b].expiry /\ tip + 2 < p.expiry
                 /\ PriceOf(p) = Interval(tip + 1) /\ PriceOf(p) = Interval(p.expiry - 1)
<1>1. /\ BuyerShape /\ IntervalIsKept /\ PurchasesAreOfTheInterval
      /\ BuyerAt(b, "run") /\ tip \in Nat /\ funds \in Int
      /\ ongoing \in [Buyers -> SUBSET PurchaseRecords]
      /\ buyer[b] \in [pc : BuyerLabels, nextIntervalStart : Int, expiry : Int, seen : Nat]
      /\ DOMAIN buyer = Buyers
  BY DEF BuyerInv, BuyerShape, SkipEndOfInterval, BuyAtTip
<1>2. /\ Kept(b) \in SUBSET PurchaseRecords
      /\ LateForInterval(b) => \A p \in Kept(b) : p.cancelled
  BY <1>1, CancelledPurchases DEF Kept
<1>3. CASE SkipEndOfInterval(b)
  BY <1>1, <1>2, <1>3 DEF SkipEndOfInterval
<1>4. CASE BuyAtTip(b)
  <2> DEFINE e == ExpiryFor(b)
             new == [at |-> tip, left |-> funds - TicketReserve, expiry |-> e,
                     cancelled |-> FALSE]
  <2>1. tip + 2 # IntervalEnd(tip) /\ e = ExpiryAtTip /\ e \in Int
    BY <1>1, <1>4, ExpiryOfPurchase DEF BuyAtTip
  <2>2. /\ tip + 2 < e
        /\ Interval(tip + 1) = Interval(tip + 2) /\ Interval(tip + 1) = Interval(e - 1)
    BY <1>1, <2>1, ExpiryFits DEF ExpiryAtTip
  <2>3. buyer'[b].expiry = e
    <3>1. CASE LateForInterval(b)
      BY <1>1, <1>4, <3>1 DEF BuyAtTip, NewInterval
    <3>2. CASE ~LateForInterval(b)
      BY <1>1, <1>4, <3>2 DEF BuyAtTip, NewInterval, Seen, ExpiryFor
    <3>3. QED
      BY <3>1, <3>2
  <2>4. new \in PurchaseRecords /\ new.expiry = e /\ PriceOf(new) = Interval(tip + 1)
    BY <1>1, <2>1, TicketBuyerBounds DEF PurchaseRecords, PriceOf
  <2>5. ASSUME NEW p \in Kept(b), ~p.cancelled
        PROVE  p.expiry = e /\ PriceOf(p) = Interval(e - 1)
    <3>1. ~LateForInterval(b) /\ p \in ongoing[b]
      BY <1>2, <2>5 DEF Kept
    <3>2. p.expiry = buyer[b].expiry /\ PriceOf(p) = Interval(p.expiry - 1)
      BY <1>1, <2>5, <3>1 DEF PurchasesAreOfTheInterval
    <3>3. QED
      BY <3>1, <3>2 DEF ExpiryFor
  <2>6. /\ \/ ongoing' = [ongoing EXCEPT ![b] = Kept(b) \cup {new}]
           \/ ongoing' = [ongoing EXCEPT ![b] = Kept(b)]
    BY <1>4 DEF BuyAtTip
  <2> HIDE DEF e, new
  <2>7. /\ ongoing' \in [Buyers -> SUBSET PurchaseRecords]
        /\ \A a \in Buyers \ {b} : ongoing'[a] = ongoing[a]
        /\ \A p \in ongoing'[b] : p \in Kept(b) \/ p = new
    BY <1>1, <1>2, <2>4, <2>6
  <2>8. QED
    BY <2>2, <2>3, <2>4, <2>5, <2>7
<1>5. QED
  BY <1>3, <1>4

\* A buyer handles a tip.
LEMMA HandlingKeepsInv ==
    ASSUME BuyerInv, NEW b \in Buyers, SkipEndOfInterval(b) \/ BuyAtTip(b) \/ SkipTip(b)
    PROVE  BuyerInv'
<1>1. BuyerShape /\ FieldIsTaken /\ IntervalIsKept /\ PurchasesAreOfTheInterval
  BY DEF BuyerInv
<1>2. /\ BuyerAt(b, "run") /\ UNCHANGED <<buyerField, funds, tip>>
      /\ tip \in Nat /\ funds \in Int /\ buyer[b].expiry \in Int /\ DOMAIN buyer = Buyers
      /\ buyer[b] \in [pc : BuyerLabels, nextIntervalStart : Int, expiry : Int, seen : Nat]
  BY <1>1 DEF SkipEndOfInterval, BuyAtTip, SkipTip, BuyerShape
<1>3. PICK r : Handled(b, r) /\ buyer' = [buyer EXCEPT ![b] = r]
  <2>1. CASE SkipEndOfInterval(b)
    <3>1. NewInterval(b, buyer[b].expiry) /\ tip + 2 >= IntervalEnd(tip)
      BY <1>2, <2>1 DEF SkipEndOfInterval
    <3>2. QED
      BY <1>1, <1>2, <3>1, NewIntervalHandles
  <2>2. CASE BuyAtTip(b)
    <3>1. NewInterval(b, ExpiryFor(b)) /\ ~(LateForInterval(b) /\ tip + 2 = IntervalEnd(tip))
      BY <2>2 DEF BuyAtTip
    <3>2. QED
      BY <1>1, <1>2, <3>1, ExpiryOfPurchase, NewIntervalHandles
  <2>3. CASE SkipTip(b)
    <3>1. buyer' = [buyer EXCEPT ![b] = Seen(b)]
      BY <2>3 DEF SkipTip
    <3>2. /\ Seen(b) \in [pc : BuyerLabels, nextIntervalStart : Int, expiry : Int, seen : Nat]
          /\ Seen(b).pc = buyer[b].pc /\ Seen(b).seen = tip
          /\ Seen(b).nextIntervalStart = buyer[b].nextIntervalStart
          /\ Seen(b).expiry = buyer[b].expiry
      BY <1>2 DEF Seen
    <3>3. tip + 2 >= buyer[b].nextIntervalStart
          \/ (buyer[b].nextIntervalStart = IntervalEnd(tip) /\ buyer[b].expiry = IntervalEnd(tip))
      BY <1>1, <1>2, InTime DEF LateForInterval
    <3>4. Handled(b, Seen(b))
      BY <3>2, <3>3 DEF Handled
    <3>5. QED
      BY <3>1, <3>4
  <2>4. QED
    BY <2>1, <2>2, <2>3
<1>4. /\ buyer' \in [Buyers -> [pc : BuyerLabels, nextIntervalStart : Int, expiry : Int, seen : Nat]]
      /\ FieldIsTaken' /\ IntervalIsKept'
  BY <1>1, <1>2, <1>3, HandledKeeps
<1>5. /\ buyer'[b].pc = "run" /\ \A a \in Buyers \ {b} : buyer'[a] = buyer[a]
  BY <1>2, <1>3 DEF Handled, BuyerAt
<1>6. /\ ongoing' \in [Buyers -> SUBSET PurchaseRecords]
      /\ \A a \in Buyers \ {b} : ongoing'[a] = ongoing[a]
      /\ \A p \in ongoing'[b] : ~p.cancelled =>
            p.expiry = buyer'[b].expiry /\ PriceOf(p) = Interval(p.expiry - 1)
  <2>1. CASE SkipEndOfInterval(b) \/ BuyAtTip(b)
    BY <2>1, PurchasesAtTip
  <2>2. CASE SkipTip(b)
    <3>1. UNCHANGED ongoing /\ buyer'[b] = Seen(b)
      BY <1>2, <2>2 DEF SkipTip
    <3>2. buyer'[b].expiry = buyer[b].expiry
      BY <1>2, <3>1 DEF Seen
    <3>3. QED
      BY <1>1, <3>1, <3>2 DEF BuyerShape, PurchasesAreOfTheInterval
  <2>3. QED
    BY <2>1, <2>2
<1>7. BuyerShape'
  BY <1>2, <1>4, <1>6 DEF BuyerShape
<1>8. PurchasesAreOfTheInterval'
  BY <1>1, <1>5, <1>6 DEF PurchasesAreOfTheInterval, BuyerAt, PriceOf, Interval
<1>9. QED
  BY <1>4, <1>7, <1>8 DEF BuyerInv

\* Every step keeps the invariant.
LEMMA NextKeepsBuyerInv == BuyerInv /\ [BuyerNext]_buyerVars => BuyerInv'
<1> SUFFICES ASSUME BuyerInv, [BuyerNext]_buyerVars PROVE BuyerInv'
  OBVIOUS
<1>1. CASE BuyerNext
  BY <1>1, CallKeepsBuyerInv, SwitchKeepsInv, TipKeepsInv, TicketKeepsInv, HandlingKeepsInv
     DEF BuyerNext
<1>2. CASE UNCHANGED buyerVars
  BY <1>2 DEF buyerVars, buyerField, BuyerInv, BuyerShape, FieldIsTaken,
     PurchasesAreOfTheInterval, PriceOf, IntervalIsKept, Starting, BuyerAt, IntervalEnd, Interval
<1>3. QED
  BY <1>1, <1>2

-----------------------------------------------------------------------------
(* Theorems                                                                *)

\* The invariant the others rest on: what each buyer remembers of the field and of
\* its interval.
THEOREM BuyerInvHolds == BuyerSpec => []BuyerInv
BY InitHasBuyerInv, NextKeepsBuyerInv, PTL DEF BuyerSpec

\* Between the look at the field in StartTicketBuyer and the assignment nobody sets
\* it, so a buyer that runs is stopped by StopAutoTicketsPurchase.
THEOREM BuyerCanBeStopped == BuyerSpec => []BuyerIsReachable
<1>1. BuyerInv => BuyerIsReachable
  BY DEF BuyerInv, FieldIsTaken, BuyerIsReachable, BuyerAt
<1>2. QED
  BY <1>1, BuyerInvHolds, PTL

\* Whoever's function is in the field will clear it, or can be stopped: a start that
\* fails and a goroutine that ends both stop what is in the field, in every order of
\* starts, switches and ends.
THEOREM SwitchIsHonest == BuyerSpec => []SwitchShowsABuyer
<1> DEFINE Shown == {"vsp", "failed", "run", "stop"}
<1>1. BuyerInit => SwitchShowsABuyer
  BY DEF BuyerInit, SwitchShowsABuyer, NoBuyer, Buyers
<1>2. BuyerInv /\ SwitchShowsABuyer /\ [BuyerNext]_buyerVars => SwitchShowsABuyer'
  <2> SUFFICES ASSUME BuyerInv, SwitchShowsABuyer, [BuyerNext]_buyerVars
               PROVE  SwitchShowsABuyer'
    OBVIOUS
  <2>0. BuyerShape /\ \A b \in Buyers : cancelAutoTicketBuyer = b => buyer[b].pc \in Shown
    BY DEF BuyerInv, SwitchShowsABuyer
  <2>1. ASSUME NEW b \in Buyers, CheckNotRunning(b) \/ BuyerStep(b) \/ ExitOnError(b)
        PROVE  SwitchShowsABuyer'
    <3>1. PICK label \in BuyerLabels : /\ buyer'[b].pc = label
                                       /\ \A a \in Buyers \ {b} : buyer'[a] = buyer[a]
                                       /\ BuyerEnters(b, label)
      <4>1. \E label \in BuyerLabels : BuyerEnters(b, label)
        BY <2>1 DEF CheckNotRunning, BuyerStep, PublishBuyer, ContactVSP, ModalStops, ExitStopped,
               ExitOnError, LeaveLoop, EndBuyer, BuyerEnters, BuyerLabels
      <4>2. QED
        BY <2>0, <4>1, EntersHandling
    <3>2. CASE StopAutoTicketsPurchase
      BY <3>2 DEF StopAutoTicketsPurchase, SwitchShowsABuyer, NoBuyer, Buyers
    <3>3. CASE ~StopAutoTicketsPurchase /\ ~PublishBuyer(b)
      <4>1. /\ cancelAutoTicketBuyer' = cancelAutoTicketBuyer
            /\ buyer[b].pc \in Shown => buyer'[b].pc \in Shown
        <5>1. CASE CheckNotRunning(b)
          BY <5>1 DEF CheckNotRunning, BuyerAt, buyerField
        <5>2. CASE ContactVSP(b)
          <6>1. \E next \in {"run", "failed"} : buyer'[b].pc = next
            BY <2>0, <5>2, EntersHandling DEF ContactVSP, BuyerLabels
          <6>2. QED
            BY <5>2, <6>1 DEF ContactVSP, buyerField
        <5>3. CASE ExitStopped(b) \/ ExitOnError(b)
          <6>1. LeaveLoop(b)
            BY <5>3 DEF ExitStopped, ExitOnError
          <6>2. buyer'[b].pc = "stop"
            BY <2>0, <6>1, EntersHandling DEF LeaveLoop, BuyerLabels
          <6>3. QED
            BY <6>1, <6>2 DEF LeaveLoop, buyerField
        <5>4. QED
          BY <2>1, <3>3, <5>1, <5>2, <5>3 DEF BuyerStep, ModalStops, EndBuyer
      <4>2. QED
        BY <2>0, <3>1, <4>1 DEF SwitchShowsABuyer
    <3>4. CASE PublishBuyer(b)
      <4>1. cancelAutoTicketBuyer' = b /\ buyer'[b].pc = "vsp"
        BY <2>0, <3>4, EntersHandling DEF PublishBuyer, BuyerLabels
      <4>2. QED
        BY <4>1 DEF SwitchShowsABuyer
    <3>5. QED
      BY <3>2, <3>3, <3>4
  <2>2. ASSUME NEW b \in Buyers, SkipEndOfInterval(b) \/ BuyAtTip(b) \/ SkipTip(b)
        PROVE  SwitchShowsABuyer'
    <3>1. buyer[b].pc = "run" /\ UNCHANGED cancelAutoTicketBuyer
      BY <2>2 DEF SkipEndOfInterval, BuyAtTip, SkipTip, BuyerAt, buyerField
    <3>2. \E r : r.pc = "run" /\ buyer' = [buyer EXCEPT ![b] = r]
      <4>1. Seen(b).pc = "run"
        BY <2>0, <3>1 DEF Seen, BuyerShape
      <4>2. QED
        BY <2>2, <4>1 DEF SkipEndOfInterval, BuyAtTip, SkipTip, NewInterval
    <3>3. \A a \in Buyers : buyer'[a].pc = buyer[a].pc
      BY <2>0, <3>1, <3>2 DEF BuyerShape
    <3>4. QED
      BY <2>0, <3>1, <3>3 DEF SwitchShowsABuyer
  <2>3. ASSUME NEW b \in Buyers, BuyTicket(b) \/ TicketFails(b) PROVE SwitchShowsABuyer'
    BY <2>0, <2>3 DEF BuyTicket, TicketFails, SwitchShowsABuyer, buyerField
  <2>4. CASE SwitchOff
    BY <2>4 DEF SwitchOff, StopAutoTicketsPurchase, SwitchShowsABuyer, NoBuyer, Buyers
  <2>5. CASE TipChanges \/ UNCHANGED buyerVars
    BY <2>0, <2>5 DEF TipChanges, buyerVars, buyerField, SwitchShowsABuyer
  <2>6. QED
    BY <2>1, <2>2, <2>3, <2>4, <2>5 DEF BuyerNext
<1>3. QED
  BY <1>1, <1>2, BuyerInvHolds, PTL DEF BuyerSpec

\* runTicketBuyer's arithmetic of intervals is right for any length of an interval
\* above two: a ticket is mined, if at all, at the price it was bought for.
THEOREM PurchasesFit == BuyerSpec => PurchaseFitsItsInterval
<1> DEFINE Fits ==
       \A b \in Buyers : \A p \in ongoing'[b] \ ongoing[b] : BuyAtTip(b) /\ ~p.cancelled =>
          /\ tip + 2 < p.expiry
          /\ Interval(tip + 1) = Interval(tip + 2) /\ Interval(tip + 1) = Interval(p.expiry - 1)
<1>1. BuyerInv /\ [BuyerNext]_buyerVars => [Fits]_buyerVars
  <2> SUFFICES ASSUME BuyerInv, NEW b \in Buyers, NEW p \in ongoing'[b] \ ongoing[b], BuyAtTip(b),
                      ~p.cancelled
               PROVE  /\ tip + 2 < p.expiry
                      /\ Interval(tip + 1) = Interval(tip + 2)
                      /\ Interval(tip + 1) = Interval(p.expiry - 1)
    OBVIOUS
  <2>1. tip + 2 < p.expiry /\ Interval(tip + 1) = Interval(p.expiry - 1)
    BY PurchasesAtTip
  <2>2. Interval(tip + 1) = Interval(tip + 2)
    <3>1. BuyerShape /\ IntervalIsKept /\ tip \in Nat
      BY DEF BuyerInv, BuyerShape
    <3>2. tip + 2 # IntervalEnd(tip)
      BY <3>1, ExpiryOfPurchase DEF BuyAtTip
    <3>3. QED
      BY <3>1, <3>2, ExpiryFits
  <2>3. QED
    BY <2>1, <2>2
<1>2. QED
  BY <1>1, BuyerInvHolds, PTL DEF BuyerSpec, PurchaseFitsItsInterval

\* The purchases that runTicketBuyer lets go on at a tip, however long ago they began and
\* however many tips the buyer skipped since, still have the price of the next block, and
\* can still be mined at it.
THEOREM NoOldPrices == BuyerSpec => NoPurchaseAtAnOldPrice
<1> DEFINE Prices ==
       \A b \in Buyers : BuyAtTip(b) \/ SkipEndOfInterval(b) =>
          \A p \in ongoing'[b] : ~p.cancelled =>
             /\ PriceOf(p) = Interval(tip + 1) /\ PriceOf(p) = Interval(p.expiry - 1)
             /\ tip + 2 < p.expiry
<1>1. BuyerInv /\ [BuyerNext]_buyerVars => [Prices]_buyerVars
  BY PurchasesAtTip
<1>2. QED
  BY <1>1, BuyerInvHolds, PTL DEF BuyerSpec, NoPurchaseAtAnOldPrice

-----------------------------------------------------------------------------
(* Types of the ticket buyer                                               *)

BuyerRecords ==
    [pc : BuyerLabels, nextIntervalStart : 0 .. MaxExpiry, expiry : 0 .. MaxExpiry, seen : 0 .. MaxTip]

BuyerTyped ==
    /\ cancelAutoTicketBuyer \in Buyers \cup {NoBuyer} /\ stoppedBuyers \subseteq Buyers
    /\ buyer \in [Buyers -> BuyerRecords] /\ ongoing \in [Buyers -> SUBSET Purchases]
    /\ funds \in 0 .. MaxFunds /\ tip \in 0 .. MaxTip

\* A later height is in the same interval or in a later one.
LEMMA IntervalsGrow ==
    ASSUME NEW g \in Nat, NEW h \in Nat, g <= h
    PROVE  Interval(g) <= Interval(h) /\ IntervalEnd(g) <= IntervalEnd(h)
<1> DEFINE W == StakeDiffWindowSize
<1>1. Interval(g) \in Nat /\ Interval(h) \in Nat /\ W \in Nat /\ W > 0
  BY HeightInInterval, TicketBuyerBounds
<1>2. (Interval(h) - Interval(g)) * W = IntervalEnd(h) - IntervalEnd(g)
  BY <1>1, SMTT(30) DEF IntervalEnd
<1>3. IntervalEnd(h) - IntervalEnd(g) > -W
  BY <1>1, HeightInInterval
<1>4. ASSUME NEW d \in Int, d * W > -W PROVE d >= 0 /\ d * W >= 0
  BY <1>1, <1>4, SMTT(30)
<1> DEFINE d == Interval(h) - Interval(g)
<1>5. d \in Int /\ d * W > -W
  BY <1>1, <1>2, <1>3
<1>6. d >= 0 /\ d * W >= 0
  BY <1>4, <1>5
<1>7. QED
  BY <1>1, <1>2, <1>6, HeightInInterval

\* The ends of the intervals of the tip, and what is bought at it, are within bounds.
LEMMA IntervalsOfTip ==
    ASSUME tip \in 0 .. MaxTip
    PROVE  /\ IntervalEnd(tip) \in 0 .. MaxExpiry /\ ExpiryAtTip \in 0 .. MaxExpiry
<1> USE TicketBuyerBounds
<1>1. tip \in Nat /\ MaxTip \in Nat /\ tip <= MaxTip /\ tip + 1 \in Nat /\ MaxTip + 1 \in Nat
  OBVIOUS
<1>2. /\ IntervalEnd(tip) \in Nat /\ IntervalEnd(MaxTip) \in Nat
      /\ IntervalEnd(tip) <= IntervalEnd(MaxTip)
  BY <1>1, HeightInInterval, IntervalsGrow
<1>3. QED
  BY <1>2 DEF MaxExpiry, ExpiryAtTip

\* A buyer that goes elsewhere has forgotten its interval.
LEMMA EntersTyped ==
    ASSUME buyer \in [Buyers -> BuyerRecords], NEW b \in Buyers, NEW label \in BuyerLabels,
           BuyerEnters(b, label)
    PROVE  buyer' \in [Buyers -> BuyerRecords]
<1>1. MaxExpiry \in Nat /\ MaxTip \in Nat
  BY HeightInInterval, TicketBuyerBounds DEF MaxExpiry
<1>2. NotRunning(label) \in BuyerRecords
  BY <1>1 DEF NotRunning, BuyerRecords
<1>3. QED
  BY <1>2 DEF BuyerEnters

\* What a buyer remembers once it has handled the tip is within bounds.
LEMMA HandlingTyped ==
    ASSUME BuyerTyped, NEW b \in Buyers, NEW expiry \in 0 .. MaxExpiry,
           BuyerAt(b, "run"), NewInterval(b, expiry) \/ buyer' = [buyer EXCEPT ![b] = Seen(b)]
    PROVE  buyer' \in [Buyers -> BuyerRecords]
<1>1. /\ buyer[b] \in BuyerRecords /\ tip \in 0 .. MaxTip /\ IntervalEnd(tip) \in 0 .. MaxExpiry
  BY IntervalsOfTip DEF BuyerTyped
<1>2. Seen(b) \in BuyerRecords
  BY <1>1 DEF Seen, BuyerRecords
<1>3. [pc |-> "run", nextIntervalStart |-> IntervalEnd(tip), expiry |-> expiry, seen |-> tip]
         \in BuyerRecords
  BY <1>1 DEF BuyerRecords, BuyerLabels
<1>4. QED
  BY <1>2, <1>3 DEF NewInterval, BuyerTyped

\* A purchase that is cancelled keeps its type.
LEMMA CancelledTyped ==
    ASSUME ongoing \in [Buyers -> SUBSET Purchases], NEW b \in Buyers
    PROVE  Cancelled(b) \in SUBSET Purchases
BY DEF Cancelled, Purchases

\* The step of every action.
LEMMA NextKeepsBuyerTypes == BuyerTyped /\ [BuyerNext]_buyerVars => BuyerTyped'
<1> SUFFICES ASSUME BuyerTyped, [BuyerNext]_buyerVars PROVE BuyerTyped'
  OBVIOUS
<1>0. /\ buyer \in [Buyers -> BuyerRecords] /\ ongoing \in [Buyers -> SUBSET Purchases]
      /\ funds \in 0 .. MaxFunds /\ tip \in 0 .. MaxTip
      /\ cancelAutoTicketBuyer \in Buyers \cup {NoBuyer} /\ stoppedBuyers \subseteq Buyers
  BY DEF BuyerTyped
<1>1. ASSUME NEW b \in Buyers, CheckNotRunning(b) \/ BuyerStep(b) \/ ExitOnError(b)
      PROVE  BuyerTyped'
  <2>1. \E label \in BuyerLabels : BuyerEnters(b, label)
    BY <1>1 DEF CheckNotRunning, BuyerStep, PublishBuyer, ContactVSP, ModalStops, ExitStopped,
           ExitOnError, LeaveLoop, EndBuyer, BuyerEnters, BuyerLabels
  <2>2. buyer' \in [Buyers -> BuyerRecords]
    BY <1>0, <2>1, EntersTyped
  <2>3. /\ UNCHANGED <<funds, tip>>
        /\ ongoing' = ongoing \/ ongoing' = [ongoing EXCEPT ![b] = Cancelled(b)]
    BY <1>1 DEF CheckNotRunning, BuyerStep, PublishBuyer, ContactVSP, ModalStops, ExitStopped,
           ExitOnError, LeaveLoop, EndBuyer
  <2>4. cancelAutoTicketBuyer' \in Buyers \cup {NoBuyer} /\ stoppedBuyers' \subseteq Buyers
    BY <1>0, <1>1 DEF CheckNotRunning, BuyerStep, PublishBuyer, ContactVSP, ModalStops, ExitStopped,
           ExitOnError, LeaveLoop, EndBuyer, StopAutoTicketsPurchase, buyerField
  <2>5. ongoing' \in [Buyers -> SUBSET Purchases]
    BY <1>0, <2>3, CancelledTyped
  <2>6. QED
    BY <1>0, <2>2, <2>3, <2>4, <2>5 DEF BuyerTyped
<1>2. ASSUME NEW b \in Buyers, SkipEndOfInterval(b) \/ BuyAtTip(b) \/ SkipTip(b)
      PROVE  BuyerTyped'
  <2>1. BuyerAt(b, "run") /\ UNCHANGED <<buyerField, funds, tip>>
    BY <1>2 DEF SkipEndOfInterval, BuyAtTip, SkipTip
  <2>2. buyer[b].expiry \in 0 .. MaxExpiry
    BY <1>0 DEF BuyerRecords
  <2>3. ExpiryFor(b) \in 0 .. MaxExpiry
    BY <1>0, <2>2, IntervalsOfTip DEF ExpiryFor
  <2>4. buyer' \in [Buyers -> BuyerRecords]
    <3>1. \E expiry \in 0 .. MaxExpiry :
             NewInterval(b, expiry) \/ buyer' = [buyer EXCEPT ![b] = Seen(b)]
      BY <1>2, <2>2, <2>3 DEF SkipEndOfInterval, BuyAtTip, SkipTip
    <3>2. QED
      BY <2>1, <3>1, HandlingTyped
  <2> DEFINE new == [at |-> tip, left |-> funds - TicketReserve, expiry |-> ExpiryFor(b),
                     cancelled |-> FALSE]
  <2>5. funds > TicketReserve => new \in Purchases
    <3>1. funds > TicketReserve => funds - TicketReserve \in 1 .. MaxFunds
      BY <1>0, TicketBuyerBounds
    <3>2. QED
      BY <1>0, <2>3, <3>1 DEF Purchases
  <2> HIDE DEF new
  <2>6. Kept(b) \in SUBSET Purchases
    BY <1>0, CancelledTyped DEF Kept
  <2>7. ongoing' \in [Buyers -> SUBSET Purchases]
    <3>1. CASE BuyAtTip(b) /\ funds > TicketReserve
      <4>1. ongoing' = [ongoing EXCEPT ![b] = Kept(b) \cup {new}]
        BY <3>1 DEF BuyAtTip, new
      <4>2. Kept(b) \cup {new} \in SUBSET Purchases
        BY <2>5, <2>6, <3>1
      <4>3. QED
        BY <1>0, <4>1, <4>2
    <3>2. CASE BuyAtTip(b) /\ ~(funds > TicketReserve)
      BY <1>0, <2>6, <3>2 DEF BuyAtTip
    <3>3. CASE SkipEndOfInterval(b)
      BY <1>0, <2>6, <3>3 DEF SkipEndOfInterval
    <3>4. CASE SkipTip(b)
      BY <1>0, <3>4 DEF SkipTip
    <3>5. QED
      BY <1>2, <3>1, <3>2, <3>3, <3>4
  <2>8. QED
    BY <1>0, <2>1, <2>4, <2>7 DEF BuyerTyped, buyerField
<1>3. ASSUME NEW b \in Buyers, BuyTicket(b) \/ TicketFails(b) PROVE BuyerTyped'
  <2>1. PICK p \in ongoing[b] : TicketsLeft(b, p)
    BY <1>3 DEF BuyTicket, TicketFails
  <2>2. p \in Purchases
    BY <1>0
  <2>3. p.left # 1 => [p EXCEPT !.left = @ - 1] \in Purchases
    <3>1. p.left # 1 => p.left - 1 \in 1 .. MaxFunds
      BY <2>2, TicketBuyerBounds DEF Purchases
    <3>2. QED
      BY <2>2, <3>1 DEF Purchases
  <2>4. (ongoing[b] \ {p}) \cup (IF p.left = 1 THEN {} ELSE {[p EXCEPT !.left = @ - 1]})
           \in SUBSET Purchases
    BY <1>0, <2>3
  <2>5. ongoing' \in [Buyers -> SUBSET Purchases]
    BY <1>0, <2>1, <2>4 DEF TicketsLeft
  <2>6. UNCHANGED <<buyerField, buyer, tip>> /\ funds' \in 0 .. funds
    BY <1>0, <1>3, TicketBuyerBounds DEF BuyTicket, TicketFails
  <2>7. funds' \in 0 .. MaxFunds
    BY <1>0, <2>6, TicketBuyerBounds
  <2>8. QED
    BY <1>0, <2>5, <2>6, <2>7 DEF BuyerTyped, buyerField
<1>4. CASE SwitchOff
  BY <1>0, <1>4 DEF SwitchOff, StopAutoTicketsPurchase, BuyerTyped
<1>5. CASE TipChanges
  <2>1. tip' \in 0 .. MaxTip
    BY <1>0, <1>5, TicketBuyerBounds DEF TipChanges
  <2>2. QED
    BY <1>0, <1>5, <2>1 DEF TipChanges, BuyerTyped, buyerField
<1>6. CASE UNCHANGED buyerVars
  BY <1>0, <1>6 DEF buyerVars, buyerField, BuyerTyped
<1>7. QED
  BY <1>1, <1>2, <1>3, <1>4, <1>5, <1>6 DEF BuyerNext

\* Types, for any number of starts, any interval and any balance: what a buyer
\* remembers of an interval, and what it buys at it, stays within two intervals of
\* the tip.
THEOREM BuyerTypeCorrect == BuyerSpec => []BuyerTypeOK
<1>1. BuyerInit => BuyerTyped
  <2> SUFFICES ASSUME BuyerInit PROVE BuyerTyped
    OBVIOUS
  <2>1. MaxExpiry \in Nat /\ MaxTip \in Nat /\ MaxFunds \in Nat
    BY HeightInInterval, TicketBuyerBounds DEF MaxExpiry
  <2>2. NotRunning("unborn") \in BuyerRecords
    BY <2>1 DEF NotRunning, BuyerRecords, BuyerLabels
  <2>3. buyer \in [Buyers -> BuyerRecords] /\ ongoing \in [Buyers -> SUBSET Purchases]
    BY <2>2 DEF BuyerInit
  <2>4. funds \in 0 .. MaxFunds /\ tip \in 0 .. MaxTip
    BY <2>1 DEF BuyerInit
  <2>5. QED
    BY <2>3, <2>4 DEF BuyerInit, BuyerTyped
<1>2. BuyerTyped => BuyerTypeOK
  BY DEF BuyerTyped, BuyerTypeOK, BuyerRecords, BuyerLabels
<1>3. QED
  BY <1>1, <1>2, NextKeepsBuyerTypes, PTL DEF BuyerSpec

-----------------------------------------------------------------------------
(* AccountMixer                                                            *)

\* As long as no mixer was started beside another or beside a stop:

\* one mixer is under way at a time;
OneMixer == \A m, l \in MixersUnderWay : m = l

\* who stops it came when it had published its cancel function;
StoppersComeLate ==
    \A m \in Mixers, s \in MixerStoppers :
        mixer[m] \in {"unlock", "born"} => mixStopper[s] = "idle"

\* and who clears the field has cancelled whatever mixes.
ClearedIsStopped ==
    \A m \in Mixers, s \in MixerStoppers :
        mixer[m] = "mix" /\ mixStopper[s] = "clear" => m \in stoppedMixers

MixerInv ==
    /\ MixerTypeOK
    /\ MixerIsReachable
    /\ ~mixersMet => OneMixer /\ StoppersComeLate /\ ClearedIsStopped

-----------------------------------------------------------------------------
\* An asset begins with no mixer.
LEMMA InitHasMixerInv == MixerInit => MixerInv
<1> SUFFICES ASSUME MixerInit PROVE MixerInv
  OBVIOUS
<1>1. MixerTypeOK
  BY DEF MixerInit, MixerTypeOK
<1>2. MixerIsReachable
  BY DEF MixerInit, MixerIsReachable, NoMixer, Mixers
<1>3. OneMixer /\ StoppersComeLate /\ ClearedIsStopped
  BY DEF MixerInit, OneMixer, MixersUnderWay, StoppersComeLate, ClearedIsStopped
<1>4. QED
  BY <1>1, <1>2, <1>3 DEF MixerInv

\* Every step of a mixer, or of one who stops it, keeps the types.
LEMMA NextKeepsMixerTypes == MixerTypeOK /\ [MixerNext]_mixerVars => MixerTypeOK'
<1> SUFFICES ASSUME MixerTypeOK, [MixerNext]_mixerVars PROVE MixerTypeOK'
  OBVIOUS
<1> USE DEF MixerTypeOK, MixerGoes, StopperGoes, OnlyMixer
<1>1. ASSUME NEW m \in Mixers, StartAccountMixer(m) \/ MixerStep(m) \/ MixerFails(m)
      PROVE  MixerTypeOK'
  BY <1>1 DEF StartAccountMixer, MixerStep, MixerFails, UnlockForMixing, PublishMixer,
              MixerIsStopped, EndMixer
<1>2. ASSUME NEW s \in MixerStoppers, CallStopAccountMixer(s) \/ StopperStep(s)
      PROVE  MixerTypeOK'
  BY <1>2 DEF CallStopAccountMixer, StopperStep, CheckActiveAgain, CallCancelAccountMixer,
              ClearCancelAccountMixer
<1>3. CASE MixableChanges
  BY <1>3 DEF MixableChanges
<1>4. CASE UNCHANGED mixerVars
  BY <1>4 DEF mixerVars
<1>5. QED
  BY <1>1, <1>2, <1>3, <1>4 DEF MixerNext

\* MixerInv is inductive.
LEMMA NextKeepsMixerInv == MixerInv /\ [MixerNext]_mixerVars => MixerInv'
<1> SUFFICES ASSUME MixerInv, [MixerNext]_mixerVars PROVE MixerInv'
  OBVIOUS
<1>1. MixerTypeOK'
  BY NextKeepsMixerTypes DEF MixerInv
<1> DEFINE Rest == MixerIsReachable /\ (~mixersMet => OneMixer /\ StoppersComeLate
                                                      /\ ClearedIsStopped)
<1>2. SUFFICES ASSUME ~mixersMet' PROVE Rest'
  BY <1>1 DEF MixerInv, MixerIsReachable
<1> USE DEF MixerInv, MixerTypeOK, MixerIsReachable, OneMixer, StoppersComeLate,
            ClearedIsStopped, MixersUnderWay, MixerGoes, StopperGoes, OnlyMixer,
            NoMixer, Mixers
<1>3. ASSUME NEW m \in Mixers, StartAccountMixer(m) PROVE Rest'
  BY <1>2, <1>3 DEF StartAccountMixer, StoppersUnderWay
<1>4. ASSUME NEW m \in Mixers, UnlockForMixing(m) PROVE Rest'
  BY <1>2, <1>4 DEF UnlockForMixing
<1>5. ASSUME NEW m \in Mixers, PublishMixer(m) PROVE Rest'
  BY <1>2, <1>5 DEF PublishMixer
<1>6. ASSUME NEW m \in Mixers, MixerFails(m) \/ MixerIsStopped(m) PROVE Rest'
  BY <1>2, <1>6 DEF MixerFails, MixerIsStopped
<1>7. ASSUME NEW m \in Mixers, EndMixer(m) PROVE Rest'
  BY <1>2, <1>7 DEF EndMixer
<1>8. ASSUME NEW s \in MixerStoppers, CallStopAccountMixer(s) PROVE Rest'
  BY <1>2, <1>8 DEF CallStopAccountMixer
<1>9. ASSUME NEW s \in MixerStoppers, CheckActiveAgain(s) PROVE Rest'
  BY <1>2, <1>9 DEF CheckActiveAgain
<1>10. ASSUME NEW s \in MixerStoppers, CallCancelAccountMixer(s) PROVE Rest'
  BY <1>2, <1>10 DEF CallCancelAccountMixer
<1>11. ASSUME NEW s \in MixerStoppers, ClearCancelAccountMixer(s) PROVE Rest'
  BY <1>2, <1>11 DEF ClearCancelAccountMixer
<1>12. CASE MixableChanges
  BY <1>2, <1>12 DEF MixableChanges
<1>13. CASE UNCHANGED mixerVars
  BY <1>2, <1>13 DEF mixerVars
<1>14. QED
  BY <1>3, <1>4, <1>5, <1>6, <1>7, <1>8, <1>9, <1>10, <1>11, <1>12, <1>13
     DEF MixerNext, MixerStep, StopperStep

\* The invariant holds in every reachable state.
THEOREM MixerInvHolds == MixerSpec => []MixerInv
BY InitHasMixerInv, NextKeepsMixerInv, PTL DEF MixerSpec

\* Types, for any number of mixers and stoppers.
THEOREM MixerTypeCorrect == MixerSpec => []MixerTypeOK
<1>1. MixerInv => MixerTypeOK
  BY DEF MixerInv
<1>2. QED
  BY <1>1, MixerInvHolds, PTL

\* The mixer that mixes can be stopped, whoever else is stopping it, as long as no
\* mixer was started beside another one or beside a stop.
THEOREM MixerCanBeStopped == MixerSpec => []MixerIsReachable
<1>1. MixerInv => MixerIsReachable
  BY DEF MixerInv
<1>2. QED
  BY <1>1, MixerInvHolds, PTL

-----------------------------------------------------------------------------
(* The services together                                                   *)

\* A behaviour of the model that TLC checks is, seen from each service, one of
\* that service, so that what is proved of each holds in it.
LEMMA WalletServicesCompose == MCWalletSpec => PoliteiaSpec /\ BuyerSpec /\ MixerSpec
<1>1. MCWalletInit => PoliteiaInit /\ BuyerInit /\ MixerInit
  BY DEF MCWalletInit
<1>2. ASSUME [MCWalletNext]_<<service, politeiaVars, buyerVars, mixerVars>>
      PROVE  [PoliteiaNext]_politeiaVars /\ [BuyerNext]_buyerVars /\ [MixerNext]_mixerVars
  BY <1>2 DEF MCWalletNext
<1>3. QED
  BY <1>1, <1>2, PTL DEF MCWalletSpec, PoliteiaSpec, BuyerSpec, MixerSpec

\* Types of the three services, whichever of them runs.
THEOREM MCWalletTypeCorrect == MCWalletSpec => []MCWalletTypeOK
<1>1. PoliteiaTypeOK /\ BuyerTypeOK /\ MixerTypeOK => MCWalletTypeOK
  BY DEF MCWalletTypeOK
<1>2. QED
  BY <1>1, WalletServicesCompose, PoliteiaTypeCorrect, BuyerTypeCorrect, MixerTypeCorrect, PTL
=============================================================================
