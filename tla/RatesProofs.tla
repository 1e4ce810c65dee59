------------------------------ MODULE RatesProofs ------------------------------
(***************************************************************************)
(* Proofs about Rates, for any sources, any markets and any number of      *)
(* goroutines.  The safety that the liveness property RefreshesEnd rests   *)
(* on: refreshing stands for one refresh that is under way, and a refresh  *)
(* that waits will be woken.  The types.  And that the cache follows the   *)
(* source that was chosen last.                                            *)
(***************************************************************************)
EXTENDS Rates, WellFoundedInduction, TLAPS

\* Past the loop on refreshing: not the fetch of a single rate, which has no part in it.
Refreshes(j) ==
    \/ job[j].pc \in {"copy", "market", "end"}
    \/ job[j].pc \in {"try", "asked", "cached", "fallback"} /\ job[j].kind # "fetch"

Shape ==
    /\ DOMAIN job = Jobs
    /\ \A j \in Jobs : {"pc", "kind"} \subseteq DOMAIN job[j]

\* Refreshes follow each other, and each has set refreshing.
OneRefresh ==
    /\ \A j, k \in Jobs : Refreshes(j) /\ Refreshes(k) => j = k
    /\ \A j \in Jobs : Refreshes(j) => refreshing
    /\ refreshing => \E j \in Jobs : Refreshes(j)

\* A job waits as long as another refreshes, or one that was woken or has just come
\* will; there is nobody left who would not wake it.
NoWakeUpIsLost ==
    \A j \in Jobs : JobAt(j, "waiting") => refreshing \/ \E k \in Jobs : JobAt(k, "enter")

\* The fetch of a single rate does nothing else.
FetchesOnly == \A j \in Jobs : job[j].kind = "fetch" => job[j].pc \in {"try", "asked", "cached", "fallback"}

Inv == Shape /\ OneRefresh /\ NoWakeUpIsLost /\ FetchesOnly

\* One job moves.
Moves(j, pc, kind) ==
    /\ Shape' /\ job'[j].pc = pc /\ job'[j].kind = kind
    /\ \A k \in Jobs \ {j} : job'[k] = job[k]

\* A job that takes another record moves to the state of that record.
LEMMA BecomingMoves ==
    ASSUME Shape, NEW j \in Jobs, NEW record, JobBecomes(j, record),
           {"pc", "kind"} \subseteq DOMAIN record
    PROVE  Moves(j, record.pc, record.kind)
BY DEF Shape, JobBecomes, Moves

\* A job that goes on keeps its kind.
LEMMA GoingMoves ==
    ASSUME Shape, NEW j \in Jobs, NEW pc, JobGoes(j, pc)
    PROVE  Moves(j, pc, job[j].kind)
BY DEF Shape, JobGoes, Moves

\* A job that ends or waits forgets what it asked for.
LEMMA EndingMoves ==
    ASSUME Shape, NEW j \in Jobs, NEW pc, JobBecomes(j, JobRecord(pc))
    PROVE  Moves(j, pc, "refresh")
<1>1. /\ JobRecord(pc).pc = pc /\ JobRecord(pc).kind = "refresh"
      /\ {"pc", "kind"} \subseteq DOMAIN JobRecord(pc)
  BY DEF JobRecord
<1>2. QED
  BY <1>1, BecomingMoves

\* The invariant holds at first.
LEMMA InitHasInv == RatesInit => Inv
<1> SUFFICES ASSUME RatesInit PROVE Inv
  OBVIOUS
<1>1. \A j \in Jobs : /\ job[j].pc = "unborn" /\ job[j].kind = "refresh"
                      /\ {"pc", "kind"} \subseteq DOMAIN job[j]
  BY DEF RatesInit, JobRecord
<1>2. DOMAIN job = Jobs /\ ~refreshing
  BY DEF RatesInit
<1>3. QED
  BY <1>1, <1>2 DEF Inv, Shape, OneRefresh, NoWakeUpIsLost, FetchesOnly, Refreshes, JobAt

-----------------------------------------------------------------------------
(* Steps                                                                   *)

\* A job moves without a change of refreshing: into a wait while another refreshes,
\* outside the refresh, or within it.
Quiet(j, pc, kind) ==
    /\ Moves(j, pc, kind) /\ UNCHANGED refreshing
    /\ job[j].pc # "enter" \/ (pc = "waiting" /\ refreshing)
    /\ pc = "waiting" => job[j].pc = "enter"
    /\ kind = "fetch" => pc \in {"try", "asked", "cached", "fallback"}
    /\ Refreshes(j) <=> \/ pc \in {"copy", "market", "end"}
                        \/ pc \in {"try", "asked", "cached", "fallback"} /\ kind # "fetch"

\* A step that takes no turn and gives none keeps the invariant.
LEMMA QuietKeepsInv ==
    ASSUME Inv, NEW j \in Jobs, NEW pc, NEW kind, Quiet(j, pc, kind)
    PROVE  Inv'
<1>1. /\ Moves(j, pc, kind) /\ UNCHANGED refreshing
      /\ job[j].pc # "enter" \/ (pc = "waiting" /\ refreshing)
      /\ pc = "waiting" => job[j].pc = "enter"
      /\ kind = "fetch" => pc \in {"try", "asked", "cached", "fallback"}
      /\ Refreshes(j) <=> \/ pc \in {"copy", "market", "end"}
                          \/ pc \in {"try", "asked", "cached", "fallback"} /\ kind # "fetch"
  BY DEF Quiet
<1>2. /\ Shape' /\ job'[j].pc = pc /\ job'[j].kind = kind
      /\ \A k \in Jobs \ {j} : job'[k] = job[k]
  BY <1>1 DEF Moves
<1>3. \A k \in Jobs : Refreshes(k)' <=> Refreshes(k)
  BY <1>1, <1>2 DEF Refreshes
<1>4. OneRefresh'
  BY <1>1, <1>3 DEF Inv, OneRefresh
<1>5. FetchesOnly'
  BY <1>1, <1>2 DEF Inv, FetchesOnly
<1>6. NoWakeUpIsLost'
  BY <1>1, <1>2 DEF Inv, NoWakeUpIsLost, JobAt
<1>7. QED
  BY <1>2, <1>4, <1>5, <1>6 DEF Inv

\* A refresh that ends tells one that waits.
LEMMA EndKeepsInv == ASSUME Inv, NEW j \in Jobs, EndRefresh(j) PROVE Inv'
<1>1. job[j].pc = "end" /\ refreshing' = FALSE
  BY DEF EndRefresh, JobAt
<1>2. \A k \in Jobs \ {j} : ~Refreshes(k)
  BY <1>1 DEF Inv, OneRefresh, Refreshes
<1>3. CASE \A k \in Jobs : ~JobAt(k, "waiting")
  <2>1. Moves(j, "done", "refresh")
    BY <1>3, EndingMoves DEF EndRefresh, Inv
  <2>2. QED
    BY <1>1, <1>2, <1>3, <2>1
       DEF Moves, Inv, OneRefresh, NoWakeUpIsLost, FetchesOnly, Refreshes, JobAt
<1>4. CASE \E k \in Jobs : JobAt(k, "waiting")
  <2>1. PICK k \in Jobs : /\ JobAt(k, "waiting")
                          /\ job' = [job EXCEPT ![j] = JobRecord("done"), ![k].pc = "enter"]
    BY <1>4 DEF EndRefresh
  <2>2. j # k
    BY <1>1, <2>1 DEF JobAt
  <2>3. /\ JobRecord("done").pc = "done" /\ JobRecord("done").kind = "refresh"
        /\ {"pc", "kind"} \subseteq DOMAIN JobRecord("done")
    BY DEF JobRecord
  <2>4. /\ DOMAIN job' = Jobs /\ job'[j] = JobRecord("done")
        /\ job'[k] = [job[k] EXCEPT !.pc = "enter"]
        /\ \A l \in Jobs \ {j, k} : job'[l] = job[l]
    BY <2>1, <2>2 DEF Inv, Shape
  <2>5. /\ job'[k].pc = "enter" /\ job'[k].kind = job[k].kind
        /\ {"pc", "kind"} \subseteq DOMAIN job'[k]
    BY <2>4 DEF Inv, Shape
  <2>6. job[k].kind # "fetch"
    BY <2>1 DEF Inv, FetchesOnly, JobAt
  <2>7. Shape'
    BY <2>3, <2>4, <2>5 DEF Inv, Shape
  <2>8. OneRefresh'
    BY <1>1, <1>2, <2>3, <2>4, <2>5 DEF OneRefresh, Refreshes
  <2>9. NoWakeUpIsLost' /\ FetchesOnly'
    BY <2>3, <2>4, <2>5, <2>6 DEF Inv, NoWakeUpIsLost, FetchesOnly, JobAt
  <2>10. QED
    BY <2>7, <2>8, <2>9 DEF Inv
<1>5. QED
  BY <1>3, <1>4
\* A refresh that begins, or waits for the one that is under way.
LEMMA BeginKeepsInv == ASSUME Inv, NEW j \in Jobs, BeginRefresh(j) PROVE Inv'
<1>1. job[j].pc = "enter" /\ job[j].kind # "fetch" /\ Shape
  BY DEF BeginRefresh, JobAt, Inv, FetchesOnly
<1>2. CASE refreshing
  <2>1. Moves(j, "waiting", job[j].kind) /\ UNCHANGED refreshing
    BY <1>1, <1>2, GoingMoves DEF BeginRefresh
  <2>2. Quiet(j, "waiting", job[j].kind)
    BY <1>1, <1>2, <2>1 DEF Quiet, Refreshes
  <2>3. QED
    BY <2>2, QuietKeepsInv
<1>3. CASE ~refreshing
  <2>1. Moves(j, "copy", job[j].kind) /\ refreshing' = TRUE
    BY <1>1, <1>3, GoingMoves DEF BeginRefresh
  <2>2. \A k \in Jobs : ~Refreshes(k)
    BY <1>3 DEF Inv, OneRefresh
  <2>3. QED
    BY <1>1, <2>1, <2>2
       DEF Moves, Inv, OneRefresh, NoWakeUpIsLost, FetchesOnly, Refreshes, JobAt
<1>4. QED
  BY <1>2, <1>3

\* A rate has come, or not, and the job is on its way.
LEMMA FetchedKeepsInv ==
    ASSUME Inv, NEW j \in Jobs, NEW m, NEW ticker, FetchedFor(j, m, ticker),
           job[j].pc \in {"try", "asked", "cached", "fallback"}, UNCHANGED refreshing
    PROVE  Inv'
<1>1. CASE job[j].kind = "fetch"
  <2>1. Moves(j, "done", "refresh")
    BY <1>1, EndingMoves DEF FetchedFor, Inv
  <2>2. Quiet(j, "done", "refresh")
    BY <1>1, <2>1 DEF Quiet, Refreshes
  <2>3. QED
    BY <2>2, QuietKeepsInv
<1>2. CASE job[j].kind # "fetch"
  <2>1. PICK t :
           JobBecomes(j, [job[j] EXCEPT !.pc = "market", !.left = @ \ {m}, !.tried = 0,
                                        !.tickers = t, !.asked = none, !.invalid = none])
    BY <1>2 DEF FetchedFor
  <2> DEFINE record == [job[j] EXCEPT !.pc = "market", !.left = @ \ {m}, !.tried = 0,
                                      !.tickers = t, !.asked = none, !.invalid = none]
  <2>2. record.pc = "market" /\ record.kind = job[j].kind /\ {"pc", "kind"} \subseteq DOMAIN record
    BY DEF Inv, Shape
  <2>b. JobBecomes(j, record)
    BY <2>1
  <2> HIDE DEF record
  <2>3. Moves(j, "market", job[j].kind)
    BY <2>b, <2>2, BecomingMoves DEF Inv
  <2>4. Quiet(j, "market", job[j].kind)
    BY <1>2, <2>3 DEF Quiet, Refreshes
  <2>5. QED
    BY <2>4, QuietKeepsInv
<1>3. QED
  BY <1>1, <1>2

\* Goroutines that begin.
LEMMA BirthKeepsInv ==
    ASSUME Inv, NEW j \in Jobs,
           \/ CallRefresh(j) \/ SetCurrencyConversionExchange(j) \/ GetTicker(j)
           \/ SetPrivacyMode(j)
    PROVE  Inv'
<1>0. /\ \A pc : JobRecord(pc).pc = pc /\ JobRecord(pc).kind = "refresh"
      /\ \A pc : {"pc", "kind"} \subseteq DOMAIN JobRecord(pc)
  BY DEF JobRecord
<1>1. CASE CallRefresh(j)
  <2>1. PICK f \in BOOLEAN : JobBecomes(j, [JobRecord("check") EXCEPT !.forced = f])
    BY <1>1 DEF CallRefresh
  <2> DEFINE record == [JobRecord("check") EXCEPT !.forced = f]
  <2>r. record.pc = "check" /\ record.kind = "refresh" /\ {"pc", "kind"} \subseteq DOMAIN record
    BY <1>0
  <2> HIDE DEF record
  <2>2. Moves(j, "check", "refresh")
    BY <2>r, <2>1, BecomingMoves DEF Inv, record
  <2>3. Quiet(j, "check", "refresh")
    BY <1>1, <2>2 DEF CallRefresh, JobBorn, JobAt, OnlyJob, rateFields, Quiet, Refreshes
  <2>4. QED
    BY <2>3, QuietKeepsInv
<1>2. CASE SetCurrencyConversionExchange(j)
  <2>1. PICK xc \in SourceNames :
           JobBecomes(j, [JobRecord("toggle") EXCEPT !.kind = "toggle", !.target = xc])
    BY <1>2 DEF SetCurrencyConversionExchange
  <2> DEFINE record == [JobRecord("toggle") EXCEPT !.kind = "toggle", !.target = xc]
  <2>r. record.pc = "toggle" /\ record.kind = "toggle" /\ {"pc", "kind"} \subseteq DOMAIN record
    BY <1>0
  <2> HIDE DEF record
  <2>2. Moves(j, "toggle", "toggle")
    BY <2>r, <2>1, BecomingMoves DEF Inv, record
  <2>3. Quiet(j, "toggle", "toggle")
    BY <1>2, <2>2 DEF SetCurrencyConversionExchange, JobBorn, JobAt, rateFields, Quiet, Refreshes
  <2>4. QED
    BY <2>3, QuietKeepsInv
<1>3. CASE GetTicker(j)
  <2>1. PICK m \in Markets :
           JobBecomes(j, [JobRecord("try") EXCEPT !.left = {m}, !.kind = "fetch"])
    BY <1>3 DEF GetTicker
  <2> DEFINE record == [JobRecord("try") EXCEPT !.left = {m}, !.kind = "fetch"]
  <2>r. record.pc = "try" /\ record.kind = "fetch" /\ {"pc", "kind"} \subseteq DOMAIN record
    BY <1>0
  <2> HIDE DEF record
  <2>2. Moves(j, "try", "fetch")
    BY <2>r, <2>1, BecomingMoves DEF Inv, record
  <2>3. Quiet(j, "try", "fetch")
    BY <1>3, <2>2 DEF GetTicker, JobBorn, JobAt, rateFields, Quiet, Refreshes
  <2>4. QED
    BY <2>3, QuietKeepsInv
<1>4. CASE SetPrivacyMode(j)
  <2>1. UNCHANGED refreshing
    BY <1>4 DEF SetPrivacyMode
  <2>2. CASE UNCHANGED job
    BY <2>1, <2>2 DEF Inv, Shape, OneRefresh, NoWakeUpIsLost, FetchesOnly, Refreshes, JobAt
  <2>3. CASE JobBorn(j) /\ JobBecomes(j, [JobRecord("check") EXCEPT !.forced = TRUE])
    <3> DEFINE record == [JobRecord("check") EXCEPT !.forced = TRUE]
    <3>r. record.pc = "check" /\ record.kind = "refresh" /\ {"pc", "kind"} \subseteq DOMAIN record
      BY <1>0
    <3> HIDE DEF record
    <3>1. Moves(j, "check", "refresh")
      BY <3>r, <2>3, BecomingMoves DEF Inv, record
    <3>2. Quiet(j, "check", "refresh")
      BY <2>1, <2>3, <3>1 DEF JobBorn, JobAt, Quiet, Refreshes
    <3>3. QED
      BY <3>2, QuietKeepsInv
  <2>4. QED
    BY <1>4, <2>2, <2>3 DEF SetPrivacyMode
<1>5. QED
  BY <1>1, <1>2, <1>3, <1>4

\* The steps of a goroutine.
LEMMA JobKeepsInv == ASSUME Inv, NEW j \in Jobs, JobStep(j) PROVE Inv'
<1> USE DEF JobAt
<1>0. Shape /\ (job[j].kind = "fetch" => job[j].pc \in {"try", "asked", "cached", "fallback"})
  BY DEF Inv, FetchesOnly
<1>a. ASSUME NEW pc, NEW kind, Quiet(j, pc, kind) PROVE Inv'
  BY <1>a, QuietKeepsInv
<1>1. CASE ToggleSource(j)
  <2>1. job[j].pc = "toggle" /\ UNCHANGED refreshing
    BY <1>1 DEF ToggleSource, rateFields
  <2>2. CASE JobBecomes(j, JobRecord("done"))
    <3>1. Moves(j, "done", "refresh")
      BY <1>0, <2>2, EndingMoves
    <3>2. Quiet(j, "done", "refresh")
      BY <2>1, <3>1 DEF Quiet, Refreshes
    <3>3. QED
      BY <1>a, <3>2
  <2>3. CASE JobBecomes(j, [job[j] EXCEPT !.pc = "check", !.forced = TRUE, !.target = none])
    <3> DEFINE record == [job[j] EXCEPT !.pc = "check", !.forced = TRUE, !.target = none]
    <3>r. record.pc = "check" /\ record.kind = job[j].kind /\ {"pc", "kind"} \subseteq DOMAIN record
      BY <1>0 DEF Shape
    <3> HIDE DEF record
    <3>1. Moves(j, "check", job[j].kind)
      BY <1>0, <3>r, <2>3, BecomingMoves DEF record
    <3>2. Quiet(j, "check", job[j].kind)
      BY <1>0, <2>1, <3>1 DEF Quiet, Refreshes
    <3>3. QED
      BY <1>a, <3>2
  <2>4. QED
    BY <1>1, <2>2, <2>3 DEF ToggleSource
<1>2. CASE CheckDisabled(j)
  <2>1. job[j].pc = "check" /\ UNCHANGED refreshing
    BY <1>2 DEF CheckDisabled, OnlyJob, rateFields
  <2>2. Moves(j, "done", "refresh") \/ Moves(j, "enter", job[j].kind)
    BY <1>0, <1>2, EndingMoves, GoingMoves DEF CheckDisabled
  <2>3. Quiet(j, "done", "refresh") \/ Quiet(j, "enter", job[j].kind)
    BY <1>0, <2>1, <2>2 DEF Quiet, Refreshes
  <2>4. QED
    BY <1>a, <2>3
<1>3. CASE BeginRefresh(j)
  BY <1>3, BeginKeepsInv
<1>4. CASE CopyRates(j)
  <2>1. PICK t, l :
           JobBecomes(j, [job[j] EXCEPT !.pc = "market", !.forced = FALSE, !.tickers = t, !.left = l])
    BY <1>4 DEF CopyRates
  <2> DEFINE record == [job[j] EXCEPT !.pc = "market", !.forced = FALSE, !.tickers = t, !.left = l]
  <2>r. record.pc = "market" /\ record.kind = job[j].kind /\ {"pc", "kind"} \subseteq DOMAIN record
    BY <1>0 DEF Shape
  <2> HIDE DEF record
  <2>2. Moves(j, "market", job[j].kind)
    BY <1>0, <2>r, <2>1, BecomingMoves DEF record
  <2>3. Quiet(j, "market", job[j].kind)
    BY <1>0, <1>4, <2>2 DEF CopyRates, OnlyJob, rateFields, Quiet, Refreshes
  <2>4. QED
    BY <1>a, <2>3
<1>5. CASE NextMarket(j)
  <2>1. Moves(j, "try", job[j].kind)
    BY <1>0, <1>5, GoingMoves DEF NextMarket
  <2>2. Quiet(j, "try", job[j].kind)
    BY <1>0, <1>5, <2>1 DEF NextMarket, OnlyJob, rateFields, Quiet, Refreshes
  <2>3. QED
    BY <1>a, <2>2
<1>6. CASE StoreTickers(j)
  <2>1. Moves(j, "end", job[j].kind)
    <3> DEFINE record == [job[j] EXCEPT !.pc = "end", !.tickers = NoTickers]
    <3>1. record.pc = "end" /\ record.kind = job[j].kind /\ {"pc", "kind"} \subseteq DOMAIN record
      BY <1>0 DEF Shape
    <3>2. JobBecomes(j, record)
      BY <1>6 DEF StoreTickers
    <3> HIDE DEF record
    <3>3. QED
      BY <1>0, <3>1, <3>2, BecomingMoves
  <2>2. Quiet(j, "end", job[j].kind)
    BY <1>0, <1>6, <2>1 DEF StoreTickers, OnlyTickers, Quiet, Refreshes
  <2>3. QED
    BY <1>a, <2>2
<1>7. CASE EndRefresh(j)
  BY <1>7, EndKeepsInv
<1>8. CASE AskTicker(j)
  <2>1. Moves(j, "asked", job[j].kind)
    <3> DEFINE record == [job[j] EXCEPT !.pc = "asked", !.asked = getTicker]
    <3>1. record.pc = "asked" /\ record.kind = job[j].kind /\ {"pc", "kind"} \subseteq DOMAIN record
      BY <1>0 DEF Shape
    <3>2. JobBecomes(j, record)
      BY <1>8 DEF AskTicker
    <3> HIDE DEF record
    <3>3. QED
      BY <1>0, <3>1, <3>2, BecomingMoves
  <2>2. Quiet(j, "asked", job[j].kind)
    BY <1>8, <2>1 DEF AskTicker, OnlyJob, rateFields, Quiet, Refreshes
  <2>3. QED
    BY <1>a, <2>2
<1>9. CASE TickerAnswered(j)
  <2>1. job[j].pc = "asked" /\ UNCHANGED refreshing
    BY <1>9 DEF TickerAnswered, OnlyTickers
  <2>2. CASE Fetched(j, job[j].asked)
    BY <2>1, <2>2, FetchedKeepsInv DEF Fetched
  <2>3. CASE \E i : JobBecomes(j, [job[j] EXCEPT !.pc = "fallback", !.asked = none, !.invalid = i])
    <3>0. PICK i : JobBecomes(j, [job[j] EXCEPT !.pc = "fallback", !.asked = none, !.invalid = i])
      BY <2>3
    <3> DEFINE record == [job[j] EXCEPT !.pc = "fallback", !.asked = none, !.invalid = i]
    <3>r. /\ record.pc = "fallback" /\ record.kind = job[j].kind
          /\ {"pc", "kind"} \subseteq DOMAIN record
      BY <1>0 DEF Shape
    <3> HIDE DEF record
    <3>1. Moves(j, "fallback", job[j].kind)
      BY <1>0, <3>r, <3>0, BecomingMoves DEF record
    <3>2. Quiet(j, "fallback", job[j].kind)
      BY <2>1, <3>1 DEF Quiet, Refreshes
    <3>3. QED
      BY <1>a, <3>2
  <2>4. QED
    BY <1>9, <2>2, <2>3 DEF TickerAnswered
<1>10. CASE PricesCached(j)
  <2>1. Moves(j, "cached", job[j].kind)
    BY <1>0, <1>10, GoingMoves DEF PricesCached
  <2>2. Quiet(j, "cached", job[j].kind)
    BY <1>0, <1>10, <2>1 DEF PricesCached, OnlyTickers, Quiet, Refreshes
  <2>3. QED
    BY <1>a, <2>2
<1>11. CASE CachedPriceRead(j)
  <2>1. job[j].pc = "cached" /\ UNCHANGED refreshing
    BY <1>11 DEF CachedPriceRead, OnlyTickers
  <2>2. PICK m, ticker : FetchedFor(j, m, ticker)
    BY <1>11 DEF CachedPriceRead
  <2>3. QED
    BY <2>1, <2>2, FetchedKeepsInv
<1>12. CASE AskNextSource(j)
  <2>1. job[j].pc = "fallback" /\ UNCHANGED refreshing
    BY <1>12 DEF AskNextSource
  <2>2. CASE \E ticker : Fetched(j, ticker)
    BY <2>1, <2>2, FetchedKeepsInv DEF Fetched
  <2>3. CASE \E i, a : JobBecomes(j, [job[j] EXCEPT !.pc = "asked", !.asked = a, !.tried = i])
    <3>0. PICK i, a : JobBecomes(j, [job[j] EXCEPT !.pc = "asked", !.asked = a, !.tried = i])
      BY <2>3
    <3> DEFINE record == [job[j] EXCEPT !.pc = "asked", !.asked = a, !.tried = i]
    <3>r. /\ record.pc = "asked" /\ record.kind = job[j].kind
          /\ {"pc", "kind"} \subseteq DOMAIN record
      BY <1>0 DEF Shape
    <3> HIDE DEF record
    <3>1. Moves(j, "asked", job[j].kind)
      BY <1>0, <3>r, <3>0, BecomingMoves DEF record
    <3>2. Quiet(j, "asked", job[j].kind)
      BY <2>1, <3>1 DEF Quiet, Refreshes
    <3>3. QED
      BY <1>a, <3>2
  <2>4. QED
    BY <1>12, <2>2, <2>3 DEF AskNextSource
<1>13. CASE CopyNilTicker(j)
  <2>1. UNCHANGED <<job, refreshing>>
    BY <1>13 DEF CopyNilTicker, Crash
  <2>2. QED
    BY <2>1 DEF Inv, Shape, OneRefresh, NoWakeUpIsLost, FetchesOnly, Refreshes
<1>14. QED
  BY <1>1, <1>2, <1>3, <1>4, <1>5, <1>6, <1>7, <1>8, <1>9, <1>10, <1>11, <1>12, <1>13 DEF JobStep

\* Every step keeps the invariant.
LEMMA NextKeepsInv == Inv /\ [RatesNext]_rateVars => Inv'
<1> SUFFICES ASSUME Inv, [RatesNext]_rateVars PROVE Inv'
  OBVIOUS
<1>1. CASE ToggleToNone \/ GetNilTicker \/ UNCHANGED rateVars
  <2>1. UNCHANGED <<job, refreshing>>
    BY <1>1 DEF ToggleToNone, GetNilTicker, Crash, rateVars, rateFields
  <2>2. QED
    BY <2>1 DEF Inv, Shape, OneRefresh, NoWakeUpIsLost, FetchesOnly, Refreshes, JobAt
<1>2. QED
  BY <1>1, BirthKeepsInv, JobKeepsInv DEF RatesNext

\* Refresh's mutual exclusion and its wake-ups: one refresh at a time, which the field
\* tells of, and a job waits only while one is under way or about to be.
THEOREM RefreshesTakeTurns == RatesSpec => [](OneRefresh /\ NoWakeUpIsLost)
<1>1. Inv => OneRefresh /\ NoWakeUpIsLost
  BY DEF Inv
<1>2. QED
  BY <1>1, InitHasInv, NextKeepsInv, PTL DEF RatesSpec
-----------------------------------------------------------------------------
(* Types                                                                   *)

\* The sources of the list have names, as has the dummy, and no rate is none of them.
LEMMA SourcesAreNamed ==
    /\ \A i \in DOMAIN RateSources : RateSources[i] \in SourceNames
    /\ none \in SourceNames /\ NoTicker \notin SourceNames /\ NilTicker \notin SourceNames
    /\ DOMAIN RateSources = 1 .. Len(RateSources) /\ Len(RateSources) \in Nat
    /\ InitialSources \subseteq SourceNames
<1>1. DOMAIN RateSources = 1 .. Len(RateSources) /\ Len(RateSources) \in Nat
  BY RatesBounds
<1>2. Len(RateSources) \in DOMAIN RateSources
  BY <1>1, RatesBounds
<1>3. QED
  BY <1>1, <1>2, RatesBounds DEF SourceNames, none

\* The fallback loop finds the next source, if there is one left.
LEMMA NextSourceIsThere ==
    ASSUME NEW rest, rest \subseteq DOMAIN RateSources, rest # {}
    PROVE  (CHOOSE k \in rest : \A l \in rest : k <= l) \in rest
<1>1. rest \subseteq Nat
  BY SourcesAreNamed
<1> DEFINE less == {pair \in Nat \X Nat : pair[1] < pair[2]}
<1>2. less = OpToRel(<, Nat)
  BY Zenon DEF OpToRel
<1>3. IsWellFoundedOn(less, Nat)
  BY <1>2, NatLessThanWellFounded, Zenon
<1>4. \E k \in rest : \A l \in rest : <<l, k>> \notin less
  <2> HIDE DEF less
  <2>1. QED
    BY <1>1, <1>3, WFMin
<1>5. \E k \in rest : \A l \in rest : k <= l
  <2>1. \A k, l \in Nat : <<l, k>> \notin less => k <= l
    OBVIOUS
  <2>2. QED
    BY <1>1, <1>4, <2>1
<1>6. QED
  BY <1>5

\* The map without rates, and the record of a job at any place, are typed.
LEMMA RecordsTyped ==
    /\ NoTickers \in Tickers
    /\ \A pc \in JobStates : JobRecord(pc) \in JobRecords
<1>1. NoTickers \in Tickers
  BY DEF NoTickers, Tickers
<1>2. QED
  BY <1>1, SourcesAreNamed DEF JobRecord, JobRecords

\* The initial states are typed.
LEMMA InitTyped == RatesInit => RatesTypeOK
BY RecordsTyped, SourcesAreNamed DEF RatesInit, RatesTypeOK, Tickers, NoTickers, JobStates

\* What was fetched goes into the map of a refresh, or into the cache.
LEMMA FetchedTyped ==
    ASSUME RatesTypeOK, NEW j \in Jobs, NEW m \in job[j].left,
           NEW ticker \in SourceNames \cup {NoTicker, NilTicker}, FetchedFor(j, m, ticker)
    PROVE  job' \in [Jobs -> JobRecords] /\ tickers' \in Tickers
<1>1. job[j] \in JobRecords /\ job \in [Jobs -> JobRecords]
  BY DEF RatesTypeOK
<1> DEFINE got(cache) == IF ticker = NoTicker THEN cache ELSE [cache EXCEPT ![m] = ticker]
<1>2. IF job[j].kind = "fetch"
      THEN tickers' = got(tickers) /\ JobBecomes(j, JobRecord("done"))
      ELSE /\ UNCHANGED tickers
           /\ JobBecomes(j, [job[j] EXCEPT !.pc = "market", !.left = @ \ {m}, !.tried = 0,
                                   !.tickers = got(job[j].tickers), !.asked = none,
                                   !.invalid = none])
  BY DEF FetchedFor
<1>3. ASSUME NEW cache \in Tickers PROVE got(cache) \in Tickers
  BY DEF Tickers
<1>4. tickers \in Tickers /\ job[j].tickers \in Tickers
  BY <1>1 DEF RatesTypeOK, JobRecords
<1>5. got(tickers) \in Tickers /\ got(job[j].tickers) \in Tickers
  BY <1>3, <1>4
<1> HIDE DEF got
<1>6. JobRecord("done") \in JobRecords
  BY RecordsTyped DEF JobStates
<1>7. [job[j] EXCEPT !.pc = "market", !.left = @ \ {m}, !.tried = 0,
                     !.tickers = got(job[j].tickers), !.asked = none, !.invalid = none]
          \in JobRecords
  <2>1. job[j].left \ {m} \subseteq Markets /\ 0 \in 0 .. Len(RateSources)
    BY <1>1, SourcesAreNamed DEF JobRecords
  <2>2. QED
    BY <1>1, <1>5, <2>1, SourcesAreNamed DEF JobRecords, JobStates
<1>8. QED
  BY <1>1, <1>2, <1>4, <1>5, <1>6, <1>7 DEF JobBecomes

\* The steps of a goroutine keep the types.
LEMMA JobTyped == ASSUME RatesTypeOK, NEW j \in Jobs, JobStep(j) PROVE RatesTypeOK'
<1>0. /\ job[j] \in JobRecords /\ job \in [Jobs -> JobRecords]
      /\ source \in SourceNames /\ getTicker \in SourceNames /\ chosen \in SourceNames
      /\ tickers \in Tickers /\ NoTickers \in Tickers /\ JobRecord("done") \in JobRecords
      /\ none \in SourceNames
  BY RecordsTyped, SourcesAreNamed DEF RatesTypeOK, JobStates
<1>r. ASSUME NEW r \in JobRecords, JobBecomes(j, r) PROVE job' \in [Jobs -> JobRecords]
  BY <1>0, <1>r DEF JobBecomes
<1>g. ASSUME NEW pc \in JobStates, JobGoes(j, pc) PROVE job' \in [Jobs -> JobRecords]
  <2>1. [job[j] EXCEPT !.pc = pc] \in JobRecords
    BY <1>0 DEF JobRecords
  <2>2. QED
    BY <1>0, <1>g, <2>1 DEF JobGoes
<1> USE DEF RatesTypeOK, rateFields, settings, OnlyJob, OnlyTickers, OnlyRefreshing
<1>1. CASE ToggleSource(j)
  <2>1. [job[j] EXCEPT !.pc = "check", !.forced = TRUE, !.target = none] \in JobRecords
    BY <1>0 DEF JobRecords, JobStates
  <2>2. job' \in [Jobs -> JobRecords]
    BY <1>0, <1>1, <1>r, <2>1 DEF ToggleSource
  <2>3. job[j].target \in SourceNames
    BY <1>0 DEF JobRecords
  <2>4. QED
    BY <1>0, <1>1, <2>2, <2>3 DEF ToggleSource
<1>2. CASE CheckDisabled(j)
  <2>1. job' \in [Jobs -> JobRecords]
    BY <1>0, <1>2, <1>r, <1>g DEF CheckDisabled, JobStates
  <2>2. QED
    BY <1>2, <2>1 DEF CheckDisabled
<1>3. CASE BeginRefresh(j)
  <2>1. job' \in [Jobs -> JobRecords]
    BY <1>3, <1>g DEF BeginRefresh, JobStates
  <2>2. QED
    BY <1>3, <2>1 DEF BeginRefresh
<1>4. CASE CopyRates(j)
  <2>1. PICK t \in Tickers, l \in SUBSET Markets :
           JobBecomes(j, [job[j] EXCEPT !.pc = "market", !.forced = FALSE, !.tickers = t,
                                        !.left = l])
    BY <1>0, <1>4 DEF CopyRates
  <2>2. [job[j] EXCEPT !.pc = "market", !.forced = FALSE, !.tickers = t, !.left = l] \in JobRecords
    BY <1>0 DEF JobRecords, JobStates
  <2>3. job' \in [Jobs -> JobRecords]
    BY <1>r, <2>1, <2>2
  <2>4. QED
    BY <1>4, <2>3 DEF CopyRates
<1>5. CASE NextMarket(j)
  <2>1. job' \in [Jobs -> JobRecords]
    BY <1>5, <1>g DEF NextMarket, JobStates
  <2>2. QED
    BY <1>5, <2>1 DEF NextMarket
<1>6. CASE StoreTickers(j)
  <2>0. [job[j] EXCEPT !.pc = "end", !.tickers = NoTickers] \in JobRecords
    BY <1>0 DEF JobRecords, JobStates
  <2>1. job' \in [Jobs -> JobRecords] /\ tickers' \in Tickers
    BY <1>0, <1>6, <1>r, <2>0 DEF StoreTickers, JobRecords
  <2>2. QED
    BY <1>6, <2>1 DEF StoreTickers
<1>7. CASE EndRefresh(j)
  <2>1. CASE JobBecomes(j, JobRecord("done"))
    BY <1>0, <1>7, <1>r, <2>1 DEF EndRefresh
  <2>2. ASSUME NEW k \in Jobs,
               job' = [job EXCEPT ![j] = JobRecord("done"), ![k].pc = "enter"]
        PROVE  RatesTypeOK'
    <3>1. \A r \in JobRecords : [r EXCEPT !.pc = "enter"] \in JobRecords
      BY DEF JobRecords, JobStates
    <3>2. job' \in [Jobs -> JobRecords]
      BY <1>0, <2>2, <3>1
    <3>3. QED
      BY <1>7, <3>2 DEF EndRefresh
  <2>3. QED
    BY <1>7, <2>1, <2>2 DEF EndRefresh
<1>f. ASSUME NEW ticker \in SourceNames \cup {NoTicker, NilTicker}, Fetched(j, ticker)
      PROVE  job' \in [Jobs -> JobRecords] /\ tickers' \in Tickers
  BY <1>f, FetchedTyped DEF Fetched
<1>8. CASE AskTicker(j)
  <2>1. [job[j] EXCEPT !.pc = "asked", !.asked = getTicker] \in JobRecords
    BY <1>0 DEF JobRecords, JobStates
  <2>2. job' \in [Jobs -> JobRecords]
    BY <1>8, <1>r, <2>1 DEF AskTicker
  <2>3. QED
    BY <1>8, <2>2 DEF AskTicker
<1>9. CASE TickerAnswered(j)
  <2>1. CASE Fetched(j, job[j].asked)
    <3>1. job[j].asked \in SourceNames
      BY <1>0 DEF JobRecords
    <3>2. job' \in [Jobs -> JobRecords] /\ tickers' \in Tickers
      BY <2>1, <3>1, <1>f
    <3>3. QED
      BY <1>9, <3>2 DEF TickerAnswered
  <2>2. CASE UNCHANGED tickers /\ \E i \in SourceNames :
                  JobBecomes(j, [job[j] EXCEPT !.pc = "fallback", !.asked = none, !.invalid = i])
    <3>1. \A i \in SourceNames :
             [job[j] EXCEPT !.pc = "fallback", !.asked = none, !.invalid = i] \in JobRecords
      BY <1>0 DEF JobRecords, JobStates
    <3>2. job' \in [Jobs -> JobRecords]
      BY <1>r, <2>2, <3>1
    <3>3. QED
      BY <1>9, <2>2, <3>2 DEF TickerAnswered
  <2>3. (IF job[j].tried = 0 THEN source ELSE job[j].invalid) \in SourceNames
    BY <1>0 DEF JobRecords
  <2>4. QED
    BY <1>9, <2>1, <2>2, <2>3 DEF TickerAnswered
<1>10. CASE PricesCached(j)
  <2>1. coinpaprika \in SourceNames
    BY <1>0, <1>10 DEF PricesCached, JobRecords
  <2>2. tickers' \in Tickers
    BY <1>0, <1>10, <2>1 DEF PricesCached, Tickers
  <2>3. job' \in [Jobs -> JobRecords]
    BY <1>10, <1>g DEF PricesCached, JobStates
  <2>4. QED
    BY <1>10, <2>2, <2>3 DEF PricesCached
<1>11. CASE CachedPriceRead(j)
  <2>1. PICK m \in job[j].left :
           LET ticker == IF tickers[m] = NoTicker THEN NilTicker ELSE tickers[m] IN
           FetchedFor(j, m, ticker) /\ calm' = (calm /\ ticker \in {coinpaprika, NilTicker})
    BY <1>11 DEF CachedPriceRead
  <2>2. m \in Markets
    BY <1>0 DEF JobRecords
  <2>3. tickers[m] \in SourceNames \cup {NoTicker, NilTicker}
    BY <1>0, <2>2 DEF Tickers
  <2>4. job' \in [Jobs -> JobRecords] /\ tickers' \in Tickers
    BY <2>1, <2>3, FetchedTyped
  <2>5. calm' \in BOOLEAN
    BY <2>1
  <2>6. QED
    BY <1>11, <2>4, <2>5 DEF CachedPriceRead
<1>12. CASE AskNextSource(j)
  <2> DEFINE rest == {i \in DOMAIN RateSources :
                          i > job[j].tried /\ RateSources[i] # job[j].invalid}
             next == CHOOSE k \in rest : \A l \in rest : k <= l
  <2>1. CASE rest = {}
    <3>1. Fetched(j, NoTicker)
      BY <1>12, <2>1 DEF AskNextSource
    <3>2. job' \in [Jobs -> JobRecords] /\ tickers' \in Tickers
      BY <3>1, <1>f
    <3>3. QED
      BY <1>0, <1>12, <2>1, <3>2 DEF AskNextSource
  <2>2. CASE rest # {}
    <3>1. next \in rest
      BY <2>2, NextSourceIsThere
    <3>2. source' = RateSources[next] /\ UNCHANGED <<tickers, chosen, disabling>>
      BY <1>12, <2>2 DEF AskNextSource
    <3>3. JobBecomes(j, [job[j] EXCEPT !.pc = "asked", !.asked = RateSources[next],
                                       !.tried = next])
      BY <1>12, <2>2 DEF AskNextSource
    <3>4. next \in 0 .. Len(RateSources) /\ RateSources[next] \in SourceNames
      BY <3>1, SourcesAreNamed
    <3> HIDE DEF next, rest
    <3>5. [job[j] EXCEPT !.pc = "asked", !.asked = RateSources[next], !.tried = next]
              \in JobRecords
      BY <1>0, <3>4 DEF JobRecords, JobStates
    <3>6. job' \in [Jobs -> JobRecords]
      BY <1>r, <3>3, <3>5
    <3>7. QED
      BY <1>12, <3>2, <3>4, <3>6 DEF AskNextSource
  <2>3. QED
    BY <2>1, <2>2
<1>13. CASE CopyNilTicker(j)
  BY <1>0, <1>13 DEF CopyNilTicker, Crash
<1>14. QED
  BY <1>1, <1>2, <1>3, <1>4, <1>5, <1>6, <1>7, <1>8, <1>9, <1>10, <1>11, <1>12, <1>13 DEF JobStep

\* Every step keeps the types.
LEMMA NextTyped == RatesTypeOK /\ [RatesNext]_rateVars => RatesTypeOK'
<1> SUFFICES ASSUME RatesTypeOK, [RatesNext]_rateVars PROVE RatesTypeOK'
  OBVIOUS
<1> USE DEF RatesTypeOK, rateFields, settings, OnlyJob
<1>0. /\ \A pc \in JobStates : JobRecord(pc) \in JobRecords
      /\ job \in [Jobs -> JobRecords] /\ NoTickers \in Tickers /\ none \in SourceNames
  BY RecordsTyped, SourcesAreNamed
<1>r. ASSUME NEW j \in Jobs, NEW r \in JobRecords, JobBecomes(j, r)
      PROVE  job' \in [Jobs -> JobRecords]
  BY <1>0, <1>r DEF JobBecomes
<1>c. JobRecord("check") \in JobRecords /\ JobRecord("toggle") \in JobRecords
      /\ JobRecord("try") \in JobRecords
  BY <1>0 DEF JobStates
<1>1. ASSUME NEW j \in Jobs, CallRefresh(j) PROVE RatesTypeOK'
  <2>1. \A f \in BOOLEAN : [JobRecord("check") EXCEPT !.forced = f] \in JobRecords
    BY <1>c DEF JobRecords
  <2>2. job' \in [Jobs -> JobRecords]
    BY <1>1, <1>r, <2>1 DEF CallRefresh
  <2>3. QED
    BY <1>1, <2>2 DEF CallRefresh
<1>2. ASSUME NEW j \in Jobs, SetCurrencyConversionExchange(j) PROVE RatesTypeOK'
  <2>1. \A xc \in SourceNames :
           [JobRecord("toggle") EXCEPT !.kind = "toggle", !.target = xc] \in JobRecords
    BY <1>c DEF JobRecords
  <2>2. job' \in [Jobs -> JobRecords] /\ chosen' \in SourceNames
    BY <1>2, <1>r, <2>1 DEF SetCurrencyConversionExchange
  <2>3. calm' \in BOOLEAN
    BY <1>2 DEF SetCurrencyConversionExchange, JobsOfKind
  <2>4. QED
    BY <1>2, <2>2, <2>3 DEF SetCurrencyConversionExchange
<1>3. ASSUME NEW j \in Jobs, GetTicker(j) PROVE RatesTypeOK'
  <2>1. \A m \in Markets :
           [JobRecord("try") EXCEPT !.left = {m}, !.kind = "fetch"] \in JobRecords
    BY <1>c DEF JobRecords
  <2>2. job' \in [Jobs -> JobRecords]
    BY <1>3, <1>r, <2>1 DEF GetTicker
  <2>3. calm' \in BOOLEAN
    BY <1>3 DEF GetTicker, JobsOfKind
  <2>4. QED
    BY <1>3, <2>2, <2>3 DEF GetTicker
<1>4. ASSUME NEW j \in Jobs, SetPrivacyMode(j) PROVE RatesTypeOK'
  <2>1. [JobRecord("check") EXCEPT !.forced = TRUE] \in JobRecords
    BY <1>c DEF JobRecords
  <2>2. job' \in [Jobs -> JobRecords]
    BY <1>0, <1>4, <1>r, <2>1 DEF SetPrivacyMode
  <2>3. disabled' \in BOOLEAN /\ privacyMode' \in BOOLEAN
    BY <1>4 DEF SetPrivacyMode, ToggleStatus
  <2>4. QED
    BY <1>4, <2>2, <2>3 DEF SetPrivacyMode
<1>5. CASE ToggleToNone \/ GetNilTicker
  BY <1>0, <1>5 DEF ToggleToNone, GetNilTicker, Crash
<1>6. CASE UNCHANGED rateVars
  BY <1>6 DEF rateVars
<1>7. QED
  BY <1>1, <1>2, <1>3, <1>4, <1>5, <1>6, JobTyped DEF RatesNext

\* The rate source keeps its types, for any sources and markets and any number of
\* goroutines: the fallback loop, too, only ever chooses one of the sources.
THEOREM RatesTypeCorrect == RatesSpec => []RatesTypeOK
BY InitTyped, NextTyped, PTL DEF RatesSpec

-----------------------------------------------------------------------------
(* The cache is of the source that was chosen                              *)

\* The job that changes the source: its refresh, which is forced, first waits for the
\* one that is under way, and then fills a cache that was emptied.
Toggles(j) == JobBusy(j) /\ job[j].kind = "toggle"
Renewing   == \E j \in Jobs : Toggles(j) /\ job[j].pc \in {"check", "enter", "waiting"}
Replacing  ==
    \E j \in Jobs : Toggles(j) /\ job[j].pc \in {"copy", "market", "try", "asked", "cached", "fallback"}

FieldsAgree == ~disabling /\ source = getTicker

\* One toggle, and no fetch of a single rate beside it.
ToggleAlone ==
    \A j, k \in Jobs : Toggles(j) /\ JobBusy(k) => /\ job[k].kind # "fetch"
                                                   /\ Toggles(k) => j = k

\* The setting is saved before the source is toggled.
ChosenComesNext ==
    /\ \A j \in Jobs : JobAt(j, "toggle") => job[j].kind = "toggle" /\ job[j].target = chosen
    /\ source = chosen \/ \E j \in Jobs : JobAt(j, "toggle")

\* A refresh before it has looked at the cache.
Unread(pc) == pc \in {"check", "enter", "waiting", "copy"}

TogglesForce ==
    \A j \in Jobs : Toggles(j) /\ ~JobAt(j, "toggle") =>
        source # none /\ (Unread(job[j].pc) => job[j].forced)

Own(cache) == \A m \in Markets : cache[m] \in {source, NoTicker, NilTicker}

\* Once the new refresh has begun, what is fetched is of the new source ...
FetchesAreOwn ==
    ~Renewing /\ source # none =>
        \A j \in Jobs :
            /\ JobAt(j, "asked") => job[j].asked = source
            /\ JobAt(j, "cached") => source = coinpaprika
            /\ job[j].pc \in {"market", "try", "asked", "cached", "fallback"} => Own(job[j].tickers)

\* ... and once it has stored its map, so is the cache.
CacheIsOwn == ~Renewing /\ ~Replacing /\ source # none => Own(tickers)

CalmInv == /\ FieldsAgree /\ ToggleAlone /\ ChosenComesNext /\ TogglesForce
           /\ FetchesAreOwn /\ CacheIsOwn
CacheInv == ~disabled /\ (calm => CalmInv)

\* At first there is no job, and nothing is cached.
LEMMA InitIsOwn == RatesInit => CacheInv
<1> SUFFICES ASSUME RatesInit PROVE CacheInv
  OBVIOUS
<1>1. \A j \in Jobs : job[j].pc = "unborn"
  BY DEF RatesInit, JobRecord
<1>2. QED
  BY <1>1, SourcesAreNamed DEF RatesInit, CacheInv, CalmInv, FieldsAgree, ToggleAlone,
     ChosenComesNext, TogglesForce, FetchesAreOwn, CacheIsOwn, Own, Toggles, JobBusy, JobAt,
     NoTickers

\* A job under way goes on, or ends, and chooses nothing.
GoesOn(j, r) ==
    /\ r \in JobRecords /\ JobBecomes(j, r) /\ JobBusy(j)
    /\ UNCHANGED <<source, getTicker, disabled, chosen, disabling>>
    /\ ~JobAt(j, "toggle") /\ r.pc \notin {"toggle", "unborn"}
    /\ r.pc = "done" \/ r.kind = job[j].kind
    /\ Unread(r.pc) => Unread(job[j].pc) /\ r.forced = job[j].forced

\* Such a step keeps what is not about the rates.
LEMMA GoingOnKeepsToggles ==
    ASSUME RatesTypeOK, CalmInv, NEW j \in Jobs, NEW r, GoesOn(j, r)
    PROVE  (FieldsAgree /\ ToggleAlone /\ ChosenComesNext /\ TogglesForce)'
<1>1. job' = [job EXCEPT ![j] = r] /\ job \in [Jobs -> JobRecords]
  BY DEF GoesOn, JobBecomes, RatesTypeOK
<1>2. job'[j] = r /\ \A k \in Jobs \ {j} : job'[k] = job[k]
  BY <1>1
<1>3. \A k \in Jobs : /\ JobBusy(k)' => JobBusy(k) /\ job'[k].kind = job[k].kind
                      /\ Unread(job'[k].pc) => Unread(job[k].pc) /\ job'[k].forced = job[k].forced
                      /\ JobAt(k, "toggle")' <=> JobAt(k, "toggle")
                      /\ JobAt(k, "toggle")' => job'[k] = job[k]
  BY <1>2 DEF GoesOn, JobBusy, JobAt
<1>4. \A k \in Jobs : Toggles(k)' => Toggles(k)
  BY <1>3 DEF Toggles
<1>5. FieldsAgree' /\ ToggleAlone'
  BY <1>3, <1>4 DEF GoesOn, CalmInv, FieldsAgree, ToggleAlone
<1>6. ChosenComesNext'
  BY <1>3 DEF GoesOn, CalmInv, ChosenComesNext
<1>7. TogglesForce'
  BY <1>3, <1>4 DEF GoesOn, CalmInv, TogglesForce, Toggles
<1>8. QED
  BY <1>5, <1>6, <1>7

\* A job goes on, with rates of its own if it holds some; a toggle that has not begun
\* its refresh does not begin it.
GoesOnOwn(j, r) ==
    /\ GoesOn(j, r)
    /\ Toggles(j) /\ job[j].pc \in {"check", "enter", "waiting"}
          => r.pc \in {"check", "enter", "waiting"}
    /\ ~Renewing /\ source # none =>
          /\ r.pc = "asked" => r.asked = source
          /\ r.pc = "cached" => source = coinpaprika
          /\ r.pc \in {"market", "try", "asked", "cached", "fallback"} => Own(r.tickers)

\* Such a step keeps the invariant, if the cache stays or what is stored in it is its own.
LEMMA GoingOnKeepsOwn ==
    ASSUME RatesTypeOK, CalmInv, NEW j \in Jobs, NEW r, GoesOnOwn(j, r),
           \/ UNCHANGED tickers /\ (Replacing => Replacing')
           \/ (Replacing => Replacing') /\ (~Renewing /\ ~Replacing /\ source # none => Own(tickers)')
           \/ ~Renewing /\ source # none => Own(tickers)'
    PROVE  CalmInv'
<1>1. job' = [job EXCEPT ![j] = r] /\ job \in [Jobs -> JobRecords] /\ GoesOn(j, r)
  BY DEF GoesOnOwn, GoesOn, JobBecomes, RatesTypeOK
<1>2. job'[j] = r /\ \A k \in Jobs \ {j} : job'[k] = job[k]
  BY <1>1
<1>3. source' = source /\ JobBusy(j)
  BY <1>1 DEF GoesOn
<1>4. Renewing => Renewing'
  BY <1>1, <1>2 DEF Renewing, Toggles, JobBusy, GoesOnOwn, GoesOn
<1>6. FetchesAreOwn'
  BY <1>2, <1>3, <1>4 DEF CalmInv, FetchesAreOwn, JobAt, Own, GoesOnOwn
<1>7. CacheIsOwn'
  BY <1>3, <1>4 DEF CalmInv, CacheIsOwn, Own
<1>8. QED
  BY <1>1, <1>6, <1>7, GoingOnKeepsToggles DEF CalmInv

\* A cache that is emptied is nobody's.
LEMMA EmptyCacheIsOwn ==
    ASSUME CalmInv, ~disabled, tickers' = NoTickers,
           UNCHANGED <<source, getTicker, disabled, chosen, disabling, job>>
    PROVE  CacheInv'
BY DEF CacheInv, CalmInv, FieldsAgree, ToggleAlone, ChosenComesNext, TogglesForce, Unread,
   FetchesAreOwn, CacheIsOwn, Own, NoTickers, Toggles, Renewing, Replacing, JobBusy, JobAt

\* The steps of a goroutine keep the cache its own.
LEMMA JobKeepsOwn ==
    ASSUME RatesTypeOK, Inv, Inv', CacheInv, NEW j \in Jobs, JobStep(j)
    PROVE  CacheInv'
<1>1. ~disabled' /\ (calm' => calm)
  <2>1. CASE CheckDisabled(j) \/ CopyRates(j) \/ NextMarket(j) \/ AskTicker(j)
    <3>1. OnlyJob
      BY <2>1 DEF CheckDisabled, CopyRates, NextMarket, AskTicker
    <3>2. QED
      BY <3>1 DEF OnlyJob, rateFields, CacheInv
  <2>t. CASE ToggleSource(j)
    <3>1. UNCHANGED <<disabled, calm>>
      BY <2>t DEF ToggleSource, rateFields
    <3>2. QED
      BY <3>1 DEF CacheInv
  <2>n. CASE CopyNilTicker(j)
    BY <2>n DEF CopyNilTicker, Crash, CacheInv
  <2>2. CASE BeginRefresh(j) \/ StoreTickers(j) \/ EndRefresh(j)
    BY <2>2 DEF BeginRefresh, StoreTickers, EndRefresh, OnlyTickers, OnlyRefreshing, CacheInv
  <2>3. CASE TickerAnswered(j) \/ PricesCached(j)
    BY <2>3 DEF TickerAnswered, PricesCached, OnlyTickers, CacheInv
  <2>r. CASE CachedPriceRead(j)
    <3>1. \E b : calm' = (calm /\ b)
      BY <2>r DEF CachedPriceRead
    <3>2. UNCHANGED disabled
      BY <2>r DEF CachedPriceRead, OnlyTickers
    <3>3. QED
      BY <3>1, <3>2, Zenon DEF CacheInv
  <2>4. CASE AskNextSource(j)
    BY <2>4 DEF AskNextSource, CacheInv
  <2>5. QED
    BY <2>1, <2>t, <2>n, <2>2, <2>3, <2>r, <2>4 DEF JobStep
<1>2. CASE ~calm'
  BY <1>1, <1>2 DEF CacheInv
<1>3. CASE calm'
  <2>1. CalmInv /\ ~disabled
    BY <1>1, <1>3 DEF CacheInv
  <2>2. job \in [Jobs -> JobRecords] /\ job[j] \in JobRecords /\ JobRecord("done") \in JobRecords
    BY RecordsTyped DEF RatesTypeOK, JobStates
  <2>d. JobRecord("done").pc = "done"
    BY DEF JobRecord
  <2>f. job[j].kind = "fetch" => job[j].pc \in {"try", "asked", "cached", "fallback"}
    BY DEF Inv, FetchesOnly
  <2>r. ASSUME NEW r \in JobRecords, GoesOnOwn(j, r), UNCHANGED tickers,
               r.pc \in {"market", "try", "asked", "cached", "fallback"} \/ ~Toggles(j) \/ ~Replacing
        PROVE  CacheInv'
    <3>1. job'[j] = r /\ (r.pc # "done" => r.kind = job[j].kind)
          /\ \A k \in Jobs \ {j} : job'[k] = job[k]
      BY <2>2, <2>r DEF GoesOnOwn, GoesOn, JobBecomes
    <3>2. Replacing => Replacing'
      BY <2>r, <3>1 DEF Replacing, Toggles, JobBusy
    <3>3. QED
      BY <1>1, <2>1, <2>r, <3>2, GoingOnKeepsOwn DEF CacheInv
  <2>own. ~Renewing /\ source # none =>
             /\ job[j].pc = "asked" => job[j].asked = source
             /\ job[j].pc = "cached" => source = coinpaprika
             /\ job[j].pc \in {"market", "try", "asked", "cached", "fallback"} => Own(job[j].tickers)
    BY <2>1 DEF CalmInv, FetchesAreOwn, JobAt
  <2>3. CASE ToggleSource(j)
    <3>1. job[j].pc = "toggle" /\ job[j].kind = "toggle" /\ job[j].target = chosen
      BY <2>1, <2>3 DEF ToggleSource, JobAt, CalmInv, ChosenComesNext
    <3>2. PICK r : /\ job' = [job EXCEPT ![j] = r] /\ r \in JobRecords
                   /\ r.pc = "done" \/ (r.pc = "check" /\ r.forced /\ r.kind = "toggle"
                                        /\ chosen # none)
                   /\ r.pc = "done" => source' = none \/ UNCHANGED <<source, getTicker, tickers>>
      <4>1. CASE job[j].target = source
        BY <2>2, <2>3, <2>d, <4>1 DEF ToggleSource, JobBecomes, rateFields
      <4>n. CASE job[j].target # source /\ job[j].target = none
        <5>1. JobBecomes(j, JobRecord("done")) /\ source' = none
          BY <2>3, <4>n DEF ToggleSource
        <5>2. QED
          BY <2>2, <2>d, <5>1 DEF JobBecomes
      <4>2. CASE job[j].target # source /\ job[j].target # none
        <5> DEFINE r == [job[j] EXCEPT !.pc = "check", !.forced = TRUE, !.target = none]
        <5>1. r \in JobRecords /\ r.pc = "check" /\ r.forced /\ r.kind = "toggle"
          BY <2>2, <3>1, SourcesAreNamed DEF JobRecords, JobStates
        <5>2. JobBecomes(j, r)
          BY <2>3, <4>2 DEF ToggleSource
        <5>3. QED
          BY <3>1, <4>2, <5>1, <5>2 DEF JobBecomes
      <4>3. QED
        BY <4>1, <4>n, <4>2
    <3>3. job'[j] = r /\ \A k \in Jobs \ {j} : job'[k] = job[k]
      BY <2>2, <3>2
    <3>4. source' = chosen /\ getTicker' = source' /\ UNCHANGED <<chosen, disabling>>
      BY <2>1, <2>3, <3>1 DEF ToggleSource, CalmInv, FieldsAgree, rateFields, settings
    <3>5. Toggles(j) /\ \A k \in Jobs \ {j} : ~Toggles(k) /\ (JobBusy(k) => job[k].kind # "fetch")
      BY <2>1, <3>1 DEF CalmInv, ToggleAlone, Toggles, JobBusy
    <3>6. \A k \in Jobs \ {j} : ~JobAt(k, "toggle")
      BY <2>1, <3>5 DEF CalmInv, ChosenComesNext, Toggles, JobBusy, JobAt
    <3>7. FieldsAgree' /\ ToggleAlone'
      BY <2>1, <3>2, <3>3, <3>4, <3>5 DEF CalmInv, FieldsAgree, ToggleAlone, Toggles, JobBusy
    <3>8. ChosenComesNext' /\ TogglesForce'
      BY <3>2, <3>3, <3>4, <3>5, <3>6
         DEF ChosenComesNext, TogglesForce, Unread, Toggles, JobBusy, JobAt
    <3>9. FetchesAreOwn' /\ CacheIsOwn'
      <4>1. CASE r.pc = "check"
        <5>1. Renewing'
          BY <3>2, <3>3, <4>1 DEF Renewing, Toggles, JobBusy
        <5>2. QED
          BY <5>1 DEF FetchesAreOwn, CacheIsOwn
      <4>2. CASE source' = none
        BY <4>2 DEF FetchesAreOwn, CacheIsOwn
      <4>3. CASE r.pc = "done" /\ UNCHANGED <<source, getTicker, tickers>>
        <5>1. ~Renewing /\ ~Replacing
          BY <3>1, <3>5 DEF Renewing, Replacing
        <5>2. QED
          BY <2>1, <3>3, <4>3, <5>1 DEF CalmInv, FetchesAreOwn, CacheIsOwn, Own, JobAt
      <4>4. QED
        BY <3>2, <4>1, <4>2, <4>3
    <3>10. QED
      BY <1>1, <3>7, <3>8, <3>9 DEF CacheInv, CalmInv
  <2>4. CASE CheckDisabled(j)
    <3>1. job[j].pc = "check" /\ UNCHANGED <<source, getTicker, tickers, disabled, chosen, disabling>>
      BY <2>4 DEF CheckDisabled, JobAt, OnlyJob, rateFields, settings
    <3>2. Toggles(j) => source # none /\ ~Replacing
      BY <2>1, <3>1 DEF CalmInv, TogglesForce, ToggleAlone, Toggles, JobBusy, JobAt, Replacing
    <3>3. PICK r \in JobRecords :
             /\ JobBecomes(j, r)
             /\ \/ r.pc = "done" /\ ~Toggles(j)
                \/ r.pc = "enter" /\ r.kind = job[j].kind /\ r.forced = job[j].forced
      <4> DEFINE r == [job[j] EXCEPT !.pc = "enter"]
      <4>1. r \in JobRecords /\ r.pc = "enter" /\ r.kind = job[j].kind /\ r.forced = job[j].forced
        BY <2>2 DEF JobRecords, JobStates
      <4>2. JobGoes(j, "enter") => JobBecomes(j, r)
        BY DEF JobGoes, JobBecomes
      <4> HIDE DEF r
      <4>3. QED
        BY <2>1, <2>2, <2>4, <2>d, <3>2, <4>1, <4>2 DEF CheckDisabled
    <3>4. GoesOnOwn(j, r)
      BY <3>1, <3>3 DEF GoesOnOwn, GoesOn, Unread, JobAt, JobBusy
    <3>5. QED
      BY <2>r, <3>1, <3>2, <3>3, <3>4
  <2>5. CASE BeginRefresh(j)
    <3>1. /\ job[j].pc = "enter" /\ job[j].kind # "fetch"
          /\ UNCHANGED <<source, getTicker, tickers, disabled, chosen, disabling>>
      BY <2>5, <2>f DEF BeginRefresh, JobAt, OnlyRefreshing, settings
    <3>2. PICK r \in JobRecords :
             /\ JobBecomes(j, r) /\ r.kind = job[j].kind /\ r.forced = job[j].forced
             /\ r.pc \in {"waiting", "copy"}
      <4>1. ASSUME NEW pc \in {"waiting", "copy"}
            PROVE  LET r == [job[j] EXCEPT !.pc = pc] IN
                   /\ r \in JobRecords /\ r.pc = pc
                   /\ r.kind = job[j].kind /\ r.forced = job[j].forced
        BY <2>2 DEF JobRecords, JobStates
      <4>2. \E pc \in {"waiting", "copy"} : JobGoes(j, pc)
        BY <2>5 DEF BeginRefresh
      <4>3. QED
        BY <4>1, <4>2 DEF JobGoes, JobBecomes
    <3>3. GoesOn(j, r)
      BY <3>1, <3>2 DEF GoesOn, Unread, JobAt, JobBusy
    <3>4. Toggles(j) => ~Replacing
      BY <2>1, <3>1 DEF CalmInv, ToggleAlone, Toggles, JobBusy, Replacing
    <3>5. CASE r.pc = "waiting" \/ ~Toggles(j)
      <4>1. GoesOnOwn(j, r)
        BY <3>2, <3>3, <3>5 DEF GoesOnOwn
      <4>2. QED
        BY <2>r, <3>1, <3>4, <4>1
    <3>6. CASE r.pc = "copy" /\ Toggles(j)
      <4>1. job'[j].pc = "copy" /\ job'[j].kind = "toggle"
        BY <2>2, <3>2, <3>6 DEF JobBecomes, Toggles
      <4>2. (FieldsAgree /\ ToggleAlone /\ ChosenComesNext /\ TogglesForce)'
        BY <2>1, <3>3, GoingOnKeepsToggles
      <4>3. Toggles(j)' /\ Refreshes(j)'
        BY <4>1 DEF Toggles, JobBusy, Refreshes
      <4>4. \A k \in Jobs : job'[k].pc \notin {"market", "try", "asked", "cached", "fallback"}
        <5> SUFFICES ASSUME NEW k \in Jobs, job'[k].pc \in {"market", "try", "asked", "cached", "fallback"}
                     PROVE  FALSE
          OBVIOUS
        <5>1. job'[k].kind # "fetch"
          BY <4>2, <4>3 DEF ToggleAlone, JobBusy
        <5>2. Refreshes(k)'
          BY <5>1 DEF Refreshes
        <5>3. QED
          BY <4>1, <4>3, <5>2 DEF Inv, OneRefresh
      <4>5. FetchesAreOwn'
        BY <4>4 DEF FetchesAreOwn, JobAt
      <4>6. Replacing'
        BY <4>1, <4>3 DEF Replacing
      <4>7. CacheIsOwn'
        BY <4>6 DEF CacheIsOwn
      <4>8. QED
        BY <1>1, <4>2, <4>5, <4>7 DEF CacheInv, CalmInv
    <3>7. QED
      BY <3>2, <3>5, <3>6
  <2>6. CASE CopyRates(j)
    <3>1. job[j].pc = "copy" /\ UNCHANGED <<source, getTicker, tickers, disabled, chosen, disabling>>
      BY <2>6 DEF CopyRates, JobAt, OnlyJob, rateFields, settings
    <3> DEFINE kept == IF job[j].forced THEN NoTickers ELSE tickers
    <3>2. kept \in Tickers
      BY RecordsTyped DEF RatesTypeOK
    <3>3. ~Renewing /\ source # none => Own(kept)
      <4>1. CASE job[j].forced
        BY <4>1 DEF Own, NoTickers
      <4>2. CASE ~job[j].forced
        <5>1. \A k \in Jobs : Refreshes(k) => k = j
          BY <3>1 DEF Inv, OneRefresh, Refreshes
        <5>2. ~Toggles(j)
          BY <2>1, <3>1, <4>2 DEF CalmInv, TogglesForce, Unread, JobAt
        <5>3. ~Replacing
          BY <5>1, <5>2 DEF Replacing, Toggles, Refreshes
        <5>4. QED
          BY <2>1, <4>2, <5>3 DEF CalmInv, CacheIsOwn
      <4>3. QED
        BY <4>1, <4>2
    <3>4. PICK l \in SUBSET Markets :
             JobBecomes(j, [job[j] EXCEPT !.pc = "market", !.forced = FALSE, !.tickers = kept,
                                          !.left = l])
      BY <2>6 DEF CopyRates
    <3> DEFINE r == [job[j] EXCEPT !.pc = "market", !.forced = FALSE, !.tickers = kept, !.left = l]
    <3> HIDE DEF kept
    <3>5. /\ r \in JobRecords /\ r.pc = "market" /\ r.kind = job[j].kind /\ r.tickers = kept
      BY <2>2, <3>2 DEF JobRecords, JobStates
    <3>6. JobBecomes(j, r)
      BY <3>4
    <3> HIDE DEF r
    <3>7. GoesOnOwn(j, r)
      BY <3>1, <3>3, <3>5, <3>6 DEF GoesOnOwn, GoesOn, Unread, JobAt, JobBusy
    <3>8. QED
      BY <2>r, <3>1, <3>5, <3>7
  <2>7. CASE NextMarket(j)
    <3>1. /\ job[j].pc = "market"
          /\ UNCHANGED <<source, getTicker, tickers, disabled, chosen, disabling>>
      BY <2>7 DEF NextMarket, JobAt, OnlyJob, rateFields, settings
    <3> DEFINE r == [job[j] EXCEPT !.pc = "try"]
    <3>2. /\ r \in JobRecords /\ r.pc = "try" /\ r.kind = job[j].kind
          /\ r.forced = job[j].forced /\ r.tickers = job[j].tickers
      BY <2>2 DEF JobRecords, JobStates
    <3>3. JobBecomes(j, r)
      BY <2>7 DEF NextMarket, JobGoes, JobBecomes
    <3> HIDE DEF r
    <3>4. GoesOnOwn(j, r)
      BY <2>own, <3>1, <3>2, <3>3 DEF GoesOnOwn, GoesOn, Unread, JobAt, JobBusy
    <3>5. QED
      BY <2>r, <3>1, <3>2, <3>4
  <2>8. CASE StoreTickers(j)
    <3>1. /\ job[j].pc = "market" /\ tickers' = job[j].tickers
          /\ UNCHANGED <<source, getTicker, disabled, chosen, disabling>>
      BY <2>8 DEF StoreTickers, JobAt, OnlyTickers, settings
    <3> DEFINE r == [job[j] EXCEPT !.pc = "end", !.tickers = NoTickers]
    <3>2. r \in JobRecords /\ r.pc = "end" /\ r.kind = job[j].kind
      BY <2>2, RecordsTyped DEF JobRecords, JobStates
    <3>3. JobBecomes(j, r)
      BY <2>8 DEF StoreTickers
    <3> HIDE DEF r
    <3>4. GoesOnOwn(j, r)
      BY <3>1, <3>2, <3>3 DEF GoesOnOwn, GoesOn, Unread, JobAt, JobBusy
    <3>5. ~Renewing /\ source # none => Own(tickers)'
      BY <2>own, <3>1 DEF Own
    <3>6. QED
      BY <1>1, <2>1, <3>4, <3>5, GoingOnKeepsOwn DEF CacheInv
  <2>9. CASE EndRefresh(j)
    <3>1. /\ job[j].pc = "end"
          /\ UNCHANGED <<source, getTicker, tickers, disabled, chosen, disabling>>
      BY <2>9 DEF EndRefresh, JobAt, OnlyRefreshing, settings
    <3>2. /\ job'[j].pc = "done"
          /\ \A k \in Jobs \ {j} :
                \/ job'[k] = job[k]
                \/ /\ job[k].pc = "waiting" /\ job'[k].pc = "enter"
                   /\ job'[k].kind = job[k].kind /\ job'[k].forced = job[k].forced
      <4>1. CASE JobBecomes(j, JobRecord("done"))
        BY <2>2, <2>d, <4>1 DEF JobBecomes
      <4>2. ASSUME NEW k \in Jobs, job[k].pc = "waiting",
                   job' = [job EXCEPT ![j] = JobRecord("done"), ![k].pc = "enter"]
            PROVE  <3>2!1 /\ <3>2!2
        <5>1. j # k
          BY <3>1, <4>2
        <5>2. /\ job'[j] = JobRecord("done") /\ job'[k] = [job[k] EXCEPT !.pc = "enter"]
              /\ \A l \in Jobs \ {j, k} : job'[l] = job[l]
          BY <2>2, <4>2, <5>1
        <5>3. job[k] \in JobRecords
          BY <2>2
        <5>4. /\ job'[k].pc = "enter" /\ job'[k].kind = job[k].kind
              /\ job'[k].forced = job[k].forced
          BY <5>2, <5>3 DEF JobRecords
        <5>5. QED
          BY <2>d, <4>2, <5>2, <5>4
      <4>3. QED
        BY <2>9, <4>1, <4>2 DEF EndRefresh, JobAt
    <3>3. \A k \in Jobs : /\ Toggles(k)' => Toggles(k)
                          /\ JobBusy(k)' => JobBusy(k) /\ job'[k].kind = job[k].kind
                          /\ Unread(job'[k].pc) => Unread(job[k].pc)
                                                  /\ job'[k].forced = job[k].forced
                          /\ JobAt(k, "toggle")' <=> JobAt(k, "toggle")
                          /\ JobAt(k, "toggle") => job'[k] = job[k]
      BY <3>1, <3>2 DEF Toggles, Unread, JobBusy, JobAt
    <3>4. (Renewing => Renewing') /\ (Replacing => Replacing')
      BY <3>1, <3>2 DEF Renewing, Replacing, Toggles, JobBusy
    <3>5. FieldsAgree' /\ ToggleAlone'
      BY <2>1, <3>1, <3>3 DEF CalmInv, FieldsAgree, ToggleAlone
    <3>6. ChosenComesNext' /\ TogglesForce'
      BY <2>1, <3>1, <3>3 DEF CalmInv, ChosenComesNext, TogglesForce, Toggles
    <3>7. FetchesAreOwn' /\ CacheIsOwn'
      BY <2>1, <3>1, <3>2, <3>4 DEF CalmInv, FetchesAreOwn, CacheIsOwn, Own, JobAt
    <3>8. QED
      BY <1>1, <3>5, <3>6, <3>7 DEF CacheInv, CalmInv
  <2>c. ASSUME NEW m \in job[j].left, NEW ticker, FetchedFor(j, m, ticker),
               ticker \in SourceNames \cup {NoTicker, NilTicker},
               ~Renewing /\ source # none => ticker \in {source, NoTicker, NilTicker},
               job[j].pc \in {"asked", "cached"},
               UNCHANGED <<source, getTicker, disabled, chosen, disabling>>
        PROVE  CacheInv'
    <3> DEFINE got(cache) == IF ticker = NoTicker THEN cache ELSE [cache EXCEPT ![m] = ticker]
    <3>1. tickers \in Tickers /\ job[j].tickers \in Tickers
      BY <2>2 DEF JobRecords, RatesTypeOK
    <3>2. IF job[j].kind = "fetch"
          THEN tickers' = got(tickers) /\ JobBecomes(j, JobRecord("done"))
          ELSE /\ UNCHANGED tickers
               /\ JobBecomes(j, [job[j] EXCEPT !.pc = "market", !.left = @ \ {m}, !.tried = 0,
                                       !.tickers = got(job[j].tickers), !.asked = none,
                                       !.invalid = none])
      BY <2>c DEF FetchedFor
    <3>3. \A cache \in Tickers :
             /\ got(cache) \in Tickers
             /\ Own(cache) /\ ~Renewing /\ source # none => Own(got(cache))
      BY <2>c DEF Own, Tickers
    <3> HIDE DEF got
    <3>4. CASE job[j].kind = "fetch"
      <4>1. ~Replacing /\ ~Toggles(j)
        BY <2>1, <2>c, <3>4 DEF Replacing, CalmInv, ToggleAlone, Toggles, JobBusy
      <4>2. ~Renewing /\ source # none => Own(tickers)'
        <5>1. ~Renewing /\ source # none => Own(got(tickers))
          BY <2>1, <3>1, <3>3, <4>1 DEF CalmInv, CacheIsOwn
        <5>2. QED
          BY <2>c, <3>2, <3>4, <5>1 DEF Own
      <4>3. GoesOnOwn(j, JobRecord("done"))
        BY <2>2, <2>d, <2>c, <3>2, <3>4, <4>1 DEF GoesOnOwn, GoesOn, Unread, JobAt, JobBusy
      <4>4. QED
        BY <1>1, <2>1, <4>2, <4>3, GoingOnKeepsOwn DEF CacheInv
    <3>5. CASE job[j].kind # "fetch"
      <4> DEFINE cache == got(job[j].tickers)
                 r == [job[j] EXCEPT !.pc = "market", !.left = @ \ {m}, !.tried = 0,
                                     !.tickers = cache, !.asked = none, !.invalid = none]
      <4>1. cache \in Tickers
        BY <3>1, <3>3
      <4>2. ~Renewing /\ source # none => Own(cache)
        BY <2>own, <2>c, <3>1, <3>3
      <4>3. JobBecomes(j, r) /\ UNCHANGED tickers
        BY <3>2, <3>5
      <4> HIDE DEF cache
      <4>4. job[j].left \ {m} \subseteq Markets /\ 0 \in 0 .. Len(RateSources)
        BY <2>2, SourcesAreNamed DEF JobRecords
      <4>5. /\ r \in JobRecords /\ r.pc = "market" /\ r.kind = job[j].kind /\ r.tickers = cache
        BY <2>2, <4>1, <4>4, SourcesAreNamed DEF JobRecords, JobStates
      <4> HIDE DEF r
      <4>6. GoesOnOwn(j, r)
        BY <2>c, <4>2, <4>3, <4>5 DEF GoesOnOwn, GoesOn, Unread, JobAt, JobBusy
      <4>7. QED
        BY <2>r, <4>3, <4>5, <4>6
    <3>6. QED
      BY <3>4, <3>5
  <2>10. CASE AskTicker(j)
    <3>1. /\ job[j].pc = "try"
          /\ UNCHANGED <<source, getTicker, tickers, disabled, chosen, disabling>>
      BY <2>10 DEF AskTicker, JobAt, OnlyJob, rateFields, settings
    <3> DEFINE r == [job[j] EXCEPT !.pc = "asked", !.asked = getTicker]
    <3>2. /\ r \in JobRecords /\ r.pc = "asked" /\ r.kind = job[j].kind /\ r.asked = getTicker
          /\ r.tickers = job[j].tickers
      BY <2>2 DEF JobRecords, JobStates, RatesTypeOK
    <3>3. JobBecomes(j, r)
      BY <2>10 DEF AskTicker
    <3> HIDE DEF r
    <3>4. GoesOnOwn(j, r)
      BY <2>1, <2>own, <3>1, <3>2, <3>3
         DEF GoesOnOwn, GoesOn, Unread, JobAt, JobBusy, CalmInv, FieldsAgree
    <3>5. QED
      BY <2>r, <3>1, <3>2, <3>4
  <2>11. CASE TickerAnswered(j)
    <3>1. /\ job[j].pc = "asked"
          /\ UNCHANGED <<source, getTicker, disabled, chosen, disabling>>
      BY <2>11 DEF TickerAnswered, JobAt, OnlyTickers, settings
    <3>2. CASE Fetched(j, job[j].asked)
      <4>1. job[j].asked \in SourceNames
        BY <2>2 DEF JobRecords
      <4>2. QED
        BY <2>own, <2>c, <3>1, <3>2, <4>1 DEF Fetched
    <3>3. CASE UNCHANGED tickers /\ \E i \in SourceNames :
                    JobBecomes(j, [job[j] EXCEPT !.pc = "fallback", !.asked = none, !.invalid = i])
      <4>1. PICK i \in SourceNames :
                    JobBecomes(j, [job[j] EXCEPT !.pc = "fallback", !.asked = none, !.invalid = i])
        BY <3>3
      <4> DEFINE r == [job[j] EXCEPT !.pc = "fallback", !.asked = none, !.invalid = i]
      <4>2. /\ r \in JobRecords /\ r.pc = "fallback" /\ r.kind = job[j].kind
            /\ r.tickers = job[j].tickers
        BY <2>2, SourcesAreNamed DEF JobRecords, JobStates
      <4>3. JobBecomes(j, r)
        BY <4>1
      <4> HIDE DEF r
      <4>4. GoesOnOwn(j, r)
        BY <2>own, <3>1, <4>2, <4>3 DEF GoesOnOwn, GoesOn, Unread, JobAt, JobBusy
      <4>5. QED
        BY <2>r, <3>3, <4>2, <4>4
    <3>4. (IF job[j].tried = 0 THEN source ELSE job[j].invalid) \in SourceNames
      BY <2>2 DEF JobRecords, RatesTypeOK
    <3>5. QED
      BY <2>11, <3>2, <3>3, <3>4 DEF TickerAnswered
  <2>p. CASE PricesCached(j)
    <3>1. /\ job[j].pc = "asked" /\ job[j].asked = coinpaprika
          /\ UNCHANGED <<source, getTicker, disabled, chosen, disabling>>
      BY <2>p DEF PricesCached, JobAt, OnlyTickers, settings
    <3> DEFINE r == [job[j] EXCEPT !.pc = "cached"]
    <3>2. /\ r \in JobRecords /\ r.pc = "cached" /\ r.kind = job[j].kind
          /\ r.tickers = job[j].tickers
      BY <2>2 DEF JobRecords, JobStates
    <3>3. JobBecomes(j, r)
      BY <2>p DEF PricesCached, JobGoes, JobBecomes
    <3> HIDE DEF r
    <3>4. GoesOnOwn(j, r)
      BY <2>own, <3>1, <3>2, <3>3 DEF GoesOnOwn, GoesOn, Unread, JobAt, JobBusy
    <3>5. Replacing => Replacing'
      <4>1. job'[j] = r /\ \A k \in Jobs \ {j} : job'[k] = job[k]
        BY <2>2, <3>3 DEF JobBecomes
      <4>2. QED
        BY <3>1, <3>2, <4>1 DEF Replacing, Toggles, JobBusy
    <3>6. ~Renewing /\ ~Replacing /\ source # none => Own(tickers)'
      <4>1. PICK priced \in SUBSET Markets :
               tickers' = [m \in Markets |-> IF m \in priced THEN coinpaprika ELSE tickers[m]]
        BY <2>p DEF PricesCached
      <4>2. QED
        BY <2>1, <2>own, <3>1, <4>1 DEF CalmInv, CacheIsOwn, Own
    <3>7. QED
      BY <1>1, <2>1, <3>4, <3>5, <3>6, GoingOnKeepsOwn DEF CacheInv
  <2>q. CASE CachedPriceRead(j)
    <3>1. /\ job[j].pc = "cached"
          /\ UNCHANGED <<source, getTicker, disabled, chosen, disabling>>
      BY <2>q DEF CachedPriceRead, JobAt, OnlyTickers, settings
    <3>2. PICK m \in job[j].left :
             LET ticker == IF tickers[m] = NoTicker THEN NilTicker ELSE tickers[m] IN
             FetchedFor(j, m, ticker) /\ calm' = (calm /\ ticker \in {coinpaprika, NilTicker})
      BY <2>q DEF CachedPriceRead
    <3> DEFINE ticker == IF tickers[m] = NoTicker THEN NilTicker ELSE tickers[m]
    <3>3. m \in Markets
      BY <2>2 DEF JobRecords
    <3>4. ticker \in SourceNames \cup {NoTicker, NilTicker}
      BY <3>3 DEF RatesTypeOK, Tickers
    <3>5. FetchedFor(j, m, ticker) /\ ticker \in {coinpaprika, NilTicker}
      BY <1>3, <3>2
    <3> HIDE DEF ticker
    <3>6. QED
      BY <2>own, <2>c, <3>1, <3>4, <3>5
  <2>n. CASE CopyNilTicker(j)
    <3>1. /\ tickers' = NoTickers
          /\ UNCHANGED <<source, getTicker, disabled, chosen, disabling, job>>
      BY <2>n DEF CopyNilTicker, Crash, settings
    <3>2. QED
      BY <1>1, <2>1, <3>1, EmptyCacheIsOwn
  <2>12. ~AskNextSource(j)
    BY <1>3 DEF AskNextSource
  <2>13. QED
    BY <2>3, <2>4, <2>5, <2>6, <2>7, <2>8, <2>9, <2>10, <2>11, <2>12,
       <2>p, <2>q, <2>n DEF JobStep
<1>4. QED
  BY <1>2, <1>3

\* A call, or a goroutine that begins, keeps the cache its own; one that begins beside a
\* toggle is not among the calm ones.
LEMMA BirthKeepsOwn ==
    ASSUME RatesTypeOK, CacheInv, calm', NEW j \in Jobs, NEW r \in JobRecords,
           JobBecomes(j, r), JobAt(j, "unborn"), calm' => calm,
           UNCHANGED <<source, getTicker, tickers, disabled, disabling>>,
           r.pc = "toggle" => r.kind = "toggle" /\ r.target = chosen'
                              /\ \A k \in Jobs : ~Toggles(k) /\ (JobBusy(k) => job[k].kind # "fetch"),
           r.pc # "toggle" => r.kind # "toggle" /\ chosen' = chosen,
           r.kind = "fetch" => \A k \in Jobs : ~Toggles(k),
           r.pc \in {"toggle", "check", "try"}, r.tickers = NoTickers
    PROVE  CacheInv'
<1>1. CalmInv /\ ~disabled'
  BY DEF CacheInv
<1>2. job'[j] = r /\ \A k \in Jobs \ {j} : job'[k] = job[k]
  BY DEF JobBecomes, RatesTypeOK
<1>3. ~JobBusy(j) /\ ~Toggles(j) /\ job[j].pc = "unborn"
  BY DEF JobBusy, Toggles, JobAt
<1>4. \A k \in Jobs \ {j} : (Toggles(k)' <=> Toggles(k)) /\ (JobBusy(k)' <=> JobBusy(k))
  BY <1>2 DEF Toggles, JobBusy
<1>5. Toggles(j)' => r.pc = "toggle"
  BY <1>2 DEF Toggles
<1>6. (Renewing' <=> Renewing) /\ (Replacing' <=> Replacing)
  BY <1>2, <1>3, <1>5 DEF Renewing, Replacing, Toggles, JobBusy
<1>7. FieldsAgree' /\ ToggleAlone'
  BY <1>1, <1>2, <1>3, <1>4, <1>5 DEF CalmInv, FieldsAgree, ToggleAlone
<1>8. ChosenComesNext'
  <2>1. CASE r.pc = "toggle"
    <3>1. \A k \in Jobs \ {j} : ~JobAt(k, "toggle")
      BY <1>1, <2>1 DEF CalmInv, ChosenComesNext, Toggles, JobBusy, JobAt
    <3>2. QED
      BY <1>2, <2>1, <3>1 DEF ChosenComesNext, JobAt
  <2>2. CASE r.pc # "toggle"
    BY <1>1, <1>2, <1>3, <2>2 DEF CalmInv, ChosenComesNext, JobAt
  <2>3. QED
    BY <2>1, <2>2
<1>9. TogglesForce'
  BY <1>1, <1>2, <1>4, <1>5 DEF CalmInv, TogglesForce, Unread, JobAt
<1>10. FetchesAreOwn' /\ CacheIsOwn'
  BY <1>1, <1>2, <1>6 DEF CalmInv, FetchesAreOwn, CacheIsOwn, Own, NoTickers, JobAt
<1>11. QED
  BY <1>1, <1>7, <1>8, <1>9, <1>10 DEF CacheInv, CalmInv

\* CacheInv is inductive, given the types and that refreshes take turns.
LEMMA NextKeepsOwn ==
    RatesTypeOK /\ Inv /\ Inv' /\ CacheInv /\ [RatesNext]_rateVars => CacheInv'
<1> SUFFICES ASSUME RatesTypeOK, Inv, Inv', CacheInv, [RatesNext]_rateVars PROVE CacheInv'
  OBVIOUS
<1>0. /\ JobRecord("check") \in JobRecords /\ JobRecord("toggle") \in JobRecords
      /\ JobRecord("try") \in JobRecords
      /\ \A pc : /\ JobRecord(pc).pc = pc /\ JobRecord(pc).kind = "refresh"
                 /\ JobRecord(pc).tickers = NoTickers
  BY RecordsTyped DEF JobRecord, JobStates
<1>1. ASSUME NEW j \in Jobs, CallRefresh(j) PROVE CacheInv'
  <2>1. PICK f \in BOOLEAN : JobBecomes(j, [JobRecord("check") EXCEPT !.forced = f])
    BY <1>1 DEF CallRefresh
  <2> DEFINE r == [JobRecord("check") EXCEPT !.forced = f]
  <2>2. r \in JobRecords /\ r.pc = "check" /\ r.kind = "refresh" /\ r.tickers = NoTickers
    BY <1>0 DEF JobRecords
  <2>3. JobBecomes(j, r)
    BY <2>1
  <2> HIDE DEF r
  <2>4. /\ JobAt(j, "unborn") /\ UNCHANGED <<calm, chosen>>
        /\ UNCHANGED <<source, getTicker, tickers, disabled, disabling>>
    BY <1>1 DEF CallRefresh, JobBorn, OnlyJob, rateFields, settings
  <2>5. QED
    BY <2>2, <2>3, <2>4, BirthKeepsOwn DEF CacheInv
<1>2. ASSUME NEW j \in Jobs, SetCurrencyConversionExchange(j) PROVE CacheInv'
  <2>1. PICK xc \in SourceNames :
           /\ chosen' = xc
           /\ JobBecomes(j, [JobRecord("toggle") EXCEPT !.kind = "toggle", !.target = xc])
    BY <1>2 DEF SetCurrencyConversionExchange
  <2> DEFINE r == [JobRecord("toggle") EXCEPT !.kind = "toggle", !.target = xc]
  <2>2. /\ r \in JobRecords /\ r.pc = "toggle" /\ r.kind = "toggle" /\ r.target = chosen'
        /\ r.tickers = NoTickers
    BY <1>0, <2>1 DEF JobRecords
  <2>3. JobBecomes(j, r)
    BY <2>1
  <2> HIDE DEF r
  <2>4. /\ JobAt(j, "unborn") /\ (calm' => calm)
        /\ UNCHANGED <<source, getTicker, tickers, disabled, disabling>>
    BY <1>2 DEF SetCurrencyConversionExchange, JobBorn, rateFields
  <2>5. calm' => \A k \in Jobs : ~Toggles(k) /\ (JobBusy(k) => job[k].kind # "fetch")
    BY <1>2 DEF SetCurrencyConversionExchange, JobsOfKind, Toggles
  <2>6. QED
    BY <2>2, <2>3, <2>4, <2>5, BirthKeepsOwn DEF CacheInv
<1>3. ASSUME NEW j \in Jobs, GetTicker(j) PROVE CacheInv'
  <2>1. PICK m \in Markets :
           JobBecomes(j, [JobRecord("try") EXCEPT !.left = {m}, !.kind = "fetch"])
    BY <1>3 DEF GetTicker
  <2> DEFINE r == [JobRecord("try") EXCEPT !.left = {m}, !.kind = "fetch"]
  <2>2. r \in JobRecords /\ r.pc = "try" /\ r.kind = "fetch" /\ r.tickers = NoTickers
    BY <1>0 DEF JobRecords
  <2>3. JobBecomes(j, r)
    BY <2>1
  <2> HIDE DEF r
  <2>4. /\ JobAt(j, "unborn") /\ UNCHANGED chosen /\ (calm' => calm)
        /\ UNCHANGED <<source, getTicker, tickers, disabled, disabling>>
    BY <1>3 DEF GetTicker, JobBorn, rateFields, settings
  <2>5. calm' => \A k \in Jobs : ~Toggles(k)
    BY <1>3 DEF GetTicker, JobsOfKind, Toggles
  <2>6. QED
    BY <2>2, <2>3, <2>4, <2>5, BirthKeepsOwn DEF CacheInv
<1>4. ASSUME NEW j \in Jobs, SetPrivacyMode(j) PROVE CacheInv'
  <2>1. /\ UNCHANGED <<calm, chosen>> /\ disabled' = disabled
        /\ UNCHANGED <<source, getTicker, tickers, disabling>>
    BY <1>4 DEF SetPrivacyMode, ToggleStatus, CacheInv
  <2>2. CASE UNCHANGED job
    BY <2>1, <2>2 DEF CacheInv, CalmInv, FieldsAgree, ToggleAlone, ChosenComesNext,
       TogglesForce, Unread, FetchesAreOwn, CacheIsOwn, Own, Toggles, Renewing, Replacing,
       JobBusy, JobAt
  <2>3. CASE JobBorn(j) /\ JobBecomes(j, [JobRecord("check") EXCEPT !.forced = TRUE])
    <3> DEFINE r == [JobRecord("check") EXCEPT !.forced = TRUE]
    <3>1. r \in JobRecords /\ r.pc = "check" /\ r.kind = "refresh" /\ r.tickers = NoTickers
      BY <1>0 DEF JobRecords
    <3>2. JobBecomes(j, r) /\ JobAt(j, "unborn")
      BY <2>3 DEF JobBorn
    <3> HIDE DEF r
    <3>3. QED
      BY <2>1, <3>1, <3>2, BirthKeepsOwn DEF CacheInv
  <2>4. QED
    BY <1>4, <2>2, <2>3 DEF SetPrivacyMode
<1>5. CASE ToggleToNone
  BY <1>5 DEF ToggleToNone, CacheInv, CalmInv, FieldsAgree
<1>c. CASE GetNilTicker
  BY <1>c, EmptyCacheIsOwn DEF GetNilTicker, Crash, settings, CacheInv
<1>6. CASE UNCHANGED rateVars
  BY <1>6 DEF rateVars, rateFields, settings, CacheInv, CalmInv, FieldsAgree, ToggleAlone,
     ChosenComesNext, TogglesForce, Unread, FetchesAreOwn, CacheIsOwn, Own, Toggles, Renewing,
     Replacing, JobBusy, JobAt
<1>7. QED
  BY <1>1, <1>2, <1>3, <1>4, <1>5, <1>c, <1>6, JobKeepsOwn DEF RatesNext

\* A refresh that is under way when the source is changed never leaves the cache with
\* rates of the old source: whoever changed it empties the cache, waits for that refresh
\* and then replaces what it stored.
THEOREM CacheFollowsTheSource == RatesSpec => []QuietCacheIsCurrent
<1>1. RatesInit => RatesTypeOK /\ Inv /\ CacheInv
  BY InitTyped, InitHasInv, InitIsOwn
<1>2. RatesTypeOK /\ Inv /\ CacheInv /\ [RatesNext]_rateVars => (RatesTypeOK /\ Inv /\ CacheInv)'
  BY NextTyped, NextKeepsInv, NextKeepsOwn
<1>3. CacheInv => QuietCacheIsCurrent
  <2> SUFFICES ASSUME CacheInv, \A j \in Jobs : ~JobBusy(j), calm
               PROVE  /\ source = chosen /\ getTicker = chosen
                      /\ chosen # none =>
                            \A m \in Markets : tickers[m] \in {chosen, NoTicker, NilTicker}
    BY DEF QuietCacheIsCurrent
  <2>1. ~Renewing /\ ~Replacing /\ \A j \in Jobs : ~JobAt(j, "toggle")
    BY DEF Renewing, Replacing, Toggles, JobBusy, JobAt
  <2>2. QED
    BY <2>1 DEF CacheInv, CalmInv, FieldsAgree, ChosenComesNext, CacheIsOwn, Own
<1>4. QED
  BY <1>1, <1>2, <1>3, PTL DEF RatesSpec
=============================================================================
