--------------------------- MODULE ExchangeProofs -----------------------------
(***************************************************************************)
(* Proofs about OrderScheduler, for any number of schedulers, any balance, *)
(* any balance to maintain, any limits of the servers and any fees: orders *)
(* spare the balance to maintain, and the scheduler that trades can be     *)
(* stopped.                                                                *)
(* Proofs about ExchangeSync, for any number of syncs, orders, statuses and*)
(* retries: the synchronisation implements OneAtATime, only a sync that    *)
(* Shutdown stopped calls a nil function, and a sync that completes leaves *)
(* every order as late as the exchange had it when the sync began.         *)
(* And MCExchange, the model of both with the rate source of RatesProofs.  *)
(***************************************************************************)
EXTENDS MCExchange, RatesProofs, FiniteSetTheorems, TLAPS

(* OrderScheduler                                                          *)

SchedulerShape ==
    /\ DOMAIN sched = Schedulers /\ balance \in Int /\ spends \in Nat
    /\ walletBalance \in [Schedulers -> Int] /\ invoiced \in [Schedulers -> Int]

\* From the order to its payment the amount is one that the balance the scheduler
\* has read allows.
InvoiceLeavesBalance ==
    \A s \in Schedulers :
        sched[s] = "pay" => walletBalance[s] - invoiced[s] >= BalanceToMaintain

There(s) == sched[s] \in Trading \cup {"ending"}

\* As long as no scheduler is published beside another, there is one at most, the
\* field is empty or its, and it is stopped where a call of StopScheduler has read
\* the field and not cleared it yet.
OneAndInTheField ==
    ~overlapped =>
        /\ \A r, s \in Schedulers : There(r) /\ There(s) => r = s
        /\ \A s \in Schedulers : cancelOrderScheduler = s => There(s)
        /\ \A s \in Schedulers :
              sched[s] \in Trading /\ s \notin stoppedCtx
                 => stopper # "clear" /\ cancelOrderScheduler = s

\* From its look at the balance to its payment the one scheduler that trades knows
\* what the account still holds, but for what the user paid.
Priced == {"sleep", "rate", "create", "pay"}

BalanceIsKnown ==
    ~overlapped => \A s \in Schedulers :
                       sched[s] \in Priced => balance + spends >= walletBalance[s]

SchedulerInv ==
    /\ SchedulerShape /\ InvoiceLeavesBalance /\ OneAndInTheField
    /\ BalanceIsKnown /\ OrdersSpareTheBalance

\* The invariant holds at first.
LEMMA InitHasSchedulerInv == SchedulerInit => SchedulerInv
<1> SUFFICES ASSUME SchedulerInit PROVE SchedulerInv
  OBVIOUS
<1> USE DEF SchedulerInit
<1>1. SchedulerShape
  BY SchedulerBounds DEF SchedulerShape
<1>2. InvoiceLeavesBalance
  BY DEF InvoiceLeavesBalance
<1>3. OneAndInTheField
  BY DEF OneAndInTheField, There, Trading, Schedulers, NoScheduler
<1>4. BalanceIsKnown
  BY DEF BalanceIsKnown, Priced
<1>5. OrdersSpareTheBalance
  BY SchedulerBounds DEF OrdersSpareTheBalance
<1>6. QED
  BY <1>1, <1>2, <1>3, <1>4, <1>5 DEF SchedulerInv

-----------------------------------------------------------------------------
(* Invoices                                                                *)

\* A step of a scheduler that is no order and no look at the balance.
Unpriced(s) == \E label \in SchedulerStates \ {"pay"} : SchedulerGoes(s, label)

\* A scheduler that has no order to pay for keeps the invoices what they were.
LEMMA UnpricedKeepsInvoices ==
    ASSUME SchedulerShape, InvoiceLeavesBalance, NEW s \in Schedulers, Unpriced(s),
           walletBalance' \in [Schedulers -> Int], invoiced' \in [Schedulers -> Int],
           balance' \in Int, spends' \in Nat,
           \A r \in Schedulers \ {s} : walletBalance'[r] = walletBalance[r]
                                       /\ invoiced'[r] = invoiced[r]
    PROVE  SchedulerShape' /\ InvoiceLeavesBalance'
<1>1. /\ DOMAIN sched' = Schedulers /\ sched'[s] # "pay"
      /\ \A r \in Schedulers \ {s} : sched'[r] = sched[r]
  BY DEF SchedulerShape, Unpriced, SchedulerGoes
<1>2. QED
  BY <1>1 DEF SchedulerShape, InvoiceLeavesBalance

\* What InvoicedAmount allows, whatever the most is that the server takes.
LEMMA InvoicedAmountLeaves ==
    ASSUME SchedulerShape, NEW s \in Schedulers, NEW max \in ServerMaxima
    PROVE  /\ InvoicedAmount(s, max) \in Int
           /\ walletBalance[s] - InvoicedAmount(s, max) >= BalanceToMaintain
BY SchedulerBounds DEF SchedulerShape, InvoicedAmount

\* Every step of a scheduler keeps what is invoiced within the balance.
LEMMA StepKeepsInvoices ==
    ASSUME SchedulerShape, InvoiceLeavesBalance, NEW s \in Schedulers,
           StartScheduler(s) \/ SchedulerStep(s)
    PROVE  SchedulerShape' /\ InvoiceLeavesBalance'
<1>1. CASE CreateScheduledOrder(s)
  <2>1. CASE SchedulerGoes(s, "ending") /\ UNCHANGED <<invoiced, ordered, orderStatus>>
    <3>1. Unpriced(s)
      BY <2>1 DEF Unpriced, SchedulerStates
    <3>2. UNCHANGED <<walletBalance, invoiced, balance, spends>>
      BY <1>1, <2>1 DEF CreateScheduledOrder, account
    <3>3. QED
      BY <3>1, <3>2, UnpricedKeepsInvoices DEF SchedulerShape
  <2>2. ASSUME NEW max \in ServerMaxima, SchedulerGoes(s, "pay"),
               invoiced' = [invoiced EXCEPT ![s] = InvoicedAmount(s, max)]
        PROVE  SchedulerShape' /\ InvoiceLeavesBalance'
    <3>1. UNCHANGED <<walletBalance, balance, spends>>
      BY <1>1 DEF CreateScheduledOrder, account
    <3>2. /\ DOMAIN sched' = Schedulers
          /\ \A r \in Schedulers \ {s} : sched'[r] = sched[r]
      BY <2>2 DEF SchedulerShape, SchedulerGoes
    <3>3. /\ InvoicedAmount(s, max) \in Int
          /\ walletBalance[s] - InvoicedAmount(s, max) >= BalanceToMaintain
      BY InvoicedAmountLeaves
    <3>4. /\ invoiced' \in [Schedulers -> Int] /\ invoiced'[s] = InvoicedAmount(s, max)
          /\ \A r \in Schedulers \ {s} : invoiced'[r] = invoiced[r]
      BY <2>2, <3>3 DEF SchedulerShape
    <3>5. QED
      BY <3>1, <3>2, <3>3, <3>4 DEF SchedulerShape, InvoiceLeavesBalance
  <2>3. QED
    BY <1>1, <2>1, <2>2 DEF CreateScheduledOrder
<1>2. CASE StartScheduler(s) \/ (SchedulerStep(s) /\ ~CreateScheduledOrder(s))
  <2>1. Unpriced(s)
    BY <1>2 DEF StartScheduler, SchedulerStep, CheckCancelOrderScheduler, PublishScheduler,
                NewExchangeServer, CheckSchedulerShutdown, GetAccountBalance,
                SleepUntilNextOrder, GetExchangeRateInfo, PayOrder, AwaitOrder,
                GetScheduledOrderInfo, VerifyOrder, EndScheduler, Unpriced, SchedulerStates,
                Trading
  <2>2. /\ balance' \in Int /\ spends' \in Nat
        /\ walletBalance' \in [Schedulers -> Int] /\ invoiced' \in [Schedulers -> Int]
        /\ \A r \in Schedulers \ {s} : walletBalance'[r] = walletBalance[r]
                                       /\ invoiced'[r] = invoiced[r]
    <3>1. CASE GetAccountBalance(s)
      <4>1. UNCHANGED <<invoiced, balance, spends>>
        BY <3>1 DEF GetAccountBalance, account
      <4>2. walletBalance' = walletBalance
            \/ walletBalance' = [walletBalance EXCEPT ![s] = balance]
        BY <3>1 DEF GetAccountBalance
      <4>3. QED
        BY <4>1, <4>2 DEF SchedulerShape
    <3>2. CASE PayOrder(s)
      <4>1. balance' \in Int
        <5>1. \/ UNCHANGED balance
              \/ \E fee \in 0 .. MaxTxFee : balance' = balance - (invoiced[s] + fee)
          BY <3>2 DEF PayOrder
        <5>2. QED
          BY <5>1, SchedulerBounds DEF SchedulerShape
      <4>2. UNCHANGED <<walletBalance, invoiced, spends>>
        BY <3>2 DEF PayOrder, trade
      <4>3. QED
        BY <4>1, <4>2 DEF SchedulerShape
    <3>3. CASE EndScheduler(s)
      <4>1. /\ walletBalance' = [walletBalance EXCEPT ![s] = 0]
            /\ invoiced' = [invoiced EXCEPT ![s] = 0] /\ UNCHANGED <<balance, spends>>
        BY <3>3 DEF EndScheduler, TradeForgotten, account
      <4>2. QED
        BY <4>1 DEF SchedulerShape
    <3>4. CASE ~GetAccountBalance(s) /\ ~PayOrder(s) /\ ~EndScheduler(s)
      <4>1. UNCHANGED <<walletBalance, invoiced, balance, spends>>
        BY <1>2, <3>4 DEF StartScheduler, SchedulerStep, CheckCancelOrderScheduler,
                PublishScheduler, NewExchangeServer, CheckSchedulerShutdown,
                SleepUntilNextOrder, GetExchangeRateInfo, AwaitOrder, GetScheduledOrderInfo,
                VerifyOrder, OnlySchedulerMoves, trade, account
      <4>2. QED
        BY <4>1 DEF SchedulerShape
    <3>5. QED
      BY <3>1, <3>2, <3>3, <3>4
  <2>3. QED
    BY <2>1, <2>2, UnpricedKeepsInvoices
<1>3. QED
  BY <1>1, <1>2

\* A scheduler that pays, or looks at the balance, is the only one that does.
LEMMA OnlyOneIsPriced ==
    ASSUME OneAndInTheField, ~overlapped, NEW s \in Schedulers, sched[s] \in Trading,
           NEW r \in Schedulers \ {s}
    PROVE  sched[r] \notin Priced
BY DEF OneAndInTheField, There, Trading, Priced

\* Every step of a scheduler keeps what it knows of the balance, and spares what the
\* account has to keep.
LEMMA StepSparesBalance ==
    ASSUME SchedulerInv, NEW s \in Schedulers, StartScheduler(s) \/ SchedulerStep(s)
    PROVE  BalanceIsKnown' /\ OrdersSpareTheBalance'
<1> USE DEF SchedulerInv
<1>1. CASE PayOrder(s)
  <2> DEFINE Paid == \E fee \in 0 .. MaxTxFee : balance' = balance - (invoiced[s] + fee)
  <2>1. /\ sched[s] = "pay" /\ UNCHANGED <<walletBalance, spends, overlapped>>
        /\ Paid \/ UNCHANGED balance
    BY <1>1 DEF PayOrder, trade
  <2>2. sched'[s] \notin Priced /\ \A r \in Schedulers \ {s} : sched'[r] = sched[r]
    BY <1>1 DEF PayOrder, SchedulerGoes, SchedulerShape, Priced
  <2>3. BalanceIsKnown'
    <3> SUFFICES ASSUME ~overlapped', NEW r \in Schedulers, sched'[r] \in Priced
                 PROVE  FALSE
      BY DEF BalanceIsKnown
    <3>1. sched[s] \in Trading
      BY <2>1 DEF Trading
    <3>2. QED
      BY <2>1, <2>2, <3>1, OnlyOneIsPriced
  <2>4. OrdersSpareTheBalance'
    <3>1. CASE Paid /\ ~overlapped
      <4>1. PICK fee \in 0 .. MaxTxFee : balance' = balance - (invoiced[s] + fee)
        BY <3>1
      <4>2. /\ balance + spends >= walletBalance[s]
            /\ walletBalance[s] - invoiced[s] >= BalanceToMaintain
        BY <2>1, <3>1 DEF BalanceIsKnown, InvoiceLeavesBalance, Priced
      <4>3. balance' + spends >= BalanceToMaintain - MaxTxFee
        BY <4>1, <4>2, SchedulerBounds DEF SchedulerShape
      <4>4. QED
        BY <2>1, <4>3 DEF OrdersSpareTheBalance
    <3>2. CASE UNCHANGED balance \/ overlapped
      BY <2>1, <3>2 DEF OrdersSpareTheBalance
    <3>3. QED
      BY <2>1, <3>1, <3>2
  <2>5. QED
    BY <2>3, <2>4
<1>2. CASE GetAccountBalance(s)
  <2>1. UNCHANGED <<balance, spends, overlapped>>
    BY <1>2 DEF GetAccountBalance, account
  <2>2. \A r \in Schedulers \ {s} : sched'[r] = sched[r] /\ walletBalance'[r] = walletBalance[r]
    BY <1>2 DEF GetAccountBalance, SchedulerGoes, SchedulerShape
  <2>3. sched'[s] \notin Priced \/ walletBalance'[s] = balance
    BY <1>2 DEF GetAccountBalance, SchedulerGoes, SchedulerShape, Priced
  <2>4. QED
    BY <2>1, <2>2, <2>3 DEF BalanceIsKnown, OrdersSpareTheBalance, SchedulerShape
<1>3. CASE StartScheduler(s) \/ (SchedulerStep(s) /\ ~PayOrder(s) /\ ~GetAccountBalance(s))
  <2>1. UNCHANGED <<balance, spends>> /\ (overlapped => overlapped')
    <3>1. CASE PublishScheduler(s)
      <4>1. UNCHANGED <<balance, spends>>
        BY <3>1 DEF PublishScheduler, account
      <4>2. overlapped => overlapped'
        BY <3>1, Zenon DEF PublishScheduler
      <4>3. QED
        BY <4>1, <4>2
    <3>2. CASE ~PublishScheduler(s)
      BY <1>3, <3>2 DEF StartScheduler, SchedulerStep, CheckCancelOrderScheduler,
                NewExchangeServer, CheckSchedulerShutdown, SleepUntilNextOrder,
                GetExchangeRateInfo, CreateScheduledOrder, AwaitOrder, GetScheduledOrderInfo,
                VerifyOrder, EndScheduler, OnlySchedulerMoves, account
    <3>3. QED
      BY <3>1, <3>2
  <2>2. \A r \in Schedulers \ {s} : sched'[r] = sched[r] /\ walletBalance'[r] = walletBalance[r]
    <3>1. \E label : SchedulerGoes(s, label)
      BY <1>3 DEF StartScheduler, SchedulerStep, CheckCancelOrderScheduler, PublishScheduler,
                NewExchangeServer, CheckSchedulerShutdown, SleepUntilNextOrder,
                GetExchangeRateInfo, CreateScheduledOrder, AwaitOrder, GetScheduledOrderInfo,
                VerifyOrder, EndScheduler
    <3>2. UNCHANGED walletBalance \/ walletBalance' = [walletBalance EXCEPT ![s] = 0]
      BY <1>3 DEF StartScheduler, SchedulerStep, CheckCancelOrderScheduler, PublishScheduler,
                NewExchangeServer, CheckSchedulerShutdown, SleepUntilNextOrder,
                GetExchangeRateInfo, CreateScheduledOrder, AwaitOrder, GetScheduledOrderInfo,
                VerifyOrder, EndScheduler, OnlySchedulerMoves, TradeForgotten, trade
    <3>3. QED
      BY <3>1, <3>2 DEF SchedulerGoes, SchedulerShape
  <2>3. \/ sched'[s] \notin Priced
        \/ sched[s] \in Priced /\ walletBalance'[s] = walletBalance[s]
    BY <1>3 DEF StartScheduler, SchedulerStep, CheckCancelOrderScheduler, PublishScheduler,
                NewExchangeServer, CheckSchedulerShutdown, SleepUntilNextOrder,
                GetExchangeRateInfo, CreateScheduledOrder, AwaitOrder, GetScheduledOrderInfo,
                VerifyOrder, EndScheduler, OnlySchedulerMoves, trade, SchedulerGoes,
                SchedulerShape, Priced
  <2>4. QED
    BY <2>1, <2>2, <2>3 DEF BalanceIsKnown, OrdersSpareTheBalance
<1>4. QED
  BY <1>1, <1>2, <1>3

-----------------------------------------------------------------------------
(* The field of the cancel function                                        *)

\* A scheduler goes on before it is published, or while it trades.
LEMMA QuietStepKeepsField ==
    ASSUME SchedulerShape, OneAndInTheField, NEW s \in Schedulers, NEW label \in SchedulerStates,
           SchedulerGoes(s, label), UNCHANGED <<published, stopper, overlapped>>,
           \/ sched[s] \in {"unborn", "check"} /\ label \in {"check", "publish", "done"}
           \/ sched[s] \in Trading /\ label \in Trading \cup {"ending"}
    PROVE  OneAndInTheField'
<1>1. sched'[s] = label /\ \A r \in Schedulers \ {s} : sched'[r] = sched[r]
  BY DEF SchedulerShape, SchedulerGoes
<1>2. /\ \A r \in Schedulers : sched'[r] \in Trading => sched[r] \in Trading
      /\ \A r \in Schedulers : (sched'[r] \in Trading \cup {"ending"}) <=> There(r)
  BY <1>1 DEF There, Trading
<1>3. QED
  BY <1>2 DEF OneAndInTheField, There, published

\* Every step of a scheduler keeps the field right.
LEMMA StepKeepsField ==
    ASSUME SchedulerShape, OneAndInTheField, NEW s \in Schedulers,
           StartScheduler(s) \/ SchedulerStep(s)
    PROVE  OneAndInTheField'
<1>1. CASE PublishScheduler(s)
  <2>1. /\ sched'[s] = "server" /\ \A r \in Schedulers \ {s} : sched'[r] = sched[r]
        /\ sched[s] = "publish"
    BY <1>1 DEF PublishScheduler, SchedulerShape, SchedulerGoes
  <2>2. SUFFICES ASSUME ~overlapped'
                 PROVE  OneAndInTheField'
    BY DEF OneAndInTheField
  <2>3. /\ SchedulersThere = {} /\ stopper' = "idle" /\ cancelOrderScheduler' = s
    BY <1>1, <2>2 DEF PublishScheduler
  <2>4. \A r \in Schedulers \ {s} : sched'[r] \notin Trading \cup {"ending"}
    BY <2>1, <2>3 DEF SchedulersThere
  <2>5. QED
    BY <2>1, <2>3, <2>4 DEF OneAndInTheField, There, Trading
<1>2. CASE EndScheduler(s)
  <2>1. /\ sched[s] = "ending" /\ sched'[s] = "done"
        /\ \A r \in Schedulers \ {s} : sched'[r] = sched[r]
        /\ cancelOrderScheduler' = NoScheduler /\ UNCHANGED <<stoppedCtx, stopper, overlapped>>
    BY <1>2 DEF EndScheduler, SchedulerShape, SchedulerGoes
  <2>2. ~overlapped => \A r \in Schedulers \ {s} : sched[r] \notin Trading \cup {"ending"}
    BY <2>1 DEF OneAndInTheField, There
  <2>3. QED
    BY <2>1, <2>2 DEF OneAndInTheField, There, Trading, Schedulers, NoScheduler
<1>3. CASE StartScheduler(s) \/ CheckCancelOrderScheduler(s)
  <2>1. \E label \in {"check", "publish", "done"} : SchedulerGoes(s, label)
    BY <1>3 DEF StartScheduler, CheckCancelOrderScheduler
  <2>2. sched[s] \in {"unborn", "check"} /\ UNCHANGED <<published, stopper, overlapped>>
    BY <1>3 DEF StartScheduler, CheckCancelOrderScheduler, OnlySchedulerMoves
  <2>3. QED
    BY <2>1, <2>2, QuietStepKeepsField DEF SchedulerStates
<1>4. CASE /\ SchedulerStep(s) /\ ~PublishScheduler(s) /\ ~EndScheduler(s)
           /\ ~CheckCancelOrderScheduler(s)
  <2>1. \E label \in Trading \cup {"ending"} : SchedulerGoes(s, label)
    BY <1>4 DEF SchedulerStep, NewExchangeServer, CheckSchedulerShutdown, GetAccountBalance,
                SleepUntilNextOrder, GetExchangeRateInfo, CreateScheduledOrder, PayOrder,
                AwaitOrder, GetScheduledOrderInfo, VerifyOrder, Trading
  <2>2. sched[s] \in Trading /\ UNCHANGED <<published, stopper, overlapped>>
    BY <1>4 DEF SchedulerStep, NewExchangeServer, CheckSchedulerShutdown, GetAccountBalance,
                SleepUntilNextOrder, GetExchangeRateInfo, CreateScheduledOrder, PayOrder,
                AwaitOrder, GetScheduledOrderInfo, VerifyOrder, Trading, OnlySchedulerMoves
  <2>3. QED
    BY <2>1, <2>2, QuietStepKeepsField DEF SchedulerStates
<1>5. QED
  BY <1>1, <1>2, <1>3, <1>4

\* What is at least something that is at least a third is at least the third.
LEMMA AtLeastIsTransitive ==
    ASSUME NEW a \in Int, NEW b \in Int, NEW c \in Int, a >= b, b >= c
    PROVE  a >= c
OBVIOUS

\* StopScheduler and the user, who pays from the account.
LEMMA OthersKeepSchedulerInv ==
    ASSUME SchedulerInv, CheckBeforeStop \/ StopSchedulerStep \/ UserSpends
    PROVE  SchedulerInv'
<1>1. /\ UNCHANGED <<sched, walletBalance, invoiced, overlapped>>
      /\ balance' \in Int /\ spends' \in Nat /\ balance' + spends' >= balance + spends
  BY DEF SchedulerInv, SchedulerShape, CheckBeforeStop, StopSchedulerStep, CallCancelOrderScheduler,
         ClearCancelOrderScheduler, UserSpends, trade, account
<1>2. SchedulerShape' /\ InvoiceLeavesBalance'
  BY <1>1 DEF SchedulerInv, SchedulerShape, InvoiceLeavesBalance
<1>3. OneAndInTheField'
  <2> USE DEF SchedulerInv, OneAndInTheField, There
  <2>1. CASE CheckBeforeStop
    BY <2>1 DEF CheckBeforeStop, published
  <2>2. CASE CallCancelOrderScheduler
    BY <2>2 DEF CallCancelOrderScheduler, NoScheduler, Schedulers
  <2>3. CASE ClearCancelOrderScheduler
    BY <2>3 DEF ClearCancelOrderScheduler, NoScheduler, Schedulers
  <2>4. CASE UserSpends
    BY <2>4 DEF UserSpends, published
  <2>5. QED
    BY <2>1, <2>2, <2>3, <2>4 DEF StopSchedulerStep
<1>4. BalanceIsKnown' /\ OrdersSpareTheBalance'
  <2>1. balance \in Int /\ spends \in Nat /\ walletBalance \in [Schedulers -> Int]
    BY DEF SchedulerInv, SchedulerShape
  <2>2. /\ balance' \in Int /\ spends' \in Nat /\ balance' + spends' >= balance + spends
        /\ walletBalance' = walletBalance /\ sched' = sched
        /\ balance + spends \in Int /\ balance' + spends' \in Int
    <3>1. balance' \in Int /\ spends' \in Nat
      BY <1>1
    <3>2. balance + spends \in Int /\ balance' + spends' \in Int
      BY <2>1, <3>1
    <3>3. QED
      BY <1>1, <3>1, <3>2
  <2>3. overlapped' = overlapped
    BY <1>1
  <2>4. BalanceIsKnown'
    <3> SUFFICES ASSUME ~overlapped', NEW s \in Schedulers, sched'[s] \in Priced
                 PROVE  balance' + spends' >= walletBalance'[s]
      BY DEF BalanceIsKnown
    <3>1. balance + spends >= walletBalance[s]
      BY <2>2, <2>3 DEF SchedulerInv, BalanceIsKnown
    <3>2. walletBalance[s] \in Int
      BY <2>1
    <3>3. balance' + spends' >= walletBalance[s]
      BY <2>2, <3>1, <3>2, AtLeastIsTransitive
    <3>4. QED
      BY <2>2, <3>3
  <2>5. OrdersSpareTheBalance'
    <3>1. ASSUME NEW kept \in Int, balance + spends >= kept PROVE balance' + spends' >= kept
      BY <2>2, <3>1, AtLeastIsTransitive
    <3>2. BalanceToMaintain - MaxTxFee \in Int /\ MaxBalance \in Int
      BY SchedulerBounds
    <3>3. QED
      BY <2>3, <3>1, <3>2, Zenon DEF SchedulerInv, OrdersSpareTheBalance
  <2>6. QED
    BY <2>4, <2>5
<1>5. QED
  BY <1>2, <1>3, <1>4 DEF SchedulerInv

\* Every step keeps the invariant.
LEMMA NextKeepsSchedulerInv == SchedulerInv /\ [SchedulerNext]_schedulerVars => SchedulerInv'
<1> SUFFICES ASSUME SchedulerInv, [SchedulerNext]_schedulerVars PROVE SchedulerInv'
  OBVIOUS
<1>1. CASE SchedulerNext
  <2>1. ASSUME NEW s \in Schedulers, StartScheduler(s) \/ SchedulerStep(s) PROVE SchedulerInv'
    BY <2>1, StepKeepsInvoices, StepKeepsField, StepSparesBalance DEF SchedulerInv
  <2>2. QED
    BY <1>1, <2>1, OthersKeepSchedulerInv DEF SchedulerNext
<1>2. CASE UNCHANGED schedulerVars
  BY <1>2 DEF schedulerVars, published, trade, account, SchedulerInv, SchedulerShape,
     InvoiceLeavesBalance,
              OneAndInTheField, There, BalanceIsKnown, OrdersSpareTheBalance
<1>3. QED
  BY <1>1, <1>2

-----------------------------------------------------------------------------
(* Theorems                                                                *)

\* The invariant the others rest on: the amounts between an order and its payment,
\* and the field that holds the cancel function.
THEOREM SchedulerInvHolds == SchedulerSpec => []SchedulerInv
BY InitHasSchedulerInv, NextKeepsSchedulerInv, PTL DEF SchedulerSpec

\* IsOrderSchedulerRunning and StopScheduler mean the one scheduler that trades, as
\* long as none is published while another is under way.
THEOREM TradingCanBeStopped == SchedulerSpec => []SchedulerIsReachable
<1>1. SchedulerInv => SchedulerIsReachable
  BY DEF SchedulerInv, OneAndInTheField, There, SchedulerIsReachable
<1>2. QED
  BY <1>1, SchedulerInvHolds, PTL

\* Whatever the server takes at most, whatever the transactions cost and however long
\* a scheduler sleeps before it pays, its orders take no more than one fee of the
\* balance to maintain.
THEOREM OrdersSpareBalance == SchedulerSpec => []OrdersSpareTheBalance
BY SchedulerInvHolds, PTL DEF SchedulerInv

-----------------------------------------------------------------------------
(* ExchangeSync                                                            *)

\* A sync has a state, whatever else its record holds.
HasState ==
    /\ DOMAIN syncer = Syncs
    /\ \A s \in Syncs : "pc" \in DOMAIN syncer[s]

\* The field is that of the sync under way, until Shutdown clears it.
FieldTells ==
    /\ cancelSync \in Syncs \cup {NoSync}
    /\ ~exchangeStopped => \A s \in Syncs : SyncUnderWay(s) <=> cancelSync = s

ExchangeInv == HasState /\ FieldTells /\ OnlyShutdownCrashesSync

\* A step after which the same syncs are under way, with the same field.
Walks ==
    /\ HasState'
    /\ \A s \in Syncs : SyncUnderWay(s)' <=> SyncUnderWay(s)
    /\ UNCHANGED <<cancelSync, exchangeStopped, syncCrash>>

-----------------------------------------------------------------------------
\* The record of one sync changes, and stays that of a sync under way.
SyncMoves(s) ==
    /\ DOMAIN syncer' = Syncs
    /\ \A r \in Syncs \ {s} : syncer'[r] = syncer[r]
    /\ "pc" \in DOMAIN syncer'[s] /\ syncer'[s].pc \notin {"unborn", "done"}

\* A retry moves only the sync that retries.
LEMMA RetryMoves ==
    ASSUME HasState, NEW s \in Syncs, Retry(s)
    PROVE  SyncMoves(s)
<1> DEFINE again == [SyncRecord("page") EXCEPT !.left = syncer[s].left,
                        !.server = syncer[s].server, !.attempts = syncer[s].attempts + 1]
<1>1. "pc" \in DOMAIN again /\ again.pc = "page"
  BY DEF SyncRecord
<1>2. CASE SyncBecomes(s, again)
  <2> HIDE DEF again
  <2>1. QED
    BY <1>1, <1>2 DEF HasState, SyncMoves, SyncBecomes
<1>3. CASE SyncBecomes(s, SyncRecord("ending"))
  BY <1>3 DEF HasState, SyncMoves, SyncBecomes, SyncRecord
<1>4. QED
  BY <1>2, <1>3 DEF Retry

\* The steps of a sync between its start and its end are of that kind.
LEMMA StepMoves ==
    ASSUME HasState, NEW s \in Syncs, SyncUnderWay(s),
           \/ ExitStoppedSync(s) \/ BeginServer(s) \/ CompleteSync(s) \/ NextPage(s)
           \/ SaveLegacyOrder(s) \/ AskOrderInfo(s) \/ SaveOrderInfo(s)
    PROVE  SyncMoves(s)
<1> USE DEF HasState, SyncMoves, SyncUnderWay, SyncBecomes, SyncRecord
<1>1. CASE ExitStoppedSync(s)
  BY <1>1 DEF ExitStoppedSync
<1>2. CASE BeginServer(s)
  BY <1>2 DEF BeginServer
<1>3. CASE CompleteSync(s)
  BY <1>3 DEF CompleteSync
<1>4. CASE NextPage(s)
  <2>1. CASE Retry(s)
    BY <2>1, RetryMoves
  <2>2. CASE SyncBecomes(s, [SyncRecord("server") EXCEPT !.left = syncer[s].left])
    BY <2>2
  <2>3. ASSUME NEW page, NEW offset,
               syncer' = [syncer EXCEPT ![s].page = page, ![s].offset = offset]
        PROVE  SyncMoves(s)
    BY <2>3
  <2>4. QED
    BY <1>4, <2>1, <2>2, <2>3 DEF NextPage
<1>5. CASE SaveLegacyOrder(s)
  <2>1. PICK page : syncer' = [syncer EXCEPT ![s].page = page]
    BY <1>5 DEF SaveLegacyOrder
  <2>2. QED
    BY <2>1
<1>6. CASE AskOrderInfo(s)
  <2>1. ASSUME NEW o, syncer' = [syncer EXCEPT ![s].pc = "save", ![s].page[o] = remote[o]]
        PROVE  SyncMoves(s)
    BY <2>1
  <2>2. QED
    BY <1>6, <2>1, RetryMoves DEF AskOrderInfo
<1>7. CASE SaveOrderInfo(s)
  <2>1. ASSUME NEW page, syncer' = [syncer EXCEPT ![s].pc = "page", ![s].page = page]
        PROVE  SyncMoves(s)
    BY <2>1
  <2>2. QED
    BY <1>7, <2>1, RetryMoves DEF SaveOrderInfo
<1>8. QED
  BY <1>1, <1>2, <1>3, <1>4, <1>5, <1>6, <1>7

\* The steps between the beginning and the end of a sync only walk.
LEMMA StepWalks ==
    ASSUME HasState, NEW s \in Syncs,
           \/ ExitStoppedSync(s) \/ BeginServer(s) \/ CompleteSync(s) \/ NextPage(s)
           \/ SaveLegacyOrder(s) \/ AskOrderInfo(s) \/ SaveOrderInfo(s)
    PROVE  Walks
<1>1. SyncUnderWay(s) /\ UNCHANGED <<cancelSync, exchangeStopped, syncCrash>>
  BY DEF SyncUnderWay, SyncAt, OnlySyncer, syncState, ExitStoppedSync, BeginServer,
         CompleteSync, NextPage, SaveLegacyOrder, AskOrderInfo, SaveOrderInfo
<1>2. SyncMoves(s)
  BY <1>1, StepMoves
<1>3. QED
  BY <1>1, <1>2 DEF SyncMoves, Walks, HasState, SyncUnderWay

\* So are the steps of the pages and of the exchanges, and stuttering steps.
LEMMA OthersWalk ==
    ASSUME HasState,
           \/ CreateOrder \/ DeleteOrder \/ ExchangeAdvances \/ ListOrder
           \/ OpenLegacyOrder \/ AskViewedOrder \/ SaveViewedOrder
           \/ UNCHANGED exchangeVars
    PROVE  Walks
<1>1. UNCHANGED <<syncer, cancelSync, exchangeStopped, syncCrash>>
  BY DEF CreateOrder, DeleteOrder, ExchangeAdvances, ListOrder, OpenLegacyOrder,
         AskViewedOrder, SaveViewedOrder, exchangeVars, syncState
<1>2. QED
  BY <1>1 DEF Walks, HasState, SyncUnderWay

\* Such a step keeps the invariant, and is none of the service.
LEMMA WalksKeeps ==
    ASSUME ExchangeInv, Walks
    PROVE  ExchangeInv' /\ UNCHANGED Service!serviceVars
BY DEF ExchangeInv, Walks, FieldTells, OnlyShutdownCrashesSync, Service!serviceVars

\* A call that finds a sync under way does nothing; another one begins it.
LEMMA SyncBegins ==
    ASSUME ExchangeInv, NEW s \in Syncs, Sync(s)
    PROVE  ExchangeInv' /\ (Service!Begin(s) \/ UNCHANGED Service!serviceVars)
<1> USE DEF ExchangeInv, HasState, SyncUnderWay, SyncAt, SyncBecomes, SyncGoes, SyncRecord, syncState
<1>1. HasState' /\ syncer[s].pc = "unborn"
      /\ UNCHANGED <<exchangeStopped, syncCrash>>
  BY DEF Sync
<1>2. CASE cancelSync # NoSync
  <2>1. Walks
    BY <1>1, <1>2 DEF Sync, Walks
  <2>2. QED
    BY <2>1, WalksKeeps
<1>3. CASE cancelSync = NoSync
  <2>1. /\ cancelSync' = s /\ ~SyncUnderWay(s)
        /\ \A r \in Syncs : SyncUnderWay(r)' <=> SyncUnderWay(r) \/ r = s
    BY <1>1, <1>3 DEF Sync
  <2>2. ~exchangeStopped => \A r \in Syncs : ~SyncUnderWay(r)
    BY <1>3 DEF FieldTells, NoSync, Syncs
  <2>3. ExchangeInv'
    BY <1>1, <2>1, <2>2 DEF FieldTells, OnlyShutdownCrashesSync
  <2>4. {r \in Syncs : SyncUnderWay(r)}' = {r \in Syncs : SyncUnderWay(r)} \cup {s}
    BY <2>1
  <2>5. Service!Begin(s)
    BY <1>1, <1>3, <2>1, <2>2, <2>4 DEF Service!Begin
  <2>6. QED
    BY <2>3, <2>5
<1>4. QED
  BY <1>2, <1>3

\* A sync that ends was the one in the field, or Shutdown had cleared it.
LEMMA SyncEnds ==
    ASSUME ExchangeInv, NEW s \in Syncs, EndSync(s)
    PROVE  ExchangeInv' /\ Service!End(s)
<1> USE DEF ExchangeInv, HasState, SyncUnderWay, SyncAt, SyncBecomes, SyncRecord
<1>1. /\ HasState' /\ SyncUnderWay(s) /\ cancelSync' = NoSync
      /\ exchangeStopped' = exchangeStopped /\ (syncCrash' => cancelSync = NoSync)
      /\ \A r \in Syncs : SyncUnderWay(r)' <=> SyncUnderWay(r) /\ r # s
  BY DEF EndSync
<1>2. ~exchangeStopped => cancelSync = s
  BY <1>1 DEF FieldTells
<1>3. ExchangeInv'
  <2>1. HasState' /\ OnlyShutdownCrashesSync'
    BY <1>1, <1>2 DEF OnlyShutdownCrashesSync, NoSync, Syncs
  <2>2. ~exchangeStopped => \A r \in Syncs : ~SyncUnderWay(r)'
    BY <1>1, <1>2 DEF FieldTells
  <2>3. FieldTells'
    BY <1>1, <2>2 DEF FieldTells, NoSync, Syncs
  <2>4. QED
    BY <2>1, <2>3
<1>4. {r \in Syncs : SyncUnderWay(r)}' = {r \in Syncs : SyncUnderWay(r)} \ {s}
  BY <1>1
<1>5. QED
  BY <1>1, <1>3, <1>4 DEF Service!End

\* Shutdown.
LEMMA SyncStops ==
    ASSUME ExchangeInv, StopSync
    PROVE  ExchangeInv' /\ Service!Stop
<1>1. HasState' /\ \A s \in Syncs : SyncUnderWay(s)' <=> SyncUnderWay(s)
  BY DEF StopSync, ExchangeInv, HasState, SyncUnderWay
<1>2. QED
  BY <1>1 DEF StopSync, ExchangeInv, FieldTells, OnlyShutdownCrashesSync, Service!Stop

-----------------------------------------------------------------------------
\* The exchange begins as the abstract service does.
LEMMA InitIsService == ExchangeInit => ExchangeInv /\ Service!ServiceInit
BY DEF ExchangeInit, ExchangeInv, HasState, FieldTells, OnlyShutdownCrashesSync, SyncUnderWay,
       SyncRecord, NoSync, Syncs, Service!ServiceInit

\* Every step keeps the invariant and is a step of the abstract service, or a stutter.
LEMMA NextIsService ==
    ASSUME ExchangeInv, [ExchangeNext]_exchangeVars
    PROVE  ExchangeInv' /\ [Service!ServiceNext]_(Service!serviceVars)
<1>1. HasState
  BY DEF ExchangeInv
<1>2. ASSUME NEW s \in Syncs, Sync(s) PROVE ExchangeInv' /\ [Service!ServiceNext]_(Service!serviceVars)
  BY <1>2, SyncBegins DEF Service!ServiceNext
<1>3. ASSUME NEW s \in Syncs, SyncStep(s)
      PROVE  ExchangeInv' /\ [Service!ServiceNext]_(Service!serviceVars)
  <2>1. CASE EndSync(s)
    BY <2>1, SyncEnds DEF Service!ServiceNext
  <2>2. CASE ~EndSync(s)
    <3>1. Walks
      BY <1>1, <1>3, <2>2, StepWalks DEF SyncStep
    <3>2. QED
      BY <3>1, WalksKeeps
  <2>3. QED
    BY <2>1, <2>2
<1>4. CASE StopSync
  BY <1>4, SyncStops DEF Service!ServiceNext
<1>5. CASE \/ CreateOrder \/ DeleteOrder \/ ExchangeAdvances \/ ListOrder
           \/ OpenLegacyOrder \/ AskViewedOrder \/ SaveViewedOrder
           \/ UNCHANGED exchangeVars
  <2>1. Walks
    BY <1>1, <1>5, OthersWalk
  <2>2. QED
    BY <2>1, WalksKeeps
<1>6. QED
  BY <1>2, <1>3, <1>4, <1>5 DEF ExchangeNext

\* The invariant holds in every reachable state.
THEOREM ExchangeInvHolds == ExchangeSpec => []ExchangeInv
<1>1. ExchangeInv /\ [ExchangeNext]_exchangeVars => ExchangeInv'
  BY NextIsService
<1>2. QED
  BY <1>1, InitIsService, PTL DEF ExchangeSpec

\* The synchronisation is a service of which one runs at a time and its switch tells
\* the truth, until it is stopped.
THEOREM SyncIsAService == ExchangeSpec => ImplementsService
<1>1. ExchangeInv /\ [ExchangeNext]_exchangeVars => [Service!ServiceNext]_(Service!serviceVars)
  BY NextIsService
<1>2. QED
  BY <1>1, InitIsService, ExchangeInvHolds, PTL DEF ExchangeSpec, ImplementsService,
     Service!ServiceSpec

\* The deferred function of a sync finds a function to call, unless Shutdown has
\* cleared the field.
THEOREM ShutdownCrashesSync == ExchangeSpec => []OnlyShutdownCrashesSync
<1>1. ExchangeInv => OnlyShutdownCrashesSync
  BY DEF ExchangeInv
<1>2. QED
  BY <1>1, ExchangeInvHolds, PTL
-----------------------------------------------------------------------------
(* The walk of a sync: what is saved, and what the walk has passed         *)

\* The pages of orders a sync may have at hand, and its records.
Pages == UNION {[S -> Statuses] : S \in SUBSET Orders}

SyncRecords ==
    [pc : SyncStates, left : SUBSET Servers, server : Servers,
     attempts : 0 .. MaxSyncRetries, offset : 0 .. MaxOrders, page : Pages]

\* The variables the walk reads and writes are typed.  The orders of the start are
\* never deleted, the exchange knows the orders that are saved, and the copy the
\* details page has is that of an order.
OrdersTyped ==
    /\ saved \in [Orders -> Statuses] /\ remote \in [Orders -> Statuses]
    /\ asOf \in [Syncs -> [Orders -> Statuses]] /\ skipped \in [Syncs -> SUBSET Servers]
    /\ legacy \subseteq 1 .. OrdersAtStart
    /\ \A o \in 1 .. OrdersAtStart : saved[o] # NotSaved
    /\ \A o \in Orders : saved[o] # NotSaved => remote[o] # NotSaved
    /\ viewed.pc # "none" => viewed.order \in Orders /\ viewed.copy \in Statuses \ {NotSaved}

ExchangeTyped == syncer \in [Syncs -> SyncRecords] /\ OrdersTyped

\* Not older than the exchange was when sync s began, or the property excuses it.
Fresh(s, o) ==
    \/ deleted \/ serverOf(o) \in skipped[s] \/ o \in overtaken
    \/ saved[o] = NotSaved \/ saved[o] >= asOf[s][o]

\* How many saved orders come before o in a walk.
Newer(o) == {p \in SavedOrders : p > o}
Rank(o)  == Cardinality(Newer(o))

\* Exchanges do not take back what they said, and hold what was ever saved.
RemoteAhead == \A s \in Syncs, o \in Orders : asOf[s][o] <= remote[o]

AtWork(s) == syncer[s].pc \in {"page", "save"}

\* The orders of the servers that are done are fresh, and of the one at hand those that
\* the walk has passed, unless they are still on the page.
Walked(s) ==
    \A o \in Orders :
        /\ SyncAt(s, "server") /\ serverOf(o) \notin syncer[s].left => Fresh(s, o)
        /\ AtWork(s) /\ serverOf(o) \notin syncer[s].left \cup {syncer[s].server}
              => Fresh(s, o)
        /\ AtWork(s) /\ serverOf(o) = syncer[s].server /\ Rank(o) < syncer[s].offset
              => o \in PageOf(s) \/ Fresh(s, o)

\* The answer that is about to be saved is one of the exchange since the sync began.
Answered(s) ==
    SyncAt(s, "save") =>
        /\ PageOf(s) # {}
        /\ syncer[s].page[Newest(PageOf(s))] # NotSaved
        /\ syncer[s].page[Newest(PageOf(s))] >= asOf[s][Newest(PageOf(s))]

WalkInv == RemoteAhead /\ \A s \in Syncs : Walked(s) /\ Answered(s)

FreshInv == ExchangeTyped /\ WalkInv

-----------------------------------------------------------------------------
(* Sets of orders                                                          *)

\* A set of numbers has a least one.
LEMMA LeastIsThere ==
    ASSUME NEW S, S \subseteq Nat, S # {}
    PROVE  \E k \in S : \A l \in S : k <= l
<1> DEFINE less == {pair \in Nat \X Nat : pair[1] < pair[2]}
<1>1. less = OpToRel(<, Nat)
  BY Zenon DEF OpToRel
<1>2. IsWellFoundedOn(less, Nat)
  BY <1>1, NatLessThanWellFounded, Zenon
<1>3. \A k, l \in Nat : <<l, k>> \notin less => k <= l
  OBVIOUS
<1> HIDE DEF less
<1>4. \E k \in S : \A l \in S : <<l, k>> \notin less
  BY <1>2, WFMin
<1>5. QED
  BY <1>3, <1>4

\* A set of orders has a newest one, which is the one Newest chooses.
LEMMA NewestIsThere ==
    ASSUME NEW S, S \subseteq Orders, S # {}
    PROVE  Newest(S) \in S /\ \A p \in S : p <= Newest(S)
<1> DEFINE older == {k \in Nat : \E o \in S : k = MaxOrders - o}
<1>1. MaxOrders \in Nat /\ \A o \in S : o \in Nat /\ MaxOrders - o \in older
  BY ExchangeSyncBounds DEF Orders
<1>2. older # {} /\ older \subseteq Nat
  BY <1>1
<1>3. PICK k \in older : \A l \in older : k <= l
  <2> HIDE DEF older
  <2>1. QED
    BY <1>2, LeastIsThere
<1>4. PICK o \in S : k = MaxOrders - o
  OBVIOUS
<1>5. \A p \in S : p <= o
  <2> HIDE DEF older
  <2>1. QED
    BY <1>1, <1>3, <1>4
<1>6. QED
  BY <1>5 DEF Newest

\* The ranks of saved orders are numbers, and fall from the older to the newer one.
LEMMA RanksFall ==
    /\ SavedOrders \subseteq Orders /\ IsFiniteSet(SavedOrders)
    /\ \A o \in Orders : IsFiniteSet(Newer(o)) /\ Rank(o) \in Nat
    /\ \A o \in Orders, p \in SavedOrders : o < p => Rank(p) < Rank(o)
<1>1. Orders \subseteq Nat /\ IsFiniteSet(Orders)
  BY ExchangeSyncBounds, FS_Interval DEF Orders
<1>2. SavedOrders \subseteq Orders /\ IsFiniteSet(SavedOrders)
  BY <1>1, FS_Subset DEF SavedOrders
<1>3. ASSUME NEW o \in Orders PROVE IsFiniteSet(Newer(o)) /\ Rank(o) \in Nat
  <2>1. Newer(o) \in SUBSET SavedOrders
    BY DEF Newer
  <2>2. IsFiniteSet(Newer(o))
    BY <1>2, <2>1, FS_Subset
  <2>3. QED
    BY <2>2, FS_CardinalityType DEF Rank
<1>4. ASSUME NEW o \in Orders, NEW p \in SavedOrders, o < p PROVE Rank(p) < Rank(o)
  <2>0. o \in Nat /\ p \in Nat /\ p \in Orders /\ \A q \in SavedOrders : q \in Nat
    BY <1>1, <1>2
  <2>1. Newer(p) \in SUBSET Newer(o) /\ p \in Newer(o) /\ p \notin Newer(p)
    <3>1. \A q \in SavedOrders : q > p => q > o
      BY <1>4, <2>0
    <3>2. p > o /\ ~(p > p)
      BY <1>4, <2>0
    <3>3. QED
      BY <3>1, <3>2 DEF Newer
  <2>2. Cardinality(Newer(p)) <= Cardinality(Newer(o))
        /\ (Cardinality(Newer(p)) = Cardinality(Newer(o)) => Newer(p) = Newer(o))
    BY <1>3, <2>1, FS_Subset
  <2>3. Rank(p) \in Nat /\ Rank(o) \in Nat
    BY <1>3, <2>0
  <2>4. QED
    BY <2>1, <2>2, <2>3 DEF Rank
<1>5. QED
  BY <1>2, <1>3, <1>4

\* The orders of GetOrdersRaw are those whose rank is in the page.
LEMMA PageByRank ==
    ASSUME NEW offset
    PROVE  GetOrdersRaw(offset) =
               {o \in SavedOrders : Rank(o) \in offset .. offset + PageLimit - 1}
BY DEF GetOrdersRaw, Rank, Newer

\* A page holds no more orders than its limit, and the walk stays among the orders.
LEMMA PageIsLimited ==
    ASSUME NEW offset \in 0 .. MaxOrders
    PROVE  /\ GetOrdersRaw(offset) \subseteq Orders
           /\ Cardinality(GetOrdersRaw(offset)) \in 0 .. PageLimit
           /\ offset + Cardinality(GetOrdersRaw(offset)) \in 0 .. MaxOrders
<1> DEFINE page == GetOrdersRaw(offset)
           last == offset + PageLimit - 1
           rank == [o \in page |-> Rank(o)]
<1>0. MaxOrders \in Nat /\ PageLimit \in Nat \ {0} /\ offset \in Nat /\ offset <= MaxOrders
  BY ExchangeSyncBounds
<1>1. /\ page \subseteq SavedOrders /\ page \subseteq Orders
      /\ \A o \in page : Rank(o) \in Nat /\ Rank(o) \in offset .. last
  BY RanksFall, PageByRank
<1>2. \A o \in page : Rank(o) < MaxOrders
  <2> SUFFICES ASSUME NEW o \in page PROVE Rank(o) < MaxOrders
    OBVIOUS
  <2>1. Newer(o) \in SUBSET (o + 1 .. MaxOrders) /\ o \in 1 .. MaxOrders
    <3>1. o \in 1 .. MaxOrders
      BY <1>1 DEF Orders
    <3>2. \A p \in Newer(o) : p \in 1 .. MaxOrders /\ p > o
      BY DEF Newer, SavedOrders, Orders
    <3>3. QED
      BY <1>0, <3>1, <3>2
  <2>2. IsFiniteSet(o + 1 .. MaxOrders) /\ Cardinality(o + 1 .. MaxOrders) <= MaxOrders - o
    <3>1. o + 1 \in Int /\ MaxOrders \in Int
      BY <1>0, <2>1
    <3>2. IsFiniteSet(o + 1 .. MaxOrders)
          /\ Cardinality(o + 1 .. MaxOrders)
                = IF o + 1 > MaxOrders THEN 0 ELSE MaxOrders - (o + 1) + 1
      BY <3>1, FS_Interval
    <3>3. QED
      BY <1>0, <2>1, <3>2
  <2>3. Cardinality(Newer(o)) <= Cardinality(o + 1 .. MaxOrders)
    BY <2>1, <2>2, FS_Subset
  <2>4. Cardinality(o + 1 .. MaxOrders) \in Nat /\ Rank(o) \in Nat
    BY <1>1, <2>2, FS_CardinalityType
  <2>5. QED
    BY <1>0, <2>1, <2>2, <2>3, <2>4 DEF Rank
<1>3. \A o, p \in page : Rank(o) = Rank(p) => o = p
  <2>1. \A o, p \in page : o \in Nat /\ p \in Nat /\ (o < p => Rank(p) < Rank(o))
    BY <1>0, <1>1, RanksFall DEF Orders
  <2>2. QED
    BY <1>1, <2>1
<1>4. ASSUME NEW T, IsFiniteSet(T), \A o \in page : Rank(o) \in T
      PROVE  IsFiniteSet(page) /\ Cardinality(page) <= Cardinality(T)
  <2>1. rank \in [page -> T] /\ \A o, p \in page : rank[o] = rank[p] => o = p
    BY <1>3, <1>4
  <2> HIDE DEF rank, page
  <2>2. rank \in Injection(page, T)
    BY <2>1 DEF Injection, IsInjective
  <2>3. QED
    BY <1>4, <2>2, FS_Injection
<1> HIDE DEF rank, page
<1>5. IsFiniteSet(offset .. last) /\ Cardinality(offset .. last) = PageLimit
  BY <1>0, FS_Interval
<1>6. IsFiniteSet(offset .. MaxOrders - 1)
      /\ Cardinality(offset .. MaxOrders - 1) = MaxOrders - offset
  <2>1. offset \in Int /\ MaxOrders - 1 \in Int
    BY <1>0
  <2>2. IsFiniteSet(offset .. MaxOrders - 1)
        /\ Cardinality(offset .. MaxOrders - 1)
              = IF offset > MaxOrders - 1 THEN 0 ELSE (MaxOrders - 1) - offset + 1
    BY <2>1, FS_Interval
  <2>3. QED
    BY <1>0, <2>2
<1>7. \A o \in page : Rank(o) \in offset .. MaxOrders - 1
  BY <1>0, <1>1, <1>2
<1>8. IsFiniteSet(page) /\ Cardinality(page) <= PageLimit
  BY <1>1, <1>4, <1>5
<1>9. Cardinality(page) <= MaxOrders - offset
  BY <1>4, <1>6, <1>7
<1>10. Cardinality(page) \in Nat
  BY <1>8, FS_CardinalityType
<1>11. QED
  BY <1>0, <1>1, <1>8, <1>9, <1>10 DEF page

\* A page without orders is behind all of them.
LEMMA EmptyPageIsTheEnd ==
    ASSUME NEW offset \in 0 .. MaxOrders, GetOrdersRaw(offset) = {}
    PROVE  \A o \in SavedOrders : Rank(o) < offset
<1> DEFINE behind == {o \in SavedOrders : ~(Rank(o) < offset)}
<1> SUFFICES ASSUME behind # {} PROVE FALSE
  OBVIOUS
<1>0. offset \in Nat /\ PageLimit \in Nat \ {0} /\ MaxOrders \in Nat
  BY ExchangeSyncBounds
<1> DEFINE o == Newest(behind)
<1>1. behind \subseteq Orders
  BY RanksFall
<1>2. o \in behind /\ \A p \in behind : p <= o
  <2> HIDE DEF behind
  <2>1. QED
    BY <1>1, NewestIsThere
<1>3. o \in SavedOrders /\ o \in Orders /\ o \in Nat /\ Rank(o) \in Nat /\ offset <= Rank(o)
      /\ IsFiniteSet(Newer(o))
  BY <1>0, <1>1, <1>2, RanksFall DEF Orders
<1>4. Rank(o) <= offset
  <2>1. CASE Newer(o) = {}
    BY <1>0, <2>1, FS_EmptySet DEF Rank
  <2>2. CASE Newer(o) # {}
    <3>1. Newer(o) \subseteq SavedOrders /\ SavedOrders \subseteq Nat
      BY RanksFall DEF Newer, Orders
    <3>2. PICK p \in Newer(o) : \A q \in Newer(o) : p <= q
      <4>1. Newer(o) \subseteq Nat
        BY <3>1
      <4>2. QED
        BY <2>2, <4>1, LeastIsThere
    <3>3. p \in SavedOrders /\ p \in Orders /\ o < p /\ p \in Nat
      BY <1>3, <3>1, RanksFall DEF Newer
    <3>4. Rank(p) < offset
      <4>1. p \notin behind
        BY <1>2, <1>3, <3>3
      <4>2. QED
        BY <3>3, <4>1
    <3>5. Newer(o) = Newer(p) \cup {p} /\ p \notin Newer(p)
      <4>1. \A q \in SavedOrders : q \in Nat
        BY RanksFall DEF Orders
      <4>2. \A q \in SavedOrders : q > p \/ q = p => q > o
        BY <1>3, <3>3, <4>1
      <4>3. \A q \in SavedOrders : q > o => q > p \/ q = p
        <5>1. \A q \in SavedOrders : q > o => p <= q
          BY <3>2 DEF Newer
        <5>2. QED
          BY <3>3, <4>1, <5>1
      <4>4. ~(p > p)
        BY <3>3
      <4>5. QED
        BY <3>3, <4>2, <4>3, <4>4 DEF Newer
    <3>6. Rank(o) = Rank(p) + 1
      <4>1. IsFiniteSet(Newer(p))
        BY <3>3, RanksFall
      <4>2. Cardinality(Newer(p) \cup {p}) = Cardinality(Newer(p)) + 1
        BY <3>5, <4>1, FS_AddElement
      <4>3. QED
        BY <3>5, <4>2 DEF Rank
    <3>7. Rank(p) \in Nat
      BY <3>3, RanksFall
    <3>8. QED
      BY <1>0, <1>3, <3>4, <3>6, <3>7
  <2>3. QED
    BY <2>1, <2>2
<1>5. Rank(o) \in offset .. offset + PageLimit - 1
  BY <1>0, <1>3, <1>4
<1>6. QED
  BY <1>3, <1>5, PageByRank

-----------------------------------------------------------------------------
(* Pages and records                                                       *)

\* What is done to a page leaves it a page.
LEMMA PagesAreClosed ==
    /\ << >> \in Pages /\ DOMAIN << >> = {}
    /\ \A page \in Pages : DOMAIN page \subseteq Orders /\ page \in [DOMAIN page -> Statuses]
    /\ \A page \in Pages, o \in Orders :
          Without(page, o) \in Pages /\ DOMAIN Without(page, o) = DOMAIN page \ {o}
    /\ \A page \in Pages, o \in Orders, status \in Statuses :
          /\ [page EXCEPT ![o] = status] \in Pages
          /\ DOMAIN [page EXCEPT ![o] = status] = DOMAIN page
          /\ o \in DOMAIN page => [page EXCEPT ![o] = status][o] = status
<1>1. << >> \in Pages /\ DOMAIN << >> = {}
  <2>1. << >> \in [{} -> Statuses]
    OBVIOUS
  <2>2. QED
    BY <2>1 DEF Pages
<1>2. \A page \in Pages : DOMAIN page \subseteq Orders /\ page \in [DOMAIN page -> Statuses]
  BY DEF Pages
<1>3. ASSUME NEW page \in Pages, NEW o \in Orders
      PROVE  Without(page, o) \in Pages /\ DOMAIN Without(page, o) = DOMAIN page \ {o}
  <2>1. Without(page, o) \in [DOMAIN page \ {o} -> Statuses]
    BY <1>2 DEF Without
  <2>2. DOMAIN page \ {o} \in SUBSET Orders
    BY <1>2
  <2>3. QED
    BY <2>1, <2>2 DEF Pages
<1>4. ASSUME NEW page \in Pages, NEW o \in Orders, NEW status \in Statuses
      PROVE  /\ [page EXCEPT ![o] = status] \in Pages
             /\ DOMAIN [page EXCEPT ![o] = status] = DOMAIN page
             /\ o \in DOMAIN page => [page EXCEPT ![o] = status][o] = status
  <2>1. [page EXCEPT ![o] = status] \in [DOMAIN page -> Statuses]
    BY <1>2
  <2>2. DOMAIN page \in SUBSET Orders
    BY <1>2
  <2>3. QED
    BY <2>1, <2>2 DEF Pages
<1>5. QED
  BY <1>1, <1>2, <1>3, <1>4

\* The copy of a page of orders is a page.
LEMMA CopiesArePages ==
    ASSUME ExchangeTyped, NEW orders \in SUBSET Orders, NEW server
    PROVE  /\ CopyOf(orders, server) \in Pages
           /\ DOMAIN CopyOf(orders, server) = {p \in orders : p \in legacy \/ serverOf(p) = server}
<1> DEFINE S == {p \in orders : p \in legacy \/ serverOf(p) = server}
<1>1. NotSaved \in Statuses
  BY ExchangeSyncBounds DEF Statuses, NotSaved
<1>2. S \in SUBSET Orders /\ \A o \in S : saved[o] \in Statuses
  BY DEF ExchangeTyped, OrdersTyped
<1>3. CopyOf(orders, server) = [o \in S |-> IF o \in legacy THEN saved[o] ELSE NotSaved]
  BY DEF CopyOf
<1> HIDE DEF S
<1>4. CopyOf(orders, server) \in [S -> Statuses]
  BY <1>1, <1>2, <1>3
<1>5. QED
  BY <1>2, <1>4 DEF Pages, S

\* The record of sync s changes, and those of the others do not.
Turns(s, record) ==
    /\ syncer' \in [Syncs -> SyncRecords] /\ syncer'[s] = record
    /\ \A t \in Syncs \ {s} : syncer'[t] = syncer[t]

\* The record of a sync that works on a page.
OnPage(s, pc, offset, page) ==
    [syncer[s] EXCEPT !.pc = pc, !.offset = offset, !.page = page]

\* The ways a step changes the record.
LEMMA RecordsTurn ==
    ASSUME ExchangeTyped, NEW s \in Syncs
    PROVE  /\ \A r \in SyncRecords : SyncBecomes(s, r) => Turns(s, r)
           /\ \A pc \in SyncStates, offset \in 0 .. MaxOrders, page \in Pages :
                 OnPage(s, pc, offset, page) \in SyncRecords
           /\ \A pc \in SyncStates : SyncGoes(s, pc) =>
                 Turns(s, OnPage(s, pc, syncer[s].offset, syncer[s].page))
           /\ \A page \in Pages, offset \in 0 .. MaxOrders :
                 syncer' = [syncer EXCEPT ![s].page = page, ![s].offset = offset] =>
                     Turns(s, OnPage(s, syncer[s].pc, offset, page))
           /\ \A page \in Pages :
                 syncer' = [syncer EXCEPT ![s].page = page] =>
                     Turns(s, OnPage(s, syncer[s].pc, syncer[s].offset, page))
           /\ \A page \in Pages, pc \in SyncStates :
                 syncer' = [syncer EXCEPT ![s].pc = pc, ![s].page = page] =>
                     Turns(s, OnPage(s, pc, syncer[s].offset, page))
<1>0. syncer \in [Syncs -> SyncRecords] /\ syncer[s] \in SyncRecords
  BY DEF ExchangeTyped
<1>1. \A r \in SyncRecords : SyncBecomes(s, r) => Turns(s, r)
  BY <1>0 DEF SyncBecomes, Turns
<1>2. \A pc \in SyncStates, offset \in 0 .. MaxOrders, page \in Pages :
          OnPage(s, pc, offset, page) \in SyncRecords
  <2> HIDE DEF SyncStates, Pages
  <2>1. QED
    BY <1>0 DEF SyncRecords, OnPage
<1>3. /\ syncer[s].pc \in SyncStates /\ syncer[s].offset \in 0 .. MaxOrders /\ syncer[s].page \in Pages
      /\ syncer[s] = [pc |-> syncer[s].pc, left |-> syncer[s].left, server |-> syncer[s].server,
                      attempts |-> syncer[s].attempts, offset |-> syncer[s].offset,
                      page |-> syncer[s].page]
  BY <1>0 DEF SyncRecords
<1>4. ASSUME NEW pc \in SyncStates, SyncGoes(s, pc)
      PROVE  Turns(s, OnPage(s, pc, syncer[s].offset, syncer[s].page))
  <2>1. SyncBecomes(s, OnPage(s, pc, syncer[s].offset, syncer[s].page))
    BY <1>0, <1>3, <1>4 DEF SyncGoes, SyncBecomes, OnPage
  <2>2. QED
    BY <1>1, <1>2, <1>3, <2>1
<1>5. ASSUME NEW page \in Pages, NEW offset \in 0 .. MaxOrders,
             syncer' = [syncer EXCEPT ![s].page = page, ![s].offset = offset]
      PROVE  Turns(s, OnPage(s, syncer[s].pc, offset, page))
  <2>1. SyncBecomes(s, OnPage(s, syncer[s].pc, offset, page))
    BY <1>0, <1>3, <1>5 DEF SyncBecomes, OnPage
  <2>2. QED
    BY <1>1, <1>2, <1>3, <2>1
<1>6. ASSUME NEW page \in Pages, syncer' = [syncer EXCEPT ![s].page = page]
      PROVE  Turns(s, OnPage(s, syncer[s].pc, syncer[s].offset, page))
  <2>1. SyncBecomes(s, OnPage(s, syncer[s].pc, syncer[s].offset, page))
    BY <1>0, <1>3, <1>6 DEF SyncBecomes, OnPage
  <2>2. QED
    BY <1>1, <1>2, <1>3, <2>1
<1>7. ASSUME NEW page \in Pages, NEW pc \in SyncStates,
             syncer' = [syncer EXCEPT ![s].pc = pc, ![s].page = page]
      PROVE  Turns(s, OnPage(s, pc, syncer[s].offset, page))
  <2>1. SyncBecomes(s, OnPage(s, pc, syncer[s].offset, page))
    BY <1>0, <1>3, <1>7 DEF SyncBecomes, OnPage
  <2>2. QED
    BY <1>1, <1>2, <1>3, <2>1
<1>8. QED
  BY <1>1, <1>2, <1>4, <1>5, <1>6, <1>7

\* The records a step sets as a whole.
LEMMA WholeRecords ==
    ASSUME ExchangeTyped, NEW s \in Syncs
    PROVE  /\ \A pc \in SyncStates : SyncRecord(pc) \in SyncRecords
           /\ \A left \in SUBSET Servers : [SyncRecord("server") EXCEPT !.left = left] \in SyncRecords
           /\ \A left \in SUBSET Servers : [syncer[s] EXCEPT !.left = left] \in SyncRecords
           /\ \A left \in SUBSET Servers, server \in Servers, n \in 0 .. MaxSyncRetries :
                 [SyncRecord("page") EXCEPT !.left = left, !.server = server, !.attempts = n]
                     \in SyncRecords
<1>1. /\ 0 \in 0 .. MaxSyncRetries /\ 0 \in 0 .. MaxOrders /\ << >> \in Pages
      /\ OddServer \in Servers /\ {} \in SUBSET Servers /\ "server" \in SyncStates
      /\ "page" \in SyncStates /\ syncer[s] \in SyncRecords
  BY ExchangeSyncBounds, PagesAreClosed DEF Servers, SyncStates, ExchangeTyped
<1>2. QED
  BY <1>1 DEF SyncRecord, SyncRecords

\* A retry starts the walk of the server again, or ends the sync.
LEMMA RetryTurns ==
    ASSUME ExchangeTyped, NEW s \in Syncs, Retry(s)
    PROVE  \/ Turns(s, SyncRecord("ending"))
           \/ Turns(s, [SyncRecord("page") EXCEPT !.left = syncer[s].left,
                            !.server = syncer[s].server, !.attempts = syncer[s].attempts + 1])
<1>1. /\ syncer[s].attempts \in 0 .. MaxSyncRetries /\ syncer[s].left \in SUBSET Servers
      /\ syncer[s].server \in Servers /\ "ending" \in SyncStates
  BY DEF ExchangeTyped, SyncRecords, SyncStates
<1>2. CASE syncer[s].attempts = MaxSyncRetries
  BY <1>1, <1>2, WholeRecords, RecordsTurn DEF Retry
<1>3. CASE syncer[s].attempts # MaxSyncRetries
  <2>1. syncer[s].attempts + 1 \in 0 .. MaxSyncRetries
    BY <1>1, <1>3, ExchangeSyncBounds
  <2>2. QED
    BY <1>1, <1>3, <2>1, WholeRecords, RecordsTurn DEF Retry
<1>4. QED
  BY <1>2, <1>3

-----------------------------------------------------------------------------
(* What a step does to the orders                                          *)

\* No saved order is lost without excuse, and what was fresh for sync t stays so.
Kept(t) ==
    /\ deleted' \/ SavedOrders \subseteq SavedOrders'
    /\ \A o \in Orders : Fresh(t, o) => Fresh(t, o)'

\* The ranks are numbers after the step too, and do not fall.
LEMMA RanksGrow ==
    /\ \A o \in Orders : Rank(o)' \in Nat
    /\ SavedOrders \subseteq SavedOrders' => \A o \in Orders : Rank(o) <= Rank(o)'
<1>1. IsFiniteSet(Orders)
  BY ExchangeSyncBounds, FS_Interval DEF Orders
<1>2. ASSUME NEW o \in Orders PROVE IsFiniteSet(Newer(o)') /\ Rank(o)' \in Nat
  <2>1. Newer(o)' \in SUBSET Orders
    BY DEF Newer, SavedOrders
  <2>2. IsFiniteSet(Newer(o)')
    BY <1>1, <2>1, FS_Subset
  <2>3. QED
    BY <2>2, FS_CardinalityType DEF Rank
<1>3. ASSUME SavedOrders \subseteq SavedOrders', NEW o \in Orders PROVE Rank(o) <= Rank(o)'
  <2>1. Newer(o) \in SUBSET Newer(o)'
    BY <1>3 DEF Newer
  <2>2. QED
    BY <1>2, <2>1, FS_Subset DEF Rank
<1>4. QED
  BY <1>2, <1>3

\* A step that leaves the orders alone.
LEMMA QuietKeeps ==
    ASSUME UNCHANGED <<saved, overtaken, deleted, asOf, skipped>>
    PROVE  \A t \in Syncs : Kept(t)
BY DEF Kept, SavedOrders, Fresh

\* An update saves a status that is later, or excuses the order; it neither adds nor
\* loses an order.
LEMMA UpdateKeeps ==
    ASSUME OrdersTyped, RemoteAhead, UNCHANGED <<deleted, remote, asOf, skipped>>,
           NEW o \in Orders, NEW status \in Statuses \ {NotSaved}, updateOrder(o, status)
    PROVE  /\ saved' \in [Orders -> Statuses]
           /\ \A p \in Orders : saved'[p] = NotSaved <=> saved[p] = NotSaved
           /\ \A p \in Orders : p # o => saved'[p] = saved[p]
           /\ saved[o] # NotSaved => saved'[o] = status
           /\ \A t \in Syncs : Kept(t)
<1>1. /\ saved \in [Orders -> Statuses] /\ \A p \in Orders : saved[p] \in Statuses
      /\ Statuses \subseteq Int /\ NotSaved \in Statuses /\ \A st \in Statuses : NotSaved <= st
  BY ExchangeSyncBounds DEF OrdersTyped, Statuses, NotSaved
<1>2. /\ saved' \in [Orders -> Statuses]
      /\ \A p \in Orders : p # o => saved'[p] = saved[p]
      /\ saved'[o] = IF saved[o] = NotSaved THEN NotSaved ELSE status
  BY <1>1 DEF updateOrder
<1>3. \A p \in Orders : saved'[p] = NotSaved <=> saved[p] = NotSaved
  BY <1>2
<1>4. SavedOrders' = SavedOrders
  BY <1>3 DEF SavedOrders
<1>5. ASSUME NEW t \in Syncs, NEW p \in Orders, Fresh(t, p) PROVE Fresh(t, p)'
  <2>1. /\ deleted' = deleted /\ skipped'[t] = skipped[t] /\ asOf'[t][p] = asOf[t][p]
        /\ asOf[t][p] <= remote[p] /\ asOf[t][p] \in Statuses
    BY DEF OrdersTyped, RemoteAhead
  <2>0. saved[o] \in Int /\ status \in Int /\ remote[o] \in Int /\ NotSaved \in Int
    BY <1>1 DEF OrdersTyped
  <2>2. CASE p # o
    <3>1. p \in overtaken => p \in overtaken'
      BY <2>2 DEF updateOrder
    <3>2. QED
      BY <1>2, <1>5, <2>1, <2>2, <3>1 DEF Fresh
  <2>3. CASE p = o /\ saved[o] > status
    <3>1. overtaken' = overtaken \cup {o}
      BY <2>0, <2>3 DEF updateOrder
    <3>2. QED
      BY <2>3, <3>1 DEF Fresh
  <2>4. CASE p = o /\ ~(saved[o] > status)
    <3>1. saved[o] <= status
      BY <2>0, <2>4
    <3>t. asOf[t][o] \in Int /\ asOf'[t][o] = asOf[t][o] /\ asOf[t][o] <= remote[o]
      BY <1>1, <2>1, <2>4
    <3>2. CASE saved[o] = NotSaved
      BY <1>3, <2>4, <3>2 DEF Fresh
    <3>3. CASE saved[o] # NotSaved /\ status = remote[o]
      <4>1. saved'[o] >= asOf'[t][o]
        BY <1>2, <2>0, <3>t, <3>3
      <4>2. QED
        BY <2>4, <4>1 DEF Fresh
    <3>4. CASE saved[o] # NotSaved /\ status # remote[o]
      <4>1. overtaken' = overtaken
        BY <2>0, <2>4, <3>1, <3>4 DEF updateOrder
      <4>2. saved[o] >= asOf[t][o] => saved'[o] >= asOf'[t][o]
        BY <1>2, <2>0, <3>1, <3>t, <3>4
      <4>3. QED
        BY <1>5, <2>1, <2>4, <3>4, <4>1, <4>2 DEF Fresh
    <3>5. QED
      BY <3>2, <3>3, <3>4
  <2>5. QED
    BY <2>2, <2>3, <2>4
<1>6. QED
  BY <1>2, <1>3, <1>4, <1>5 DEF Kept

-----------------------------------------------------------------------------
(* Syncs that do not move                                                  *)

\* A sync whose record does not change goes on from what it has passed.
LEMMA StandingKeeps ==
    ASSUME NEW t \in Syncs, Walked(t), Answered(t), Kept(t),
           syncer'[t] = syncer[t], asOf'[t] = asOf[t], ExchangeTyped
    PROVE  Walked(t)' /\ Answered(t)'
<1>1. ASSUME NEW o \in Orders, AtWork(t), serverOf(o) = syncer[t].server,
             Rank(o)' < syncer[t].offset
      PROVE  o \in PageOf(t) \/ Fresh(t, o)'
  <2>1. CASE deleted'
    BY <2>1 DEF Fresh
  <2>2. CASE SavedOrders \subseteq SavedOrders'
    <3>1. Rank(o) < syncer[t].offset
      <4>1. syncer[t].offset \in Nat
        BY ExchangeSyncBounds DEF ExchangeTyped, SyncRecords
      <4>2. Rank(o) \in Nat /\ Rank(o)' \in Nat /\ Rank(o) <= Rank(o)'
        BY <2>2, RanksFall, RanksGrow
      <4>3. QED
        BY <1>1, <4>1, <4>2
    <3>2. QED
      BY <1>1, <3>1 DEF Walked, Kept
  <2>3. QED
    BY <2>1, <2>2 DEF Kept
<1>2. Walked(t)'
  BY <1>1 DEF Walked, Kept, SyncAt, AtWork, PageOf
<1>3. Answered(t)'
  BY DEF Answered, SyncAt, PageOf, Newest
<1>4. QED
  BY <1>2, <1>3

\* A step of the pages or the exchange, which moves no sync.
LEMMA RestKeeps ==
    ASSUME FreshInv, UNCHANGED <<syncer, asOf>>, OrdersTyped', RemoteAhead',
           \A t \in Syncs : Kept(t)
    PROVE  FreshInv'
<1>1. \A t \in Syncs : Walked(t)' /\ Answered(t)'
  BY StandingKeeps DEF FreshInv, WalkInv
<1>2. QED
  BY <1>1 DEF FreshInv, WalkInv, ExchangeTyped

\* A step of one sync.
LEMMA TurnKeeps ==
    ASSUME FreshInv, NEW s \in Syncs, NEW r, Turns(s, r), OrdersTyped', RemoteAhead',
           \A t \in Syncs \ {s} : Kept(t) /\ asOf'[t] = asOf[t],
           Walked(s)', Answered(s)'
    PROVE  FreshInv'
<1>1. \A t \in Syncs \ {s} : Walked(t)' /\ Answered(t)'
  BY StandingKeeps DEF FreshInv, WalkInv, Turns
<1>2. QED
  BY <1>1 DEF FreshInv, WalkInv, ExchangeTyped, Turns

\* A sync that rests has nothing to show for it.
LEMMA RestingKeeps ==
    ASSUME NEW s \in Syncs, NEW r, Turns(s, r), r.pc \in {"unborn", "ending", "done"}
    PROVE  Walked(s)' /\ Answered(s)'
BY DEF Turns, Walked, Answered, SyncAt, AtWork

\* A retry forgets what was passed of the server at hand.
LEMMA RetryKeeps ==
    ASSUME ExchangeTyped, NEW s \in Syncs, Walked(s), AtWork(s), Kept(s), Retry(s)
    PROVE  \E r : Turns(s, r) /\ Walked(s)' /\ Answered(s)'
<1> DEFINE again == [SyncRecord("page") EXCEPT !.left = syncer[s].left,
                        !.server = syncer[s].server, !.attempts = syncer[s].attempts + 1]
<1>1. CASE Turns(s, SyncRecord("ending"))
  BY <1>1, RestingKeeps DEF SyncRecord
<1>2. CASE Turns(s, again)
  <2>1. /\ syncer'[s].pc = "page" /\ syncer'[s].left = syncer[s].left
        /\ syncer'[s].server = syncer[s].server /\ syncer'[s].offset = 0
    BY <1>2 DEF Turns, SyncRecord
  <2>2. \A o \in Orders : ~(Rank(o)' < 0)
    BY RanksGrow
  <2>3. Walked(s)' /\ Answered(s)'
    BY <2>1, <2>2 DEF Walked, Answered, SyncAt, AtWork, Kept
  <2>4. QED
    BY <1>2, <2>3
<1>3. QED
  BY <1>1, <1>2, RetryTurns

-----------------------------------------------------------------------------
(* The steps of a sync                                                     *)

\* A step that changes nothing but the records of the syncs.
LEMMA OnlySyncerKeeps ==
    ASSUME FreshInv, OnlySyncer
    PROVE  OrdersTyped' /\ RemoteAhead' /\ \A t \in Syncs : Kept(t) /\ asOf'[t] = asOf[t]
<1>1. \A t \in Syncs : Kept(t)
  BY QuietKeeps DEF OnlySyncer, database
<1>2. OrdersTyped' /\ RemoteAhead'
  BY DEF FreshInv, WalkInv, ExchangeTyped, OrdersTyped, RemoteAhead, OnlySyncer, database
<1>3. QED
  BY <1>1, <1>2 DEF OnlySyncer

\* Without a server left, everything is fresh; the sync ends either way.
LEMMA EndingKeeps ==
    ASSUME FreshInv, NEW s \in Syncs, ExitStoppedSync(s) \/ CompleteSync(s)
    PROVE  FreshInv'
<1>1. OnlySyncer /\ SyncBecomes(s, SyncRecord("ending"))
  BY DEF ExitStoppedSync, CompleteSync
<1>2. ExchangeTyped /\ "ending" \in SyncStates
  BY DEF FreshInv, SyncStates
<1>3. Turns(s, SyncRecord("ending"))
  BY <1>1, <1>2, WholeRecords, RecordsTurn
<1>4. Walked(s)' /\ Answered(s)'
  BY <1>3, RestingKeeps DEF SyncRecord
<1>5. QED
  BY <1>1, <1>3, <1>4, OnlySyncerKeeps, TurnKeeps

\* A server is left out, and excused for it, or its walk begins.
LEMMA BeginServerKeeps ==
    ASSUME FreshInv, NEW s \in Syncs, BeginServer(s)
    PROVE  FreshInv'
<1>0. ExchangeTyped /\ Walked(s) /\ syncer[s].left \in SUBSET Servers
  BY DEF FreshInv, WalkInv, ExchangeTyped, SyncRecords
<1>1. PICK server \in syncer[s].left :
          \/ /\ SyncBecomes(s, [syncer[s] EXCEPT !.left = @ \ {server}])
             /\ skipped' = [skipped EXCEPT ![s] = @ \cup {server}]
          \/ /\ SyncBecomes(s, [SyncRecord("page") EXCEPT !.left = syncer[s].left \ {server},
                                                !.server = server, !.attempts = 1])
             /\ UNCHANGED skipped
  BY DEF BeginServer
<1>2. /\ UNCHANGED <<saved, legacy, overtaken, deleted, remote, viewed, asOf>>
      /\ syncer[s].pc = "server" /\ server \in Servers
      /\ syncer[s].left \ {server} \in SUBSET Servers /\ 1 \in 0 .. MaxSyncRetries
  BY <1>0, ExchangeSyncBounds DEF BeginServer, database, SyncAt
<1>3. /\ skipped' \in [Syncs -> SUBSET Servers]
      /\ \A t \in Syncs : skipped[t] \subseteq skipped'[t]
      /\ \A t \in Syncs \ {s} : skipped'[t] = skipped[t]
  <2>0. skipped \in [Syncs -> SUBSET Servers] /\ server \in Servers
    BY <1>2 DEF FreshInv, ExchangeTyped, OrdersTyped
  <2>1. CASE skipped' = skipped
    BY <2>0, <2>1
  <2>2. CASE skipped' = [skipped EXCEPT ![s] = @ \cup {server}]
    <3>1. skipped[s] \cup {server} \in SUBSET Servers
      BY <2>0
    <3> HIDE DEF Servers
    <3>2. QED
      BY <2>0, <2>2, <3>1
  <2>3. QED
    BY <1>1, <2>1, <2>2
<1>4. OrdersTyped' /\ RemoteAhead'
  BY <1>2, <1>3 DEF FreshInv, WalkInv, ExchangeTyped, OrdersTyped, RemoteAhead
<1>5. \A t \in Syncs : Kept(t)
  BY <1>2, <1>3 DEF Kept, SavedOrders, Fresh
<1>6. CASE /\ SyncBecomes(s, [syncer[s] EXCEPT !.left = @ \ {server}])
           /\ skipped' = [skipped EXCEPT ![s] = @ \cup {server}]
  <2> DEFINE r == [syncer[s] EXCEPT !.left = @ \ {server}]
  <2>1. r \in SyncRecords
    BY <1>0, <1>2, WholeRecords
  <2>2. Turns(s, r)
    BY <1>0, <1>6, <2>1, RecordsTurn
  <2>3. syncer'[s].pc = "server" /\ syncer'[s].left = syncer[s].left \ {server}
    BY <1>0, <1>2, <2>2 DEF Turns, ExchangeTyped, SyncRecords
  <2>4. server \in skipped'[s]
    BY <1>6 DEF FreshInv, ExchangeTyped, OrdersTyped
  <2>5. \A o \in Orders : serverOf(o) \notin syncer'[s].left => Fresh(s, o)'
    <3> SUFFICES ASSUME NEW o \in Orders, serverOf(o) \notin syncer'[s].left PROVE Fresh(s, o)'
      OBVIOUS
    <3>1. CASE serverOf(o) = server
      BY <2>4, <3>1 DEF Fresh, serverOf
    <3>2. CASE serverOf(o) # server
      BY <1>0, <1>2, <1>5, <2>3, <3>2 DEF Walked, SyncAt, Kept
    <3>3. QED
      BY <3>1, <3>2
  <2>6. Walked(s)' /\ Answered(s)'
    BY <2>3, <2>5 DEF Walked, Answered, SyncAt, AtWork
  <2> HIDE DEF r
  <2>7. QED
    BY <1>2, <1>4, <1>5, <2>2, <2>6, TurnKeeps
<1>7. CASE /\ SyncBecomes(s, [SyncRecord("page") EXCEPT !.left = syncer[s].left \ {server},
                                                !.server = server, !.attempts = 1])
           /\ UNCHANGED skipped
  <2> DEFINE r == [SyncRecord("page") EXCEPT !.left = syncer[s].left \ {server},
                                             !.server = server, !.attempts = 1]
  <2>1. r \in SyncRecords
    BY <1>0, <1>2, WholeRecords
  <2>2. Turns(s, r)
    BY <1>0, <1>7, <2>1, RecordsTurn
  <2>3. /\ syncer'[s].pc = "page" /\ syncer'[s].left = syncer[s].left \ {server}
        /\ syncer'[s].server = server /\ syncer'[s].offset = 0
    BY <2>2 DEF Turns, SyncRecord
  <2>4. \A o \in Orders : ~(Rank(o)' < 0)
    BY RanksGrow
  <2>5. \A o \in Orders : serverOf(o) \notin syncer'[s].left \cup {server} => Fresh(s, o)'
    BY <1>0, <1>2, <1>5, <2>3 DEF Walked, SyncAt, Kept
  <2>6. Walked(s)' /\ Answered(s)'
    BY <2>3, <2>4, <2>5 DEF Walked, Answered, SyncAt, AtWork
  <2> HIDE DEF r
  <2>7. QED
    BY <1>2, <1>4, <1>5, <2>2, <2>6, TurnKeeps
<1>8. QED
  BY <1>1, <1>6, <1>7

\* The next page holds what the walk passes with it; an empty one comes after all
\* orders.
LEMMA NextPageKeeps ==
    ASSUME FreshInv, NEW s \in Syncs, NextPage(s)
    PROVE  FreshInv'
<1> DEFINE offset == syncer[s].offset
           orders == GetOrdersRaw(offset)
           page == CopyOf(orders, syncer[s].server)
<1>0. /\ ExchangeTyped /\ Walked(s) /\ syncer[s].left \in SUBSET Servers
      /\ offset \in 0 .. MaxOrders
  BY DEF FreshInv, WalkInv, ExchangeTyped, SyncRecords
<1>1. /\ OnlySyncer /\ OrdersTyped' /\ RemoteAhead'
      /\ \A t \in Syncs : Kept(t) /\ asOf'[t] = asOf[t]
  BY OnlySyncerKeeps DEF NextPage
<1>2. /\ syncer[s].pc = "page" /\ PageOf(s) = {} /\ AtWork(s)
      /\ saved' = saved /\ legacy' = legacy
      /\ \A o \in Orders : Rank(o) \in Nat /\ Rank(o)' = Rank(o)
  BY <1>1, RanksFall DEF NextPage, SyncAt, AtWork, OnlySyncer, database, Rank, Newer, SavedOrders
<1>3. CASE Retry(s)
  BY <1>0, <1>1, <1>2, <1>3, RetryKeeps, TurnKeeps
<1>4. CASE orders = {} /\ SyncBecomes(s, [SyncRecord("server") EXCEPT !.left = syncer[s].left])
  <2> DEFINE r == [SyncRecord("server") EXCEPT !.left = syncer[s].left]
  <2>1. Turns(s, r)
    <3>1. r \in SyncRecords
      BY <1>0, WholeRecords
    <3>2. QED
      BY <1>0, <1>4, <3>1, RecordsTurn
  <2>2. syncer'[s].pc = "server" /\ syncer'[s].left = syncer[s].left
    BY <2>1 DEF Turns, SyncRecord
  <2>3. \A o \in Orders : serverOf(o) = syncer[s].server => Fresh(s, o)
    <3>1. \A o \in SavedOrders : Rank(o) < offset
      BY <1>0, <1>4, EmptyPageIsTheEnd
    <3>2. QED
      BY <1>0, <1>2, <3>1 DEF Walked, Fresh, SavedOrders
  <2>4. \A o \in Orders : serverOf(o) \notin syncer[s].left => Fresh(s, o)
    BY <1>0, <1>2, <2>3 DEF Walked
  <2>5. Walked(s)' /\ Answered(s)'
    BY <1>1, <2>2, <2>4 DEF Walked, Answered, SyncAt, AtWork, Kept
  <2> HIDE DEF r
  <2>6. QED
    BY <1>1, <2>1, <2>5, TurnKeeps
<1>5. CASE /\ orders # {}
           /\ syncer' = [syncer EXCEPT ![s].page = page,
                                       ![s].offset = @ + Cardinality(orders)]
  <2> DEFINE next == offset + Cardinality(orders)
  <2>1. /\ orders \in SUBSET Orders /\ Cardinality(orders) \in 0 .. PageLimit
        /\ next \in 0 .. MaxOrders
    BY <1>0, PageIsLimited
  <2>2. page \in Pages
        /\ DOMAIN page = {p \in orders : p \in legacy \/ serverOf(p) = syncer[s].server}
    BY <1>0, <2>1, CopiesArePages
  <2>3. Turns(s, OnPage(s, "page", next, page))
    <3>1. syncer' = [syncer EXCEPT ![s].page = page, ![s].offset = next]
      BY <1>0, <1>5 DEF ExchangeTyped, SyncRecords
    <3> HIDE DEF next, page, orders
    <3>2. Turns(s, OnPage(s, syncer[s].pc, next, page))
      BY <1>0, <2>1, <2>2, <3>1, RecordsTurn
    <3>3. QED
      BY <1>2, <3>2
  <2>4. /\ syncer'[s].pc = "page" /\ syncer'[s].left = syncer[s].left
        /\ syncer'[s].server = syncer[s].server /\ syncer'[s].offset = next
        /\ syncer'[s].page = page
    <3> HIDE DEF next, page, orders
    <3>1. QED
      BY <1>0, <2>3 DEF Turns, OnPage, ExchangeTyped, SyncRecords
  <2>5. ASSUME NEW o \in Orders, serverOf(o) = syncer[s].server, Rank(o) < next
        PROVE  o \in DOMAIN page \/ Fresh(s, o)
    <3>1. CASE Rank(o) < offset
      BY <1>0, <1>2, <2>5, <3>1 DEF Walked
    <3>2. CASE saved[o] = NotSaved
      BY <3>2 DEF Fresh
    <3>3. CASE ~(Rank(o) < offset) /\ saved[o] # NotSaved
      <4>1. Rank(o) \in offset .. offset + PageLimit - 1
        BY <1>0, <1>2, <2>1, <2>5, <3>3, ExchangeSyncBounds
      <4>2. o \in orders
        BY <3>3, <4>1, PageByRank DEF SavedOrders
      <4>3. QED
        BY <2>2, <2>5, <4>2
    <3>4. QED
      BY <3>1, <3>2, <3>3
  <2> HIDE DEF next, page, orders, offset
  <2>6. Walked(s)'
    <3>1. \A o \in Orders : Fresh(s, o)' <=> Fresh(s, o)
      BY <1>1, <1>2 DEF OnlySyncer, database, Fresh
    <3>2. PageOf(s)' = DOMAIN page /\ AtWork(s)' /\ ~SyncAt(s, "server")'
      BY <2>4 DEF PageOf, AtWork, SyncAt
    <3>3. QED
      BY <1>0, <1>2, <2>4, <2>5, <3>1, <3>2 DEF Walked
  <2>7. Answered(s)'
    BY <2>4 DEF Answered, SyncAt
  <2>8. QED
    BY <1>1, <2>3, <2>6, <2>7, TurnKeeps
<1>6. QED
  BY <1>3, <1>4, <1>5 DEF NextPage

\* The newest order of a page that is not empty is there, and has a status.
LEMMA NewestOfPage ==
    ASSUME ExchangeTyped, NEW s \in Syncs, PageOf(s) # {}
    PROVE  /\ Newest(PageOf(s)) \in PageOf(s) /\ Newest(PageOf(s)) \in Orders
           /\ syncer[s].page \in Pages /\ syncer[s].page[Newest(PageOf(s))] \in Statuses
<1>1. syncer[s].page \in Pages
  BY DEF ExchangeTyped, SyncRecords
<1>2. PageOf(s) \subseteq Orders /\ \A o \in PageOf(s) : syncer[s].page[o] \in Statuses
  BY <1>1, PagesAreClosed DEF PageOf
<1>3. QED
  BY <1>1, <1>2, NewestIsThere

\* An update of an order leaves the database typed, if the legacy orders are fewer.
LEMMA UpdateIsTyped ==
    ASSUME FreshInv, UNCHANGED <<deleted, remote, asOf, skipped>>, legacy' \subseteq legacy,
           viewed' = viewed \/ viewed'.pc = "none",
           NEW o \in Orders, NEW status \in Statuses \ {NotSaved}, updateOrder(o, status)
    PROVE  /\ OrdersTyped' /\ RemoteAhead'
           /\ \A t \in Syncs : Kept(t) /\ asOf'[t] = asOf[t]
           /\ SavedOrders' = SavedOrders /\ \A p \in Orders : Rank(p)' = Rank(p)
           /\ saved[o] # NotSaved => saved'[o] = status
<1>1. OrdersTyped /\ RemoteAhead
  BY DEF FreshInv, WalkInv, ExchangeTyped
<1>2. /\ saved' \in [Orders -> Statuses]
      /\ \A p \in Orders : saved'[p] = NotSaved <=> saved[p] = NotSaved
      /\ saved[o] # NotSaved => saved'[o] = status
      /\ \A t \in Syncs : Kept(t)
  BY <1>1, UpdateKeeps
<1>3. 1 .. OrdersAtStart \subseteq Orders
  BY ExchangeSyncBounds DEF Orders
<1>4. OrdersTyped'
  BY <1>1, <1>2, <1>3 DEF OrdersTyped
<1>5. SavedOrders' = SavedOrders
  BY <1>2 DEF SavedOrders
<1>6. \A p \in Orders : Rank(p)' = Rank(p)
  BY <1>5 DEF Rank, Newer
<1>7. QED
  BY <1>1, <1>2, <1>4, <1>5, <1>6 DEF RemoteAhead

\* A legacy order is still on the page, or is none of the server.
LEMMA SaveLegacyOrderKeeps ==
    ASSUME FreshInv, NEW s \in Syncs, SaveLegacyOrder(s)
    PROVE  FreshInv'
<1> DEFINE o == Newest(PageOf(s))
           old == syncer[s].page
           page == IF serverOf(o) = syncer[s].server
                   THEN [old EXCEPT ![o] = NotSaved] ELSE Without(old, o)
<1>0. /\ ExchangeTyped /\ Walked(s) /\ syncer[s].pc = "page" /\ AtWork(s)
      /\ PageOf(s) # {} /\ NotSaved \in Statuses /\ syncer[s] \in SyncRecords
  BY ExchangeSyncBounds
     DEF FreshInv, WalkInv, ExchangeTyped, SaveLegacyOrder, SyncAt, AtWork, Statuses, NotSaved
<1>1. o \in PageOf(s) /\ o \in Orders /\ old \in Pages /\ old[o] \in Statuses
  BY <1>0, NewestOfPage
<1>2. /\ OrdersTyped' /\ RemoteAhead' /\ \A t \in Syncs : Kept(t) /\ asOf'[t] = asOf[t]
      /\ \A p \in Orders : Rank(p)' = Rank(p)
  <2> HIDE DEF o, old
  <2>1. updateOrder(o, old[o]) /\ old[o] \in Statuses \ {NotSaved}
    BY <1>1 DEF SaveLegacyOrder, o, old
  <2>2. /\ UNCHANGED <<deleted, remote, asOf, skipped>> /\ legacy' \subseteq legacy
        /\ viewed' = viewed
    BY DEF SaveLegacyOrder
  <2>3. QED
    BY <1>1, <2>1, <2>2, UpdateIsTyped
<1>3. /\ page \in Pages
      /\ \A p \in PageOf(s) : serverOf(p) = syncer[s].server => p \in DOMAIN page
  <2>1. CASE serverOf(o) = syncer[s].server
    <3>1. page = [old EXCEPT ![o] = NotSaved]
      BY <2>1
    <3> HIDE DEF o, page
    <3>2. page \in Pages /\ DOMAIN page = DOMAIN old
      BY <1>0, <1>1, <3>1, PagesAreClosed
    <3>3. QED
      BY <3>2 DEF PageOf
  <2>2. CASE serverOf(o) # syncer[s].server
    <3>1. page = Without(old, o)
      BY <2>2
    <3> HIDE DEF o, page
    <3>2. page \in Pages /\ DOMAIN page = DOMAIN old \ {o}
      BY <1>1, <3>1, PagesAreClosed
    <3>3. QED
      BY <2>2, <3>2 DEF PageOf
  <2>3. QED
    BY <2>1, <2>2
<1>4. Turns(s, OnPage(s, "page", syncer[s].offset, page))
  <2>1. syncer' = [syncer EXCEPT ![s].page = page]
    BY <1>0 DEF SaveLegacyOrder, ExchangeTyped
  <2> HIDE DEF page
  <2>2. QED
    BY <1>0, <1>3, <2>1, RecordsTurn
<1> HIDE DEF page, old, o
<1>5. /\ syncer'[s].pc = "page" /\ syncer'[s].left = syncer[s].left
      /\ syncer'[s].server = syncer[s].server /\ syncer'[s].offset = syncer[s].offset
      /\ syncer'[s].page = page
  BY <1>0, <1>4 DEF Turns, OnPage, SyncRecords
<1>6. Walked(s)' /\ Answered(s)'
  <2>1. PageOf(s)' = DOMAIN page /\ AtWork(s)' /\ ~SyncAt(s, "server")' /\ ~SyncAt(s, "save")'
    BY <1>5 DEF PageOf, AtWork, SyncAt
  <2>2. QED
    BY <1>0, <1>2, <1>3, <1>5, <2>1 DEF Walked, Answered, Kept
<1>7. QED
  BY <1>2, <1>4, <1>6, TurnKeeps

\* The answer is what the exchange says now, and the exchange does not take back what
\* it said.
LEMMA AskOrderInfoKeeps ==
    ASSUME FreshInv, NEW s \in Syncs, AskOrderInfo(s)
    PROVE  FreshInv'
<1> DEFINE o == Newest(PageOf(s))
           page == [syncer[s].page EXCEPT ![o] = remote[o]]
<1>0. /\ ExchangeTyped /\ Walked(s) /\ syncer[s].pc = "page" /\ AtWork(s)
      /\ PageOf(s) # {} /\ syncer[s] \in SyncRecords
  BY DEF FreshInv, WalkInv, ExchangeTyped, AskOrderInfo, SyncAt, AtWork
<1>1. OnlySyncer /\ OrdersTyped' /\ RemoteAhead' /\ \A t \in Syncs : Kept(t) /\ asOf'[t] = asOf[t]
  BY OnlySyncerKeeps DEF AskOrderInfo
<1>2. o \in PageOf(s) /\ o \in Orders /\ syncer[s].page \in Pages
  BY <1>0, NewestOfPage
<1>3. CASE Retry(s)
  BY <1>0, <1>1, <1>3, RetryKeeps, TurnKeeps
<1>4. CASE /\ saved[o] # NotSaved
           /\ syncer' = [syncer EXCEPT ![s].pc = "save", ![s].page[o] = remote[o]]
  <2>1. remote[o] \in Statuses /\ remote[o] # NotSaved /\ remote[o] >= asOf[s][o]
        /\ asOf[s][o] \in Statuses
    <3> HIDE DEF o
    <3>1. remote[o] \in Statuses /\ remote[o] # NotSaved /\ asOf[s][o] <= remote[o]
          /\ asOf[s][o] \in Statuses
      BY <1>2, <1>4 DEF FreshInv, WalkInv, ExchangeTyped, OrdersTyped, RemoteAhead
    <3>2. \A a, b \in Statuses : a <= b => b >= a
      BY ExchangeSyncBounds DEF Statuses, NotSaved
    <3>3. QED
      BY <3>1, <3>2
  <2>2. /\ page \in Pages /\ DOMAIN page = PageOf(s) /\ page[o] = remote[o]
    <3> HIDE DEF o
    <3>1. QED
      BY <1>2, <2>1, PagesAreClosed DEF PageOf
  <2>3. Turns(s, OnPage(s, "save", syncer[s].offset, page))
    <3>1. syncer' = [syncer EXCEPT ![s].pc = "save", ![s].page = page]
      BY <1>0, <1>4 DEF ExchangeTyped, SyncRecords
    <3>2. "save" \in SyncStates
      BY DEF SyncStates
    <3> HIDE DEF page
    <3>3. QED
      BY <1>0, <2>2, <3>1, <3>2, RecordsTurn
  <2>4. /\ syncer'[s].pc = "save" /\ syncer'[s].left = syncer[s].left
        /\ syncer'[s].server = syncer[s].server /\ syncer'[s].offset = syncer[s].offset
        /\ syncer'[s].page = page
    <3> HIDE DEF page
    <3>1. QED
      BY <1>0, <2>3 DEF Turns, OnPage, SyncRecords
  <2> HIDE DEF page
  <2>5. PageOf(s)' = PageOf(s) /\ AtWork(s)' /\ ~SyncAt(s, "server")'
    BY <2>2, <2>4 DEF PageOf, AtWork, SyncAt
  <2>6. Walked(s)'
    <3>1. \A p \in Orders : Rank(p)' = Rank(p)
      BY <1>1 DEF OnlySyncer, database, Rank, Newer, SavedOrders
    <3>2. QED
      BY <1>0, <1>1, <2>4, <2>5, <3>1 DEF Walked, Kept
  <2>7. Answered(s)'
    <3>1. Newest(PageOf(s))' = o
      BY <2>5 DEF Newest
    <3>2. QED
      BY <1>0, <1>1, <2>1, <2>2, <2>4, <2>5, <3>1 DEF Answered
  <2>8. QED
    BY <1>1, <2>3, <2>6, <2>7, TurnKeeps
<1>5. QED
  BY <1>3, <1>4 DEF AskOrderInfo

\* What was saved is not older than the exchange was when the sync began.
LEMMA SaveOrderInfoKeeps ==
    ASSUME FreshInv, NEW s \in Syncs, SaveOrderInfo(s)
    PROVE  FreshInv'
<1>o. PICK o : o = Newest(PageOf(s))
  OBVIOUS
<1> DEFINE old == syncer[s].page
           page == Without(old, o)
<1>0. /\ ExchangeTyped /\ Walked(s) /\ syncer[s].pc = "save" /\ AtWork(s)
      /\ PageOf(s) # {} /\ syncer[s] \in SyncRecords
      /\ old[o] # NotSaved /\ old[o] >= asOf[s][o]
  BY <1>o DEF FreshInv, WalkInv, ExchangeTyped, SaveOrderInfo, SyncAt, AtWork, Answered
<1>1. o \in PageOf(s) /\ o \in Orders /\ old \in Pages /\ old[o] \in Statuses
  BY <1>o, <1>0, NewestOfPage
<1>2. /\ OrdersTyped' /\ RemoteAhead' /\ \A t \in Syncs : Kept(t) /\ asOf'[t] = asOf[t]
      /\ \A p \in Orders : Rank(p)' = Rank(p)
      /\ saved[o] # NotSaved => saved'[o] = old[o]
  <2> HIDE DEF old
  <2>1. updateOrder(o, old[o]) /\ old[o] \in Statuses \ {NotSaved}
    BY <1>o, <1>0, <1>1 DEF SaveOrderInfo, old
  <2>2. /\ UNCHANGED <<deleted, remote, asOf, skipped>> /\ legacy' \subseteq legacy
        /\ viewed' = viewed
    BY DEF SaveOrderInfo
  <2>3. QED
    BY <1>1, <2>1, <2>2, UpdateIsTyped
<1>3. CASE Retry(s)
  BY <1>0, <1>2, <1>3, RetryKeeps, TurnKeeps
<1>4. CASE /\ saved[o] # NotSaved
           /\ syncer' = [syncer EXCEPT ![s].pc = "page", ![s].page = page]
  <2>1. Fresh(s, o)'
    BY <1>0, <1>2, <1>4 DEF Fresh
  <2>2. page \in Pages /\ DOMAIN page = PageOf(s) \ {o}
    BY <1>1, PagesAreClosed DEF PageOf
  <2>3. Turns(s, OnPage(s, "page", syncer[s].offset, page))
    <3>1. "page" \in SyncStates
      BY DEF SyncStates
    <3> HIDE DEF page
    <3>2. QED
      BY <1>0, <1>4, <2>2, <3>1, RecordsTurn
  <2> HIDE DEF page, old
  <2>4. /\ syncer'[s].pc = "page" /\ syncer'[s].left = syncer[s].left
        /\ syncer'[s].server = syncer[s].server /\ syncer'[s].offset = syncer[s].offset
        /\ syncer'[s].page = page
    BY <1>0, <2>3 DEF Turns, OnPage, SyncRecords
  <2>5. /\ PageOf(s)' = PageOf(s) \ {o} /\ AtWork(s)'
        /\ ~SyncAt(s, "server")' /\ ~SyncAt(s, "save")'
    BY <2>2, <2>4 DEF PageOf, AtWork, SyncAt
  <2>6. Walked(s)' /\ Answered(s)'
    BY <1>0, <1>2, <2>1, <2>4, <2>5 DEF Walked, Answered, Kept
  <2>7. QED
    BY <1>2, <2>3, <2>6, TurnKeeps
<1>5. QED
  BY <1>o, <1>3, <1>4 DEF SaveOrderInfo

\* A sync begins with all servers left and with what the exchange says now, or it
\* does not begin.
LEMMA SyncKeepsFresh ==
    ASSUME FreshInv, NEW s \in Syncs, Sync(s)
    PROVE  FreshInv'
<1>0. /\ ExchangeTyped /\ syncer[s] \in SyncRecords /\ syncer[s].pc = "unborn"
      /\ asOf \in [Syncs -> [Orders -> Statuses]] /\ remote \in [Orders -> Statuses]
      /\ UNCHANGED <<saved, legacy, overtaken, deleted, remote, viewed, skipped>>
  BY DEF FreshInv, ExchangeTyped, OrdersTyped, Sync, SyncAt, database
<1>1. CASE SyncGoes(s, "done") /\ UNCHANGED asOf
  <2>1. "done" \in SyncStates
    BY DEF SyncStates
  <2>2. Turns(s, OnPage(s, "done", syncer[s].offset, syncer[s].page))
    BY <1>0, <1>1, <2>1, RecordsTurn
  <2>3. OnPage(s, "done", syncer[s].offset, syncer[s].page).pc = "done"
    BY <1>0 DEF OnPage, SyncRecords
  <2>4. Walked(s)' /\ Answered(s)'
    BY <2>2, <2>3, RestingKeeps
  <2>5. OrdersTyped' /\ RemoteAhead' /\ \A t \in Syncs : Kept(t)
    BY <1>0, <1>1, QuietKeeps
       DEF FreshInv, WalkInv, ExchangeTyped, OrdersTyped, RemoteAhead
  <2>6. QED
    BY <1>1, <2>2, <2>4, <2>5, TurnKeeps
<1>2. CASE /\ SyncBecomes(s, [SyncRecord("server") EXCEPT !.left = Servers])
           /\ asOf' = [asOf EXCEPT ![s] = remote]
  <2> DEFINE r == [SyncRecord("server") EXCEPT !.left = Servers]
  <2>1. Turns(s, r)
    <3>1. r \in SyncRecords
      BY <1>0, WholeRecords
    <3>2. QED
      BY <1>0, <1>2, <3>1, RecordsTurn
  <2>2. syncer'[s].pc = "server" /\ syncer'[s].left = Servers
    BY <2>1 DEF Turns, SyncRecord
  <2>3. Walked(s)' /\ Answered(s)'
    BY <2>2 DEF Walked, Answered, SyncAt, AtWork, serverOf, Servers
  <2>4. /\ asOf' \in [Syncs -> [Orders -> Statuses]] /\ asOf'[s] = remote
        /\ \A t \in Syncs \ {s} : asOf'[t] = asOf[t]
    BY <1>0, <1>2
  <2>5. OrdersTyped'
    BY <1>0, <2>4 DEF FreshInv, ExchangeTyped, OrdersTyped
  <2>6. RemoteAhead'
    <3>1. \A o \in Orders : remote[o] <= remote[o]
      BY <1>0, ExchangeSyncBounds DEF Statuses, NotSaved
    <3>2. QED
      BY <1>0, <2>4, <3>1 DEF FreshInv, WalkInv, RemoteAhead
  <2>7. \A t \in Syncs \ {s} : Kept(t)
    BY <1>0, <2>4 DEF Kept, SavedOrders, Fresh
  <2> HIDE DEF r
  <2>8. QED
    BY <2>1, <2>3, <2>4, <2>5, <2>6, <2>7, TurnKeeps
<1>3. QED
  BY <1>1, <1>2 DEF Sync

\* What a sync that ended was to reach is forgotten.
LEMMA EndSyncKeepsFresh ==
    ASSUME FreshInv, NEW s \in Syncs, EndSync(s)
    PROVE  FreshInv'
<1> DEFINE unknown == [o \in Orders |-> NotSaved]
<1>0. /\ ExchangeTyped /\ "done" \in SyncStates
      /\ asOf \in [Syncs -> [Orders -> Statuses]] /\ remote \in [Orders -> Statuses]
      /\ skipped \in [Syncs -> SUBSET Servers]
      /\ UNCHANGED <<saved, legacy, overtaken, deleted, remote, viewed>>
  BY DEF FreshInv, ExchangeTyped, OrdersTyped, EndSync, database, SyncStates
<1>1. /\ unknown \in [Orders -> Statuses] /\ \A o \in Orders : unknown[o] <= remote[o]
  BY <1>0, ExchangeSyncBounds DEF Statuses, NotSaved
<1> HIDE DEF unknown
<1>2. Turns(s, SyncRecord("done"))
  BY <1>0, WholeRecords, RecordsTurn DEF EndSync
<1>3. Walked(s)' /\ Answered(s)'
  BY <1>2, RestingKeeps DEF SyncRecord
<1>4. /\ asOf' \in [Syncs -> [Orders -> Statuses]] /\ asOf'[s] = unknown
      /\ \A t \in Syncs \ {s} : asOf'[t] = asOf[t]
      /\ skipped' \in [Syncs -> SUBSET Servers]
      /\ \A t \in Syncs \ {s} : skipped'[t] = skipped[t]
  BY <1>0, <1>1 DEF EndSync, unknown
<1>5. OrdersTyped'
  BY <1>0, <1>4 DEF FreshInv, ExchangeTyped, OrdersTyped
<1>6. RemoteAhead'
  BY <1>0, <1>1, <1>4 DEF FreshInv, WalkInv, RemoteAhead
<1>7. \A t \in Syncs \ {s} : Kept(t)
  BY <1>0, <1>4 DEF Kept, SavedOrders, Fresh
<1>8. QED
  BY <1>2, <1>3, <1>4, <1>5, <1>6, <1>7, TurnKeeps

-----------------------------------------------------------------------------
(* The pages, the exchange and Shutdown                                    *)

\* An order that is created meanwhile asks nothing of the syncs under way, and the
\* pages shift towards what is still to be walked.
LEMMA CreateOrderKeeps ==
    ASSUME FreshInv, CreateOrder
    PROVE  FreshInv'
<1>0. /\ OrdersTyped /\ RemoteAhead /\ UNCHANGED <<syncer, asOf>>
      /\ UNCHANGED <<legacy, overtaken, deleted, viewed, skipped>>
      /\ saved \in [Orders -> Statuses] /\ remote \in [Orders -> Statuses]
  BY DEF FreshInv, WalkInv, ExchangeTyped, OrdersTyped, CreateOrder
<1>1. PICK o \in Orders :
          /\ remote[o] = NotSaved
          /\ saved' = [saved EXCEPT ![o] = 0] /\ remote' = [remote EXCEPT ![o] = 0]
  BY DEF CreateOrder
<1>2. /\ 0 \in Statuses /\ 0 # NotSaved /\ NotSaved \in Statuses
      /\ 1 .. OrdersAtStart \subseteq Orders
      /\ \A st \in Statuses : st \in Int /\ (st <= NotSaved => st = NotSaved /\ st <= 0)
  BY ExchangeSyncBounds DEF Statuses, NotSaved, Orders
<1>3. /\ saved' \in [Orders -> Statuses] /\ remote' \in [Orders -> Statuses]
      /\ saved'[o] = 0 /\ remote'[o] = 0
      /\ \A p \in Orders : p # o => saved'[p] = saved[p] /\ remote'[p] = remote[p]
  BY <1>0, <1>1, <1>2
<1>4. OrdersTyped'
  BY <1>0, <1>2, <1>3 DEF OrdersTyped
<1>5. \A s \in Syncs : asOf[s][o] \in Statuses /\ asOf[s][o] = NotSaved /\ asOf[s][o] <= 0
  BY <1>0, <1>1, <1>2 DEF RemoteAhead, OrdersTyped
<1>6. RemoteAhead'
  BY <1>0, <1>3, <1>5 DEF RemoteAhead
<1>7. \A t \in Syncs : Kept(t)
  <2>1. SavedOrders \subseteq SavedOrders'
    BY <1>2, <1>3 DEF SavedOrders
  <2>2. ASSUME NEW t \in Syncs, NEW p \in Orders, Fresh(t, p) PROVE Fresh(t, p)'
    <3>1. CASE p # o
      BY <1>0, <1>3, <2>2, <3>1 DEF Fresh
    <3>2. CASE p = o
      <4>1. saved'[o] >= asOf'[t][o]
        BY <1>0, <1>2, <1>3, <1>5
      <4>2. QED
        BY <3>2, <4>1 DEF Fresh
    <3>3. QED
      BY <3>1, <3>2
  <2>3. QED
    BY <2>1, <2>2 DEF Kept
<1>8. QED
  BY <1>0, <1>4, <1>6, <1>7, RestKeeps

\* A deletion excuses everything.
LEMMA DeleteOrderKeeps ==
    ASSUME FreshInv, DeleteOrder
    PROVE  FreshInv'
<1>0. /\ OrdersTyped /\ RemoteAhead /\ UNCHANGED <<syncer, asOf>> /\ deleted'
      /\ UNCHANGED <<legacy, remote, viewed, skipped>> /\ saved \in [Orders -> Statuses]
  BY DEF FreshInv, WalkInv, ExchangeTyped, OrdersTyped, DeleteOrder
<1>1. PICK o \in SavedOrders : o > OrdersAtStart /\ saved' = [saved EXCEPT ![o] = NotSaved]
  BY DEF DeleteOrder
<1>2. /\ NotSaved \in Statuses /\ o \in Orders /\ 1 .. OrdersAtStart \subseteq Orders
      /\ o \notin 1 .. OrdersAtStart
  BY <1>1, ExchangeSyncBounds DEF Statuses, NotSaved, Orders, SavedOrders
<1>3. /\ saved' \in [Orders -> Statuses] /\ saved'[o] = NotSaved
      /\ \A p \in Orders : p # o => saved'[p] = saved[p]
  BY <1>0, <1>1, <1>2
<1>4. OrdersTyped'
  BY <1>0, <1>2, <1>3 DEF OrdersTyped
<1>5. RemoteAhead' /\ \A t \in Syncs : Kept(t)
  BY <1>0 DEF RemoteAhead, Kept, Fresh
<1>6. QED
  BY <1>0, <1>4, <1>5, RestKeeps

\* The exchange only raises a status.
LEMMA ExchangeAdvancesKeeps ==
    ASSUME FreshInv, ExchangeAdvances
    PROVE  FreshInv'
<1>0. /\ OrdersTyped /\ RemoteAhead /\ UNCHANGED <<syncer, asOf>>
      /\ UNCHANGED <<saved, legacy, overtaken, deleted, viewed, skipped>>
      /\ remote \in [Orders -> Statuses]
      /\ \A s \in Syncs, o \in Orders : asOf[s][o] \in Statuses
  BY DEF FreshInv, WalkInv, ExchangeTyped, OrdersTyped, ExchangeAdvances, database
<1>1. PICK o \in Orders :
          remote[o] \in 0 .. MaxStatus - 1 /\ remote' = [remote EXCEPT ![o] = @ + 1]
  BY DEF ExchangeAdvances
<1>2. /\ remote[o] + 1 \in Statuses /\ remote[o] + 1 # NotSaved
      /\ \A st \in Statuses : st <= remote[o] => st <= remote[o] + 1
  BY <1>1, ExchangeSyncBounds DEF Statuses, NotSaved
<1>3. /\ remote' \in [Orders -> Statuses] /\ remote'[o] = remote[o] + 1
      /\ \A p \in Orders : p # o => remote'[p] = remote[p]
  BY <1>0, <1>1, <1>2
<1>4. OrdersTyped'
  BY <1>0, <1>2, <1>3 DEF OrdersTyped
<1>5. RemoteAhead'
  BY <1>0, <1>2, <1>3 DEF RemoteAhead
<1>6. \A t \in Syncs : Kept(t)
  BY <1>0, QuietKeeps
<1>7. QED
  BY <1>0, <1>4, <1>5, <1>6, RestKeeps

\* The order history and the details page only copy.
LEMMA ViewsKeep ==
    ASSUME FreshInv, ListOrder \/ AskViewedOrder
    PROVE  FreshInv'
<1>0. /\ OrdersTyped /\ RemoteAhead /\ UNCHANGED <<syncer, asOf>>
      /\ UNCHANGED <<saved, legacy, overtaken, deleted, remote, skipped>>
  BY DEF FreshInv, WalkInv, ExchangeTyped, ListOrder, AskViewedOrder, database
<1>1. viewed'.order \in Orders /\ viewed'.copy \in Statuses \ {NotSaved}
  <2>1. CASE ListOrder
    <3>1. PICK o \in legacy : viewed' = [pc |-> "listed", order |-> o, copy |-> saved[o]]
      BY <2>1 DEF ListOrder
    <3>2. o \in Orders /\ saved[o] # NotSaved
      BY <1>0, ExchangeSyncBounds DEF OrdersTyped, Orders
    <3>3. QED
      BY <1>0, <3>1, <3>2 DEF OrdersTyped
  <2>2. CASE AskViewedOrder
    <3>1. PICK o \in SavedOrders \ legacy :
              viewed' = [pc |-> "asked", order |-> o, copy |-> remote[o]]
      BY <2>2 DEF AskViewedOrder
    <3>2. QED
      BY <1>0, <3>1 DEF OrdersTyped, SavedOrders
  <2>3. QED
    BY <2>1, <2>2
<1>2. OrdersTyped' /\ RemoteAhead'
  BY <1>0, <1>1 DEF OrdersTyped, RemoteAhead
<1>3. QED
  BY <1>0, <1>2, QuietKeeps, RestKeeps

\* What the details page saves is a status of the order, early or late.
LEMMA ViewedOrderKeeps ==
    ASSUME FreshInv, OpenLegacyOrder \/ SaveViewedOrder
    PROVE  FreshInv'
<1>1. /\ viewed.order \in Orders /\ viewed.copy \in Statuses \ {NotSaved}
      /\ updateOrder(viewed.order, viewed.copy)
      /\ UNCHANGED <<deleted, remote, asOf, skipped, syncer>>
      /\ legacy' \subseteq legacy /\ viewed'.pc = "none"
  BY DEF FreshInv, ExchangeTyped, OrdersTyped, OpenLegacyOrder, SaveViewedOrder, NothingViewed
<1>2. PICK o \in Orders, status \in Statuses \ {NotSaved} :
          o = viewed.order /\ status = viewed.copy
  BY <1>1
<1>3. OrdersTyped' /\ RemoteAhead' /\ \A t \in Syncs : Kept(t)
  <2>1. updateOrder(o, status)
    BY <1>1, <1>2
  <2>2. QED
    BY <1>1, <2>1, UpdateIsTyped
<1>4. QED
  BY <1>1, <1>3, RestKeeps

\* Shutdown, and steps that change none of it.
LEMMA ShutdownKeeps ==
    ASSUME FreshInv,
           UNCHANGED <<syncer, saved, legacy, overtaken, deleted, remote, viewed, asOf, skipped>>
    PROVE  FreshInv'
<1>1. OrdersTyped' /\ RemoteAhead'
  BY DEF FreshInv, WalkInv, ExchangeTyped, OrdersTyped, RemoteAhead
<1>2. QED
  BY <1>1, QuietKeeps, RestKeeps

-----------------------------------------------------------------------------
(* Theorems                                                                *)

\* Nothing is under way at first, and the exchange holds what is saved.
LEMMA InitIsFresh == ExchangeInit => FreshInv
<1> SUFFICES ASSUME ExchangeInit PROVE FreshInv
  OBVIOUS
<1>1. /\ 0 \in Statuses /\ NotSaved \in Statuses /\ 0 # NotSaved /\ NotSaved <= 0
      /\ NotSaved <= NotSaved /\ 0 \in 0 .. MaxSyncRetries /\ 0 \in 0 .. MaxOrders
      /\ OddServer \in Servers /\ 1 .. OrdersAtStart \subseteq Orders
      /\ \A o \in 1 .. OrdersAtStart : o <= OrdersAtStart
  BY ExchangeSyncBounds DEF Statuses, NotSaved, Servers, Orders
<1>2. OrdersTyped
  BY <1>1, ExchangeSyncBounds DEF ExchangeInit, OrdersTyped, NothingViewed
<1>3. SyncRecord("unborn") \in SyncRecords
  BY <1>1, PagesAreClosed DEF SyncRecord, SyncRecords, SyncStates
<1>4. ExchangeTyped
  BY <1>2, <1>3 DEF ExchangeTyped, ExchangeInit
<1>5. RemoteAhead
  BY <1>1 DEF RemoteAhead, ExchangeInit
<1>6. \A s \in Syncs : Walked(s) /\ Answered(s)
  BY DEF ExchangeInit, Walked, Answered, SyncAt, AtWork, SyncRecord
<1>7. QED
  BY <1>4, <1>5, <1>6 DEF FreshInv, WalkInv

\* Every step keeps what the syncs have passed.
LEMMA NextIsFresh == FreshInv /\ [ExchangeNext]_exchangeVars => FreshInv'
<1> SUFFICES ASSUME FreshInv, [ExchangeNext]_exchangeVars PROVE FreshInv'
  OBVIOUS
<1>1. ASSUME NEW s \in Syncs, Sync(s) \/ SyncStep(s) PROVE FreshInv'
  BY <1>1, SyncKeepsFresh, EndSyncKeepsFresh, EndingKeeps, BeginServerKeeps, NextPageKeeps,
     SaveLegacyOrderKeeps, AskOrderInfoKeeps, SaveOrderInfoKeeps DEF SyncStep
<1>2. CASE StopSync \/ UNCHANGED exchangeVars
  BY <1>2, ShutdownKeeps DEF StopSync, exchangeVars, database
<1>3. QED
  BY <1>1, <1>2, CreateOrderKeeps, DeleteOrderKeeps, ExchangeAdvancesKeeps, ViewsKeep,
     ViewedOrderKeeps DEF ExchangeNext

\* The invariant of the walk holds in every reachable state.
THEOREM FreshInvHolds == ExchangeSpec => []FreshInv
BY InitIsFresh, NextIsFresh, PTL DEF ExchangeSpec

\* A sync that completes has walked to the end for every server, and a page that
\* shifts, a retry or a second walker has not made it miss an order.
THEOREM CompletedSyncsAreFresh == ExchangeSpec => CompletedSyncIsFresh
<1> DEFINE Complete ==
       \A s \in Syncs : CompleteSync(s) =>
          \A o \in SavedOrders :
             (~deleted /\ serverOf(o) \notin skipped[s] /\ o \notin overtaken)
                => saved[o] >= asOf[s][o]
<1>1. FreshInv => Complete
  BY DEF FreshInv, WalkInv, Walked, CompleteSync, SavedOrders, Fresh
<1>2. FreshInv /\ [ExchangeNext]_exchangeVars => [Complete]_exchangeVars
  BY <1>1
<1> HIDE DEF Complete
<1>3. ExchangeSpec => [][Complete]_exchangeVars
  BY <1>2, FreshInvHolds, PTL DEF ExchangeSpec
<1>4. QED
  BY <1>3 DEF Complete, CompletedSyncIsFresh

-----------------------------------------------------------------------------
(* Types                                                                   *)

\* The variables of the sync and of the details page that the walk does not need.
OthersTyped ==
    /\ cancelSync \in Syncs \cup {NoSync} /\ stoppedSyncs \subseteq Syncs
    /\ events \in 0 .. MaxEvents
    /\ viewed = NothingViewed
       \/ viewed \in [pc : {"listed", "asked"}, order : Orders, copy : Statuses]

\* They are kept, where what is copied to the page is typed.
LEMMA NextKeepsOthersTyped ==
    FreshInv /\ OthersTyped /\ [ExchangeNext]_exchangeVars => OthersTyped'
<1> SUFFICES ASSUME FreshInv, OthersTyped, [ExchangeNext]_exchangeVars PROVE OthersTyped'
  OBVIOUS
<1> DEFINE Views == {NothingViewed} \cup [pc : {"listed", "asked"}, order : Orders, copy : Statuses]
<1>0. /\ cancelSync \in Syncs \cup {NoSync} /\ stoppedSyncs \subseteq Syncs
      /\ events \in 0 .. MaxEvents /\ viewed \in Views
  BY DEF OthersTyped
<1>1. SUFFICES /\ cancelSync' \in Syncs \cup {NoSync} /\ stoppedSyncs' \subseteq Syncs
               /\ events' \in 0 .. MaxEvents /\ viewed' \in Views
  BY DEF OthersTyped, NothingViewed
<1>2. \A o \in Orders : saved[o] \in Statuses /\ remote[o] \in Statuses
  BY DEF FreshInv, ExchangeTyped, OrdersTyped
<1>3. legacy \subseteq Orders /\ SavedOrders \subseteq Orders
  BY ExchangeSyncBounds DEF FreshInv, ExchangeTyped, OrdersTyped, SavedOrders, Orders
<1>4. \A o \in Orders, label \in {"listed", "asked"} :
         /\ [pc |-> label, order |-> o, copy |-> saved[o]] \in Views
         /\ [pc |-> label, order |-> o, copy |-> remote[o]] \in Views
  BY <1>2
<1>5. NothingViewed \in Views
  OBVIOUS
<1>6. Event => events' \in 0 .. MaxEvents
  BY <1>0, ExchangeSyncBounds DEF Event
<1> HIDE DEF Views
<1>7. ASSUME NEW s \in Syncs, Sync(s) PROVE UNCHANGED <<viewed, events, stoppedSyncs>> /\ cancelSync' \in {s, cancelSync}
  BY <1>7 DEF Sync
<1>8. ASSUME NEW s \in Syncs, SyncStep(s)
      PROVE  /\ UNCHANGED <<viewed, events>> /\ cancelSync' \in {NoSync, cancelSync}
             /\ stoppedSyncs' \subseteq stoppedSyncs \cup ({cancelSync} \ {NoSync})
  <2>1. CASE EndSync(s)
    BY <2>1 DEF EndSync
  <2>2. CASE ~EndSync(s)
    <3>1. UNCHANGED <<syncState, viewed, events>>
      BY <1>8, <2>2 DEF SyncStep, ExitStoppedSync, BeginServer, CompleteSync, NextPage, SaveLegacyOrder,
             AskOrderInfo, SaveOrderInfo, OnlySyncer
    <3>2. QED
      BY <3>1 DEF syncState
  <2>3. QED
    BY <2>1, <2>2
<1>9. CASE StopSync
  BY <1>0, <1>9 DEF StopSync
<1>10. CASE CreateOrder \/ DeleteOrder \/ ExchangeAdvances
  BY <1>0, <1>6, <1>10 DEF CreateOrder, DeleteOrder, ExchangeAdvances, syncState
<1>11. CASE ListOrder
  BY <1>0, <1>3, <1>4, <1>6, <1>11 DEF ListOrder, syncState
<1>12. CASE AskViewedOrder
  BY <1>0, <1>3, <1>4, <1>6, <1>12 DEF AskViewedOrder, syncState
<1>13. CASE OpenLegacyOrder \/ SaveViewedOrder
  BY <1>0, <1>5, <1>13 DEF OpenLegacyOrder, SaveViewedOrder, syncState
<1>14. CASE UNCHANGED exchangeVars
  BY <1>0, <1>14 DEF exchangeVars, syncState
<1>15. QED
  BY <1>0, <1>7, <1>8, <1>9, <1>10, <1>11, <1>12, <1>13, <1>14 DEF ExchangeNext

\* Types of the sync of the orders, for any number of orders and any length of a page.
THEOREM ExchangeTypeCorrect == ExchangeSpec => []ExchangeTypeOK
<1>1. ExchangeInit => OthersTyped
  BY ExchangeSyncBounds DEF ExchangeInit, OthersTyped
<1>2. FreshInv /\ OthersTyped => ExchangeTypeOK
  <2> SUFFICES ASSUME FreshInv, OthersTyped PROVE ExchangeTypeOK
    OBVIOUS
  <2>1. OrdersTyped /\ legacy \subseteq Orders /\ syncer \in [Syncs -> SyncRecords]
    BY ExchangeSyncBounds DEF FreshInv, ExchangeTyped, OrdersTyped, Orders
  <2>2. ASSUME NEW s \in Syncs
        PROVE  /\ syncer[s].pc \in SyncStates
               /\ syncer[s].left \subseteq Servers /\ syncer[s].server \in Servers
               /\ syncer[s].attempts \in 0 .. MaxSyncRetries
               /\ syncer[s].offset \in 0 .. 2 * MaxOrders
               /\ DOMAIN syncer[s].page \subseteq Orders
               /\ \A o \in DOMAIN syncer[s].page : syncer[s].page[o] \in Statuses
    <3>1. syncer[s] \in SyncRecords
      BY <2>1
    <3>2. /\ syncer[s].page \in Pages /\ syncer[s].offset \in 0 .. 2 * MaxOrders
          /\ syncer[s].pc \in SyncStates /\ syncer[s].left \subseteq Servers
          /\ syncer[s].server \in Servers /\ syncer[s].attempts \in 0 .. MaxSyncRetries
      BY <3>1, ExchangeSyncBounds DEF SyncRecords
    <3>3. DOMAIN syncer[s].page \subseteq Orders /\ syncer[s].page \in [DOMAIN syncer[s].page -> Statuses]
      BY <3>2, PagesAreClosed
    <3>4. QED
      BY <3>2, <3>3
  <2>3. QED
    BY <2>1, <2>2 DEF OrdersTyped, OthersTyped, ExchangeTypeOK
<1>3. QED
  BY <1>1, <1>2, NextKeepsOthersTyped, FreshInvHolds, PTL DEF ExchangeSpec

\* Types of the scheduler, for any balance and any limits of the servers: what is
\* invoiced is never more than the account held at first.
THEOREM SchedulerTypeCorrect == SchedulerSpec => []SchedulerTypeOK
<1>1. SchedulerInit => SchedulerTypeOK
  <2> SUFFICES ASSUME SchedulerInit PROVE SchedulerTypeOK
    OBVIOUS
  <2>1. MaxBalance \in 0 .. MaxBalance /\ 0 \in 0 .. MaxBalance /\ 0 \in 0 .. MaxSpends
    BY SchedulerBounds
  <2>2. "unborn" \in SchedulerStates
    BY DEF SchedulerStates
  <2>3. /\ sched \in [Schedulers -> SchedulerStates]
        /\ walletBalance \in [Schedulers -> 0 .. MaxBalance]
        /\ invoiced \in [Schedulers -> 0 .. MaxBalance]
    BY <2>1, <2>2 DEF SchedulerInit
  <2>4. /\ ordered \in [Schedulers -> BOOLEAN] /\ reversed \in [Schedulers -> BOOLEAN]
        /\ orderStatus \in [Schedulers -> {"exchanging", "completed", "refunded"}]
    BY DEF SchedulerInit
  <2>5. QED
    BY <2>1, <2>3, <2>4 DEF SchedulerInit, SchedulerTypeOK
<1>2. SchedulerTypeOK /\ [SchedulerNext]_schedulerVars => SchedulerTypeOK'
  <2> SUFFICES ASSUME SchedulerTypeOK, [SchedulerNext]_schedulerVars PROVE SchedulerTypeOK'
    OBVIOUS
  <2> USE DEF SchedulerTypeOK, SchedulerGoes
  <2>1. ASSUME NEW s \in Schedulers, StartScheduler(s) \/ CheckCancelOrderScheduler(s)
                  \/ NewExchangeServer(s) \/ CheckSchedulerShutdown(s) \/ SleepUntilNextOrder(s)
                  \/ GetExchangeRateInfo(s) \/ AwaitOrder(s) \/ VerifyOrder(s)
        PROVE  SchedulerTypeOK'
    <3>1. OnlySchedulerMoves /\ \E label \in SchedulerStates : SchedulerGoes(s, label)
      BY <2>1 DEF StartScheduler, CheckCancelOrderScheduler, NewExchangeServer, CheckSchedulerShutdown,
             SleepUntilNextOrder, GetExchangeRateInfo, AwaitOrder, VerifyOrder, SchedulerStates, Trading
    <3>2. QED
      BY <3>1 DEF OnlySchedulerMoves, published, trade, account
  <2>2. ASSUME NEW s \in Schedulers, PublishScheduler(s) PROVE SchedulerTypeOK'
    <3>1. overlapped' \in BOOLEAN /\ "server" \in SchedulerStates
      BY <2>2 DEF PublishScheduler, SchedulerStates, Trading
    <3>2. QED
      BY <2>2, <3>1 DEF PublishScheduler, trade, account
  <2>3. ASSUME NEW s \in Schedulers, GetAccountBalance(s) PROVE SchedulerTypeOK'
    <3>1. \E label \in SchedulerStates : SchedulerGoes(s, label)
      BY <2>3 DEF GetAccountBalance, SchedulerStates, Trading
    <3>2. walletBalance' \in [Schedulers -> 0 .. MaxBalance]
      BY <2>3 DEF GetAccountBalance
    <3>3. UNCHANGED <<published, invoiced, ordered, reversed, orderStatus, account, stopper,
                      overlapped, nilCancel>>
      BY <2>3 DEF GetAccountBalance
    <3>4. QED
      BY <3>1, <3>2, <3>3 DEF published, account
  <2>4. ASSUME NEW s \in Schedulers, CreateScheduledOrder(s) PROVE SchedulerTypeOK'
    <3>1. \E label \in SchedulerStates : SchedulerGoes(s, label)
      BY <2>4 DEF CreateScheduledOrder, SchedulerStates, Trading
    <3>2. ASSUME NEW max \in ServerMaxima, InvoicedAmount(s, max) > 0
          PROVE  InvoicedAmount(s, max) \in 0 .. MaxBalance
      BY <3>2, SchedulerBounds DEF InvoicedAmount
    <3>3. /\ invoiced' \in [Schedulers -> 0 .. MaxBalance] /\ ordered' \in [Schedulers -> BOOLEAN]
          /\ orderStatus' \in [Schedulers -> {"exchanging", "completed", "refunded"}]
      <4>1. CASE UNCHANGED <<invoiced, ordered, orderStatus>>
        BY <4>1
      <4>2. CASE ~UNCHANGED <<invoiced, ordered, orderStatus>>
        <5>1. PICK max \in ServerMaxima :
                 /\ InvoicedAmount(s, max) > 0
                 /\ invoiced' = [invoiced EXCEPT ![s] = InvoicedAmount(s, max)]
          BY <2>4, <4>2 DEF CreateScheduledOrder
        <5>2. /\ ordered' = [ordered EXCEPT ![s] = TRUE]
              /\ orderStatus' = [orderStatus EXCEPT ![s] = "exchanging"]
          BY <2>4, <4>2 DEF CreateScheduledOrder
        <5>3. InvoicedAmount(s, max) \in 0 .. MaxBalance
          BY <3>2, <5>1
        <5>4. QED
          BY <5>1, <5>2, <5>3
      <4>3. QED
        BY <4>1, <4>2
    <3>4. UNCHANGED <<published, walletBalance, reversed, account, stopper, overlapped, nilCancel>>
      BY <2>4 DEF CreateScheduledOrder
    <3>5. QED
      BY <3>1, <3>3, <3>4 DEF published, account
  <2>5. ASSUME NEW s \in Schedulers, PayOrder(s) PROVE SchedulerTypeOK'
    <3>1. \E label \in SchedulerStates : SchedulerGoes(s, label)
      BY <2>5 DEF PayOrder, SchedulerStates, Trading
    <3>2. balance' \in 0 .. MaxBalance
      BY <2>5, SchedulerBounds DEF PayOrder
    <3>3. UNCHANGED <<published, trade, spends, stopper, overlapped, nilCancel>>
      BY <2>5 DEF PayOrder
    <3>4. QED
      BY <3>1, <3>2, <3>3 DEF published, trade
  <2>6. ASSUME NEW s \in Schedulers, GetScheduledOrderInfo(s) PROVE SchedulerTypeOK'
    <3>1. \E label \in SchedulerStates : SchedulerGoes(s, label)
      BY <2>6 DEF GetScheduledOrderInfo, SchedulerStates, Trading
    <3>2. /\ orderStatus' \in [Schedulers -> {"exchanging", "completed", "refunded"}]
          /\ reversed' \in [Schedulers -> BOOLEAN]
      BY <2>6 DEF GetScheduledOrderInfo
    <3>3. UNCHANGED <<published, walletBalance, invoiced, ordered, account, stopper, overlapped,
                      nilCancel>>
      BY <2>6 DEF GetScheduledOrderInfo
    <3>4. QED
      BY <3>1, <3>2, <3>3 DEF published, account
  <2>7. ASSUME NEW s \in Schedulers, EndScheduler(s) PROVE SchedulerTypeOK'
    <3>1. "done" \in SchedulerStates
      BY DEF SchedulerStates
    <3>2. QED
      BY <2>7, <3>1, SchedulerBounds DEF EndScheduler, TradeForgotten, account
  <2>8. CASE CheckBeforeStop \/ StopSchedulerStep
    BY <2>8 DEF CheckBeforeStop, StopSchedulerStep, CallCancelOrderScheduler,
           ClearCancelOrderScheduler, published, trade, account
  <2>9. CASE UserSpends
    <3>1. spends' \in 0 .. MaxSpends /\ balance' \in 0 .. MaxBalance
      BY <2>9, SchedulerBounds DEF UserSpends
    <3>2. QED
      BY <2>9, <3>1 DEF UserSpends, published, trade
  <2>10. CASE UNCHANGED schedulerVars
    BY <2>10 DEF schedulerVars, published, trade, account
  <2>11. QED
    BY <2>1, <2>2, <2>3, <2>4, <2>5, <2>6, <2>7, <2>8, <2>9, <2>10 DEF SchedulerNext, SchedulerStep
<1>3. QED
  BY <1>1, <1>2, PTL DEF SchedulerSpec

-----------------------------------------------------------------------------
(* The services together                                                   *)

\* A behaviour of the model that TLC checks is, seen from each service, one of that
\* service, so that what is proved of each holds in it.
LEMMA ExchangeServicesCompose == MCExchangeSpec => SchedulerSpec /\ ExchangeSpec /\ RatesSpec
<1>1. MCExchangeInit => SchedulerInit /\ ExchangeInit /\ RatesInit
  BY DEF MCExchangeInit
<1>2. ASSUME [MCExchangeNext]_<<service, schedulerVars, exchangeVars, rateVars>>
      PROVE  [SchedulerNext]_schedulerVars /\ [ExchangeNext]_exchangeVars /\ [RatesNext]_rateVars
  BY <1>2 DEF MCExchangeNext
<1>3. QED
  BY <1>1, <1>2, PTL DEF MCExchangeSpec, SchedulerSpec, ExchangeSpec, RatesSpec

\* Types of the three services, whichever of them runs.
THEOREM MCExchangeTypeCorrect == MCExchangeSpec => []MCExchangeTypeOK
<1>1. SchedulerTypeOK /\ ExchangeTypeOK /\ RatesTypeOK => MCExchangeTypeOK
  BY DEF MCExchangeTypeOK
<1>2. QED
  BY <1>1, ExchangeServicesCompose, SchedulerTypeCorrect, ExchangeTypeCorrect, RatesTypeCorrect, PTL
=============================================================================
