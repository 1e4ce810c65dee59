--------------------------- MODULE OrderScheduler ---------------------------
(***************************************************************************)
(* The automatic order scheduler: libwallet/instantswap.go.                *)
(*                                                                         *)
(* StartScheduler runs in a goroutine of the scheduler modal until the     *)
(* source wallet is down to the balance to maintain, a request fails, or   *)
(* StopScheduler has cancelled its context.  CancelOrderSchedulerMu is     *)
(* only ever read-locked, and the deferred function takes no lock at all,  *)
(* so the check, the assignment and the reset of CancelOrderScheduler are  *)
(* steps of their own.  A scheduler and its context have the same number.  *)
(*                                                                         *)
(* Amounts are small integers, rates and block explorers are outcomes: a   *)
(* request fails or not, a rate deviates or not.  A payment costs some fee *)
(* up to MaxTxFee beside its amount, which no check takes account of.      *)
(***************************************************************************)
EXTENDS Integers, FiniteSets

CONSTANTS
    MaxSchedulers,      \* bound: how many times a scheduler is started
    MaxBalance,         \* what the source account holds at first, and a bound
    BalanceToMaintain,
    MaxTxFee,           \* bound: what the transaction of an order may cost
    ServerMaxima,       \* what res.Max may be, the most a server takes; 0 is no limit
    MaxSpends           \* bound: payments of and to the user beside the scheduler

Schedulers == 1 .. MaxSchedulers
NoScheduler == 0

ASSUME SchedulerBounds ==
    /\ MaxSchedulers \in Nat /\ MaxBalance \in Nat /\ MaxSpends \in Nat
    /\ BalanceToMaintain \in Nat /\ MaxTxFee \in Nat /\ ServerMaxima \subseteq Nat

VARIABLES
    cancelOrderScheduler, schedulerCtx,     \* the fields of InstantSwap
    stoppedCtx,         \* the contexts that were cancelled
    sched,              \* where a scheduler is
    walletBalance,      \* the balance a scheduler read last
    invoiced,           \* the amount of its order
    ordered,            \* lastOrderTime is set
    reversed,           \* FromCurrency and ToCurrency are swapped
    orderStatus,        \* of its order at the exchange
    balance, spends,    \* the account, and the user's payments so far
    stopper,            \* where the user interface is in StopScheduler
    overlapped,         \* history: a scheduler was published while an earlier one,
                        \* or the call that stops it, was still under way
    nilCancel           \* the program stopped: a nil function was called

account   == <<balance, spends>>
trade     == <<walletBalance, invoiced, ordered, reversed, orderStatus>>
published == <<cancelOrderScheduler, schedulerCtx, stoppedCtx>>
schedulerVars == <<published, sched, trade, account, stopper, overlapped, nilCancel>>

\* Where a scheduler trades: past the publication of its cancel function.
Trading == {"server", "loop", "balance", "sleep", "rate", "create", "pay",
            "await", "query", "verify"}
SchedulerStates == {"unborn", "check", "publish", "ending", "done"} \cup Trading

SchedulerTypeOK ==
    /\ cancelOrderScheduler \in Schedulers \cup {NoScheduler}
    /\ schedulerCtx \in Schedulers \cup {NoScheduler}
    /\ stoppedCtx \subseteq Schedulers
    /\ sched \in [Schedulers -> SchedulerStates]
    /\ walletBalance \in [Schedulers -> 0 .. MaxBalance]
    /\ invoiced \in [Schedulers -> 0 .. MaxBalance]
    /\ ordered \in [Schedulers -> BOOLEAN] /\ reversed \in [Schedulers -> BOOLEAN]
    /\ orderStatus \in [Schedulers -> {"exchanging", "completed", "refunded"}]
    /\ balance \in 0 .. MaxBalance /\ spends \in 0 .. MaxSpends
    /\ stopper \in {"idle", "call", "clear"}
    /\ overlapped \in BOOLEAN /\ nilCancel \in BOOLEAN

SchedulerInit ==
    /\ cancelOrderScheduler = NoScheduler /\ schedulerCtx = NoScheduler
    /\ stoppedCtx = {}
    /\ sched = [s \in Schedulers |-> "unborn"]
    /\ walletBalance = [s \in Schedulers |-> 0] /\ invoiced = [s \in Schedulers |-> 0]
    /\ ordered = [s \in Schedulers |-> FALSE] /\ reversed = [s \in Schedulers |-> FALSE]
    /\ orderStatus = [s \in Schedulers |-> "exchanging"]
    /\ balance = MaxBalance /\ spends = 0
    /\ stopper = "idle" /\ overlapped = FALSE /\ nilCancel = FALSE

-----------------------------------------------------------------------------
SchedulerGoes(s, label) == sched' = [sched EXCEPT ![s] = label]
SchedulersThere == {s \in Schedulers : sched[s] \in Trading \cup {"ending"}}
OnlySchedulerMoves == UNCHANGED <<published, trade, account, stopper, overlapped, nilCancel>>

\* The scheduler modal starts the goroutine.  A wallet is never closed under it.
StartScheduler(s) ==
    /\ sched[s] = "unborn" /\ \A r \in Schedulers : r < s => sched[r] # "unborn"
    /\ SchedulerGoes(s, "check") /\ OnlySchedulerMoves

\* "scheduler already running".
CheckCancelOrderScheduler(s) ==
    /\ sched[s] = "check"
    /\ SchedulerGoes(s, IF cancelOrderScheduler = NoScheduler THEN "publish" ELSE "done")
    /\ OnlySchedulerMoves

PublishScheduler(s) ==
    /\ sched[s] = "publish"
    /\ schedulerCtx' = s /\ cancelOrderScheduler' = s
    /\ overlapped' = (overlapped \/ SchedulersThere # {} \/ stopper # "idle")
    /\ SchedulerGoes(s, "server")
    /\ UNCHANGED <<stoppedCtx, trade, account, stopper, nilCancel>>

NewExchangeServer(s) ==
    /\ sched[s] = "server"
    /\ \E next \in {"loop", "ending"} : SchedulerGoes(s, next)
    /\ OnlySchedulerMoves

\* The context that is asked is the one in the shared field.
CheckSchedulerShutdown(s) ==
    /\ sched[s] = "loop"
    /\ SchedulerGoes(s, IF schedulerCtx \in stoppedCtx THEN "ending" ELSE "balance")
    /\ OnlySchedulerMoves

GetAccountBalance(s) ==
    /\ sched[s] = "balance"
    /\ \/ SchedulerGoes(s, "ending") /\ UNCHANGED walletBalance     \* the query fails
       \/ /\ walletBalance' = [walletBalance EXCEPT ![s] = balance]
          /\ SchedulerGoes(s, CASE balance <= BalanceToMaintain -> "ending"
                                [] balance > BalanceToMaintain /\ ordered[s] -> "sleep"
                                [] OTHER -> "rate")
    /\ UNCHANGED <<published, invoiced, ordered, reversed, orderStatus, account, stopper,
                   overlapped, nilCancel>>

\* time.Sleep until the next order is due, which a cancel does not interrupt.
SleepUntilNextOrder(s) ==
    /\ sched[s] = "sleep" /\ SchedulerGoes(s, "rate") /\ OnlySchedulerMoves

\* The server's rate is there and does not deviate from the market's, or not.
GetExchangeRateInfo(s) ==
    /\ sched[s] = "rate"
    /\ \E next \in {"create", "ending"} : SchedulerGoes(s, next)
    /\ OnlySchedulerMoves

\* Wrong: the most the server takes is sent whatever is left.
InvoicedAmountUnchecked(s, max) ==
    IF max = 0 THEN walletBalance[s] - BalanceToMaintain ELSE max

\* The most the server takes, or what may be spent if that is less.
InvoicedAmount(s, max) ==
    IF max = 0 \/ walletBalance[s] - max < BalanceToMaintain
    THEN walletBalance[s] - BalanceToMaintain ELSE max

\* Nothing is sent, or the whole balance would be and leave nothing for the fees.
CreateScheduledOrder(s) ==
    /\ sched[s] = "create"
    /\ \/ SchedulerGoes(s, "ending") /\ UNCHANGED <<invoiced, ordered, orderStatus>>
       \/ /\ \E max \in ServerMaxima :
                /\ InvoicedAmount(s, max) > 0 /\ InvoicedAmount(s, max) # walletBalance[s]
                /\ invoiced' = [invoiced EXCEPT ![s] = InvoicedAmount(s, max)]
          /\ ordered' = [ordered EXCEPT ![s] = TRUE]
          /\ orderStatus' = [orderStatus EXCEPT ![s] = "exchanging"]
          /\ SchedulerGoes(s, "pay")
    /\ UNCHANGED <<published, walletBalance, reversed, account, stopper, overlapped, nilCancel>>

\* The transaction is built and broadcast; its fee comes on top of the amount.  It
\* fails for want of money for both, because the deposit address of a reversed
\* order is one of the other chain, or anyhow.
PayOrder(s) ==
    /\ sched[s] = "pay"
    /\ \/ SchedulerGoes(s, "ending") /\ UNCHANGED balance
       \/ /\ ~reversed[s]
          /\ \E fee \in 0 .. MaxTxFee :
                invoiced[s] + fee <= balance /\ balance' = balance - (invoiced[s] + fee)
          /\ SchedulerGoes(s, "await")
    /\ UNCHANGED <<published, trade, spends, stopper, overlapped, nilCancel>>

\* Wrong: only the outer loop asks whether the scheduler was stopped.
AwaitOrderUnasked(s) ==
    /\ sched[s] = "await" /\ SchedulerGoes(s, "query") /\ OnlySchedulerMoves

\* The check of the inner loop; then it sleeps for the time of a block.
AwaitOrder(s) ==
    /\ sched[s] = "await"
    /\ SchedulerGoes(s, IF schedulerCtx \in stoppedCtx THEN "ending" ELSE "query")
    /\ OnlySchedulerMoves

\* Every answer "refunded" swaps the currencies once more.
GetScheduledOrderInfo(s) ==
    /\ sched[s] = "query"
    /\ \/ SchedulerGoes(s, "ending") /\ UNCHANGED <<orderStatus, reversed>>
       \/ \E status \in IF orderStatus[s] = "exchanging"
                        THEN {"exchanging", "completed", "refunded"} ELSE {orderStatus[s]} :
             /\ orderStatus' = [orderStatus EXCEPT ![s] = status]
             /\ reversed' = [reversed EXCEPT ![s] = IF status = "refunded" THEN ~@ ELSE @]
             /\ SchedulerGoes(s, "verify")
    /\ UNCHANGED <<published, walletBalance, invoiced, ordered, account, stopper, overlapped,
                   nilCancel>>

\* The explorer of the chain ToCurrency names finds the transaction confirmed, not
\* yet, or fails; what it finds may be another amount.
VerifyOrder(s) ==
    /\ sched[s] = "verify"
    /\ \/ SchedulerGoes(s, "ending")
       \/ SchedulerGoes(s, "await")
       \/ /\ orderStatus[s] = IF reversed[s] THEN "refunded" ELSE "completed"
          /\ SchedulerGoes(s, "loop")
    /\ OnlySchedulerMoves

\* Wrong: the field keeps the cancel function of a scheduler that ended.
EndSchedulerKeepsCancel(s) ==
    /\ sched[s] = "ending" /\ SchedulerGoes(s, "done")
    /\ UNCHANGED <<published, trade, account, stopper, overlapped, nilCancel>>

\* The variables of its function die with a scheduler.
TradeForgotten(s) ==
    /\ walletBalance' = [walletBalance EXCEPT ![s] = 0]
    /\ invoiced' = [invoiced EXCEPT ![s] = 0]
    /\ ordered' = [ordered EXCEPT ![s] = FALSE]
    /\ reversed' = [reversed EXCEPT ![s] = FALSE]
    /\ orderStatus' = [orderStatus EXCEPT ![s] = "exchanging"]

\* The deferred function: whatever is in the field now.
EndScheduler(s) ==
    /\ sched[s] = "ending"
    /\ cancelOrderScheduler' = NoScheduler
    /\ TradeForgotten(s)
    /\ SchedulerGoes(s, "done")
    /\ UNCHANGED <<schedulerCtx, stoppedCtx, account, stopper, overlapped, nilCancel>>

\* StopScheduler: the field is read three times, under a lock all may share.
CheckBeforeStop ==
    /\ stopper = "idle" /\ cancelOrderScheduler # NoScheduler
    /\ stopper' = "call"
    /\ UNCHANGED <<published, sched, trade, account, overlapped, nilCancel>>

CallCancelOrderScheduler ==
    /\ stopper = "call"
    /\ stoppedCtx' = stoppedCtx \cup ({cancelOrderScheduler} \ {NoScheduler})
    /\ nilCancel' = (cancelOrderScheduler = NoScheduler)
    /\ stopper' = "clear"
    /\ UNCHANGED <<cancelOrderScheduler, schedulerCtx, sched, trade, account, overlapped>>

ClearCancelOrderScheduler ==
    /\ stopper = "clear"
    /\ cancelOrderScheduler' = NoScheduler /\ stopper' = "idle"
    /\ UNCHANGED <<schedulerCtx, stoppedCtx, sched, trade, account, overlapped, nilCancel>>

\* The user pays from the same account, or is paid.
UserSpends ==
    /\ spends < MaxSpends /\ spends' = spends + 1
    /\ balance' \in {balance - 1, balance + 1} \cap (0 .. MaxBalance)
    /\ UNCHANGED <<published, sched, trade, stopper, overlapped, nilCancel>>

-----------------------------------------------------------------------------
SchedulerStep(s) ==
    \/ CheckCancelOrderScheduler(s) \/ PublishScheduler(s) \/ NewExchangeServer(s)
    \/ CheckSchedulerShutdown(s) \/ GetAccountBalance(s) \/ SleepUntilNextOrder(s)
    \/ GetExchangeRateInfo(s) \/ CreateScheduledOrder(s) \/ PayOrder(s)
    \/ AwaitOrder(s) \/ GetScheduledOrderInfo(s) \/ VerifyOrder(s) \/ EndScheduler(s)

StopSchedulerStep == CallCancelOrderScheduler \/ ClearCancelOrderScheduler

SchedulerNext ==
    /\ ~nilCancel
    /\ \/ \E s \in Schedulers : StartScheduler(s) \/ SchedulerStep(s)
       \/ CheckBeforeStop \/ StopSchedulerStep
       \/ UserSpends

\* Every goroutine goes on: requests answer or fail, sleeps end.
SchedulerFairness ==
    /\ \A s \in Schedulers : WF_schedulerVars(~nilCancel /\ SchedulerStep(s))
    /\ WF_schedulerVars(~nilCancel /\ StopSchedulerStep)

SchedulerSpec == SchedulerInit /\ [][SchedulerNext]_schedulerVars
SchedulerFairSpec == SchedulerSpec /\ SchedulerFairness

-----------------------------------------------------------------------------
(* Properties                                                              *)

\* However many orders are paid, after whatever sleeps and beside whatever the user
\* pays, they take the account below the balance to maintain by the fee of one
\* transaction at most: that balance is what fees are covered from, as the error for
\* an order of the whole balance says.  What the user paid since is the user's, an
\* account that never had the balance to maintain has kept what it had, and of two
\* schedulers at once each would spend what the other has read.
OrdersSpareTheBalance ==
    \/ overlapped
    \/ balance + spends >= BalanceToMaintain - MaxTxFee
    \/ balance + spends >= MaxBalance

\* IsOrderSchedulerRunning tells whether a scheduler trades that was not
\* stopped, and StopScheduler reaches that one: as long as no scheduler is
\* published while an earlier one, or the call that stops it, is under way.
SchedulerIsReachable ==
    ~overlapped /\ stopper # "clear" =>
        \A s \in Schedulers :
            /\ sched[s] \in Trading /\ s \notin stoppedCtx => cancelOrderScheduler = s
            /\ cancelOrderScheduler = s => sched[s] \in Trading \cup {"ending"}

\* A stopped scheduler ends, also while it waits for an order that is never
\* confirmed, unless a new one has replaced the context it asks.
StoppedSchedulersEnd ==
    \A s \in Schedulers : s \in stoppedCtx ~>
        (sched[s] = "done" \/ schedulerCtx # s \/ nilCancel)

=============================================================================
