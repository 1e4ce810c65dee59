----------------------------- MODULE TicketBuyer -----------------------------
(***************************************************************************)
(* The automatic ticket buyer: libwallet/assets/dcr/ticket.go, started and *)
(* stopped by the switch of the staking page.                              *)
(*                                                                         *)
(* A buyer is a call of StartTicketBuyer; its goroutine, if it gets that   *)
(* far, handles the changes of the main tip.  The mutex of the cancel      *)
(* function makes each look at it atomic, not the look and the assignment  *)
(* together.  The modal makes one call at a time.                          *)
(*                                                                         *)
(* A purchase is what one tip starts: a goroutine for each ticket, which   *)
(* share a price, an expiry and a cancel function.  They are counted at    *)
(* one unit a ticket; what a ticket then takes from the account, with the  *)
(* fees of the VSP and of two transactions and the change that goes to the *)
(* account to be mixed, is a unit at least and otherwise anything.  Nobody *)
(* waits for a purchase that was cancelled, which may still buy.           *)
(***************************************************************************)
EXTENDS Integers, FiniteSets

CONSTANTS
    MaxBuyers,              \* bound: how many times the buyer is started
    StakeDiffWindowSize,    \* the blocks of a price interval
    MaxTip,                 \* bound: the last height of the main chain
    MaxFunds,               \* what the purchase account holds at first
    TicketReserve           \* cfg.BalanceToMaintain

Buyers == 1 .. MaxBuyers
NoBuyer == 0

ASSUME TicketBuyerBounds ==
    /\ MaxBuyers \in Nat /\ MaxTip \in Nat /\ MaxFunds \in Nat /\ TicketReserve \in Nat
    /\ StakeDiffWindowSize \in Nat /\ StakeDiffWindowSize > 2

VARIABLES
    cancelAutoTicketBuyer,  \* the buyer whose cancel function is in the field
    stoppedBuyers,          \* the buyers whose context was cancelled
    buyer,                  \* where a buyer is, and its local variables
    ongoing,                \* the purchases with goroutines at work, by buyer
    funds, tip              \* the purchase account, the main chain

buyerField == <<cancelAutoTicketBuyer, stoppedBuyers>>
buyerVars  == <<buyerField, buyer, ongoing, funds, tip>>

Interval(height) == height \div StakeDiffWindowSize
IntervalEnd(height) == (Interval(height) + 1) * StakeDiffWindowSize
MaxExpiry == IntervalEnd(MaxTip) + StakeDiffWindowSize

Purchases == [at : 0 .. MaxTip, left : 1 .. MaxFunds, expiry : 0 .. MaxExpiry,
              cancelled : BOOLEAN]

\* The price of the block after the tip that started a purchase.
PriceOf(p) == Interval(p.at + 1)

BuyerTypeOK ==
    /\ cancelAutoTicketBuyer \in Buyers \cup {NoBuyer} /\ stoppedBuyers \subseteq Buyers
    /\ \A b \in Buyers :
          /\ buyer[b].pc \in {"unborn", "publish", "vsp", "failed", "run", "stop", "done"}
          /\ buyer[b].nextIntervalStart \in 0 .. MaxExpiry
          /\ buyer[b].expiry \in 0 .. MaxExpiry /\ buyer[b].seen \in 0 .. MaxTip
          /\ ongoing[b] \subseteq Purchases
    /\ funds \in 0 .. MaxFunds /\ tip \in 0 .. MaxTip

NotRunning(label) == [pc |-> label, nextIntervalStart |-> 0, expiry |-> 0, seen |-> 0]

BuyerInit ==
    /\ cancelAutoTicketBuyer = NoBuyer /\ stoppedBuyers = {}
    /\ buyer = [b \in Buyers |-> NotRunning("unborn")]
    /\ ongoing = [b \in Buyers |-> {}]
    /\ funds = MaxFunds /\ tip = 0

-----------------------------------------------------------------------------
(* StartTicketBuyer and StopAutoTicketsPurchase                            *)

BuyerAt(b, label) == buyer[b].pc = label
BuyerEnters(b, label) == buyer' = [buyer EXCEPT ![b] = NotRunning(label)]
Starting(b) == buyer[b].pc \in {"publish", "vsp", "failed"}

\* Wrong: the field is not looked at.
CheckNothing(b) ==
    /\ BuyerAt(b, "unborn") /\ \A a \in Buyers : (a < b => ~BuyerAt(a, "unborn")) /\ ~Starting(a)
    /\ BuyerEnters(b, "publish")
    /\ UNCHANGED <<buyerField, ongoing, funds, tip>>

\* "Ticket buyer already running", a wrong passphrase, or on with it.
CheckNotRunning(b) ==
    /\ BuyerAt(b, "unborn") /\ \A a \in Buyers : (a < b => ~BuyerAt(a, "unborn")) /\ ~Starting(a)
    /\ \/ BuyerEnters(b, "failed")
       \/ cancelAutoTicketBuyer = NoBuyer /\ BuyerEnters(b, "publish")
    /\ UNCHANGED <<buyerField, ongoing, funds, tip>>

PublishBuyer(b) ==
    /\ BuyerAt(b, "publish") /\ BuyerEnters(b, "vsp")
    /\ cancelAutoTicketBuyer' = b
    /\ UNCHANGED <<stoppedBuyers, ongoing, funds, tip>>

\* vspInfo and VSPClient: the goroutine starts, or the field keeps the function of a
\* buyer that never runs.
ContactVSP(b) ==
    /\ BuyerAt(b, "vsp")
    /\ \E next \in {"run", "failed"} : BuyerEnters(b, next)
    /\ UNCHANGED <<buyerField, ongoing, funds, tip>>

StopAutoTicketsPurchase ==
    /\ cancelAutoTicketBuyer' = NoBuyer
    /\ stoppedBuyers' = stoppedBuyers \cup ({cancelAutoTicketBuyer} \ {NoBuyer})

\* The modal answers every error with a stop of whatever is in the field.
ModalStops(b) ==
    /\ BuyerAt(b, "failed") /\ BuyerEnters(b, "done")
    /\ StopAutoTicketsPurchase
    /\ UNCHANGED <<ongoing, funds, tip>>

\* The switch.
SwitchOff ==
    /\ cancelAutoTicketBuyer # NoBuyer /\ StopAutoTicketsPurchase
    /\ UNCHANGED <<buyer, ongoing, funds, tip>>

-----------------------------------------------------------------------------
(* runTicketBuyer                                                          *)

Seen(b) == [buyer[b] EXCEPT !.seen = tip]

\* Before a price changes, when it is too late to be mined at it: the tip that a
\* purchase began at and the interval it must stay in are of the past.
LateForInterval(b) == tip + 2 >= buyer[b].nextIntervalStart

\* Wrong: the price is taken for the one of the block that is there.
ExpiryOfTip == IntervalEnd(tip)

\* In time for the interval of the next block.
ExpiryAtTip == IntervalEnd(tip) + IF tip + 1 = IntervalEnd(tip) THEN StakeDiffWindowSize ELSE 0

ExpiryFor(b) == IF LateForInterval(b) THEN ExpiryAtTip ELSE buyer[b].expiry

\* Wrong: the purchases of the interval before go on.
KeptThroughIntervals(b) == ongoing[b]

\* The cancel functions only say so; the goroutines end when they find out.
Cancelled(b) == {[p EXCEPT !.cancelled = TRUE] : p \in ongoing[b]}

Kept(b) == IF LateForInterval(b) THEN Cancelled(b) ELSE ongoing[b]

\* What is kept of the interval when the tip has been handled.
NewInterval(b, expiry) ==
    buyer' = [buyer EXCEPT ![b] =
        IF LateForInterval(b)
        THEN [pc |-> "run", nextIntervalStart |-> IntervalEnd(tip), expiry |-> expiry, seen |-> tip]
        ELSE Seen(b)]

\* No ticket of this interval can be mined any more.
SkipEndOfInterval(b) ==
    /\ BuyerAt(b, "run") /\ buyer[b].seen < tip
    /\ LateForInterval(b) /\ tip + 2 = IntervalEnd(tip)
    /\ NewInterval(b, buyer[b].expiry)
    /\ ongoing' = [ongoing EXCEPT ![b] = Kept(b)]
    /\ UNCHANGED <<buyerField, funds, tip>>

\* As many tickets as the spendable balance allows, which may be none; the next tip
\* may find these purchases still ongoing.
BuyAtTip(b) ==
    /\ BuyerAt(b, "run") /\ buyer[b].seen < tip
    /\ ~(LateForInterval(b) /\ tip + 2 = IntervalEnd(tip))
    /\ NewInterval(b, ExpiryFor(b))
    /\ IF funds > TicketReserve
       THEN ongoing' = [ongoing EXCEPT ![b] = Kept(b) \cup
                 {[at |-> tip, left |-> funds - TicketReserve, expiry |-> ExpiryFor(b),
                   cancelled |-> FALSE]}]
       ELSE ongoing' = [ongoing EXCEPT ![b] = Kept(b)]
    /\ UNCHANGED <<buyerField, funds, tip>>

\* The transactions are not synced through the tip, or its header is not found.
SkipTip(b) ==
    /\ BuyerAt(b, "run") /\ buyer[b].seen < tip
    /\ buyer' = [buyer EXCEPT ![b] = Seen(b)]
    /\ UNCHANGED <<buyerField, ongoing, funds, tip>>

\* Wrong: a purchase that has no ticket left goes on.
TicketsLeftOffByOne(b, p) ==
    ongoing' = [ongoing EXCEPT ![b] = (@ \ {p}) \cup
                   IF p.left = 0 THEN {} ELSE {[p EXCEPT !.left = @ - 1]}]

\* A goroutine ends.
TicketsLeft(b, p) ==
    ongoing' = [ongoing EXCEPT ![b] = (@ \ {p}) \cup
                   IF p.left = 1 THEN {} ELSE {[p EXCEPT !.left = @ - 1]}]

BuyTicket(b) ==
    /\ \E p \in ongoing[b] : TicketsLeft(b, p) /\ tip + 1 < p.expiry
    /\ funds > 0 /\ funds' \in 0 .. funds - 1
    /\ UNCHANGED <<buyerField, buyer, tip>>

\* Without a ticket, before or after its split transaction was published.
TicketFails(b) ==
    /\ \E p \in ongoing[b] : TicketsLeft(b, p)
    /\ funds' \in 0 .. funds
    /\ UNCHANGED <<buyerField, buyer, tip>>

\* The loop ends with its context, or on an error, and cancels the purchases.
LeaveLoop(b) ==
    /\ BuyerAt(b, "run") /\ BuyerEnters(b, "stop")
    /\ ongoing' = [ongoing EXCEPT ![b] = Cancelled(b)]
    /\ UNCHANGED <<buyerField, funds, tip>>

ExitStopped(b) == b \in stoppedBuyers /\ LeaveLoop(b)
ExitOnError(b) == b \notin stoppedBuyers /\ LeaveLoop(b)

\* Wrong: the goroutine ends without a word.
EndBuyerQuietly(b) ==
    /\ BuyerAt(b, "stop") /\ BuyerEnters(b, "done")
    /\ UNCHANGED <<buyerField, ongoing, funds, tip>>

\* Then the goroutine stops whatever is in the field.
EndBuyer(b) ==
    /\ BuyerAt(b, "stop") /\ BuyerEnters(b, "done")
    /\ StopAutoTicketsPurchase
    /\ UNCHANGED <<ongoing, funds, tip>>

\* One or two blocks are attached.
TipChanges ==
    /\ \E height \in tip + 1 .. tip + 2 : height <= MaxTip /\ tip' = height
    /\ UNCHANGED <<buyerField, buyer, ongoing, funds>>

-----------------------------------------------------------------------------
BuyerStep(b) ==
    \/ PublishBuyer(b) \/ ContactVSP(b) \/ ModalStops(b) \/ ExitStopped(b) \/ EndBuyer(b)

BuyerNext ==
    \/ \E b \in Buyers : \/ CheckNotRunning(b) \/ BuyerStep(b) \/ ExitOnError(b)
                         \/ SkipEndOfInterval(b) \/ BuyAtTip(b) \/ SkipTip(b)
                         \/ BuyTicket(b) \/ TicketFails(b)
    \/ SwitchOff \/ TipChanges

\* A goroutine goes on; its select takes the end of the context in the end.
BuyerFairness == \A b \in Buyers : WF_buyerVars(BuyerStep(b))

BuyerSpec == BuyerInit /\ [][BuyerNext]_buyerVars
BuyerFairSpec == BuyerSpec /\ BuyerFairness

-----------------------------------------------------------------------------
(* Properties                                                              *)

\* A ticket that is bought has the price of its purchase in every block that may
\* hold it: the first is the one after that of its split transaction, the last is
\* the one before it expires, and there is such a block.
PurchaseFitsItsInterval ==
    [][\A b \in Buyers : \A p \in ongoing'[b] \ ongoing[b] : BuyAtTip(b) /\ ~p.cancelled =>
          /\ tip + 2 < p.expiry
          /\ Interval(tip + 1) = Interval(tip + 2) /\ Interval(tip + 1) = Interval(p.expiry - 1)
      ]_buyerVars

\* Once a tip has been handled, no purchase that goes on is buying at an old price or
\* too late to be mined at its own, however many tips it has lived through and however
\* many of them the buyer skipped.
NoPurchaseAtAnOldPrice ==
    [][\A b \in Buyers : BuyAtTip(b) \/ SkipEndOfInterval(b) =>
          \A p \in ongoing'[b] : ~p.cancelled =>
             /\ PriceOf(p) = Interval(tip + 1) /\ PriceOf(p) = Interval(p.expiry - 1)
             /\ tip + 2 < p.expiry
      ]_buyerVars

\* A buyer that runs and was not stopped can be stopped: the switch shows it.
BuyerIsReachable ==
    \A b \in Buyers : BuyerAt(b, "run") /\ b \notin stoppedBuyers => cancelAutoTicketBuyer = b

\* The switch shows no buyer that has ended: the function in the field is that of a
\* start that is under way, of a goroutine that runs, or of one that will still stop
\* what is in the field.
SwitchShowsABuyer ==
    \A b \in Buyers : cancelAutoTicketBuyer = b => buyer[b].pc \in {"vsp", "failed", "run", "stop"}

\* The switch does not show a buyer that is none: a start that fails, or a buyer
\* that ends, clears the field.
SwitchTellsTheTruth ==
    \A b \in Buyers :
        cancelAutoTicketBuyer = b ~> (BuyerAt(b, "run") \/ cancelAutoTicketBuyer # b)
=============================================================================
