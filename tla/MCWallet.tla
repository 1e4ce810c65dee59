------------------------------ MODULE MCWallet ------------------------------
(***************************************************************************)
(* One model for services that share no state: the proposals of Politeia,  *)
(* and the ticket buyer and the account mixer of a Decred wallet.  A       *)
(* behaviour is one of the service it chose at first; the others rest in   *)
(* their initial states.                                                   *)
(***************************************************************************)
EXTENDS Politeia, TicketBuyer, AccountMixer

VARIABLE service

MCWalletTypeOK == PoliteiaTypeOK /\ BuyerTypeOK /\ MixerTypeOK

MCWalletInit ==
    /\ service \in {"politeia", "buyer", "mixer"}
    /\ PoliteiaInit /\ BuyerInit /\ MixerInit
    /\ service # "politeia" => inventory = Published
    \* Bounds: an outage at first only without a database, and with one either a view
    \* or a change at the server.
    /\ service # "politeia" \/ inventory # Published => serverUp
    /\ IF service = "politeia" /\ inventory # Published
       THEN views + serverEvents = MaxViews + MaxServerEvents - 1
       ELSE views + serverEvents = 0
    /\ service # "mixer" => mixable

MCWalletNext ==
    \/ service = "politeia" /\ PoliteiaNext /\ UNCHANGED <<service, buyerVars, mixerVars>>
    \/ service = "buyer" /\ BuyerNext /\ UNCHANGED <<service, politeiaVars, mixerVars>>
    \/ service = "mixer" /\ MixerNext /\ UNCHANGED <<service, politeiaVars, buyerVars>>

\* The fairness of a service, while it is the one that runs.
MCWalletFairness ==
    /\ \A s \in ProposalSyncs : WF_politeiaVars(service = "politeia" /\ ~nilStop /\ WorkerStep(s))
    /\ \A b \in Buyers : WF_buyerVars(service = "buyer" /\ BuyerStep(b))

MCWalletSpec ==
    /\ MCWalletInit
    /\ [][MCWalletNext]_<<service, politeiaVars, buyerVars, mixerVars>>
    /\ MCWalletFairness
=============================================================================
