----------------------------- MODULE MCExchange -----------------------------
(***************************************************************************)
(* One model for the services of the assets manager that share no state:   *)
(* the order scheduler, the synchronisation of the exchange orders and the *)
(* rate source.  A behaviour is one of the service it chose at first; the  *)
(* others rest in their initial states.                                    *)
(***************************************************************************)
EXTENDS OrderScheduler, ExchangeSync, Rates

VARIABLE service

MCRateSources == <<"Binance", "Coinpaprika", "none">>

MCExchangeTypeOK == SchedulerTypeOK /\ ExchangeTypeOK /\ RatesTypeOK

MCExchangeInit ==
    /\ service \in {"scheduler", "exchange", "rates"}
    /\ SchedulerInit /\ ExchangeInit /\ RatesInit
    /\ service # "rates" => ~privacyMode

MCExchangeNext ==
    \/ /\ service = "scheduler" /\ SchedulerNext
       /\ UNCHANGED <<service, exchangeVars, rateVars>>
    \/ /\ service = "exchange" /\ ExchangeNext
       /\ UNCHANGED <<service, schedulerVars, rateVars>>
    \/ /\ service = "rates" /\ RatesNext
       /\ UNCHANGED <<service, schedulerVars, exchangeVars>>

\* The fairness of a service, while it is the one that runs.
MCExchangeFairness ==
    /\ \A s \in Schedulers :
          WF_schedulerVars(service = "scheduler" /\ ~nilCancel /\ SchedulerStep(s))
    /\ WF_schedulerVars(service = "scheduler" /\ ~nilCancel /\ StopSchedulerStep)
    /\ \A j \in Jobs : WF_rateVars(service = "rates" /\ ~crashed /\ JobStep(j))
    /\ WF_rateVars(service = "rates" /\ ~crashed /\ ToggleToNone)

MCExchangeSpec ==
    /\ MCExchangeInit
    /\ [][MCExchangeNext]_<<service, schedulerVars, exchangeVars, rateVars>>
    /\ MCExchangeFairness
=============================================================================
