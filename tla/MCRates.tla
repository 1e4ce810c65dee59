------------------------------- MODULE MCRates -------------------------------
(***************************************************************************)
(* The exchange rate source alone, with two sources and the dummy one.     *)
(***************************************************************************)
EXTENDS Rates

MCSources == <<"Binance", "Coinpaprika", "none">>
=============================================================================
