----------------------------- MODULE MCTxIndex -----------------------------
(***************************************************************************)
(* The instances of TxIndex that TLC checks.  A window of one block stands *)
(* for the six of the code: the chain is long enough to leave it behind.   *)
(***************************************************************************)
EXTENDS TxIndex
=============================================================================
