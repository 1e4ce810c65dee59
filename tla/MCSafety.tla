------------------------------ MODULE MCSafety ------------------------------
(***************************************************************************)
(* One model for three parts whose properties are invariants only and that *)
(* share no state here: callers that race through the sync of a Decred     *)
(* wallet, its transaction index, and the records of the wallets.  A       *)
(* behaviour is one of the part it chose at first; the others rest.        *)
(*                                                                         *)
(* The callers are interchangeable.  A window of one block stands for the  *)
(* six of the transaction index: the chain is long enough to leave it      *)
(* behind.                                                                 *)
(***************************************************************************)
EXTENDS DcrSync, TxIndex, WalletRecords, TLC

VARIABLE part

CallerSymmetry == Permutations(Callers)

MCSafetyTypeOK == TypeOK /\ IndexTypeOK /\ RecordsTypeOK

MCSafetyInit ==
    /\ part \in {"sync", "index", "records"}
    /\ Init /\ IndexInit /\ RecordsInit

MCSafetyNext ==
    \/ part = "sync" /\ Next /\ UNCHANGED <<part, txIndexVars, recordVars>>
    \/ part = "index" /\ IndexNext /\ UNCHANGED <<part, vars, recordVars>>
    \/ part = "records" /\ RecordsNext /\ UNCHANGED <<part, vars, txIndexVars>>

MCSafetySpec == MCSafetyInit /\ [][MCSafetyNext]_<<part, vars, txIndexVars, recordVars>>
=============================================================================
