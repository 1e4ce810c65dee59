----------------------------- MODULE MCDcrSync -----------------------------
(***************************************************************************)
(* The instances of DcrSync with one caller, so that its methods never     *)
(* overlap; MCSafety has the instance in which two callers race.           *)
(***************************************************************************)
EXTENDS DcrSync
=============================================================================
