----------------------------- MODULE OneAtATime -----------------------------
(***************************************************************************)
(* What a background synchronisation with a switch promises: a run begins *)
(* when the switch shows none, and it is then the only one.  To stop the   *)
(* service clears the switch and waits for nobody: from then on the switch *)
(* may show none while a run is ending, and a late one begin beside it.    *)
(***************************************************************************)
CONSTANTS Runs, NoRun

VARIABLES running, shown, stopped

serviceVars == <<running, shown, stopped>>

ServiceInit == running = {} /\ shown = NoRun /\ stopped = FALSE

Begin(r) == /\ shown = NoRun /\ r \notin running
            /\ stopped \/ running = {}
            /\ running' = running \cup {r} /\ shown' = r
            /\ UNCHANGED stopped

End(r) == /\ r \in running /\ running' = running \ {r}
          /\ shown' = NoRun
          /\ UNCHANGED stopped

Stop == /\ ~stopped /\ stopped' = TRUE
        /\ shown' = NoRun
        /\ UNCHANGED running

ServiceNext == Stop \/ \E r \in Runs : Begin(r) \/ End(r)

ServiceSpec == ServiceInit /\ [][ServiceNext]_serviceVars
=============================================================================
