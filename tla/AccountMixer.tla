----------------------------- MODULE AccountMixer -----------------------------
(***************************************************************************)
(* The account mixer of a Decred wallet: StartAccountMixer and             *)
(* StopAccountMixer in libwallet/assets/dcr/account_mixer.go.              *)
(*                                                                         *)
(* cancelAccountMixer has no lock.  It is set by the goroutine of a mixer  *)
(* when that gets to run, and read and cleared by those that stop it: the  *)
(* switch of the mixer page, the listener that finds nothing left to mix   *)
(* when a block is attached, and CancelSync.  dcrwallet's ticketbuyer,     *)
(* which does the mixing, is external: it mixes until it fails or its      *)
(* context ends.                                                           *)
(***************************************************************************)
EXTENDS Integers, FiniteSets

CONSTANTS
    MaxMixers,          \* bound: how many times the mixer is started
    MixerStoppers       \* the goroutines that stop it

Mixers == 1 .. MaxMixers
NoMixer == 0

ASSUME MixerBounds == MaxMixers \in Nat

VARIABLES
    cancelAccountMixer,     \* the mixer whose cancel function is in the field
    stoppedMixers,          \* the mixers whose context was cancelled
    mixer,                  \* where a mixer is
    mixStopper,             \* where a goroutine is in StopAccountMixer
    mixable,                \* the unmixed account has an output to mix
    mixersMet,              \* history: a mixer was started while another, or a
                            \* goroutine that stops it, was under way
    nilMixerCancel          \* the program stopped: a nil function was called

mixerVars == <<cancelAccountMixer, stoppedMixers, mixer, mixStopper, mixable, mixersMet,
               nilMixerCancel>>

MixerTypeOK ==
    /\ cancelAccountMixer \in Mixers \cup {NoMixer} /\ stoppedMixers \subseteq Mixers
    /\ mixer \in [Mixers -> {"unborn", "unlock", "born", "mix", "end", "done"}]
    /\ mixStopper \in [MixerStoppers -> {"idle", "check", "call", "clear"}]
    /\ mixable \in BOOLEAN /\ mixersMet \in BOOLEAN
    /\ nilMixerCancel \in BOOLEAN

MixerInit ==
    /\ cancelAccountMixer = NoMixer /\ stoppedMixers = {}
    /\ mixer = [m \in Mixers |-> "unborn"]
    /\ mixStopper = [s \in MixerStoppers |-> "idle"]
    /\ mixable \in BOOLEAN
    /\ mixersMet = FALSE /\ nilMixerCancel = FALSE

-----------------------------------------------------------------------------
MixerGoes(m, label) == mixer' = [mixer EXCEPT ![m] = label]
StopperGoes(s, label) == mixStopper' = [mixStopper EXCEPT ![s] = label]
MixersUnderWay == {m \in Mixers : mixer[m] \in {"unlock", "born", "mix", "end"}}
StoppersUnderWay == {s \in MixerStoppers : mixStopper[s] # "idle"}

\* Connected, configured, and there is something to mix; whether a mixer is active
\* already is not asked.
StartAccountMixer(m) ==
    /\ mixer[m] = "unborn" /\ \A l \in Mixers : l < m => mixer[l] # "unborn"
    /\ mixable /\ MixerGoes(m, "unlock")
    /\ mixersMet' = (mixersMet \/ MixersUnderWay # {} \/ StoppersUnderWay # {})
    /\ UNCHANGED <<cancelAccountMixer, stoppedMixers, mixStopper, mixable, nilMixerCancel>>

OnlyMixer == UNCHANGED <<cancelAccountMixer, stoppedMixers, mixStopper, mixable, mixersMet,
                         nilMixerCancel>>

\* The passphrase is wrong, or the goroutine starts.
UnlockForMixing(m) ==
    /\ mixer[m] = "unlock"
    /\ \E next \in {"born", "done"} : MixerGoes(m, next)
    /\ OnlyMixer

PublishMixer(m) ==
    /\ mixer[m] = "born" /\ MixerGoes(m, "mix") /\ cancelAccountMixer' = m
    /\ UNCHANGED <<stoppedMixers, mixStopper, mixable, mixersMet, nilMixerCancel>>

\* The ticketbuyer fails, or ends with its context.
MixerFails(m) == mixer[m] = "mix" /\ m \notin stoppedMixers /\ MixerGoes(m, "end") /\ OnlyMixer
MixerIsStopped(m) == mixer[m] = "mix" /\ m \in stoppedMixers /\ MixerGoes(m, "end") /\ OnlyMixer

\* Whatever is in the field by now.
EndMixer(m) ==
    /\ mixer[m] = "end" /\ MixerGoes(m, "done") /\ cancelAccountMixer' = NoMixer
    /\ UNCHANGED <<stoppedMixers, mixStopper, mixable, mixersMet, nilMixerCancel>>

MixableChanges ==
    /\ mixable' = ~mixable
    /\ UNCHANGED <<cancelAccountMixer, stoppedMixers, mixer, mixStopper, mixersMet, nilMixerCancel>>

-----------------------------------------------------------------------------
(* IsAccountMixerActive, then StopAccountMixer: the field is read four     *)
(* times and written once.                                                 *)

CallStopAccountMixer(s) ==
    /\ mixStopper[s] = "idle" /\ cancelAccountMixer # NoMixer
    /\ StopperGoes(s, "check")
    /\ UNCHANGED <<cancelAccountMixer, stoppedMixers, mixer, mixable, mixersMet, nilMixerCancel>>

CheckActiveAgain(s) ==
    /\ mixStopper[s] = "check"
    /\ StopperGoes(s, IF cancelAccountMixer = NoMixer THEN "idle" ELSE "call")
    /\ UNCHANGED <<cancelAccountMixer, stoppedMixers, mixer, mixable, mixersMet, nilMixerCancel>>

\* Wrong: the field is cleared and nothing is cancelled.
ForgetAccountMixer(s) ==
    /\ mixStopper[s] = "call" /\ StopperGoes(s, "clear")
    /\ UNCHANGED <<cancelAccountMixer, stoppedMixers, mixer, mixable, mixersMet, nilMixerCancel>>

CallCancelAccountMixer(s) ==
    /\ mixStopper[s] = "call" /\ StopperGoes(s, "clear")
    /\ nilMixerCancel' = (cancelAccountMixer = NoMixer)
    /\ stoppedMixers' = stoppedMixers \cup ({cancelAccountMixer} \ {NoMixer})
    /\ UNCHANGED <<cancelAccountMixer, mixer, mixable, mixersMet>>

ClearCancelAccountMixer(s) ==
    /\ mixStopper[s] = "clear" /\ StopperGoes(s, "idle") /\ cancelAccountMixer' = NoMixer
    /\ UNCHANGED <<stoppedMixers, mixer, mixable, mixersMet, nilMixerCancel>>

-----------------------------------------------------------------------------
MixerStep(m) == UnlockForMixing(m) \/ PublishMixer(m) \/ MixerIsStopped(m) \/ EndMixer(m)
StopperStep(s) == CheckActiveAgain(s) \/ CallCancelAccountMixer(s) \/ ClearCancelAccountMixer(s)

MixerNext ==
    /\ ~nilMixerCancel
    /\ \/ \E m \in Mixers : StartAccountMixer(m) \/ MixerStep(m) \/ MixerFails(m)
       \/ \E s \in MixerStoppers : CallStopAccountMixer(s) \/ StopperStep(s)
       \/ MixableChanges

MixerSpec == MixerInit /\ [][MixerNext]_mixerVars

-----------------------------------------------------------------------------
(* Properties                                                              *)

\* A mixer that mixes and was not stopped is the one that the switch and CancelSync
\* reach; and a field that is set is that of a mixer that has not ended: as long as
\* no mixer is started beside another or beside a stop.
MixerIsReachable ==
    ~mixersMet =>
        \A m \in Mixers :
            /\ mixer[m] = "mix" /\ m \notin stoppedMixers => cancelAccountMixer = m
            /\ cancelAccountMixer = m => mixer[m] \in {"mix", "end"}
=============================================================================
