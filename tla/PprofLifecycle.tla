--------------------------- MODULE PprofLifecycle ---------------------------
(***************************************************************************)
(* What infra/pprof.go promises, from its CompareAndSwap transitions: a    *)
(* state machine with a CPU capture that is on exactly between a completed *)
(* Start and the Stop that dumps it.                                       *)
(***************************************************************************)
VARIABLES
    phase,    \* "stopped", "running" or "dumping"
    capture   \* "off", "arming" or "on"

lifecycleVars == <<phase, capture>>

LifecycleInit == phase = "stopped" /\ capture = "off"

\* Start is admitted only in "stopped".
BeginStart ==
    /\ phase = "stopped" /\ capture = "off"
    /\ phase' = "running"
    /\ UNCHANGED capture

\* It switches the profiler on, then opens the port, or gives up.
Arm ==
    /\ phase = "running" /\ capture = "off"
    /\ capture' = "arming"
    /\ UNCHANGED phase

Open ==
    /\ phase = "running" /\ capture = "arming"
    /\ capture' = "on"
    /\ UNCHANGED phase

GiveUp ==
    /\ phase = "running" /\ capture \in {"off", "arming"}
    /\ phase' = "stopped"
    /\ capture' = "off"

\* Stop is admitted only in "running", with a capture to dump.
BeginStop ==
    /\ phase = "running" /\ capture = "on"
    /\ phase' = "dumping"
    /\ UNCHANGED capture

Release ==
    /\ phase = "dumping" /\ capture = "on"
    /\ capture' = "off"
    /\ UNCHANGED phase

FinishStop ==
    /\ phase = "dumping" /\ capture = "off"
    /\ phase' = "stopped"
    /\ UNCHANGED capture

LifecycleNext ==
    BeginStart \/ Arm \/ Open \/ GiveUp \/ BeginStop \/ Release \/ FinishStop

SafeSpec == LifecycleInit /\ [][LifecycleNext]_lifecycleVars

\* A start is settled one way or the other, and a dump always ends.
Spec ==
    /\ SafeSpec
    /\ WF_lifecycleVars(Arm \/ Open \/ GiveUp)
    /\ WF_lifecycleVars(Release \/ FinishStop)
=============================================================================
