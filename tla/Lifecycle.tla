----------------------------- MODULE Lifecycle -----------------------------
(***************************************************************************)
(* What the controller promises the machine, whatever happens inside it:   *)
(* at most one runtime holds the GPU, inference is admitted only by a      *)
(* loaded one, admission ends before anything is stopped and never resumes *)
(* on the way down, and the GPU counts as released only after the process  *)
(* tree is verified empty.                                                 *)
(***************************************************************************)

VARIABLES
    phase,      \* released, loading, serving, draining, stopping, unverified
    admitting,  \* inference requests are admitted
    held        \* some runtime process tree is not verified empty

Init == phase = "released" /\ admitting = FALSE /\ held = FALSE

Load ==
    /\ phase = "released" /\ ~held
    /\ phase' = "loading" /\ held' = TRUE
    /\ UNCHANGED admitting

Loaded ==
    /\ phase = "loading"
    /\ phase' = "serving"
    /\ UNCHANGED <<admitting, held>>

Open ==
    /\ phase = "serving" /\ ~admitting
    /\ admitting' = TRUE
    /\ UNCHANGED <<phase, held>>

Drain ==
    /\ phase = "serving"
    /\ phase' = "draining" /\ admitting' = FALSE
    /\ UNCHANGED held

Stop ==
    /\ phase \in {"loading", "serving", "draining"}
    /\ phase' = "stopping" /\ admitting' = FALSE
    /\ UNCHANGED held

(* A failed load, a crash or a failed kill.                                *)
Fail ==
    /\ phase \in {"loading", "serving", "draining", "stopping"}
    /\ held
    /\ phase' = "unverified" /\ admitting' = FALSE
    /\ UNCHANGED held

Emptied ==
    /\ phase \in {"stopping", "unverified"}
    /\ held' = FALSE
    /\ UNCHANGED <<phase, admitting>>

Release ==
    /\ phase \in {"stopping", "unverified"}
    /\ ~held
    /\ phase' = "released"
    /\ UNCHANGED <<admitting, held>>

Next == Load \/ Loaded \/ Open \/ Drain \/ Stop \/ Fail \/ Emptied \/ Release

vars == <<phase, admitting, held>>

Spec == Init /\ [][Next]_vars
=============================================================================
