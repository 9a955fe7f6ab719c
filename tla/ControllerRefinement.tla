------------------------ MODULE ControllerRefinement ------------------------
(***************************************************************************)
(* The controller implements the Lifecycle specification.                  *)
(***************************************************************************)
EXTENDS Controller

Phase ==
    IF zombie # NoInst THEN "unverified"
    ELSE CASE st \in Idle -> "released"
           [] st = "LOADING" -> "loading"
           [] st \in {"READY", "BUSY"} -> "serving"
           [] st = "DRAINING" -> "draining"
           [] st = "PREEMPTING" -> "stopping"

Held == \E i \in Instances : proc[i] # "gone"

Abstract == INSTANCE Lifecycle
    WITH phase <- Phase, admitting <- (gate # NoInst), held <- Held

(* Every step of the controller, its gate, its goroutines and the          *)
(* processes is one step of the lifecycle or none.                         *)
Refines == Abstract!Spec
=============================================================================
