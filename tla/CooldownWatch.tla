---------------------------- MODULE CooldownWatch ----------------------------
(***************************************************************************)
(* The controller with a witness of what it has observed: how long ago a   *)
(* competing workload was last seen on the machine, reported or not.       *)
(***************************************************************************)
EXTENDS Controller

VARIABLE sinceSeen  \* time since a competing workload was observed

watchVars == <<vars, sinceSeen>>

Seen == pc = "decide" /\ pc' = "act" /\ decision'.present

WatchInit == Init /\ sinceSeen = AgeCap

WatchNext ==
    \/ Work /\ sinceSeen' = IF Seen THEN 0 ELSE sinceSeen
    \/ Tick /\ sinceSeen' = Older(sinceSeen)

WatchSpec == WatchInit /\ [][WatchNext]_watchVars

(* Nothing outranks a competing workload: no pause and no power event, a   *)
(* GPU that can be measured and is cool, the default profile throughout.   *)
NothingOutranks ==
    /\ Env \cap {"mode", "gpureset", "suspend", "shutdown"} = {}
    /\ \A o \in Observations :
          /\ ~o.scheduled
          /\ o.gpu.temp = "normal"
          /\ ~(o.gpu.confidence = "none" /\ o.gpu.noneForGrace)

-----------------------------------------------------------------------------
(* Reload after the cooldown: a load starts no earlier than the profile's  *)
(* cooldown after a competing workload was last observed, whether or not   *)
(* the worker was running, crashing or waiting then (types.go: "the last   *)
(* time a yield rule matched").                                            *)
CooledDown ==
    st' = "LOADING" /\ st # "LOADING" => sinceSeen >= Profiles["default"].cooldown

(* The cooldown counts from the disappearance of the competing workload,   *)
(* also when the worker is paused while the workload runs.                 *)
CooldownFromDisappearance == [][CooledDown]_watchVars
=============================================================================
