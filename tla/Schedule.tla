------------------------------ MODULE Schedule ------------------------------
(***************************************************************************)
(* Which profile the schedules put in force, when that changes next        *)
(* (src/internal/schedule/schedule.go), and the controller's cache of that *)
(* answer (src/internal/controller/backend.go, nextScheduleChange). Time   *)
(* is absolute, in units of which MinuteLen make a minute; a day has       *)
(* DayLen minutes; the zone's offset changes once, at Shift.               *)
(***************************************************************************)
EXTENDS Integers, Sequences

CONSTANTS Configs,         \* lists of schedules the configuration may hold
          MinuteLen, DayLen,
          Shift, ShiftBy,  \* when, and by how many minutes, the zone may change
          CacheFor,        \* how long an answer is kept
          Steps, MaxNow

\* What validation accepts: days, and an end that differs from the start.
ValidSchedule(s) == s.days # {} /\ s.days \subseteq 0 .. 6 /\ s.start \in 0 .. DayLen - 1 /\ s.end \in (0 .. DayLen - 1) \ {s.start}

\* What the values of the constants have to satisfy: every configuration was
\* validated, and an answer is kept for an hour, less than a day.
TimeAssumption ==
    /\ {MinuteLen, DayLen, CacheFor} \subseteq Nat \ {0} /\ {Shift, MaxNow} \subseteq Nat
    /\ CacheFor <= DayLen * MinuteLen
    /\ ShiftBy \subseteq Int /\ Steps \subseteq Nat
    /\ \A cfg \in Configs : \A i \in 1 .. Len(cfg) : ValidSchedule(cfg[i])

VARIABLES now, zone, schedules, cache, cacheAt, cacheValid, shown
vars == <<now, zone, schedules, cache, cacheAt, cacheValid, shown>>

Zero == 0
NotShown == -1

\* The local minute, counted from a Sunday's midnight.
local(t) == 7 * DayLen + t \div MinuteLen + (IF t \div MinuteLen >= Shift THEN zone ELSE 0)
Weekday(l) == (l \div DayLen) % 7

\* An overnight window: the evening is today's, the morning yesterday's.
inWindow(s, l) ==
    LET m == l % DayLen
        today == Weekday(l)
    IN IF s.start < s.end THEN today \in s.days /\ m >= s.start /\ m < s.end
       ELSE (m >= s.start /\ today \in s.days) \/ (m < s.end /\ (today + 6) % 7 \in s.days)

\* The first enabled schedule whose window it is; 0 for the default profile.
Active(cfg, t) ==
    LET on == {i \in 1 .. Len(cfg) : cfg[i].enabled /\ inWindow(cfg[i], local(t))}
    IN IF on = {} THEN 0 ELSE CHOOSE i \in on : \A j \in on : i <= j

\* The next minute within eight days at which another schedule is in force.
NextChange(cfg, t) ==
    LET first == (t \div MinuteLen + 1) * MinuteLen
        changes == {u \in {first + k * MinuteLen : k \in 0 .. 8 * DayLen} :
                      u < t + 8 * DayLen * MinuteLen /\ Active(cfg, u) # Active(cfg, t)}
    IN IF (\A i \in 1 .. Len(cfg) : ~cfg[i].enabled) \/ changes = {} THEN Zero
       ELSE CHOOSE u \in changes : \A v \in changes : u <= v

Init ==
    /\ now = 1 /\ zone \in ShiftBy /\ schedules \in Configs
    /\ cache = Zero /\ cacheAt = Zero /\ cacheValid = FALSE /\ shown = NotShown

\* The cached answer still stands.
Kept == cacheValid /\ (cache = Zero \/ now < cache) /\ now - cacheAt < CacheFor

nextScheduleChange ==
    /\ shown = NotShown
    /\ shown' = (IF Kept THEN cache ELSE NextChange(schedules, now))
    /\ cache' = shown' /\ cacheValid' = TRUE
    /\ cacheAt' = (IF Kept THEN cacheAt ELSE now)
    /\ UNCHANGED <<now, zone, schedules>>

\* Mutant: a new configuration leaves the cached answer in place.
updateConfig_KeepsCache ==
    /\ schedules' \in Configs \ {schedules}
    /\ shown' = NotShown /\ UNCHANGED <<now, zone, cache, cacheAt, cacheValid>>

updateConfig ==
    /\ schedules' \in Configs \ {schedules}
    /\ cacheValid' = FALSE
    /\ shown' = NotShown /\ UNCHANGED <<now, zone, cache, cacheAt>>

Pass ==
    /\ \E k \in Steps : now + k <= MaxNow /\ now' = now + k
    /\ shown' = NotShown /\ UNCHANGED <<zone, schedules, cache, cacheAt, cacheValid>>

Next == nextScheduleChange \/ updateConfig \/ Pass
Spec == Init /\ [][Next]_vars

-----------------------------------------------------------------------------
\* The window of schedule s that starts on local day d covers local minute l.
Covers(s, d, l) ==
    /\ d % 7 \in s.days
    /\ d * DayLen + s.start <= l
    /\ l < d * DayLen + s.end + (IF s.end < s.start THEN DayLen ELSE 0)

(* A window belongs to the day it starts on, also when it runs past         *)
(* midnight, at every minute and on both sides of a daylight-saving change; *)
(* the first enabled schedule wins (Active, inWindow).                      *)
WindowsBelongToTheirDay ==
    LET l == local(now)
        on == {i \in 1 .. Len(schedules) : schedules[i].enabled
                 /\ \E d \in l \div DayLen - 1 .. l \div DayLen : Covers(schedules[i], d, l)}
    IN IF on = {} THEN Active(schedules, now) = 0
       ELSE Active(schedules, now) \in on /\ \A j \in on : Active(schedules, now) <= j

(* The next change that is shown, cached or not, is the next one: the       *)
(* profile in force stays until then and is another one from then on; none  *)
(* is shown only when nothing changes for a week (nextScheduleChange).      *)
ShownChangeIsNext ==
    shown # NotShown =>
        LET same(u) == Active(schedules, u) = Active(schedules, now)
            until == IF shown = Zero THEN now + 7 * DayLen * MinuteLen ELSE shown
        IN /\ \A u \in now .. until - 1 : same(u)
           /\ shown # Zero => shown > now /\ ~same(shown)
=============================================================================
