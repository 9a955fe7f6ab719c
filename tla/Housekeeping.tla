---------------------------- MODULE Housekeeping ----------------------------
(***************************************************************************)
(* The service's minute job (src/internal/service/service.go,              *)
(* housekeeping) and the hourly statistics it writes and prunes            *)
(* (src/internal/store/stats.go). Ticks are late or missing, the database  *)
(* refuses a write, and the service restarts. Time is a natural number;    *)
(* an hour is Hour of them and a day Day.                                  *)
(***************************************************************************)
EXTENDS Naturals, FiniteSets

CONSTANTS Hour, Day, DaysPerYear,
          MaxAge,      \* retention.events_days, 0 to keep everything
          PruneEvery,  \* an hour, in the code
          Starts,      \* when the service may first start
          Warn,        \* the certificate is within 21 days of its expiry from here on
          MaxNow, MaxFaults

\* What the values of the constants have to satisfy.
HousekeepingAssumption ==
    /\ {Hour, Day, DaysPerYear, PruneEvery} \subseteq Nat \ {0} /\ {MaxAge, Warn, MaxNow, MaxFaults} \subseteq Nat
    /\ Starts \subseteq 1..MaxNow

VARIABLES clock,
          up,                      \* the job runs
          last, lastPrune,         \* of the job; 0 is the zero time
          lastCertDay,             \* the day of the year of lastCertCheck
          stats,                   \* [hour key -> seconds available and unavailable]
          available,               \* the condition the controller reports
          recorded,                \* ghost: the instants written down
          warnings,                \* ghost: the days on which the expiry was checked, with how often
          faults

vars == <<clock, up, last, lastPrune, lastCertDay, stats, available, recorded, warnings, faults>>

hourKey(t) == t - (t % Hour)
Hours == {hourKey(t) : t \in 0..MaxNow}
YearDay(t) == ((t \div Day) % DaysPerYear) + 1
NoStats == [avail |-> 0, unavail |-> 0]

Init ==
    /\ clock \in Starts /\ up = FALSE /\ last = 0 /\ lastPrune = 0 /\ lastCertDay = 0
    /\ stats = [h \in Hours |-> NoStats] /\ available \in BOOLEAN
    /\ recorded = {} /\ warnings = [d \in 0..(MaxNow \div Day) |-> 0] /\ faults = 0

\* The job starts with zero times, the first of January of the year 1.
Start ==
    /\ ~up /\ up' = TRUE /\ last' = clock /\ lastPrune' = 0 /\ lastCertDay' = YearDay(0)
    /\ UNCHANGED <<clock, stats, available, recorded, warnings, faults>>

Stop ==
    /\ up /\ faults < MaxFaults /\ faults' = faults + 1 /\ up' = FALSE
    /\ UNCHANGED <<clock, last, lastPrune, lastCertDay, stats, available, recorded, warnings>>

Pass ==
    /\ clock < MaxNow /\ clock' = clock + 1 /\ available' \in BOOLEAN
    /\ UNCHANGED <<up, last, lastPrune, lastCertDay, stats, recorded, warnings, faults>>

\* Mutant: a span is put down in the hour in which it began.
Share_First(h, from, to) == IF h = hourKey(from) THEN to - from ELSE 0

\* What of from..to falls into the hour h: the loop of AddAvailability.
Share(h, from, to) ==
    LET a == IF from > h THEN from ELSE h
        b == IF to < h + Hour THEN to ELSE h + Hour
    IN IF b > a THEN b - a ELSE 0

\* AddAvailability, one transaction.
AddAvailability(from, to, isAvailable) ==
    [h \in Hours |-> IF isAvailable THEN [stats[h] EXCEPT !.avail = @ + Share(h, from, to)]
                     ELSE [stats[h] EXCEPT !.unavail = @ + Share(h, from, to)]]

\* PruneStats: hours that ended more than MaxAge ago.
Ended(h) == MaxAge > 0 /\ h + Hour + MaxAge <= clock

\* What is left of an hour after a prune, which follows the recording.
Rows(h, added) == IF Ended(h) THEN NoStats ELSE added[h]

CertDay == lastCertDay' = YearDay(clock)

\* checkCertExpiry, on the first tick of another day of the year.
certCheck ==
    IF YearDay(clock) # lastCertDay
    THEN CertDay /\ warnings' = [warnings EXCEPT ![clock \div Day] = IF clock >= Warn THEN @ + 1 ELSE @]
    ELSE UNCHANGED <<lastCertDay, warnings>>

\* One tick of the job. A failed write is ignored, and its span is lost as a
\* whole; a failed prune is logged and waits for its next time.
Tick ==
    \E written, pruned \in BOOLEAN :
        /\ up /\ faults + (IF written THEN 0 ELSE 1) + (IF pruned THEN 0 ELSE 1) <= MaxFaults
        /\ faults' = faults + (IF written THEN 0 ELSE 1) + (IF pruned THEN 0 ELSE 1)
        /\ last' = clock
        /\ LET added == IF written THEN AddAvailability(last, clock, available) ELSE stats
               due == lastPrune = 0 \/ clock - lastPrune >= PruneEvery
           IN /\ stats' = [h \in Hours |-> IF due /\ pruned THEN Rows(h, added) ELSE added[h]]
              /\ lastPrune' = IF due THEN clock ELSE lastPrune
              /\ recorded' = recorded \cup (IF written THEN last..(clock - 1) ELSE {})
        /\ certCheck
        /\ UNCHANGED <<clock, up, available>>

Next == Start \/ Stop \/ Pass \/ Tick
Spec == Init /\ [][Next]_vars

-----------------------------------------------------------------------------
(* Properties.                                                             *)

InHour(h) == {t \in recorded : hourKey(t) = h}
Total(h) == stats[h].avail + stats[h].unavail

\* No time is lost, counted twice or put down in another hour, whatever ticks
\* are late and writes fail: an hour holds exactly the time recorded for it,
\* unless it was pruned, and it is never pruned while it is young enough to be
\* kept (AddAvailability, PruneStats).
HoursAreExact ==
    \A h \in Hours :
        \/ Total(h) = Cardinality(InHour(h))
        \/ Total(h) = 0 /\ MaxAge > 0 /\ h + Hour + MaxAge <= clock

\* Retention works: once the job has pruned, no hour of its past is there
\* that had ended MaxAge before that (housekeeping, Prune).
OldHoursGo ==
    lastPrune' \notin {lastPrune, 0} /\ faults' = faults =>
      \A h \in Hours : h + Hour + MaxAge <= clock /\ MaxAge > 0 => stats'[h] = NoStats

\* A job that runs on warns at most once a day, although the year's last day
\* and its first follow each other (housekeeping, checkCertExpiry).
WarnedAtMostOnce == \A d \in DOMAIN warnings : warnings[d] <= 1 + faults

=============================================================================
