------------------------------ MODULE Observer ------------------------------
(***************************************************************************)
(* The GPU half of the signal layer: what one tick makes of a telemetry    *)
(* sample (src/internal/observe/observe.go), and how it splits the sample  *)
(* between the worker's own runtime and everything else                    *)
(* (src/internal/telemetry/sample.go). The observer keeps the rolling      *)
(* windows the stateless policy relies on. Utilisation is in parts of      *)
(* FullPct, memory and time in whole units.                                *)
(***************************************************************************)
EXTENDS Integers, Sequences

CONSTANTS Inputs,            \* the observations a tick may carry
          Steps,             \* how far the clock moves between two ticks
          Gap,               \* the longest step that keeps continuity
          Window,            \* contention.critical_window
          SoftPct, CritPct,  \* the profile's soft and the critical threshold
          DegradedMargin,    \* how far degraded confidence lowers the soft one
          Required,          \* runtime.required_free_vram_mib
          Tolerance,         \* consistencyToleranceMiB
          FullPct,           \* 100 per cent
          MaxTicks

\* What the values of the constants have to satisfy: validation keeps every
\* threshold above zero, also lowered by the margin.
BoundsAssumption ==
    /\ DegradedMargin < SoftPct /\ CritPct > 0
    /\ {Gap, Window, SoftPct, CritPct, DegradedMargin, Required, Tolerance, FullPct, MaxTicks} \subseteq Nat
    /\ Steps \subseteq Int

VARIABLES now, lastTick, lastConf, noneSince, healthySince,
          above,     \* aboveCritSince, aboveSoftSince, belowSoftSince
          vram,      \* the external memory seen since the window's start
          facts,     \* what the policy is told
          hist       \* ghost: every tick so far, with what it showed

vars == <<now, lastTick, lastConf, noneSince, healthySince, above, vram, facts, hist>>

Never == 0
Engines == {"3D", "Compute"}
Larger(a, b) == IF a > b THEN a ELSE b
Smaller(a, b) == IF a < b THEN a ELSE b
Busiest(f) == CHOOSE m \in {f[e] : e \in Engines} : \A e \in Engines : f[e] <= m
clampPct(v) == Smaller(FullPct, Larger(0, v))

\* A sample has the adapter's figures, and per process its own: the runtime's
\* (own, when it is listed at all) and the sum of all others (ext).
\* Own and external demand. Without per-process data everything is external;
\* with it, the adapter's figure fills what the processes' counters miss.
Split(in) ==
    LET s == in.sample
        own == IF in.running THEN s.own ELSE 0
        ownUtil == IF in.running THEN s.ownUtil ELSE [e \in Engines |-> 0]
        total == Busiest([e \in Engines |-> clampPct(s.ownUtil[e] + s.extUtil[e])])
    IN IF s.listed
       THEN [total |-> total, own |-> Busiest([e \in Engines |-> clampPct(ownUtil[e])]),
             external |-> Busiest([e \in Engines |-> clampPct(s.ownUtil[e] + s.extUtil[e] - ownUtil[e])]),
             ownBytes |-> own,
             externalBytes |-> Larger(s.ext + s.own - own, s.used - own),
             free |-> Larger(s.size - s.used, 0)]
       ELSE [total |-> total, own |-> 0, external |-> total, ownBytes |-> 0,
             externalBytes |-> s.used, free |-> Larger(s.size - s.used, 0)]

\* none without a complete sample; high when the runtime, if any, is visible
\* with its memory and the processes' memory adds up to the adapter's.
confidence(in) ==
    LET s == in.sample
        sum == s.own + s.ext
        diff == Larger(s.used - sum, sum - s.used)
        ownMissing == in.running /\ (~s.ownSeen \/ (in.footprint > 0 /\ s.own = 0))
    IN CASE ~s.complete -> "none"
         [] s.complete /\ (~s.listed \/ ownMissing \/ (diff > Tolerance /\ 4 * diff > s.used)) -> "degraded"
         [] OTHER -> "high"

\* Mutant: only the adapter's figure counts.
externalMeasured_Adapter(in) == 0

\* The memory the sample attributes to other processes.
externalMeasured(in) == IF in.sample.listed THEN in.sample.ext + (IF in.running THEN 0 ELSE in.sample.own) ELSE 0

\* The runtime's memory when it cannot be measured: the last footprint, what
\* is measured now, or what the model is said to need, but never memory that
\* the sample attributes to another process.
ownVRAM(in) ==
    LET measured == IF in.sample.listed THEN in.sample.own ELSE 0
        fp == CASE in.footprint > 0 -> in.footprint
                [] in.footprint = 0 /\ measured > 0 -> measured
                [] OTHER -> Required
    IN IF in.running THEN Smaller(fp, Larger(in.sample.used - externalMeasured(in), 0)) ELSE 0

\* The facts of one complete sample, before the windows are consulted.
gpu(in, conf) ==
    LET d == Split(in)
        own == IF conf = "high" THEN d.ownBytes ELSE ownVRAM(in)
    IN [util |-> IF conf = "high" THEN d.external ELSE d.total,
        totalUtil |-> d.total, ownUtil |-> d.own,
        trusted |-> conf = "high" \/ ~in.active,
        own |-> own,
        ext |-> IF conf = "high" THEN d.externalBytes
                ELSE Larger(in.sample.used - own, externalMeasured(in)),
        free |-> d.free]

\* Mutant: a condition that ends keeps the time it began at.
run_Keeps(since, cond, t) == IF cond /\ since = Never THEN t ELSE since

\* A continuous-condition timer: its start, while the condition holds.
run(since, cond, t) == IF ~cond THEN Never ELSE IF since = Never THEN t ELSE since
Lasted(since, t) == IF since = Never THEN 0 ELSE t - since

\* Degraded confidence lowers the soft threshold the way the evaluator does.
soft(conf) == IF conf = "degraded" THEN SoftPct - DegradedMargin ELSE SoftPct

NoRuns == [crit |-> Never, soft |-> Never, below |-> Never]

\* The runs of external use above and below the thresholds; an untrusted tick
\* ends all three.
hysteresis(old, t, m, conf) ==
    IF ~m.trusted THEN NoRuns
    ELSE LET isSoft == soft(conf) > 0 /\ m.util >= soft(conf)
         IN [crit |-> run(old.crit, CritPct > 0 /\ m.util >= CritPct, t),
             soft |-> run(old.soft, isSoft, t),
             below |-> run(old.below, ~isSoft, t)]

\* The points from the newest one at or before the window's start on.
growth(points, t, ext) ==
    LET all == Append(points, [t |-> t, ext |-> ext])
        old == {i \in 1 .. Len(all) : all[i].t <= t - Window}
        first == IF old = {} THEN 1 ELSE CHOOSE i \in old : \A j \in old : j <= i
    IN SubSeq(all, first, Len(all))

NoFacts == [conf |-> "none", noneFor |-> 0, healthyFor |-> 0]

\* Nothing was observed for too long, or the clock went back.
Broken(t) == lastTick # Never /\ (t < lastTick \/ t - lastTick > Gap)

\* One tick: the windows are dropped after a gap, extended by a trustworthy
\* sample and dropped again by one that is missing or incomplete.
Observe(t, in) ==
    LET conf == confidence(in)
        m == gpu(in, conf)
        healthy == IF Broken(t) THEN Never ELSE healthySince
        runs == IF Broken(t) THEN NoRuns ELSE above
        points == IF Broken(t) \/ lastConf # conf THEN <<>> ELSE vram
    IN /\ lastTick' = t
       /\ IF conf = "none"
          THEN /\ healthySince' = Never
               /\ noneSince' = IF noneSince = Never THEN t ELSE noneSince
               /\ above' = NoRuns /\ vram' = <<>> /\ UNCHANGED lastConf
               /\ facts' = [NoFacts EXCEPT !.noneFor = t - noneSince']
               /\ hist' = Append(hist, [t |-> t, conf |-> conf])
          ELSE /\ noneSince' = Never
               /\ healthySince' = IF healthy = Never THEN t ELSE healthy
               /\ lastConf' = conf
               /\ vram' = growth(points, t, m.ext)
               /\ above' = hysteresis(runs, t, m, conf)
               /\ facts' = [conf |-> conf, noneFor |-> 0, healthyFor |-> t - healthySince', in |-> in,
                            util |-> m.util, totalUtil |-> m.totalUtil, ownUtil |-> m.ownUtil, trusted |-> m.trusted,
                            own |-> m.own, ext |-> m.ext, free |-> m.free, growth |-> m.ext - vram'[1].ext,
                            aboveCritFor |-> Lasted(above'.crit, t), aboveSoftFor |-> Lasted(above'.soft, t),
                            belowSoftFor |-> Lasted(above'.below, t)]
               /\ hist' = Append(hist, [t |-> t, conf |-> conf, trusted |-> m.trusted, util |-> m.util, ext |-> m.ext])

Init ==
    /\ now = 2 /\ lastTick = Never /\ lastConf = "unset" /\ noneSince = Never /\ healthySince = Never
    /\ above = NoRuns /\ vram = <<>> /\ facts = NoFacts /\ hist = <<>>

Tick ==
    /\ Len(hist) < MaxTicks
    /\ \E step \in Steps, in \in Inputs :
         /\ now + step > 0
         /\ now' = now + step
         /\ Observe(now', in)

Next == Tick
Spec == Init /\ [][Next]_vars

-----------------------------------------------------------------------------
Last == hist[Len(hist)]

\* The ticks from i on are one observation: no gap between two of them.
Unbroken(i) ==
    \A j \in i + 1 .. Len(hist) : hist[j].t >= hist[j - 1].t /\ hist[j].t - hist[j - 1].t <= Gap

\* How long all ticks have been among those of S, as far back as the
\* observation reaches.
HeldFor(S) ==
    LET from == {i \in 1 .. Len(hist) : Unbroken(i) /\ i .. Len(hist) \subseteq S}
    IN IF from = {} THEN 0 ELSE Last.t - hist[CHOOSE i \in from : \A j \in from : i <= j].t

ReadTicks == {j \in 1 .. Len(hist) : hist[j].conf # "none"}
TrustedTicks == {j \in ReadTicks : hist[j].trusted}
SoftTicks == {j \in TrustedTicks : hist[j].util >= soft(hist[j].conf)}
CritTicks == {j \in TrustedTicks : hist[j].util >= CritPct}

(* How long external use has been above or below a threshold is exactly the *)
(* time all ticks of one unbroken observation agree on: never counted       *)
(* across a gap, a lost sample or an untrusted one (hysteresis, run).       *)
RunsAreContinuous ==
    Len(hist) > 0 /\ Last.conf # "none" =>
        /\ facts.aboveSoftFor = HeldFor(SoftTicks)
        /\ facts.belowSoftFor = HeldFor(TrustedTicks \ SoftTicks)
        /\ facts.aboveCritFor = HeldFor(CritTicks)

(* Healthy time, which ends the wait after a telemetry loss, is time with   *)
(* readings at every tick (trackConfidence, Observe).                       *)
HealthyIsContinuous == Len(hist) > 0 => facts.healthyFor = HeldFor(ReadTicks)

(* Memory growth is measured against the newest reading at least a window   *)
(* old, or the oldest of the same unbroken observation by the same method   *)
(* (growth).                                                                *)
GrowthIsOverTheWindow ==
    Len(hist) > 0 /\ Last.conf # "none" =>
        LET same == {i \in 1 .. Len(hist) : Unbroken(i) /\ \A j \in i .. Len(hist) : hist[j].conf = Last.conf}
            old == {i \in same : hist[i].t <= Last.t - Window}
            anchor == IF old # {} THEN CHOOSE i \in old : \A j \in old : j <= i
                      ELSE CHOOSE i \in same : \A j \in same : i <= j
        IN facts.growth = Last.ext - hist[anchor].ext

(* Nothing on the adapter goes unaccounted: own and external memory cover   *)
(* what is used, own and external use cover the busiest engine, and neither *)
(* share exceeds the whole (Split, gpu).                                    *)
DemandIsCovered ==
    facts.conf # "none" =>
        /\ facts.own + facts.ext >= facts.in.sample.used
        /\ facts.util + facts.ownUtil >= facts.totalUtil
        /\ facts.util <= facts.totalUtil
        /\ ~facts.in.running => facts.own = 0

(* A footprint remembered from another load never claims memory that the    *)
(* sample attributes to another process (gpu, degraded).                    *)
OthersNeverHidden ==
    facts.conf # "none" /\ facts.in.sample.listed => facts.ext >= facts.in.sample.ext

(* A worker alone on the GPU that loads its model is not its own            *)
(* contention: what cannot be attributed counts as its own up to what the   *)
(* model needs (gpu, degraded).                                             *)
LoadIsNotContention ==
    facts.conf = "degraded" /\ facts.in.running /\ facts.in.sample.own = 0 /\ facts.in.sample.ext = 0
      /\ facts.in.sample.used <= (IF facts.in.footprint > 0 THEN facts.in.footprint ELSE Required)
      => facts.ext = 0
=============================================================================
