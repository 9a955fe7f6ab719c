--------------------------- MODULE MCManagement ---------------------------
(***************************************************************************)
(* What the management interface changes: the configuration and its        *)
(* history, the shipped rules merged into it, the hourly statistics and    *)
(* their retention, and the interface itself, with its tokens, codes and   *)
(* sessions. They share no variables, so each is checked while the others  *)
(* are at rest: an instance picks the part that moves in its initial       *)
(* states.                                                                 *)
(***************************************************************************)
EXTENDS Integers, FiniteSets, Sequences

CONSTANTS Parts,   \* the parts that move in this instance
          Client, Config, Default, Normal, PathOf, Missing, Proposals,
          HistoryLimit, MaxSaves, MaxEdits, MaxCrashes, Builds, NoId,
          RuleEdits, Hour, Day, DaysPerYear, MaxAge, PruneEvery, Starts,
          Warn, LastTick, MaxFaults, Requests, Codes, MaxPendingCodes,
          MaxSessions, MaxRedeemFailure, CodeTTL, SessionTTL, Window,
          Offered, MaxNow, MaxIssued, MaxRev, MaxMisses

VARIABLES part,
          up, cfg, rev, primary, lastGood, hist, save, client, saves, edits,
          crashes, inEffect,
          apps, seen, build, merged, deleted, ruleEdits,
          clock, jobUp, lastTick, lastPrune, lastCertDay, stats, available,
          recorded, warnings, faults,
          now, codes, sessions, issued, failures, failFrom, misses, apiCfg,
          apiRev, req, reg, last

Cs == INSTANCE ConfigStore
Br == INSTANCE BuiltinRules WITH edits <- ruleEdits, MaxEdits <- RuleEdits
Hk == INSTANCE Housekeeping WITH up <- jobUp, last <- lastTick, MaxNow <- LastTick
Ac == INSTANCE Access WITH cfg <- apiCfg, rev <- apiRev

\* Four documents: the defaults, one written before a shipped rule existed
\* ("old", which loads as "a"), and two that name different model files.
MCConfig == {"default", "old", "a", "b"}
MCNormal == [c \in MCConfig |-> IF c = "old" THEN "a" ELSE c]
MCPathOf == [c \in MCConfig |-> IF c = "b" THEN "other" ELSE "model"]

\* Three builds: the second adds a rule in the middle and one in front, the
\* third drops a rule and adds one at the end.
MCBuilds == <<<<"a", "c">>, <<"x", "a", "b", "c">>, <<"x", "a", "b", "d">>>>

\* Module ConfigStore with two callers, more saves, and nobody else who writes the files.
Cr == INSTANCE ConfigStore WITH Client <- {"u1", "u2"}, MaxSaves <- 3, MaxEdits <- 0,
        MaxCrashes <- 0

\* Module Access with every route, one code and one session.
Ar == INSTANCE Access WITH cfg <- apiCfg, rev <- apiRev, Codes <- {"c1"},
        MaxSessions <- 1, SessionTTL <- 1,
        Offered <- {"mode", "put", "action", "report", "status", "config", "codes", "redeem"},
        MaxNow <- 2, MaxIssued <- 1, MaxRev <- 1, MaxMisses <- 0

\* Module Access with one code at a time and more sessions than are kept.
As == INSTANCE Access WITH cfg <- apiCfg, rev <- apiRev, Codes <- {"c1"},
        MaxSessions <- 2, MaxIssued <- 3, MaxMisses <- 0, MaxNow <- 3

\* Module Access with two configuration writes at a time.
Aa == INSTANCE Access WITH cfg <- apiCfg, rev <- apiRev, Requests <- {"r1", "r2"},
        Codes <- {"c1"}, MaxSessions <- 1, Offered <- {"put", "apps"},
        MaxNow <- 1, MaxIssued <- 0, MaxRev <- 3, MaxMisses <- 0

ASSUME ConstantsAssumption ==
    /\ Parts \subseteq {"config", "rules", "housekeeping", "signin", "restore", "rights", "sessions", "apps"}
    /\ Cs!ConfigStoreConstants
    /\ Br!BuildsAssumption
    /\ Hk!HousekeepingAssumption
    /\ Ac!AccessConstants

-----------------------------------------------------------------------------
configVars == <<up, cfg, rev, primary, lastGood, hist, save, client, saves, edits,
    crashes, inEffect>>
rulesVars == <<apps, seen, build, merged, deleted, ruleEdits>>
housekeepingVars == <<clock, jobUp, lastTick, lastPrune, lastCertDay, stats, available,
    recorded, warnings, faults>>
signinVars == <<now, codes, sessions, issued, failures, failFrom, misses, apiCfg, apiRev,
    req, reg, last>>
vars == <<part, configVars, rulesVars, housekeepingVars, signinVars>>

\* Every part starts as its module says; what it starts from is only chosen
\* for the part that moves.
Init ==
    /\ part \in Parts
    /\ Br!Init /\ Hk!Init
    /\ IF part = "restore" THEN Cr!Init ELSE Cs!Init
    /\ IF part = "rights" THEN Ar!Init ELSE IF part = "sessions" THEN As!Init ELSE IF part = "apps" THEN Aa!Init ELSE Ac!Init
    /\ part \notin {"config", "restore"} => primary = "absent"
    /\ part # "rules" => seen # {}
    /\ part # "housekeeping" => available /\ \A s \in Starts : clock <= s

\* A step of one part, with the others at rest.
CsMoves(A) == part = "config" /\ A /\ UNCHANGED <<part, rulesVars, housekeepingVars, signinVars>>
BrMoves(A) == part = "rules" /\ A /\ UNCHANGED <<part, configVars, housekeepingVars, signinVars>>
HkMoves(A) == part = "housekeeping" /\ A /\ UNCHANGED <<part, configVars, rulesVars, signinVars>>
AcMoves(A) == part = "signin" /\ A /\ UNCHANGED <<part, configVars, rulesVars, housekeepingVars>>
CrMoves(A) == part = "restore" /\ A /\ UNCHANGED <<part, rulesVars, housekeepingVars, signinVars>>
ArMoves(A) == part = "rights" /\ A /\ UNCHANGED <<part, configVars, rulesVars, housekeepingVars>>
AsMoves(A) == part = "sessions" /\ A /\ UNCHANGED <<part, configVars, rulesVars, housekeepingVars>>
AaMoves(A) == part = "apps" /\ A /\ UNCHANGED <<part, configVars, rulesVars, housekeepingVars>>

Next ==
    \/ CsMoves(Cs!Next)
    \/ BrMoves(Br!Next)
    \/ HkMoves(Hk!Next)
    \/ AcMoves(Ac!Next)
    \/ CrMoves(Cr!Next)
    \/ ArMoves(Ar!Next)
    \/ AsMoves(As!Next)
    \/ AaMoves(Aa!Next)

Spec == Init /\ [][Next]_vars

-----------------------------------------------------------------------------
(* Properties: what each part promises is stated in its module.            *)

AccessParts == {"signin", "sessions", "rights", "apps"}

(* The configuration is what was saved last, through crashes between any   *)
(* two writes and edits by hand: the history lists only configurations     *)
(* that were in force and never more than its limit, its newest entry and  *)
(* the primary file are what runs, and a restore replaces exactly the      *)
(* configuration its preview showed (Save, Load, RestoreConfig).           *)
ConfigurationIsKept ==
    [][/\ part = "config" => Cs!TypeOK'
       /\ part \in {"config", "restore"} =>
             (Cs!HistoryIsTrue /\ Cs!NewestIsCurrent /\ Cs!RunningIsPersisted)'
       /\ part = "restore" => Cr!RestoreIsFresh]_vars

(* Over upgrades that add and drop shipped rules, a merge never brings     *)
(* back a rule the owner deleted, keeps the owner's edits, puts the new    *)
(* rules in the shipped order and gives no id twice (mergeBuiltins).       *)
ShippedRulesMerge ==
    [][part = "rules" =>
       /\ Br!IdsAreUnique'
       /\ Br!DeletedStaysDeleted /\ Br!EditsSurviveMerge /\ Br!NewRulesKeepOrder]_vars

(* The hourly statistics add up to the time that passed, hours beyond      *)
(* their retention go, and an expiring certificate is warned of once a day *)
(* (recordTick, prune).                                                    *)
StatisticsAreExact ==
    [][part = "housekeeping" =>
         (Hk!HoursAreExact /\ Hk!WarnedAtMostOnce)' /\ Hk!OldHoursGo]_vars

(* Nobody changes what their credential does not allow: writes need a      *)
(* token or session, without one only Pause and Auto from this PC pass,    *)
(* and codes are minted with the management token only, whatever happens   *)
(* between a request's authorisation and its handler (Authorize, putMode,  *)
(* registerSignIn).                                                        *)
OnlyAllowedChanges ==
    [][(part \in AccessParts =>
          Ac!WritesNeedAToken /\ Ac!TokenlessOnlyPauses /\ Ac!CodesNeedManagement)']_vars

(* A session is issued only for a code registered not long before and for  *)
(* one redemption, no session is used past its expiry or ended before it   *)
(* except for newer ones, and guessing codes is limited (redeem, Live).    *)
SessionsAreEarned ==
    [][/\ part \in AccessParts => Ac!GuessesLimited'
       /\ part \in AccessParts \ {"apps"} => Ac!SessionsExpire
       /\ part = "apps" => Aa!SessionsExpire
       /\ part = "signin" => Ac!TypeOK' /\ Ac!SessionsComeFromCodes
       /\ part = "sessions" => As!NewestSessionsKept]_vars
=============================================================================
