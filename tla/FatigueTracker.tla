--------------------------- MODULE FatigueTracker ---------------------------
(***************************************************************************)
(* Adversarial fatigue: fatigue/tracker.py under the scans of engine.py.   *)
(*                                                                         *)
(* A scan of a (source, detector) pair reads the effective threshold when  *)
(* the engine plans the scan, lets the detector run, and reports the       *)
(* confidence to observe().  observe() reads the clock BEFORE it takes the *)
(* tracker's lock, so between concurrent scans the stamps can be applied   *)
(* out of order; each access under the lock is one action.                 *)
(*                                                                         *)
(* Instants are kept as ages (how long ago), capped once their value no    *)
(* longer matters, so that time may run for ever.  MaxDelay bounds how     *)
(* long a scan waits between its clock reading and the lock.  The moving   *)
(* average is counted in units of 1/Scale and rounds down.  The tracker is *)
(* enabled: a disabled one does nothing.                                   *)
(***************************************************************************)
EXTENDS Integers, FiniteSets

CONSTANTS
    Threads,       \* concurrent scans
    SourcePairs,   \* (source, detector_id) pairs
    NoPair,
    Confidences,   \* what a detector may report, in hundredths
    Base,          \* base_threshold, in hundredths
    NearDelta,     \* near_miss_delta
    HardenDelta,   \* harden_delta
    Scale,         \* resolution of the moving average
    Alpha,         \* ewma_alpha, in units of 1/Scale
    Trigger,       \* trigger_ratio, in units of 1/Scale
    MinSamples,    \* min_samples_before_trigger
    Cooldown,      \* cooldown_seconds, in ticks
    MaxDelay       \* bound on the wait between clock and lock, in ticks

ASSUME FatigueAssumption ==
    /\ NoPair \notin SourcePairs
    /\ Confidences \subseteq 0..100
    /\ Base \in 0..100 /\ NearDelta \in 0..100 /\ HardenDelta \in 0..100
    /\ Scale \in Nat \ {0} /\ Alpha \in 0..Scale
    /\ Trigger \in Alpha..Scale   \* 0.4 and 0.3 by default
    /\ MinSamples \in Nat
    /\ Cooldown \in Nat \ {0} /\ MaxDelay \in Nat

VARIABLES
    entry,    \* _entries: the state of each pair (an absent one is fresh)
    scan,     \* the scan each thread is in
    quiet,    \* history: age of the newest near-miss applied to the pair
    misses    \* history: near-misses since the pair was last forgotten, up to 2

fatigueVars == <<entry, scan, quiet, misses>>

MaxAge == Cooldown + MaxDelay   \* ages are not told apart beyond it
Older(age) == IF age < MaxAge THEN age + 1 ELSE age

\* last is now - last_near_miss_ts; samples stops at MinSamples, the only
\* value samples_seen is compared with; hardened_at_ts is never read.
Entries == [ewma : 0..Scale, last : 0..MaxAge, hardened : BOOLEAN,
            samples : 0..MinSamples]
FreshEntry == [ewma |-> 0, last |-> MaxAge, hardened |-> FALSE, samples |-> 0]

Scans == [at : {"idle"}, pair : {NoPair}]
    \cup [at : {"planned"}, pair : SourcePairs, threshold : -100..100]
    \cup [at : {"stamped"}, pair : SourcePairs, threshold : -100..100,
          conf : Confidences, age : 0..MaxDelay]
NoScan == [at |-> "idle", pair |-> NoPair]

FatigueInit ==
    /\ entry = [p \in SourcePairs |-> FreshEntry]
    /\ scan = [t \in Threads |-> NoScan]
    /\ quiet = [p \in SourcePairs |-> MaxAge]
    /\ misses = [p \in SourcePairs |-> 0]

-----------------------------------------------------------------------------
IsNearMiss(conf) == Base - NearDelta <= conf /\ conf < Base

EffectiveThreshold(e) ==
    IF ~ e.hardened THEN Base
    ELSE IF Base >= HardenDelta THEN Base - HardenDelta ELSE 0

\* A mutant: the average forgets nothing (a missing 1 - alpha).
AveragedWithoutDecay(e, near) ==
    ((IF near THEN Alpha * Scale ELSE 0) + Scale * e.ewma) \div Scale

Averaged(e, near) ==
    ((IF near THEN Alpha * Scale ELSE 0) + (Scale - Alpha) * e.ewma) \div Scale

(* The bookkeeping of one observation, made `age` ago.                     *)
\* A mutant: last_near_miss_ts is set only when the pair gets hardened.
CountedOnce(e, near, age) ==
    [ewma |-> Averaged(e, near),
     last |-> IF near /\ ~ e.hardened THEN age ELSE e.last,
     hardened |-> e.hardened,
     samples |-> IF e.samples < MinSamples THEN e.samples + 1 ELSE e.samples]

Counted(e, near, age) ==
    [ewma |-> Averaged(e, near),
     last |-> IF near THEN age ELSE e.last,
     hardened |-> e.hardened,
     samples |-> IF e.samples < MinSamples THEN e.samples + 1 ELSE e.samples]

\* A mutant: the cooldown restores the threshold and keeps the average.
RestoredKeepingAverage(e, near, age) ==
    IF e.hardened /\ ~ near /\ e.last - age >= Cooldown
    THEN [e EXCEPT !.hardened = FALSE] ELSE e

\* A mutant: a near-miss may restore too, and never a benign scan.
RestoredByNearMiss(e, near, age) ==
    IF e.hardened /\ near /\ e.last - age >= Cooldown
    THEN [FreshEntry EXCEPT !.last = e.last] ELSE e

(* A benign observation after `Cooldown` of quiet forgets the campaign.    *)
Restored(e, near, age) ==
    IF e.hardened /\ ~ near /\ e.last - age >= Cooldown
    THEN [FreshEntry EXCEPT !.last = e.last] ELSE e

\* A mutant: hardening also requires that no sample was benign of late.
TriggeredAtFull(e) ==
    IF ~ e.hardened /\ e.samples >= MinSamples /\ e.ewma >= Scale
    THEN [e EXCEPT !.hardened = TRUE] ELSE e

Triggered(e) ==
    IF ~ e.hardened /\ e.samples >= MinSamples /\ e.ewma > Trigger
    THEN [e EXCEPT !.hardened = TRUE] ELSE e

Observed(e, near, age) == Triggered(Restored(Counted(e, near, age), near, age))

-----------------------------------------------------------------------------
(* _build_dispatch_plan: get_effective_threshold for the pair.             *)
Plan(t, p) ==
    /\ scan[t].at = "idle"
    /\ scan' = [scan EXCEPT ![t] = [at |-> "planned", pair |-> p,
                                    threshold |-> EffectiveThreshold(entry[p])]]
    /\ UNCHANGED <<entry, quiet, misses>>

(* The detector returns, and observe() reads the clock.                    *)
Stamp(t, conf) ==
    /\ scan[t].at = "planned"
    /\ scan' = [scan EXCEPT ![t] = [at |-> "stamped", pair |-> scan[t].pair,
                                    threshold |-> scan[t].threshold,
                                    conf |-> conf, age |-> 0]]
    /\ UNCHANGED <<entry, quiet, misses>>

(* A detector that raises, or a strict scan abandoned, observes nothing.   *)
Abandon(t) ==
    /\ scan[t].at = "planned"
    /\ scan' = [scan EXCEPT ![t] = NoScan]
    /\ UNCHANGED <<entry, quiet, misses>>

(* observe() under its lock.                                               *)
Observe(t) ==
    LET p == scan[t].pair
        near == IsNearMiss(scan[t].conf)
        after == Observed(entry[p], near, scan[t].age)
    IN  /\ scan[t].at = "stamped"
        /\ scan' = [scan EXCEPT ![t] = NoScan]
        /\ entry' = [entry EXCEPT ![p] = after]
        /\ quiet' = [quiet EXCEPT ![p] =
                        IF near /\ scan[t].age < @ THEN scan[t].age ELSE @]
        /\ misses' = [misses EXCEPT ![p] =
                        IF entry[p].hardened /\ ~ after.hardened THEN 0
                        ELSE IF near /\ @ < 2 THEN @ + 1 ELSE @]

ResetAll ==
    /\ entry' = [p \in SourcePairs |-> FreshEntry]
    /\ quiet' = [p \in SourcePairs |-> MaxAge]
    /\ misses' = [p \in SourcePairs |-> 0]
    /\ UNCHANGED scan

ClockTick ==
    /\ \A t \in Threads : scan[t].at = "stamped" => scan[t].age < MaxDelay
    /\ entry' = [p \in SourcePairs |-> [entry[p] EXCEPT !.last = Older(@)]]
    /\ quiet' = [p \in SourcePairs |-> Older(quiet[p])]
    /\ scan' = [t \in Threads |-> IF scan[t].at = "stamped"
                                  THEN [scan[t] EXCEPT !.age = @ + 1] ELSE scan[t]]
    /\ UNCHANGED misses

FatigueNext ==
    \/ \E t \in Threads :
          \/ \E p \in SourcePairs : Plan(t, p)
          \/ \E conf \in Confidences : Stamp(t, conf)
          \/ Abandon(t)
          \/ Observe(t)
    \/ ResetAll
    \/ ClockTick

FatigueSpec == FatigueInit /\ [][FatigueNext]_fatigueVars

(* A thread that holds a stamp gets the lock, and the clock runs on.       *)
FatigueFairness == WF_fatigueVars(ClockTick) /\ \A t \in Threads : WF_fatigueVars(Observe(t))

FairFatigue == FatigueSpec /\ FatigueFairness

-----------------------------------------------------------------------------
(* The variables have their types.                                         *)
FatigueTypeOK ==
    /\ entry \in [SourcePairs -> Entries]
    /\ scan \in [Threads -> Scans]
    /\ quiet \in [SourcePairs -> 0..MaxAge]
    /\ misses \in [SourcePairs -> 0..2]

(***************************************************************************)
(* Hardening takes a campaign: with the trigger no lower than alpha, one   *)
(* near-miss never lowers the threshold of a pair, however many scans are  *)
(* in flight, and a restored pair starts again from nothing.               *)
(***************************************************************************)
CampaignNeeded == \A p \in SourcePairs : entry[p].hardened => misses[p] = 2

(***************************************************************************)
(* A campaign keeps the threshold low: whatever order the stamps are       *)
(* applied in, a restored pair has had no near-miss for the cooldown, less *)
(* the time one scan waited for the lock.                                  *)
(***************************************************************************)
EarlyRestoreBounded ==
    [][ \A p \in SourcePairs : \A t \in Threads :
          (Observe(t) /\ entry[p].hardened /\ ~ entry'[p].hardened)
              => quiet[p] >= Cooldown - MaxDelay ]_fatigueVars

BenignObserved(p) ==
    \E t \in Threads : /\ scan[t].at = "stamped" /\ scan[t].pair = p
                       /\ ~ IsNearMiss(scan[t].conf) /\ Observe(t)

NearMissObserved(p) ==
    \E t \in Threads : /\ scan[t].at = "stamped" /\ scan[t].pair = p
                       /\ IsNearMiss(scan[t].conf) /\ Observe(t)

(***************************************************************************)
(* A source that stops probing is let go: once a pair sees no near-miss    *)
(* any more, and keeps being scanned, its threshold is back at the base    *)
(* for good.                                                               *)
(***************************************************************************)
QuietPairReleased ==
    \A p \in SourcePairs :
        (<>[][~ NearMissObserved(p)]_fatigueVars /\ []<><<BenignObserved(p)>>_fatigueVars)
            => <>[](~ entry[p].hardened)

(***************************************************************************)
(* A source that only probes is hardened against, at whatever pace it      *)
(* does: spacing the probes out does not evade the average.                *)
(***************************************************************************)
CampaignHardened ==
    \A p \in SourcePairs :
        (/\ <>[][~ ResetAll /\ ~ BenignObserved(p)]_fatigueVars
         /\ []<><<NearMissObserved(p)>>_fatigueVars) => <>[](entry[p].hardened)
=============================================================================
