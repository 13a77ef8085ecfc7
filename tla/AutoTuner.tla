----------------------------- MODULE AutoTuner -----------------------------
(***************************************************************************)
(* Threshold tuning from feedback: feedback/feedback_store.py and          *)
(* feedback/auto_tuner.py over their SQLite file.                          *)
(*                                                                         *)
(* Every call opens a connection of its own, so calls from several threads *)
(* or processes interleave between statements.  SQLite gives the file one  *)
(* writer at a time: a connection holds the write lock from its first      *)
(* INSERT or DELETE to its commit; another writer waits, and after the     *)
(* busy timeout fails.  Readers see the committed rows.  tune() reads a    *)
(* detector's row before its first write, outside any transaction.         *)
(*                                                                         *)
(* Thresholds are in hundredths.  Detector d gets up to MaxFeedback[d]     *)
(* true and false positives.  The literals of the code (0.5, 10, 20, 0.03, *)
(* 0.01) are constants.                                                    *)
(***************************************************************************)
EXTENDS Integers, FiniteSets

CONSTANTS
    Callers,       \* callers of tune(), in any thread or process
    TunedDetectors,\* the detectors feedback is given on
    None,          \* no thread, no detector
    Untuned,       \* no row in detector_tuning
    Configured,    \* the detector's configured threshold, 70 by default
    Assumed,       \* the original threshold tune() assumes, 50
    MaxAdjustment, \* max_threshold_adjustment, 15
    RaiseBy,       \* 3
    LowerBy,       \* 1
    MinFeedback,   \* 10
    ProvenAt,      \* 20 true positives
    MaxFeedback    \* bound on the feedback: true and false positives, by detector

ASSUME TunerAssumption ==
    /\ None \notin Callers \cup TunedDetectors
    /\ Untuned \notin Int
    /\ Configured \in Nat /\ Assumed \in Nat
    /\ MaxAdjustment \in Nat /\ RaiseBy \in Nat /\ LowerBy \in Nat
    /\ MinFeedback \in Nat \ {0} /\ ProvenAt \in Nat
    /\ MaxFeedback \in [TunedDetectors -> [tp : Nat, fp : Nat]]

VARIABLES
    feedback,   \* committed feedback rows: true and false positives
    adjusted,   \* committed detector_tuning rows: adjusted_threshold
    writer,     \* the tune() that holds the write lock
    tune        \* the tune() call each thread is in

tunerVars == <<feedback, adjusted, writer, tune>>

Counts == [tp : Nat, fp : Nat]
TunedRows == (Assumed - MaxAdjustment)..(Assumed + MaxAdjustment)
Total(s) == s.tp + s.fp

NoStats == [d \in TunedDetectors |-> [tp |-> 0, fp |-> 0]]
NoRows == [d \in TunedDetectors |-> Untuned]

\* stats: what get_all_stats has returned, for the detectors left;
\* todo: the detectors left; det, row: the row just read;
\* pending: the upserts not yet committed.
Calls == [at : {"idle", "next", "write"}, todo : SUBSET TunedDetectors,
          stats : [TunedDetectors -> Counts], det : TunedDetectors \cup {None},
          row : TunedRows \cup {Untuned}, pending : [TunedDetectors -> TunedRows \cup {Untuned}]]
Idle == [at |-> "idle", todo |-> {}, stats |-> NoStats, det |-> None,
         row |-> Untuned, pending |-> NoRows]

TunerInit ==
    /\ feedback = NoStats
    /\ adjusted = NoRows
    /\ writer = None
    /\ tune = [t \in Callers |-> Idle]

-----------------------------------------------------------------------------
Raises(s) == 5 * s.fp > Total(s)   \* fp_rate > 0.20

Lowers(s) == 20 * s.fp < Total(s) /\ s.tp > ProvenAt   \* fp_rate < 0.05

Clamp(a) ==
    IF a > MaxAdjustment THEN MaxAdjustment
    ELSE IF a < - MaxAdjustment THEN - MaxAdjustment ELSE a

Current(row) == IF row = Untuned THEN Assumed ELSE row

Step(s) == IF Raises(s) THEN RaiseBy ELSE IF Lowers(s) THEN - LowerBy ELSE 0

\* A mutant: the adjustment is clamped before the step is added.
ClampedFirst(row, s) == Assumed + Clamp(Current(row) - Assumed) + Step(s)

\* A mutant: an adjustment out of range is dropped, not clamped.
DroppedOutOfRange(row, s) ==
    LET a == Current(row) - Assumed + Step(s)
    IN  IF a = Clamp(a) THEN Assumed + a ELSE Assumed

NewThreshold(row, s) == Assumed + Clamp(Current(row) - Assumed + Step(s))

-----------------------------------------------------------------------------
(* FeedbackStore.record: one row, one transaction.                         *)
Record(d, correct) ==
    /\ writer = None
    /\ \/ /\ correct /\ feedback[d].tp < MaxFeedback[d].tp
          /\ feedback' = [feedback EXCEPT ![d].tp = @ + 1]
       \/ /\ ~ correct /\ feedback[d].fp < MaxFeedback[d].fp
          /\ feedback' = [feedback EXCEPT ![d].fp = @ + 1]
    /\ UNCHANGED <<adjusted, writer, tune>>

(* reset(detector_id), reset().                                            *)
Reset(gone) ==
    /\ writer = None
    /\ adjusted' = [d \in TunedDetectors |-> IF d \in gone THEN Untuned ELSE adjusted[d]]
    /\ UNCHANGED <<feedback, writer, tune>>

(* tune() starts with get_all_stats: the detectors that have feedback, ... *)
ReadStats(t) ==
    /\ tune[t] = Idle
    /\ tune' = [tune EXCEPT ![t] =
            [Idle EXCEPT !.at = "next",
                         !.todo = {d \in TunedDetectors : Total(feedback[d]) > 0}]]
    /\ UNCHANGED <<feedback, adjusted, writer>>

Unread(c) == {d \in c.todo : Total(c.stats[d]) = 0}

(* ... then the statistics of one after the other.                         *)
ReadCounts(t, d) ==
    /\ tune[t].at = "next" /\ d \in Unread(tune[t])
    /\ tune' = [tune EXCEPT ![t].stats[d] = feedback[d]]
    /\ UNCHANGED <<feedback, adjusted, writer>>

\* A mutant: tuning on any feedback at all.
AnyFeedback(s) == Total(s) > 0

Enough(s) == Total(s) >= MinFeedback

(* Fewer than ten feedback rows: continue.                                 *)
Skip(t, d) ==
    /\ tune[t].at = "next" /\ d \in tune[t].todo /\ Unread(tune[t]) = {}
    /\ ~ Enough(tune[t].stats[d])
    /\ tune' = [tune EXCEPT ![t].todo = @ \ {d}, ![t].stats[d] = NoStats[d]]
    /\ UNCHANGED <<feedback, adjusted, writer>>

ReadRow(t, d) ==
    /\ tune[t].at = "next" /\ d \in tune[t].todo /\ Unread(tune[t]) = {}
    /\ Enough(tune[t].stats[d])
    /\ tune' = [tune EXCEPT ![t].at = "write", ![t].det = d,
                            ![t].row = adjusted[d], ![t].todo = @ \ {d}]
    /\ UNCHANGED <<feedback, adjusted, writer>>

Upsert(t) ==
    LET d == tune[t].det
    IN  /\ tune[t].at = "write"
        /\ writer \in {None, t}
        /\ writer' = t
        /\ tune' = [tune EXCEPT ![t].at = "next", ![t].det = None, ![t].row = Untuned,
                        ![t].pending[d] = NewThreshold(tune[t].row, tune[t].stats[d]),
                        ![t].stats[d] = NoStats[d]]
        /\ UNCHANGED <<feedback, adjusted>>

(* Another connection keeps the file locked beyond the busy timeout.       *)
Busy(t) ==
    /\ tune[t].at = "write"
    /\ writer \notin {None, t}
    /\ tune' = [tune EXCEPT ![t] = Idle]
    /\ UNCHANGED <<feedback, adjusted, writer>>

Commit(t) ==
    /\ tune[t].at = "next" /\ tune[t].todo = {}
    /\ adjusted' = [d \in TunedDetectors |-> IF tune[t].pending[d] = Untuned THEN adjusted[d]
                                        ELSE tune[t].pending[d]]
    /\ writer' = IF writer = t THEN None ELSE writer
    /\ tune' = [tune EXCEPT ![t] = Idle]
    /\ UNCHANGED feedback

Advance(t) ==
    \/ \E d \in TunedDetectors : ReadCounts(t, d) \/ Skip(t, d) \/ ReadRow(t, d)
    \/ Upsert(t) \/ Busy(t) \/ Commit(t)

TunerNext ==
    \/ \E d \in TunedDetectors : Reset({d}) \/ \E correct \in BOOLEAN : Record(d, correct)
    \/ Reset(TunedDetectors)
    \/ \E t \in Callers : ReadStats(t) \/ Advance(t)

TunerSpec == TunerInit /\ [][TunerNext]_tunerVars

(* get_effective_threshold(detector_id, default).                          *)
TunedThreshold(d) == IF adjusted[d] = Untuned THEN Configured ELSE adjusted[d]

-----------------------------------------------------------------------------
(* The variables have their types; in particular no interleaving of tune() *)
(* calls moves a threshold further than MaxAdjustment from the original.   *)
TunerTypeOK ==
    /\ feedback \in [TunedDetectors -> Counts]
    /\ adjusted \in [TunedDetectors -> TunedRows \cup {Untuned}]
    /\ writer \in Callers \cup {None}
    /\ tune \in [Callers -> Calls]

(***************************************************************************)
(* Every tuned threshold has its evidence in the feedback table, however   *)
(* stale the row and the statistics a concurrent tune() worked from: at    *)
(* least MinFeedback verdicts; below the original, more than ProvenAt true *)
(* positives; above it, a false positive.                                  *)
(***************************************************************************)
TunedOnEvidence ==
    \A d \in TunedDetectors : adjusted[d] # Untuned =>
        /\ Total(feedback[d]) >= MinFeedback
        /\ adjusted[d] < Assumed => feedback[d].tp > ProvenAt
        /\ adjusted[d] > Assumed => feedback[d].fp > 0

(***************************************************************************)
(* Tuning settles: once feedback and resets stop, and tune() calls no      *)
(* longer overlap, the thresholds that scans are held against stop         *)
(* changing, whatever older calls that raced have committed before.        *)
(* Nothing in the code keeps calls from overlapping.  Calls that never     *)
(* stop to can take turns for ever: where the evidence asks for no step,   *)
(* each writes back what it read before the other's commit.                *)
(***************************************************************************)
AtMostOneTune == Cardinality({t \in Callers : tune[t] # Idle}) <= 1

TuningSettles ==
    /\ <>[][/\ \A gone \in SUBSET TunedDetectors : ~ Reset(gone)
            /\ \A d \in TunedDetectors : ~ Record(d, TRUE) /\ ~ Record(d, FALSE)]_tunerVars
    /\ <>[]AtMostOneTune
    => <>[][\A d \in TunedDetectors : UNCHANGED TunedThreshold(d)]_tunerVars
=============================================================================
