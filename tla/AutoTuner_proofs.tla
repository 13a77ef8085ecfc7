--------------------------- MODULE AutoTuner_proofs ---------------------------
(***************************************************************************)
(* What tuning keeps for every number of threads and detectors, and for    *)
(* every value of the gates: thresholds within their range, and evidence   *)
(* in the feedback table behind each of them.                              *)
(***************************************************************************)
EXTENDS AutoTuner, TLAPS

(* The evidence that feedback s gives for a row that holds a.              *)
Supported(a, s) ==
    a # Untuned =>
        /\ Total(s) >= MinFeedback
        /\ a < Assumed => s.tp > ProvenAt
        /\ a > Assumed => s.fp > 0

AtMost(s, r) == s.tp <= r.tp /\ s.fp <= r.fp

(***************************************************************************)
(* The inductive invariant.  The committed rows alone do not carry it: a   *)
(* tune() commits what it computed from statistics and from a row it read  *)
(* earlier.  Both are behind the feedback table, which only grows, so the  *)
(* evidence they had then is there now.                                    *)
(***************************************************************************)
CallInv(c) ==
    /\ \A d \in TunedDetectors : AtMost(c.stats[d], feedback[d])
    /\ \A d \in TunedDetectors : Supported(c.pending[d], feedback[d])
    /\ c.at = "write" =>
          /\ c.det \in TunedDetectors
          /\ Enough(c.stats[c.det])
          /\ Supported(c.row, feedback[c.det])

IInv ==
    /\ TunerTypeOK
    /\ \A d \in TunedDetectors : Supported(adjusted[d], feedback[d])
    /\ \A t \in Callers : CallInv(tune[t])

-----------------------------------------------------------------------------
(* The threshold tune() computes is in range and has its evidence.         *)
LEMMA StepSupported ==
    ASSUME NEW row \in TunedRows \cup {Untuned}, NEW s \in Counts, NEW r \in Counts,
           AtMost(s, r), Enough(s), Supported(row, r)
    PROVE  /\ NewThreshold(row, s) \in TunedRows
           /\ Supported(NewThreshold(row, s), r)
<1> DEFINE a == Current(row) - Assumed + Step(s)
<1> USE TunerAssumption
<1>1. /\ s.tp \in Nat /\ s.fp \in Nat /\ r.tp \in Nat /\ r.fp \in Nat
      /\ s.tp <= r.tp /\ s.fp <= r.fp
  BY DEF Counts, AtMost
<1>2. Step(s) \in Int /\ Current(row) \in Int
  BY DEF Step, Current, TunedRows
<1>3. a \in Int
  BY <1>2
<1>4. /\ Clamp(a) \in -MaxAdjustment..MaxAdjustment
      /\ Clamp(a) < 0 => a < 0
      /\ Clamp(a) > 0 => a > 0
  BY <1>3 DEF Clamp
<1>5. NewThreshold(row, s) = Assumed + Clamp(a)
  BY DEF NewThreshold
<1>6. NewThreshold(row, s) \in TunedRows
  BY <1>4, <1>5 DEF TunedRows
<1>7. Total(r) >= MinFeedback
  BY <1>1 DEF Enough, Total
<1>8. ASSUME a < 0 PROVE r.tp > ProvenAt
  <2>1. CASE Current(row) < Assumed
    <3>1. row # Untuned /\ row = Current(row)
      BY <2>1 DEF Current
    <3> QED BY <2>1, <3>1 DEF Supported
  <2>2. CASE ~ Current(row) < Assumed
    <3>1. Step(s) < 0
      BY <1>2, <1>8, <2>2
    <3>2. Lowers(s)
      BY <3>1 DEF Step
    <3> QED BY <1>1, <3>2 DEF Lowers
  <2> QED BY <2>1, <2>2
<1>9. ASSUME a > 0 PROVE r.fp > 0
  <2>1. CASE Current(row) > Assumed
    <3>1. row # Untuned /\ row = Current(row)
      BY <2>1 DEF Current
    <3> QED BY <2>1, <3>1 DEF Supported
  <2>2. CASE ~ Current(row) > Assumed
    <3>1. Step(s) > 0
      BY <1>2, <1>9, <2>2
    <3>2. Raises(s)
      BY <3>1 DEF Step
    <3> QED BY <1>1, <3>2 DEF Raises, Total
  <2> QED BY <2>1, <2>2
<1>10. Supported(NewThreshold(row, s), r)
  BY <1>4, <1>5, <1>6, <1>7, <1>8, <1>9 DEF Supported, TunedRows
<1> QED BY <1>6, <1>10

(* More feedback supports what less did.                                   *)
LEMMA SupportGrows ==
    ASSUME NEW a \in TunedRows \cup {Untuned}, NEW s \in Counts, NEW r \in Counts,
           AtMost(s, r), Supported(a, s)
    PROVE  Supported(a, r)
BY TunerAssumption DEF Counts, AtMost, Supported, Total

-----------------------------------------------------------------------------
LEMMA IdleCall == TunerTypeOK => Idle \in Calls /\ CallInv(Idle)
<1> SUFFICES ASSUME TunerTypeOK PROVE Idle \in Calls /\ CallInv(Idle)
  OBVIOUS
<1>1. Idle \in Calls
  BY TunerAssumption DEF Idle, Calls, NoStats, NoRows, Counts
<1>2. CallInv(Idle)
  BY TunerAssumption DEF CallInv, Idle, NoStats, NoRows, AtMost, Supported, TunerTypeOK, Counts
<1> QED BY <1>1, <1>2

LEMMA InitInvariant == TunerInit => IInv
<1> SUFFICES ASSUME TunerInit PROVE IInv
  OBVIOUS
<1>1. Idle \in Calls
  BY TunerAssumption DEF Idle, Calls, NoStats, NoRows, Counts
<1>2. TunerTypeOK
  BY <1>1, TunerAssumption DEF TunerInit, TunerTypeOK, NoStats, NoRows, Counts
<1>3. \A d \in TunedDetectors : Supported(adjusted[d], feedback[d])
  BY DEF TunerInit, NoRows, Supported
<1>4. \A t \in Callers : CallInv(tune[t])
  BY <1>2, IdleCall DEF TunerInit
<1> QED BY <1>2, <1>3, <1>4 DEF IInv

(* When the feedback stays, only the rows and the calls that change need   *)
(* to be looked at.                                                        *)
LEMMA SameFeedback ==
    ASSUME IInv, TunerTypeOK', UNCHANGED feedback,
           \A d \in TunedDetectors : Supported(adjusted'[d], feedback[d]),
           NEW t \in Callers, CallInv(tune'[t]),
           \A u \in Callers \ {t} : tune'[u] = tune[u]
    PROVE  IInv'
<1>1. \A u \in Callers : CallInv(tune'[u])
  BY DEF IInv
<1>2. \A u \in Callers : CallInv(tune[u])'
  BY <1>1 DEF CallInv
<1>3. \A d \in TunedDetectors : Supported(adjusted[d], feedback[d])'
  BY DEF Supported
<1> QED BY <1>2, <1>3 DEF IInv

LEMMA RecordStep ==
    ASSUME IInv, NEW d \in TunedDetectors, NEW correct \in BOOLEAN, Record(d, correct)
    PROVE  IInv'
<1> USE TunerAssumption
<1>1. ASSUME NEW e \in TunedDetectors
      PROVE  feedback'[e] \in Counts /\ AtMost(feedback[e], feedback'[e])
  <2>1. /\ feedback[e] \in Counts /\ feedback[e].tp \in Nat /\ feedback[e].fp \in Nat
    BY DEF IInv, TunerTypeOK, Counts
  <2>2. CASE e # d
    <3>1. feedback'[e] = feedback[e]
      BY <2>2 DEF IInv, TunerTypeOK, Record
    <3> QED BY <2>1, <3>1 DEF AtMost
  <2>3. CASE e = d /\ correct
    <3>1. feedback' = [feedback EXCEPT ![d].tp = @ + 1]
      BY <2>3, Zenon DEF Record
    <3>2. feedback'[e] = [feedback[e] EXCEPT !.tp = @ + 1]
      BY <2>3, <3>1 DEF IInv, TunerTypeOK
    <3> QED BY <2>1, <2>3, <3>2 DEF AtMost, Counts, Total
  <2>4. CASE e = d /\ ~ correct
    <3>1. feedback' = [feedback EXCEPT ![d].fp = @ + 1]
      BY <2>4, Zenon DEF Record
    <3>2. feedback'[e] = [feedback[e] EXCEPT !.fp = @ + 1]
      BY <2>4, <3>1 DEF IInv, TunerTypeOK
    <3> QED BY <2>1, <2>4, <3>2 DEF AtMost, Counts, Total
  <2> QED BY <2>2, <2>3, <2>4
<1>2. TunerTypeOK'
  BY <1>1 DEF IInv, TunerTypeOK, Record
<1>3. \A e \in TunedDetectors : Supported(adjusted[e], feedback[e])'
  BY <1>1, SupportGrows DEF IInv, TunerTypeOK, Record
<1>4. ASSUME NEW t \in Callers PROVE CallInv(tune[t])'
  <2>1. tune'[t] = tune[t] /\ tune[t] \in Calls /\ CallInv(tune[t])
    BY DEF IInv, TunerTypeOK, Record
  <2>2. \A e \in TunedDetectors : AtMost(tune[t].stats[e], feedback'[e])
    BY <1>1, <2>1 DEF CallInv, AtMost, Calls, Counts, IInv, TunerTypeOK
  <2>3. \A e \in TunedDetectors : Supported(tune[t].pending[e], feedback'[e])
    BY <1>1, <2>1, SupportGrows DEF CallInv, Calls, IInv, TunerTypeOK
  <2>4. tune[t].at = "write" =>
            /\ tune[t].det \in TunedDetectors
            /\ Enough(tune[t].stats[tune[t].det])
            /\ Supported(tune[t].row, feedback'[tune[t].det])
    <3> SUFFICES ASSUME tune[t].at = "write"
                 PROVE  /\ tune[t].det \in TunedDetectors
                        /\ Enough(tune[t].stats[tune[t].det])
                        /\ Supported(tune[t].row, feedback'[tune[t].det])
      OBVIOUS
    <3>1. /\ tune[t].det \in TunedDetectors
          /\ Enough(tune[t].stats[tune[t].det])
          /\ Supported(tune[t].row, feedback[tune[t].det])
      BY <2>1 DEF CallInv
    <3>2. tune[t].row \in TunedRows \cup {Untuned} /\ feedback[tune[t].det] \in Counts
      BY <2>1, <3>1 DEF Calls, IInv, TunerTypeOK
    <3> QED BY <1>1, <3>1, <3>2, SupportGrows
  <2> QED BY <2>1, <2>2, <2>3, <2>4 DEF CallInv
<1> QED BY <1>2, <1>3, <1>4 DEF IInv

LEMMA ResetStep == ASSUME IInv, NEW gone \in SUBSET TunedDetectors, Reset(gone) PROVE IInv'
<1>1. TunerTypeOK'
  BY DEF IInv, TunerTypeOK, Reset
<1>2. \A d \in TunedDetectors : Supported(adjusted[d], feedback[d])'
  BY DEF IInv, TunerTypeOK, Reset, Supported
<1>3. \A t \in Callers : CallInv(tune[t])'
  BY DEF IInv, Reset, CallInv
<1> QED BY <1>1, <1>2, <1>3 DEF IInv

LEMMA ReadStatsStep == ASSUME IInv, NEW t \in Callers, ReadStats(t) PROVE IInv'
<1>1. tune[t] = Idle /\ Idle \in Calls /\ CallInv(Idle)
  BY IdleCall DEF IInv, ReadStats
<1>2. tune'[t] = [Idle EXCEPT !.at = "next",
                              !.todo = {d \in TunedDetectors : Total(feedback[d]) > 0}]
  BY DEF IInv, TunerTypeOK, ReadStats
<1>3. tune'[t] \in Calls
  BY <1>1, <1>2 DEF Calls, IInv, TunerTypeOK
<1>4. TunerTypeOK'
  BY <1>3 DEF IInv, TunerTypeOK, ReadStats
<1>5. CallInv(tune'[t])
  BY <1>1, <1>2 DEF CallInv, AtMost, IInv, TunerTypeOK, Counts, Idle
<1>6. /\ UNCHANGED <<feedback, adjusted>>
      /\ \A u \in Callers \ {t} : tune'[u] = tune[u]
  BY DEF IInv, TunerTypeOK, ReadStats
<1> QED BY <1>4, <1>5, <1>6, SameFeedback DEF IInv

LEMMA ReadCountsStep ==
    ASSUME IInv, NEW t \in Callers, NEW d \in TunedDetectors, ReadCounts(t, d) PROVE IInv'
<1>1. /\ tune[t] \in Calls /\ CallInv(tune[t]) /\ tune[t].at = "next"
      /\ tune'[t] = [tune[t] EXCEPT !.stats[d] = feedback[d]]
  BY DEF IInv, TunerTypeOK, ReadCounts
<1>2. tune'[t].stats = [tune[t].stats EXCEPT ![d] = feedback[d]]
  BY <1>1 DEF Calls
<1>3. tune'[t].stats \in [TunedDetectors -> Counts]
  BY <1>1, <1>2 DEF Calls, IInv, TunerTypeOK
<1>4. tune'[t] \in Calls
  BY <1>1, <1>2, <1>3 DEF Calls
<1>5. TunerTypeOK'
  BY <1>4 DEF IInv, TunerTypeOK, ReadCounts
<1>6. \A e \in TunedDetectors : AtMost(tune'[t].stats[e], feedback[e])
  BY <1>1, <1>2 DEF CallInv, AtMost, Calls, Counts, IInv, TunerTypeOK
<1>7. CallInv(tune'[t])
  BY <1>1, <1>6 DEF CallInv, Calls
<1>8. /\ UNCHANGED <<feedback, adjusted>>
      /\ \A u \in Callers \ {t} : tune'[u] = tune[u]
  BY DEF IInv, TunerTypeOK, ReadCounts
<1> QED BY <1>5, <1>7, <1>8, SameFeedback DEF IInv

(* A call that is done with a detector drops its statistics.               *)
LEMMA StatsDropped ==
    ASSUME IInv, NEW t \in Callers, NEW d \in TunedDetectors,
           NEW stats, stats = [tune[t].stats EXCEPT ![d] = NoStats[d]]
    PROVE  /\ stats \in [TunedDetectors -> Counts]
           /\ \A e \in TunedDetectors : AtMost(stats[e], feedback[e])
<1>1. tune[t] \in Calls /\ CallInv(tune[t])
  BY DEF IInv, TunerTypeOK
<1>2. NoStats[d] \in Counts /\ AtMost(NoStats[d], feedback[d])
  BY TunerAssumption DEF NoStats, Counts, AtMost, IInv, TunerTypeOK
<1> QED BY <1>1, <1>2 DEF Calls, CallInv

LEMMA SkipStep ==
    ASSUME IInv, NEW t \in Callers, NEW d \in TunedDetectors, Skip(t, d) PROVE IInv'
<1>1. /\ tune'[t] = [tune[t] EXCEPT !.todo = @ \ {d}, !.stats[d] = NoStats[d]]
      /\ tune[t] \in Calls /\ tune[t].at = "next"
  BY DEF IInv, TunerTypeOK, Skip
<1>2. tune'[t].stats = [tune[t].stats EXCEPT ![d] = NoStats[d]]
  BY <1>1 DEF Calls
<1>3. /\ tune'[t].stats \in [TunedDetectors -> Counts]
      /\ \A e \in TunedDetectors : AtMost(tune'[t].stats[e], feedback[e])
  BY <1>2, StatsDropped
<1>4. tune'[t] \in Calls
  BY <1>1, <1>2, <1>3 DEF Calls
<1>5. TunerTypeOK'
  BY <1>4 DEF IInv, TunerTypeOK, Skip
<1>6. CallInv(tune'[t])
  <2>1. CallInv(tune[t])
    BY DEF IInv
  <2>2. tune'[t].at = "next" /\ tune'[t].pending = tune[t].pending
    BY <1>1 DEF Calls
  <2> QED BY <1>3, <2>1, <2>2 DEF CallInv
<1>7. /\ UNCHANGED <<feedback, adjusted>>
      /\ \A u \in Callers \ {t} : tune'[u] = tune[u]
  BY DEF IInv, TunerTypeOK, Skip
<1> QED BY <1>5, <1>6, <1>7, SameFeedback DEF IInv

LEMMA ReadRowStep ==
    ASSUME IInv, NEW t \in Callers, NEW d \in TunedDetectors, ReadRow(t, d) PROVE IInv'
<1>1. /\ tune[t] \in Calls /\ CallInv(tune[t]) /\ Enough(tune[t].stats[d])
      /\ tune'[t] = [tune[t] EXCEPT !.at = "write", !.det = d, !.row = adjusted[d],
                                    !.todo = @ \ {d}]
  BY DEF IInv, TunerTypeOK, ReadRow
<1>2. tune'[t] \in Calls
  BY <1>1 DEF Calls, IInv, TunerTypeOK
<1>3. TunerTypeOK'
  BY <1>2 DEF IInv, TunerTypeOK, ReadRow
<1>4. CallInv(tune'[t])
  BY <1>1 DEF CallInv, IInv, Calls
<1>5. /\ UNCHANGED <<feedback, adjusted>>
      /\ \A u \in Callers \ {t} : tune'[u] = tune[u]
  BY DEF IInv, TunerTypeOK, ReadRow
<1> QED BY <1>3, <1>4, <1>5, SameFeedback DEF IInv

LEMMA UpsertStep == ASSUME IInv, NEW t \in Callers, Upsert(t) PROVE IInv'
<1> DEFINE d == tune[t].det
           new == NewThreshold(tune[t].row, tune[t].stats[d])
<1>1. /\ tune[t] \in Calls /\ CallInv(tune[t]) /\ tune[t].at = "write"
      /\ tune'[t] = [tune[t] EXCEPT !.at = "next", !.det = None, !.row = Untuned,
                                    !.pending[d] = new, !.stats[d] = NoStats[d]]
  BY DEF IInv, TunerTypeOK, Upsert
<1>2. /\ d \in TunedDetectors /\ Enough(tune[t].stats[d])
      /\ AtMost(tune[t].stats[d], feedback[d])
      /\ Supported(tune[t].row, feedback[d])
  BY <1>1 DEF CallInv
<1>3. /\ tune[t].row \in TunedRows \cup {Untuned} /\ tune[t].stats[d] \in Counts
      /\ feedback[d] \in Counts
  BY <1>1, <1>2 DEF Calls, IInv, TunerTypeOK
<1>4. new \in TunedRows /\ Supported(new, feedback[d])
  BY <1>2, <1>3, StepSupported
<1> HIDE DEF new
<1>5. /\ tune'[t].stats \in [TunedDetectors -> Counts]
      /\ \A e \in TunedDetectors : AtMost(tune'[t].stats[e], feedback[e])
  <2>1. tune'[t].stats = [tune[t].stats EXCEPT ![d] = NoStats[d]]
    BY <1>1 DEF Calls
  <2> QED BY <1>2, <2>1, StatsDropped
<1>6. tune'[t] \in Calls
  <2>1. tune'[t].pending = [tune[t].pending EXCEPT ![d] = new]
    BY <1>1 DEF Calls
  <2>2. tune[t].pending \in [TunedDetectors -> TunedRows \cup {Untuned}]
    BY <1>1 DEF Calls
  <2>3. tune'[t].pending \in [TunedDetectors -> TunedRows \cup {Untuned}]
    BY <1>4, <2>1, <2>2
  <2> QED BY <1>1, <1>5, <2>3 DEF Calls
<1>7. TunerTypeOK'
  BY <1>6 DEF IInv, TunerTypeOK, Upsert
<1>8. CallInv(tune'[t])
  BY <1>1, <1>2, <1>4, <1>5 DEF CallInv, Calls
<1>9. /\ UNCHANGED <<feedback, adjusted>>
      /\ \A u \in Callers \ {t} : tune'[u] = tune[u]
  BY DEF IInv, TunerTypeOK, Upsert
<1> QED BY <1>7, <1>8, <1>9, SameFeedback DEF IInv

LEMMA BusyStep == ASSUME IInv, NEW t \in Callers, Busy(t) PROVE IInv'
<1>1. Idle \in Calls /\ CallInv(Idle)
  BY IdleCall DEF IInv
<1>2. TunerTypeOK' /\ CallInv(tune'[t])
  BY <1>1 DEF IInv, TunerTypeOK, Busy
<1>3. /\ UNCHANGED <<feedback, adjusted>>
      /\ \A u \in Callers \ {t} : tune'[u] = tune[u]
  BY DEF IInv, TunerTypeOK, Busy
<1> QED BY <1>2, <1>3, SameFeedback DEF IInv

LEMMA CommitStep == ASSUME IInv, NEW t \in Callers, Commit(t) PROVE IInv'
<1>1. Idle \in Calls /\ CallInv(Idle)
  BY IdleCall DEF IInv
<1>2. tune[t] \in Calls /\ CallInv(tune[t])
  BY DEF IInv, TunerTypeOK
<1>3. adjusted' \in [TunedDetectors -> TunedRows \cup {Untuned}]
  BY <1>2 DEF IInv, TunerTypeOK, Commit, Calls
<1>4. TunerTypeOK'
  BY <1>1, <1>3 DEF IInv, TunerTypeOK, Commit
<1>5. \A d \in TunedDetectors : Supported(adjusted'[d], feedback[d])
  BY <1>2 DEF IInv, Commit, CallInv
<1>6. /\ UNCHANGED feedback /\ CallInv(tune'[t])
      /\ \A u \in Callers \ {t} : tune'[u] = tune[u]
  BY <1>1 DEF IInv, TunerTypeOK, Commit
<1> QED BY <1>4, <1>5, <1>6, SameFeedback

LEMMA NextInvariant == IInv /\ [TunerNext]_tunerVars => IInv'
<1> SUFFICES ASSUME IInv, [TunerNext]_tunerVars PROVE IInv'
  OBVIOUS
<1>1. ASSUME NEW d \in TunedDetectors, NEW correct \in BOOLEAN, Record(d, correct) PROVE IInv'
  BY <1>1, RecordStep
<1>2. ASSUME NEW gone \in SUBSET TunedDetectors, Reset(gone) PROVE IInv'
  BY <1>2, ResetStep
<1>3. ASSUME NEW t \in Callers, ReadStats(t) PROVE IInv'
  BY <1>3, ReadStatsStep
<1>4. ASSUME NEW t \in Callers, Advance(t) PROVE IInv'
  BY <1>4, ReadCountsStep, SkipStep, ReadRowStep, UpsertStep, BusyStep, CommitStep
     DEF Advance
<1>5. CASE UNCHANGED tunerVars
  BY <1>5 DEF tunerVars, IInv, TunerTypeOK, CallInv, Supported
<1> QED BY <1>1, <1>2, <1>3, <1>4, <1>5 DEF TunerNext

(* The inductive invariant holds in every reachable state.                 *)
THEOREM InvariantHolds == TunerSpec => []IInv
<1> QED BY InitInvariant, NextInvariant, PTL DEF TunerSpec

(* No interleaving of tune() calls moves a threshold further than          *)
(* max_threshold_adjustment from the original (auto_tuner.py, tune).       *)
THEOREM TypeCorrect == TunerSpec => []TunerTypeOK
<1>1. IInv => TunerTypeOK
  BY DEF IInv
<1> QED BY <1>1, InvariantHolds, PTL

(* Every tuned threshold has its evidence in the feedback table, however   *)
(* stale the statistics and the row that tune() worked from.               *)
THEOREM TuningHasEvidence == TunerSpec => []TunedOnEvidence
<1>1. IInv => TunedOnEvidence
  BY DEF IInv, TunedOnEvidence, Supported
<1> QED BY <1>1, InvariantHolds, PTL
=============================================================================
