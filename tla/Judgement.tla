----------------------------- MODULE Judgement -----------------------------
(***************************************************************************)
(* How texts are judged: what the detectors and their helpers make of one  *)
(* (TextAnalysis), and the thresholds their confidences are held against,  *)
(* which feedback tunes (AutoTuner) and near-misses lower (FatigueTracker).*)
(* A confidence reaches the thresholds as a number, and they do not reach  *)
(* back: the three share no state.  A behaviour here is one of a single    *)
(* part, any of them, while the others rest where they begin.              *)
(***************************************************************************)
EXTENDS TextAnalysis, AutoTuner, FatigueTracker

VARIABLE part    \* the part at work

judgementVars == <<part, analysed, tunerVars, fatigueVars>>

(* The bench when nothing is put on it.                                    *)
Resting == CHOOSE b \in Benches : b.kind # "campaign"

JudgementInit ==
    /\ part \in {"analysis", "tuner", "fatigue"}
    /\ AnalysisInit /\ (part = "analysis" \/ bench = Resting)
    /\ TunerInit /\ FatigueInit

JudgementNext ==
    /\ UNCHANGED part
    /\ \/ part = "analysis" /\ AnalysisNext /\ UNCHANGED <<tunerVars, fatigueVars>>
       \/ part = "tuner" /\ TunerNext /\ UNCHANGED <<analysed, fatigueVars>>
       \/ part = "fatigue" /\ FatigueNext /\ UNCHANGED <<analysed, tunerVars>>

(* The fairness of each part while it is the one at work.                  *)
JudgementFairness ==
    /\ WF_analysed(part = "analysis" /\ RunCampaign)
    /\ WF_fatigueVars(part = "fatigue" /\ ClockTick)
    /\ \A t \in Threads : WF_fatigueVars(part = "fatigue" /\ Observe(t))

JudgementSpec == JudgementInit /\ [][JudgementNext]_judgementVars /\ JudgementFairness
=============================================================================
