------------------------------ MODULE Detection ------------------------------
(***************************************************************************)
(* What a scan works on, shared by the engine and by what it promises: the *)
(* detectors, what they make of each input, and the settings.              *)
(***************************************************************************)
EXTENDS Integers, FiniteSets

CONSTANTS
    Scans,        \* calls of scan()
    Inputs,
    Allowed,      \* inputs an allowlist pattern matches
    Blocked,      \* inputs a blocklist pattern matches
    Detectors,    \* the enabled detectors there can be
    Outcome,      \* Outcome[i][d]: what detect() does on the input
    Threshold,    \* the threshold each detector is held against
    Bonus,        \* scoring.ensemble_bonus, in hundredths
    ActionFor,    \* get_action_for_severity
    Options       \* the settings the engine may be built with

Severities == {"critical", "high", "medium", "low"}
Actions == {"block", "flag", "log", "pass"}

(* detect() raises, or returns whether it detected an attack, a confidence *)
(* and a severity (which the config may override).                         *)
Outcomes == [raises : BOOLEAN, detected : BOOLEAN, confidence : 0..100,
             severity : Severities]

(* max_workers is 0 when the option parallel is off.                       *)
Settings == [strict : BOOLEAN, monitor : BOOLEAN, workers : Nat]

ASSUME VerdictAssumption ==
    /\ Allowed \subseteq Inputs /\ Blocked \subseteq Inputs
    /\ Outcome \in [Inputs -> [Detectors -> Outcomes]]
    /\ Threshold \in [Detectors -> 0..100]
    /\ Bonus \in 0..100
    /\ Options \subseteq Settings
    /\ ActionFor \in [Severities -> Actions]
    /\ IsFiniteSet(Detectors)
=============================================================================
