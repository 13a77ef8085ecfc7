---------------------------- MODULE MCScanEngine ----------------------------
(* Two scans, three detectors, one of them registered at run time, and     *)
(* three inputs: one on both lists, one that makes the worst detector      *)
(* raise, and one that fires two detectors whose order of severity and of  *)
(* confidence differ, near the cap of the score.                           *)
EXTENDS ScanEngine

MCInputs == {"listed", "attack", "odd"}
MCDetectors == {"rules", "vault", "custom"}
MCInstalled == <<"rules", "vault">>

O(raises, detected, confidence, severity) ==
    [raises |-> raises, detected |-> detected, confidence |-> confidence,
     severity |-> severity]

MCOutcome == [i \in MCInputs |->
    CASE i = "attack" -> ("rules" :> O(FALSE, TRUE, 70, "medium")
                          @@ "vault" :> O(FALSE, TRUE, 90, "low")
                          @@ "custom" :> O(FALSE, TRUE, 96, "critical"))
      [] i = "odd" -> ("rules" :> O(TRUE, FALSE, 0, "high")
                       @@ "vault" :> O(FALSE, TRUE, 80, "high")
                       @@ "custom" :> O(FALSE, TRUE, 60, "low"))
      [] OTHER -> [d \in MCDetectors |-> O(FALSE, FALSE, 0, "low")]]

MCThreshold == [d \in MCDetectors |-> 70]

MCActionFor == "critical" :> "block" @@ "high" :> "block"
               @@ "medium" :> "flag" @@ "low" :> "log"

MCOptions == {[strict |-> TRUE, monitor |-> FALSE, workers |-> 2],
              [strict |-> FALSE, monitor |-> FALSE, workers |-> 2],
              [strict |-> TRUE, monitor |-> FALSE, workers |-> 0],
              [strict |-> FALSE, monitor |-> TRUE, workers |-> 0]}
=============================================================================
