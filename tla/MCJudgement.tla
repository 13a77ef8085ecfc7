---------------------------- MODULE MCJudgement ----------------------------
(* The texts of MCTextAnalysis.  Two racing tune() calls on two detectors: *)
(* five verdicts on the first reach every case of the rule, too few,       *)
(* raised, lowered, and left alone where it was (one false positive in     *)
(* five), and one step takes a threshold to the clamp.  Two concurrent     *)
(* scans of one pair: the pairs do not share state, so that one shows all  *)
(* the interleavings that matter; the confidences fall below the band of   *)
(* near-misses, in it, and above the threshold.                            *)
EXTENDS Judgement, MCTextAnalysis, TLC

CONSTANTS d1, d2

MCTunedDetectors == {d1, d2}
MCMaxFeedback == (d1 :> [tp |-> 4, fp |-> 1]) @@ (d2 :> [tp |-> 1, fp |-> 1])
=============================================================================
