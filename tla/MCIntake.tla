------------------------------ MODULE MCIntake ------------------------------
(* The three gates with the instances of their own modules.  Three keys,   *)
(* two of which may be tracked, two requests per window of two ticks.      *)
EXTENDS Intake, MCAttackVault, MCSignatures
=============================================================================
