------------------------------- MODULE Intake -------------------------------
(***************************************************************************)
(* What an installation lets in from outside: the requests of its callers, *)
(* through the limiter; the threats of other installations, into its       *)
(* vault; and the documents of the signature feed, into its cache and its  *)
(* engine.  The three share no state and call nothing of each other, so    *)
(* that their interleavings show nothing that each does not show by        *)
(* itself.  A behaviour here is one of a single gate, any of them, while   *)
(* the others rest where they begin.                                       *)
(***************************************************************************)
EXTENDS SlidingWindowLimiter, AttackVault, Signatures

VARIABLE gate    \* the gate at work

(* The feed and the signature served while nothing asks for them.          *)
Resting == CHOOSE s \in [feed : Docs, sig : Signed] : TRUE

intakeVars == <<gate, limiterVars, vaultVars, feedVars>>

IntakeInit ==
    /\ gate \in {"limiter", "vault", "feed"}
    /\ LimiterInit /\ VaultInit
    /\ FeedInit /\ (gate = "feed" \/ server = Resting)

IntakeNext ==
    /\ UNCHANGED gate
    /\ \/ gate = "limiter" /\ LimiterNext /\ UNCHANGED <<vaultVars, feedVars>>
       \/ gate = "vault" /\ VaultNext /\ UNCHANGED <<limiterVars, feedVars>>
       \/ gate = "feed" /\ FeedNext /\ UNCHANGED <<limiterVars, vaultVars>>

IntakeSpec == IntakeInit /\ [][IntakeNext]_intakeVars
=============================================================================
