------------------------------- MODULE RedTeam -------------------------------
(***************************************************************************)
(* RedTeamRunner: campaigns of prompts a model writes, tried on the        *)
(* engine until the time or the budget of tokens is used up.               *)
(***************************************************************************)
EXTENDS Integers, Sequences, FiniteSets

CONSTANTS
    Categories,   \* a sequence: active_categories
    Prompts,      \* what the model may write: [risk, action], the engine's
                  \* verdict, stands for the prompt
    MaxCost,      \* bound: tokens of one call
    MaxBatch,     \* bound: prompts of one call
    Budget,       \* max_tokens_budget
    Duration,     \* duration_minutes, in rounds of the clock
    MaxRuns,      \* bound: calls of run() on one runner
    Kept          \* how many bypasses are kept to inspire the next prompts

Names == {Categories[i] : i \in DOMAIN Categories}

ASSUME CampaignAssumption ==
    /\ Categories \in Seq(Names) /\ Categories # <<>>   \* categories or all
    /\ MaxCost \in Nat \ {0} /\ Budget \in Nat /\ Kept \in Nat

VARIABLE campaign

Fresh(used, runs) ==
    [pc |-> "loop", now |-> 0, used |-> used, runs |-> runs, index |-> 0,
     batch |-> <<>>, results |-> <<>>, tally |-> [c \in Names |-> 0], previous |-> <<>>]

CampaignInit == campaign = Fresh(0, 1)

Over == campaign.now >= Duration
Broke == campaign.used >= Budget
NextIndex == (campaign.index + 1) % Len(Categories)
Category == Categories[campaign.index + 1]

(* What a call to the model costs (nothing, when the answer does not say), *)
(* and the prompts read from its answer (none, when it is no list).        *)
Costs == 0..MaxCost
Batches == UNION {[1..n -> Prompts] : n \in 0..MaxBatch}

(* A call or a scan takes time, or none to speak of.                       *)
Elapsed == {0, 1}

(* The head of the loop; a call to the model that answers.                 *)
Generate ==
    /\ campaign.pc = "loop" /\ ~ Over /\ ~ Broke
    /\ \E cost \in Costs : \E batch \in Batches : \E elapsed \in Elapsed :
        campaign' = [campaign EXCEPT !.pc = "batch", !.batch = batch, !.used = campaign.used + cost,
                                     !.now = campaign.now + elapsed]

\* A mutant: the deadline is set again after a failure.
GenerateFailsAnew ==
    /\ campaign.pc = "loop" /\ ~ Over /\ ~ Broke
    /\ campaign' = [campaign EXCEPT !.index = NextIndex, !.now = 0]

(* One that fails: the next category is tried two seconds later.           *)
GenerateFails ==
    /\ campaign.pc = "loop" /\ ~ Over /\ ~ Broke
    /\ \E elapsed \in Elapsed :
        campaign' = [campaign EXCEPT !.index = NextIndex, !.now = campaign.now + elapsed + 1]

Result(answer) ==
    [category |-> Category,
     bypassed |-> answer.action # "error" /\ (answer.action = "pass" \/ answer.risk < 50)]

TallyNext(result) ==
    [campaign EXCEPT
        !.results = Append(campaign.results, result),
        !.tally[Categories[NextIndex + 1]] =
            @ + (IF result.bypassed THEN 1 ELSE 0),
        !.previous = IF result.bypassed THEN Append(campaign.previous, result.category)
                     ELSE campaign.previous]

Tally(result) ==
    LET grown == Append(campaign.previous, result.category)
        surplus == IF Len(grown) > Kept THEN Len(grown) - Kept ELSE 0
    IN  [campaign EXCEPT
            !.results = Append(campaign.results, result),
            !.tally[result.category] = @ + (IF result.bypassed THEN 1 ELSE 0),
            !.previous = IF result.bypassed THEN SubSeq(grown, surplus + 1, Len(grown))
                         ELSE campaign.previous]

(* What a scan comes to: its verdict, or an error.                         *)
Tried(prompt) == {prompt, [risk |-> 100, action |-> "error"]}

Test ==
    /\ campaign.pc = "batch" /\ campaign.batch # <<>> /\ ~ Over /\ ~ Broke
    /\ \E answer \in Tried(Head(campaign.batch)) : \E elapsed \in Elapsed :
        campaign' = [Tally(Result(answer)) EXCEPT
                        !.batch = Tail(campaign.batch), !.now = campaign.now + elapsed]

(* The end of the batch, or out of it.                                     *)
Rest ==
    /\ campaign.pc = "batch" /\ (campaign.batch = <<>> \/ Over \/ Broke)
    /\ campaign' = [campaign EXCEPT !.pc = "loop", !.batch = <<>>, !.now = campaign.now + 1,
                                    !.index = NextIndex]

Report ==
    /\ campaign.pc = "loop" /\ (Over \/ Broke)
    /\ campaign' = [campaign EXCEPT !.pc = "done"]

(* run() on the same runner: what it has used stays used.                  *)
Rerun ==
    /\ campaign.pc = "done" /\ campaign.runs < MaxRuns
    /\ campaign' = Fresh(campaign.used, campaign.runs + 1)

Campaign ==
    Generate \/ GenerateFails \/ Test \/ Rest \/ Report \/ Rerun
=============================================================================
