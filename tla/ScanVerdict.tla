----------------------------- MODULE ScanVerdict -----------------------------
(***************************************************************************)
(* What PromptShieldEngine.scan() promises, without saying how: the answer *)
(* to a scan is a function of its input and of the detectors registered    *)
(* when it was planned.  It does not depend on how the detectors are run,  *)
(* in which order they finish, or on what other scans do meanwhile.        *)
(***************************************************************************)
EXTENDS Detection

VARIABLES
    options,    \* the settings of the engine
    job,        \* the input and the detectors of each scan once it is planned
    answer      \* what the scan returned

(* sure: the detectors that were set up when the scan was planned.  One    *)
(* that was not may be set up before it is called.  torn: those that were  *)
(* torn down before they had their say; one may have none, or raise.       *)
NoJob == [input |-> {}]
NoAnswer == [kind |-> "none"]
Error == [kind |-> "error"]

Fired(i, D) == {d \in D : /\ ~ Outcome[i][d].raises
                          /\ Outcome[i][d].detected
                          /\ Outcome[i][d].confidence >= Threshold[d]}

Risk(i, fired) ==
    IF fired = {} THEN 0
    ELSE LET top == CHOOSE c \in {Outcome[i][d].confidence : d \in fired} :
                        \A d \in fired : Outcome[i][d].confidence <= c
             sum == top + Bonus * (Cardinality(fired) - 1)
         IN  IF sum > 100 THEN 100 ELSE sum

Rank == [critical |-> 4, high |-> 3, medium |-> 2, low |-> 1]

Action(i, fired) ==
    IF fired = {} THEN "pass"
    ELSE IF options.monitor THEN "log"
    ELSE LET worst == CHOOSE s \in {Outcome[i][d].severity : d \in fired} :
                          \A d \in fired : Rank[Outcome[i][d].severity] <= Rank[s]
         IN  ActionFor[worst]

Report(fired, risk, action) ==
    [kind |-> "report", detections |-> fired, risk |-> risk, action |-> action]

(* The answer for input i when D are the detectors that had their say.     *)
Judged(i, D) ==
    IF i \in Allowed THEN Report({}, 0, "pass")
    ELSE IF i \in Blocked THEN Report({}, 100, "block")
    ELSE IF options.strict /\ \E d \in D : Outcome[i][d].raises THEN Error
    ELSE Report(Fired(i, D), Risk(i, Fired(i, D)), Action(i, Fired(i, D)))

Init ==
    /\ options \in Options
    /\ job = [s \in Scans |-> NoJob]
    /\ answer = [s \in Scans |-> NoAnswer]

(* A scan answered from the lists calls no detector and returns at once.   *)
Shortcut(s, i) ==
    /\ job[s] = NoJob /\ i \in Allowed \cup Blocked
    /\ job' = [job EXCEPT ![s] = [input |-> i, detectors |-> {},
                                        sure |-> {}, torn |-> {}]]
    /\ answer' = [answer EXCEPT ![s] = Judged(i, {})]
    /\ UNCHANGED options

Plan(s) ==
    /\ job[s] = NoJob
    /\ \E i \in Inputs \ (Allowed \cup Blocked), D \in SUBSET Detectors :
          \E sure, torn \in SUBSET D :
              job' = [job EXCEPT ![s] = [input |-> i, detectors |-> D,
                                         sure |-> sure, torn |-> torn]]
    /\ UNCHANGED <<options, answer>>

Unanswered == {s \in Scans : job[s] # NoJob /\ answer[s] = NoAnswer}

TornDown(d) ==
    /\ \E S \in SUBSET {s \in Unanswered : d \in job[s].detectors} :
          job' = [s \in Scans |-> IF s \in S THEN [job[s] EXCEPT !.torn = @ \cup {d}]
                                 ELSE job[s]]
    /\ UNCHANGED <<options, answer>>

Return(s) ==
    /\ s \in Unanswered
    /\ \/ \E D \in SUBSET job[s].detectors :
             /\ job[s].sure \ job[s].torn \subseteq D
             /\ answer' = [answer EXCEPT ![s] = Judged(job[s].input, D)]
       \/ /\ options.strict /\ job[s].torn # {}
          /\ answer' = [answer EXCEPT ![s] = Error]
    /\ UNCHANGED <<options, job>>

Next ==
    \/ \E s \in Scans : Plan(s) \/ Return(s) \/ \E i \in Inputs : Shortcut(s, i)
    \/ \E d \in Detectors : TornDown(d)

Spec == Init /\ [][Next]_<<options, job, answer>>
=============================================================================
