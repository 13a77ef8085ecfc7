----------------------------- MODULE ScanEngine -----------------------------
(***************************************************************************)
(* The scan pipeline of engine.py, from the allow- and blocklist to the    *)
(* report, and the detector registry of registry.py.                       *)
(*                                                                         *)
(* A scan takes a snapshot of the registry, then runs its detectors one    *)
(* after the other, or on a pool of max_workers threads that take them in  *)
(* the order submitted and finish in any order.  Scans of several threads  *)
(* and calls of register_detector() and unregister_detector() interleave.  *)
(* Confidences are in hundredths.  The threshold of each detector, read    *)
(* from the config, the tuner and the fatigue tracker when the plan is     *)
(* made, is given by Threshold.  A detector registered at run time is set  *)
(* up after it is in the registry; until then it answers "nothing found",  *)
(* as CustomRulesDetector does without its rules.  One that is torn down   *)
(* while scans still hold it may load its model again, find nothing, or    *)
(* raise.                                                                  *)
(***************************************************************************)
EXTENDS Detection, Sequences, SequencesExt

CONSTANTS
    Installed,             \* the detectors registered at start, in order
    MaxChanges             \* bound: how often detectors are (un)registered

ASSUME EngineAssumption ==
    /\ Installed \in Seq(Detectors) /\ IsInjective(Installed)
    /\ MaxChanges \in Nat

VARIABLES
    options,     \* the settings, fixed when the engine is built
    registry,    \* the detectors, in the order of the dict
    setup,       \* "done", or "due", or "failed", for each detector in it
    torn,        \* the detectors of the registry that were torn down
    leaving,     \* those between their teardown and their removal
    changes,     \* how often the registry was changed, to bound it
    scan,        \* the state of each scan
    running,     \* the detectors of each scan that are in detect()
    observed     \* the detectors whose confidence reached the fatigue tracker

vars == <<options, registry, setup, torn, leaving, changes, scan, running, observed>>

(* sure, early, deaf: the detectors of the plan that were set up when it   *)
(* was made, that are still to be, and whose setup failed; current: those  *)
(* that are still the instances of the registry; torn: those torn down     *)
(* before they had answered; found: the detections, in order.              *)
Fresh == [at |-> "idle", input |-> "", plan |-> {}, sure |-> {}, early |-> {},
          deaf |-> {}, current |-> {}, torn |-> {}, todo |-> <<>>, found |-> <<>>,
          risk |-> 0, action |-> "pass"]

Init ==
    /\ options \in Options
    /\ registry = Installed
    /\ setup = [d \in Detectors |-> "done"]
    /\ torn = {} /\ leaving = {}
    /\ changes = 0
    /\ scan = [s \in Scans |-> Fresh]
    /\ running = [s \in Scans |-> {}]
    /\ observed = [s \in Scans |-> {}]

-----------------------------------------------------------------------------
(* register_detector: a new instance; an existing id keeps its place in    *)
(* the dict.  One caller at a time registers a given id.                   *)
Register(d) ==
    /\ setup[d] # "due" /\ changes < MaxChanges
    /\ registry' = IF d \in ToSet(registry) THEN registry ELSE Append(registry, d)
    /\ setup' = [setup EXCEPT ![d] = "due"]
    /\ torn' = torn \ {d}
    /\ scan' = [s \in Scans |-> [scan[s] EXCEPT !.current = @ \ {d}]]
    /\ changes' = changes + 1
    /\ UNCHANGED <<options, leaving, running, observed>>

(* ... and then its setup(), whose exceptions are only logged: the         *)
(* instance stays as it is.  The scans planned with it notice.             *)
SetUp(d) ==
    /\ setup[d] = "due"
    /\ \E outcome \in {"done", "failed"} :
          /\ setup' = [setup EXCEPT ![d] = outcome]
          /\ scan' = [s \in Scans |->
                IF d \notin scan[s].early THEN scan[s]
                ELSE [scan[s] EXCEPT !.early = @ \ {d},
                                     !.deaf = IF outcome = "done" THEN @ ELSE @ \cup {d}]]
    /\ UNCHANGED <<options, registry, torn, leaving, changes, running, observed>>

Waiting(s) == ToSet(scan[s].todo) \cup running[s]

(* unregister_detector: first the teardown() of the instance in the        *)
(* registry, whose exceptions are suppressed; scans under way may still    *)
(* call it, and so may a scan planned before it is removed.  One caller at *)
(* a time unregisters a given id.                                          *)
TearDown(d) ==
    /\ d \in ToSet(registry) \ leaving /\ changes < MaxChanges
    /\ torn' = torn \cup {d} /\ leaving' = leaving \cup {d}
    /\ scan' = [s \in Scans |->
          IF d \in scan[s].current \cap Waiting(s) THEN [scan[s] EXCEPT !.torn = @ \cup {d}]
          ELSE scan[s]]
    /\ changes' = changes + 1
    /\ UNCHANGED <<options, registry, setup, running, observed>>

(* ... and then the removal of whatever has the id by now.                 *)
Unregister(d) ==
    /\ d \in leaving
    /\ leaving' = leaving \ {d}
    /\ registry' = RemoveFirst(registry, d)
    /\ UNCHANGED <<options, setup, torn, changes, scan, running, observed>>

-----------------------------------------------------------------------------
(* _check_allowlist_blocklist: the allowlist goes first.                   *)
ListedAs(s, i, risk, action) ==
    scan' = [scan EXCEPT ![s] = [Fresh EXCEPT !.at = "reported", !.input = i,
                                              !.risk = risk, !.action = action]]

Listed(s, i) ==
    /\ scan[s].at = "idle"
    /\ \/ i \in Allowed /\ ListedAs(s, i, 0, "pass")
       \/ i \in Blocked \ Allowed /\ ListedAs(s, i, 100, "block")
    /\ UNCHANGED <<options, registry, setup, torn, leaving, changes, running, observed>>

(* _build_dispatch_plan, on list_all(), a copy.                            *)
Plan(s, i) ==
    /\ scan[s].at = "idle" /\ i \notin Allowed \cup Blocked
    /\ LET At(status) == {d \in ToSet(registry) : setup[d] = status}
       IN  scan' = [scan EXCEPT ![s] = [Fresh EXCEPT
                !.at = IF options.workers > 0 /\ Len(registry) > 1 THEN "pool" ELSE "loop",
                !.input = i, !.plan = ToSet(registry), !.todo = registry,
                !.sure = At("done"), !.early = At("due"), !.deaf = At("failed"),
                !.current = ToSet(registry), !.torn = torn \cap ToSet(registry)]]
    /\ UNCHANGED <<options, registry, setup, torn, leaving, changes, running, observed>>

(* What detect() and the comparison with the threshold come to.            *)
Result(s, d) ==
    LET o == Outcome[scan[s].input][d]
        ready == d \notin scan[s].early \cup scan[s].deaf
    IN  CASE ready /\ o.raises -> "raised"
          [] ready /\ ~ o.raises /\ o.detected /\ o.confidence >= Threshold[d] -> "fired"
          [] OTHER -> "quiet"

(* ... and may come to after a teardown: d022 and d035 have no model, or   *)
(* load it again; a registered detector may raise.                         *)
Results(s, d) ==
    {Result(s, d)} \cup (IF d \in scan[s].torn THEN {"quiet", "raised"} ELSE {})

(* The detections when detector d has come to result r.                    *)
Found(s, d, r) == IF r = "fired" THEN Append(scan[s].found, d) ELSE scan[s].found

(* The confidence of a detector that raises is never observed.             *)
Observed(s, d, r) ==
    IF r = "raised" THEN observed ELSE [observed EXCEPT ![s] = @ \cup {d}]

(* _run_detectors_sequential: strict mode stops at the first that raises.  *)
RunNext(s) ==
    /\ scan[s].at = "loop" /\ scan[s].todo # <<>>
    /\ LET d == Head(scan[s].todo) IN
       \E r \in Results(s, d) :
           /\ observed' = Observed(s, d, r)
           /\ scan' = [scan EXCEPT ![s] =
                IF options.strict /\ r = "raised"
                THEN [scan[s] EXCEPT !.at = "failed", !.todo = <<>>]
                ELSE [scan[s] EXCEPT !.todo = Tail(@), !.found = Found(s, d, r)]]
    /\ UNCHANGED <<options, registry, setup, torn, leaving, changes, running>>

(* _run_detectors_parallel: a worker takes the next detector, ...          *)
Begin(s) ==
    /\ scan[s].at \in {"pool", "raising"} /\ scan[s].todo # <<>>
    /\ Cardinality(running[s]) < options.workers
    /\ running' = [running EXCEPT ![s] = @ \cup {Head(scan[s].todo)}]
    /\ scan' = [scan EXCEPT ![s].todo = Tail(@)]
    /\ UNCHANGED <<options, registry, setup, torn, leaving, changes, observed>>

(* ... finishes with it, and the scan takes the results as they come; in   *)
(* strict mode the first exception leaves the with block, which waits for  *)
(* every detector submitted.  That the scan may lag behind the workers     *)
(* changes nothing but the order of the detections, which is any here.     *)
Complete(s, d) ==
    /\ d \in running[s]
    /\ running' = [running EXCEPT ![s] = @ \ {d}]
    /\ \E r \in Results(s, d) :
           /\ observed' = Observed(s, d, r)
           /\ scan' = [scan EXCEPT ![s] =
                IF scan[s].at = "raising" THEN @
                ELSE IF options.strict /\ r = "raised" THEN [@ EXCEPT !.at = "raising"]
                ELSE [@ EXCEPT !.found = Found(s, d, r)]]
    /\ UNCHANGED <<options, registry, setup, torn, leaving, changes>>

\* A mutant: the pool is left without waiting for it.
LeavesAtOnce(s) == TRUE

\* A mutant: the scan waits for a confidence of every detector.
WaitsForAll(s) == scan[s].todo = <<>> /\ observed[s] = scan[s].plan

PoolIsDone(s) == scan[s].todo = <<>> /\ running[s] = {}

Raise(s) ==
    /\ scan[s].at = "raising" /\ PoolIsDone(s)
    /\ scan' = [scan EXCEPT ![s].at = "failed"]
    /\ UNCHANGED <<options, registry, setup, torn, leaving, changes, running, observed>>

-----------------------------------------------------------------------------
Confidence(i, d) == Outcome[i][d].confidence
Severity(i, d) == Outcome[i][d].severity

Highest(i, found) == Max({Confidence(i, d) : d \in ToSet(found)})

\* A mutant: the score is not capped.
ScoreUncapped(i, found) ==
    IF found = <<>> THEN 0 ELSE Highest(i, found) + Bonus * (Len(found) - 1)

(* The highest confidence plus a bonus for every other detection.          *)
Score(i, found) ==
    IF found = <<>> THEN 0
    ELSE LET sum == Highest(i, found) + Bonus * (Len(found) - 1)
         IN  IF sum > 100 THEN 100 ELSE sum

SeverityOrder == <<"critical", "high", "medium", "low">>

\* A mutant: the action of the first detection.
ActionOfFirst(i, found) ==
    IF found = <<>> THEN "pass" ELSE IF options.monitor THEN "log"
    ELSE ActionFor[Severity(i, Head(found))]

(* _determine_action: the first severity, from the worst, that was found.  *)
Worst(i, found) ==
    SeverityOrder[SelectInSeq(SeverityOrder,
                              LAMBDA v : \E d \in ToSet(found) : Severity(i, d) = v)]

DetermineAction(i, found) ==
    IF found = <<>> THEN "pass" ELSE IF options.monitor THEN "log"
    ELSE ActionFor[Worst(i, found)]

Report(s) ==
    /\ scan[s].at \in {"loop", "pool"} /\ PoolIsDone(s)
    /\ scan' = [scan EXCEPT ![s] =
            [@ EXCEPT !.at = "reported", !.risk = Score(scan[s].input, scan[s].found),
                      !.action = DetermineAction(scan[s].input, scan[s].found)]]
    /\ UNCHANGED <<options, registry, setup, torn, leaving, changes, running, observed>>

Advance(s) ==
    \/ RunNext(s)
    \/ Begin(s)
    \/ \E d \in Detectors : Complete(s, d)
    \/ Raise(s)
    \/ Report(s)

Next ==
    \/ \E d \in Detectors : Register(d) \/ SetUp(d) \/ TearDown(d) \/ Unregister(d)
    \/ \E s \in Scans : Advance(s) \/ \E i \in Inputs : Listed(s, i) \/ Plan(s, i)

Spec == Init /\ [][Next]_vars

(* detect() returns or raises, and a scan under way goes on.               *)
FairSpec == Spec /\ \A s \in Scans : WF_vars(Advance(s))

-----------------------------------------------------------------------------
(* The state of every variable is what the code can make it; a detector    *)
(* waits, runs or is finished, never two of these, and no more run than    *)
(* the pool has workers.                                                   *)
TypeOK ==
    /\ options \in Options
    /\ registry \in Seq(Detectors) /\ IsInjective(registry)
    /\ setup \in [Detectors -> {"done", "due", "failed"}]
    /\ torn \subseteq Detectors /\ leaving \subseteq Detectors
    /\ running \in [Scans -> SUBSET Detectors]
    /\ observed \in [Scans -> SUBSET Detectors]
    /\ \A s \in Scans :
          LET c == scan[s] IN
              /\ c.at \in {"idle", "loop", "pool", "raising", "failed", "reported"}
              /\ c.risk \in 0..100 /\ c.action \in {"block", "flag", "log", "pass"}
              /\ IsInjective(c.todo \o c.found)
              /\ Waiting(s) \cup ToSet(c.found) \subseteq c.plan
              /\ running[s] \cap ToSet(c.todo \o c.found) = {}
              /\ Cardinality(running[s]) <= options.workers

Over(s) == scan[s].at \in {"reported", "failed"}

(* The answers of the engine are those ScanVerdict allows: parallel and    *)
(* sequential execution, in any order of completion, give the same report  *)
(* as tests/test_parallel.py expects, whatever other scans do, and         *)
(* register_detector() during a scan cannot take a detector's say away.    *)
(* Only a detector that was torn down before it answered may have none.    *)
JobOf(s) ==
    IF scan[s].at = "idle" THEN [input |-> {}]
    ELSE [input |-> scan[s].input, detectors |-> scan[s].plan, sure |-> scan[s].sure,
          torn |-> scan[s].torn]

AnswerOf(s) ==
    CASE scan[s].at = "reported" ->
           [kind |-> "report", detections |-> ToSet(scan[s].found),
            risk |-> scan[s].risk, action |-> scan[s].action]
      [] scan[s].at = "failed" -> [kind |-> "error"]
      [] OTHER -> [kind |-> "none"]

Verdict == INSTANCE ScanVerdict WITH job <- [s \in Scans |-> JobOf(s)],
                                     answer <- [s \in Scans |-> AnswerOf(s)]

Refines == Verdict!Spec

(* A scan that has returned, or raised, has left no detector running or    *)
(* waiting behind it, and a report comes only after every detector of the  *)
(* plan was heard by the fatigue tracker, or raised, or was torn down: the *)
(* pool is joined on both ways out (engine.py, _run_detectors_parallel).   *)
NothingLeftBehind ==
    \A s \in Scans : Over(s) =>
        /\ scan[s].todo = <<>> /\ running[s] = {}
        /\ scan[s].at = "reported" =>
              \A d \in scan[s].plan \ (observed[s] \cup scan[s].torn) :
                  Outcome[scan[s].input][d].raises

(* A scan that was planned returns or raises, whatever is registered,      *)
(* unregistered or raised meanwhile.                                       *)
ScansEnd == \A s \in Scans : scan[s].at # "idle" ~> Over(s)
=============================================================================
