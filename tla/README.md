# prompt-shield: a TLA+ model of the scan engine and its state

prompt-shield scans the input of language models for prompt injection. A scan
itself is text analysis; what is hard to get right is what surrounds it: scans
from many threads over one engine, a registry that changes under them, state
that learns from scans (fatigue, feedback, tuning, the attack vault), an audit
log over one shared SQLite connection, rate limits, and feeds exchanged between
installations. These modules model that, check it with TLC and prove part of it
with TLAPS. Paths below are relative to `src/src/prompt_shield/`.

## 1. Inventory

| Component | State it keeps | Operations | Interacts with | What is hard |
|---|---|---|---|---|
| Scan engine `engine.py` | settings, scan counter | `scan`, `scan_batch`, `feedback`, `register_detector`, `unregister_detector`, threat and canary calls | every other component | scans of several threads, a pool of workers in each, strict mode, errors in any step |
| Detector registry `registry.py` | an ordered dict of detectors | `register`, `unregister`, `get`, `list_all`, discovery | engine | changed while scans run; a detector is in it before its `setup()`, and is torn down under the scans that hold it, before it leaves |
| Detectors `detectors/` | mostly none; d021 the vault, d030 rules, d006 a history, d022 and d035 a model | `setup`, `detect`, `teardown` | engine, vault | those with state |
| Rate limiter `ratelimit/limiter.py` | a deque of instants per key | `check`, `acquire`, `enforce`, `reset` | hosts | boundaries of the window, eviction of a live key, idle keys that eviction does not see |
| Fatigue tracker `fatigue/tracker.py` | per (source, detector): average, newest near-miss, hardened, samples | `observe`, `get_effective_threshold`, `reset` | engine | clock read outside the lock, cooldown, evasion by pace |
| Feedback store `feedback/feedback_store.py` | table `feedback` | `record`, statistics | engine, tuner, SQLite | connections of its own next to the shared one |
| Auto-tuner `feedback/auto_tuner.py` | table `detector_tuning` | `tune`, `get_effective_threshold`, `reset` | feedback store, engine, SQLite | read-then-write outside a transaction |
| Attack vault and feeds `vault/` | a ChromaDB collection; feed files | `query`, `store`, `remove`, `import_threats`, `export_threats`, `clear` | engine, d021, other installations | nothing is locked; partial imports; self-amplification |
| Scan history `persistence/` | table `scan_history`, one connection and its transaction | `connection`, `prune_scan_history`, migrations, `close` | engine, SQLite, feedback | a prune outside the lock, foreign keys on one connection only, crashes |
| Signature client `signatures/` | a cache file and its temporary file, installed rules | `fetch`, `apply_to_engine` | the feed's server, d030 | a feed and a signature that change one after the other, several processes on one file, crashes between two writes |
| Tool-result guard `tool_guard/` | an LRU cache of reports | `scan`, `ascan`, `sanitize_text`, `classify` | engine, adapters | a cache without a lock under the threads of a server; reports that outlive what the engine knows |
| Canary and watermark `canary/` | registered tokens | `embed`, `detect`, `strip`, `check` | engine, adapters | marks that the text holds already, partial leaks |
| Output scanners `output_scanners/` | none | `scan` | adapters | aggregation, a broken scanner, an unknown name |
| Normalization, PII | none | pure functions | detectors, guard | stages that make work for each other, overlapping spans, positions of one text used on another |
| Agent guard, integrations, API, CLI, hooks, MCP server | the MCP filter its statistics | translate calls | engine, guard | which part is read, when it is refused, calls that interleave |
| Red team `redteam/runner.py` | the campaign, the tokens used | `run` | engine, a language model | calls that fail, budget and deadline in the middle of a batch |
| Alerting, metrics, benchmarks, compliance, decoders | none that is read back | input and output | | |

What makes each correct, in a sentence: the **engine**'s report is a function of
the input and of the detectors planned; the **limiter** grants no more than its
rate and tells the truth about when to come back; the **tracker** hardens on
campaigns only, and lets go; the **tuner** stays in range, on evidence, and
settles when left alone; the **vault** forgets what it should, imports what it
is given, exports only its own; the **history** keeps every row it was given;
the **client** installs nothing unverified and reads no half-written cache; the
**guard** lets nothing through on another text's report; the **detectors** and
scanners find less in a text that holds more only for reasons that are known; a
**redaction** leaves nothing it was given to cut; a **campaign** reports what
happened, and ends.

The full list of hazards, each with its line and the properties aimed at it, is
`hazards` in `PROJECT.json`.

## 2. Modules

| Module | Models | State and actions |
|---|---|---|
| `Detection` | detectors, outcomes, settings | the constants `ScanVerdict` and `ScanEngine` share |
| `ScanVerdict` | the promise of `scan()` | `job`, `answer`: the answer is a function of input and planned detectors |
| `ScanEngine` | `scan()` from the lists to the report; `registry.py` | `registry`, `setup`, and per scan its plan, queue, running detectors and detections. `Listed`, `Plan`, `RunNext` (sequential), `Begin`/`Complete`/`Raise` (pool), `Report`; `Register` and then `SetUp`, `TearDown` and then `Unregister`. Refines `ScanVerdict` |
| `SlidingWindowLimiter` | `limiter.py` | `tracked` and `bucket` are the keys and deques of `_buckets`; `Check`, `Acquire` (grant or deny, with eviction), `Reset`, `Tick` |
| `FatigueTracker` | `tracker.py` under the scans of the engine | `entry`; a scan is `Plan` (threshold read), `Stamp` (clock read), `Observe` (under the lock), or `Abandon` |
| `AutoTuner` | `feedback_store.py`, `auto_tuner.py` | `feedback`, `adjusted` are the committed rows, `writer` SQLite's write lock; a `tune()` is `ReadStats`, `ReadCounts`, then `Skip` or `ReadRow` and `Upsert` (or `Busy`) per detector, `Commit` |
| `AttackVault` | `attack_vault.py`, `threat_feed.py`, d021, the engine's use of a vault | `entries`, `open`; `Detect`/`Store`/`Finish`, `FalsePositive`, `ClearDelete`/`ClearRecreate`, `Export`, and an import entry by entry |
| `ScanHistory` | `database.py`, `_log_scan`, `feedback`, `record` | `rows` as committed, `added`/`removed`/`writing` for the open transaction, `lock`; `Report`, or `ReportUnlogged` for listed texts and a disabled history; `Insert`, `Commit`, `LogFail`, `Prune`, `PruneCommit`, `LookUp`, `Record`, `RecordFail`, `Crash` |
| `Signatures` | `client.py`, `apply_to_engine.py`, the reload of d030 | `server` (feed and signature as served now), `call` per process, the files `tmp` and `cache` and who has them open, `rules` per engine. The two downloads, verification, opening, filling and renaming the file, the fall back to the cache, failures and crashes are steps of their own |
| `FrontEnds` | what every adapter reads of a request and makes of a report | operators: `Reads`, `RefusesInput`, `RefusesResult`, `RefusesOutput`, `Sanitizes` |
| `ToolResultGuard` | `guard.py` under the adapters, `MCPToolFilter` | `cached` and `order` are the `OrderedDict`; a request goes through `Probe`, `Touch`, `Fetch` or `Scan`, `Insert`, `Trim`, `Evict`, then `Decide`; `Gone` and `EvictNothing` are the `KeyError`s; `Learn` is the engine that changes its mind |
| `Evidence` | how the detectors d001-d035 weigh what they find | operators from a bag of findings, and the readings of five detectors that measure the text as a whole (`Measured`), to a confidence |
| `OutputScanners` | the ten output scanners and their engine | operators from the same bag |
| `Alignment` | d028: the matrix, traceback and score, next to the definition of the best local alignment | operators |
| `Redaction` | `pii/redactor.py`, `_sanitize.py`, `watermark.py`, `leak_detector.py` | operators on sequences of symbols |
| `Normalization` | `pipeline.py` | one operator per stage |
| `RedTeam` | `redteam/runner.py` | `campaign`: `Generate`, `GenerateFails`, `Test`, `Rest`, `Report`, `Rerun` |
| `TextAnalysis` | composes the six above: `Verdict` is the score and action of the engine on a text | a bench chosen at the start; texts, lists and spans grow step by step |
| `AnalysisTerms` | | the vocabulary of the proofs on `TextAnalysis`: its invariants, and what its folds and matrices compute step by step |
| `Intake` | composes the limiter, the vault and the signature client, one of which is at work in a behaviour | `gate` |
| `Judgement` | composes `TextAnalysis`, the tuner and the fatigue tracker in the same way | `part` |
| `*_proofs` | | the theorems and their lemmas; those of the limiter and of the fatigue tracker are both in `Windows_proofs` |
| `MC*` | | the constants of the instances |

A step is atomic where the code holds a lock for its whole length, where it is
one SQL statement, or where it is one call to the collection. Everything else
is several actions. Data is kept to what decides the control: an input is its
outcome for each detector, a text is its hash and its similarity to others, a
confidence an integer in hundredths, time a count of ticks. Variables marked
"history" record the past for a property and influence nothing.

## 3. Runs

| Run | Instance | Shows |
|---|---|---|
| `scan_engine` | 2 scans, 3 detectors (one to be registered), 4 settings (loop, pool, strict, monitor), 1 change of the registry, a registration or a teardown and removal | the pipeline implements `ScanVerdict` (`Refines`); no detector outlives its scan, and a report has heard every detector of the plan that was not torn down (`NothingLeftBehind`); scans end (`ScansEnd`) |
| `intake`, limiter | 3 keys, 2 tracked, 2 requests in a window of 2, clock to 3 | `WindowRate`, `RetryAfterExact`, `CheckThenAcquire`, `EvictionFollowsTails` |
| `intake`, vault | 2 installations, 4 texts on a chain of variants (an attack, its paraphrase, an echo of the paraphrase) and a weak one, one published feed, 2 stored entries, 1 dismissed text | `UniqueHashes`, `ImportComplete`, `ExportsOwnDetections`, `ContaminationBounded` |
| `intake`, feed | 2 processes with keys of their own on one cache file, 4 documents (one of two bytes, one that is no feed, one nobody signed), 3 signatures, 1 engine | `OnlyVerified`, `CacheWhole`, `RefusalHarmless` |
| `history` | 2 threads, 3 scans, retention 0, 3 half-days, strict and not, history enabled and not, texts listed and not | `AuditComplete`, `JudgedRowsStay`, `CallsReturn` |
| `guards` | every front end, 1 to 3 requests of up to 2 parts, 3 texts of which one begins like another and one is blocklisted, cache of 0 or 1, one change of the engine's mind | `JudgedBeforePassed`, `CacheBounded`, `StatsBalance`, `RequestsEnd` |
| `judgement`, analysis | 11 families of 3 to 11 kinds of findings with 3 to 9 of them (17 of questions, enough for the longest list of pairs d029 weighs), 5 of answers, lists of 5 tokens, 3 spans in 5 symbols, 6 words, 5 symbols of a response, 4 characters under each set of stages, campaigns run twice | `AlignmentExact`, `NoWholeMatchRemains`, `MarksSurvive`, `NormalizeSettles`, `ReportTrue`, `RiskNeverFalls`, `CampaignEnds` |
| `judgement`, tuner | 2 concurrent `tune()` calls, 2 detectors with up to 5 and 2 feedback rows; gates scaled to 2 rows and 1 true positive, range 1, steps +2, -1 and 0 | `TunedOnEvidence`, `TuningSettles`, thresholds in range |
| `judgement`, fatigue | 2 concurrent scans of a pair, a benign, a near-miss and a detected confidence, cooldown 2, delay at the lock up to 1; time is unbounded | `CampaignNeeded`, `EarlyRestoreBounded`, `QuietPairReleased`, `CampaignHardened` |
| `vault_cleanup` | the vault of `intake` | a false positive is not removed from the vault |
| `blocklist_gate` | the agent guard, every gate in block mode | a tool result the blocklist matches goes through |
| `sanitized_spans` | 3 spans in 5 symbols | with personal data in front, a match is left whole |
| `hidden_prefix` | the same behind 2 invisible characters | a single match is left whole: the raw text is cut at positions of the normalized one |
| `normalize_twice` | 4 characters, all stages | a second pass changes what the first has left |
| `refused_engine` | the feed of `intake` | a refused download appends the cached rules to the engine |
| `tracked_keys` | the limiter of `intake` | with every deque emptied by `check`, no key is evicted and one too many is tracked |

The last seven are violations TLC is expected to find; each quotes the sentence
it contradicts under `findings` in `PROJECT.json`.

`Intake` and `Judgement` put into one run what shares no state: a limiter, a
vault and a feed, or a text, a tuner and a tracker. In a behaviour one part is
at work, any of them, and the others rest in an initial state, so each
contributes exactly the behaviours of its own specification and the run checks
their union. Interleaving parts that neither read nor write the same variables
would multiply the states and show nothing.

**Why the bounds are enough.** The limiter needs a third key to go over a
capacity of two, a third request to be denied, and a clock that runs past a
window so that whole deques expire, under `check` or without it. In the fatigue
model ages are capped at the value beyond which the code cannot tell them apart,
so time runs for ever; two scans are what it takes to apply stamps out of order,
and three samples with `Alpha` 0.3 and `Trigger` 0.4 what it takes to harden.
Two `tune()` calls suffice to lose an update. Five verdicts on one detector
reach every case of the tuner's rule: too few, raised, lowered, and left alone
(one false positive in five), which is the usual one in the code; the second
detector is what two calls can disagree on. The gate on true positives is only
exercised with the code's own literals, and is proved in general. The vault
needs two installations for a threat to come back, two stored entries for a
chain of variants to grow (an echo is flagged only where its paraphrase is
stored), and a feed with a repeated hash for the known hashes to matter.
`OneAtWork` lets one installation at a time be in the middle of a scan, an
import or a `clear()`: installations meet only in feed files, written and read
whole, so that the orders left out lead to the same states at rest; the theorems
hold with it and without. In the history three scans let one be judged, one be
pruned and one be in flight, and retention 0 puts the cutoff inside the
calendar. In the registry one change is enough, since a removal is two steps: a
scan may be planned before, between and after them. Two processes are what it
takes to write over each other's temporary file, and a document of two bytes
under one of a single byte what it takes to tear it. A third thread at a cache
of one fills it while a second trims and a first looks up; the texts `a` and `a
b` under the names `b` and none collide as soon as a key forgets its separator.
In the analysis every family puts together the findings whose detectors share a
formula, hide one another or add up in the risk, with enough of each to reach
the cap of 1; findings of different families meet only in the risk, whose
formula each family exercises. The readings of the whole text stand each below
and above its detector's threshold, and any may take the place of any with every
addition. Alignments have needles of up to three words, one longer than some of
the texts.

**Fairness.** `FatigueTracker`: a thread that holds a stamp gets the lock, and
the clock runs on; nothing is assumed of scans being made, which the two
liveness properties name as their premises. `ScanHistory`: a thread that has
work goes on with it; SQLite's busy timeout turns a wait for the write lock
into an error. `ScanEngine`: a scan under way goes on, which assumes that
`detect()` returns or raises; the executor guarantees the rest.
`ToolResultGuard`: every thread and task is run, and a tool answers or raises.
`RedTeam`: a call to the model answers or fails and the engine returns, which
is weak fairness of the campaign as a whole; the clock moves when the code
sleeps, and may also move during every call and scan. In `Judgement` each
condition is asked of its part while that is the one at work.
`TuningSettles` needs no fairness. It has a premise: from some point on `tune()`
calls no longer overlap. Nothing in the code sees to that, and without it the
property is false: where the evidence asks for no step, two calls that overlap
for ever write back to each other what they read.

**Deadlock** is checked except in `scan_engine` (all scans may be over and the
registry's changes used up), `history` (all scans logged, the calendar at its
end), `guards` (all requests have ended), `judgement` (the text is as long as
it may get, the campaign over) and the runs expected to find a violation in the
same modules.

## 4. Proofs

The theorems hold for every value of the constants, from the named assumptions
of each module. `LimiterAssumption`, `TunerAssumption`, `HistoryAssumption`,
`SignaturesAssumption`, `VerdictAssumption`, `EngineAssumption` (no detector is
installed twice), those of `TextAnalysis` (`BenchAssumption`,
`CampaignAssumption`, `AlignmentAssumption`, `SpanAssumption`, `MarkAssumption`,
which give its constants their types: a needle is not empty, a call costs
something, a match has characters and lies in the text it was found in, which is
the normalized one, and a placeholder shares none with it) and `VaultAssumption`
(published feeds carry the hash of their text, and d021 holds a text for a
variant of itself) are implied by what constructors, configuration, `engine.py`
and the file system enforce. Three others also want something no code enforces:

* `GuardAssumption`: the separator of the cache key, a bar, tells texts from
  names, as the code hopes;
* `FatigueAssumption`: a trigger no lower than alpha, as the defaults 0.4 and
  0.3 are. Below it one near-miss would harden a pair;
* `IdAssumption`, in the vault: the id of a feed entry is the UUID of one text
  and not one this installation gave itself. Section 5 says what
  `import_threats` does with a feed that breaks it.

Each module has an inductive invariant, which is what the proofs are about:

* `ScanEngine_proofs`: `TypeCorrect`, `PoolJoined`, `EngineImplementsVerdict`. A
  report does not mention the queue, the pool or the registry it came from, so
  the invariant follows every detector of the plan: it waits, runs or is done,
  never two of these (`Apart`); one that was set up when planned stays so, and
  one that was not is still due (`Ready`); one that is torn down is noted by the
  scans that have not heard it, which alone may get another answer than its own;
  one that is done and was not torn down was found if and only if it fires, and
  in strict mode has not raised (`Heard`); and a scan that is over has nothing
  under way (`Ended`). Under the refinement mapping `Report` is the abstract
  `Return` for the plan without the detectors that were silent because they were
  not set up in time or torn down, a strict failure the abstract one, a teardown
  `TornDown`, and every other step a stutter. The score and the worst action,
  which the code finds by going through the list, equal those `ScanVerdict`
  defines over a set: lemmas on the greatest of a bounded set and on sequences
  without repetition.
* `Windows_proofs`, on the limiter: `TypeCorrect`, `RateIsRespected`,
  `RetryAfterIsExact`, `CheckCanBeReliedOn`, `EvictionFollowsTheTails`. The rate
  is a statement about grants long pruned, so it is not inductive over the
  deque. The invariant ties the two: the deque is a suffix of the grants, and
  whatever is no longer in it is a window old. For the last two, deques are in
  the order of time (`Ordered`), so that the newest stamp decides whether a key
  is live. Eviction is then fair among the keys that hold a stamp, and only
  among them; and a key that `check` has allowed keeps room until somebody
  records a request (`CheckedRoom`).
* `Windows_proofs`, on the tracker: `FatigueTypeCorrect`,
  `HardeningTakesCampaign`, `RestoreComesLate`. The entry counts no near-misses,
  so the invariant reads them off the moving average: it is zero without any and
  at most alpha after the first. The proof rests on a lemma on the rounding of
  the average, for every alpha and scale. How early a pair is restored follows
  from `Lag`: the stamp in the entry is behind the newest near-miss by at most
  one wait for the lock.
* `AutoTuner_proofs`: `TypeCorrect`, `TuningHasEvidence`. The committed rows
  do not carry it: a `tune()` commits what it computed from what it read
  earlier. The invariant says that whatever a call holds is behind the feedback
  table, which only grows, so the evidence it had then is still there.
* `AttackVault_proofs`: `TypeCorrect`, `HashesUnique`, `OwnDetectionsExported`,
  `ContaminationStaysBounded`, `ImportsComplete`. An import reads the known
  hashes once and then trusts its own set while scans, feedback and `clear()`
  change the collection. The invariant says that the set still covers the
  collection (`SeenCovers`), that a hash in it stands for an entry with that
  hash or for feed entries that are all present (`Progress`), and that the
  metadata of an entry tells who wrote it (`Traced`, `OwnFeed`, `Origin`). Of
  its own export a vault holds all or, after `clear()`, nothing (`WholeFeeds`),
  since nothing else removes an entry that was stored. Contamination is a least
  closed set, so `Contained` says it of every closed set and the theorem takes
  the least, for chains of any length.
* `ScanHistory_proofs`: `TypeCorrect`, `AuditIsComplete`, `JudgedRowsAreKept`.
  The invariant follows the row of each scan through the open transaction: what
  is pending in it belongs to the holder of the lock, or is past its retention.
  Scans of listed texts, and all scans when the history is disabled, return
  without a row, so the theorem promises none of them.
* `Signatures_proofs`: `InstalledIsVerified`, `CacheIsWhole`,
  `RefusingIsHarmless`. What a process writes is verified, but two of them may
  write into one file, and a rename moves a file another still has open. The
  invariant says who holds which name open and with how much written, so that
  without an overlap only a whole, verified document is ever renamed; and with
  one, what is torn is no longer a usable document. A call that refuses its
  download writes nothing, and loads what the cache held or nothing.
* `ToolResultGuard_proofs`: `PassedWasJudged`, `CacheStaysBounded`,
  `StatsAddUp`. What was passed says nothing of reports on their way. The
  invariant follows them: a report is filed under a key of its own text only,
  the order lists the keys of the cache once each, and a request about to
  decide holds a report on its own text. The bound counts the requests between
  insertion and the end of trimming, and the balance those between the first
  and the last counter, so each action is a lemma on what it does to the counts.

* `TextAnalysis_proofs`: what an algorithm computes from a text is
  a recursion, and the library's induction theorems are out of the prover's
  reach. The lemma `Recursion` takes their place: a function that follows a
  given step from a given start exists for every length, which a least
  counterexample shows without induction. Each fold, loop and matrix of the
  modules is one, and what holds of its rows is again shown of a least
  counterexample.
  * `RiskIsKept`. The invariant `Sound` says that the verdict is that of the
    text as it is. Findings added without a distraction, with no reading of the
    whole text lowered, are `More`; there is a lemma `...Grows` for each
    detector and output scanner, one for the alignment matrix cell by cell, and
    one for the score of the engine. Of the five detectors that measure the
    whole text the theorem says only that a reading that does not fall lets no
    verdict fall; whether a given addition lowers it is for the embedder or the
    model to say.
  * `RedactionLeavesNothing`. A stable sort is its ranks; spans are cut from the
    last to the first, so what is before the cut is as it was (`Intact`), and
    every match loses a character that no placeholder gives back, and one that
    no other overlaps loses all of them. That holds of `redact` in any text,
    since it finds its own matches; of what cuts at the positions of detections
    only where the text was normal as it came (`bench.hidden` is 0).
  * `NormalizationSettles`. One pass leaves a text `Settled`: only the
    composition can still change it, and what that does settles.
  * `MarksAreKept`. What is stripped of two texts one after the other is
    stripped of each, so a mark between words makes no difference; after each
    gap as many marks have been found as gaps were passed, and as many gaps are
    marked as there are marks or gaps. A cell of the table of common runs is
    the longest that ends there.
  * `ReportsAreTrue`. The invariant `Books` holds the books of a campaign at
    every step of it: each tally is the number of bypasses of its category among
    the results so far, and there are as many remembered prompts as bypasses, up
    to `Kept`.
  * `AlignmentIsBest`. The definition chooses among all sets of positions in
    both texts; the proof takes an alignment apart at its last pair. No
    alignment is worth more than the cell it ends at (`Bounded`), and every cell
    above zero is the worth of one that begins where the cell says, less the
    gaps behind it (`Traced`). The same tokens at other positions are worth the
    same (`AllMoved`), so the reported span holds an alignment of the reported
    score.

So every safety property of a passing run is a theorem. What TLC alone checks is
liveness under fairness (`QuietPairReleased`, `CampaignHardened`,
`TuningSettles`, `ScansEnd`, `CallsReturn`, `RequestsEnd`, `CampaignEnds`),
which the prover does not do.

In `ScanEngine`, `RunNext` names `scan[s]` where `@` would do inside a nested
`EXCEPT`: TLC and the prover read a nested `@` differently.

## 5. Observations

Met while modelling, and not claimed as violations by a run of their own:

* Limiter and tuner. A key whose deque `check` has emptied is no candidate for
  eviction (`limiter.py:101`), so an idle key may stay where a caller with
  requests in the window goes, and with it its limit; `EvictionFollowsTails`
  says when, and the run `tracked_keys` shows what it does to the bound. `check`
  reserves nothing: its answer holds until the next call on the key. The tuner
  starts from the literal 0.5 and not from the configured threshold
  (`auto_tuner.py:95`; docs/self-learning.md:298). Overlapping `tune()` calls
  may alternate between two thresholds for as long as they overlap.
* Engine and history. What the allowlist lets pass and the blocklist blocks
  leaves no row in the audit table (`engine.py:246-249`), in strict mode
  neither. A detector is torn down while scans still wait for it
  (`engine.py:499`): d022 and d035 drop their model and load it again or stay
  silent, so that the report of such a scan says nothing of them.
* Vault. Exported threats carry an empty hash, so an importer merges them
  (docs/self-learning.md:518). An import counts a hash as known after an `add()`
  that changed nothing because the id was taken (`attack_vault.py:209`): if ids
  in a feed did not name one hash, a later entry with that hash would be lost.
  A text that is detected because of an imported entry is stored and exported as
  the installation's own: entries do not circulate, but what they flag does.
  A prune that a foreign key refuses leaves its
  transaction open; feedback then fails with "database is locked".
* Guard. A cached report is returned after the engine has learned better, with
  the source, the parent and the tool of the first call (`guard.py:103`); texts
  with a bar in them can share a key; two threads can meet in a `KeyError`. A
  report of the blocklist has no detections, which is what the guard looks for.
* Signatures. The cache is never verified again and is the same file for all
  keys; an older feed that is signed is accepted; a second `apply_to_engine`
  adds its rules again; `setup()` of d030 drops those of the feed; what the
  cache answers was signed for some process that shares it, and not always for
  the one that asks; a throttle compared with a monotonic clock that starts at
  zero can skip the first fetch after boot.
* Detectors. d033 cannot reach its threshold (0.60 under 0.70), and the 5.0 of
  d035 is both its sigma and the engine's threshold, so neither is ever reported
  under the default configuration; a match that d028 scores at its threshold or
  little above gets a confidence below it, and is dropped. A rule of d030 with
  the severest level that only logs hides one that blocks; plain keywords mask
  d009, d010 and d025, an invisible character next to padded keywords lowers
  d011, a little of a foreign script keeps d031 from guessing the language, and
  prose dilutes d029, d031 and d033. Five detectors measure the text as a whole:
  d021 compares one embedding of it, d022 scores chunks whose bounds and content
  move, d027 compares windows, d031 guesses a language, d035 counts in sigmas of
  all tokens. Innocent words may lower any of these. The pivot of d029, an
  "optional confidence boost" (`d029_many_shot_structural.py:88`), lowers a full
  score: `_score` caps the boosted one at 0.99, and 32 dense pairs reach 1.00
  without it. The proof of `RiskIsKept` failed on it; the family of questions
  has 17 findings so that TLC meets it too. `RiskNeverFalls` names all these
  (`Distracted`) and shows there are no others among the modelled findings.
* Output scanners. With unknown names only, the engine reports a clean answer;
  a stray brace makes valid JSON unreadable; "number" accepts a boolean. The
  Pydantic AI and Haystack adapters look for an attribute `output_scanners` no
  engine has. The CrewAI adapter scans a redacted copy and runs the original.
* Normalization. A second pass may still compose what the first brought together
  (run `normalize_twice`); a third changes nothing (`NormalizeSettles`). It also
  strips the watermark. Detectors report positions in the text it leaves, and
  the guard cuts the text as it came (run `hidden_prefix`).
* PII. Of two matches that overlap `redact` drops one, so a part of it may stay,
  although it says "Detect and redact all PII" (`pii/redactor.py:42`).
* Red team. The tokens used are never reset, so a second `run()` starts with
  what is left; the prompts of the call that exhausts the budget are paid for
  and not tried.

## 6. Not modelled, and why

`components` in `PROJECT.json` lists every part. What a pattern matches or a
classifier scores enters as evidence: the regular expressions, embeddings,
language guesses and statistics of texts are data, of which the model keeps
what was found and how often. What the five detectors read of a text as a whole
is any number at any time. Network and file input and output, formatting,
message formats of the frameworks, the MCP protocol, and the commands that only
print are input and output. Alerts, metrics and the compliance tables are read
back by nothing; `decoders/preprocessor.py` is used by no code of the package,
and `vault.max_entries` (docs/self-learning.md:130) is read by none. The papers
under `docs/papers`, their evaluation scripts and the benchmarks are no part of
the program.

Abstractions to know of: `FatigueTracker` has one base threshold, where the
engine plans with the tuned one and observes with the configured one;
`AttackVault` runs one scan and one import per installation at a time;
`ScanEngine` takes thresholds as given, and a detector that was torn down for
one that gives its own answer, none, or raises; `TextAnalysis` takes the
defaults of `config/default.yaml`; `TextAnalysis` puts invisible characters in
front of a text and nowhere else; `RedTeam` takes a prompt for the verdict on
it, and a round of the clock for the two seconds it sleeps; `Signatures` treats
a document as atomic but for the torn bytes of two writers.

## 7. Plan

Done, in the order of importance: the engine and its refinement, the limiter,
the fatigue tracker, the tuner, the vault, the history; then the signature
client, the guard with the adapters in front of it, and the algorithms; then the
teardown of detectors, the readings of whole texts, and what is not logged. All
of the safety properties of the passing runs are proved.

Left: scan, fatigue and tuner in one module, with the two thresholds;
migrations and restart in the history; the encoded forms of a canary; two scans
and two imports at a time in the vault.
