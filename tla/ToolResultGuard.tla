--------------------------- MODULE ToolResultGuard ---------------------------
(***************************************************************************)
(* Requests that go through a front end of the shield, part by part, and   *)
(* the ToolResultGuard they share.  The guard keeps the reports of the     *)
(* texts it has seen in an LRU cache which takes no lock, and which the    *)
(* threads of a server, or of ascan(), use at once.  What the engine says  *)
(* of a text changes as it learns; a cached report does not.               *)
(***************************************************************************)
EXTENDS FrontEnds, Integers, FiniteSets

CONSTANTS
    Requests,     \* calls of the front end
    Texts,        \* sequences of symbols
    Names,        \* names of tools, sequences of symbols
    Bodies,       \* what a request may carry, by front end: sequences of parts
    Setups,       \* the front end, its modes, and cache_size
    Exempt,       \* MCPToolFilter.exempt_tools
    Blocklisted,  \* the texts a blocklist pattern matches
    Opinions,     \* what the engine may say of the texts
    MaxLessons,   \* bound: how often the engine changes its mind
    None

Clean == [action |-> "pass", found |-> FALSE]
Reports == {[text |-> x, action |-> v.action, found |-> v.found] : x \in Texts, v \in Verdicts}
Parts == [gate : {"input", "result", "output"}, shape : {"text", "parts", "other"},
          text : Texts, name : Names]

KeyWithoutBar(text, name) == text \o name

(* _cache_key() digests the text, the tool and its type with a bar between *)
(* them; the digest itself is taken to be injective.                       *)
CacheKey(text, name) == text \o <<"|">> \o name

Keys == {CacheKey(x, n) : x \in Texts, n \in Names}

ASSUME GuardAssumption ==
    /\ \A h \in Hosts : \A b \in Bodies[h] : b \in Seq(Parts) /\ b # <<>>
    /\ \A s \in Setups : /\ s.host \in Hosts /\ s.size \in Nat
                         /\ s.callers \subseteq Requests /\ s.mode \in Modes /\ s.resultMode \in Modes
    /\ Exempt \subseteq Names /\ Blocklisted \subseteq Texts /\ MaxLessons \in Nat
    /\ Opinions \subseteq [Texts -> Verdicts]
    /\ \A o \in Opinions : \A x \in Texts : o[x] = Listed <=> x \in Blocklisted
    /\ None \notin Reports /\ IsFiniteSet(Requests)
    \* Neither a text nor a name has a bar in it, so that one tells them apart.
    /\ \A x, y \in Texts : \A m, n \in Names : x \o <<"|">> \o m = y \o <<"|">> \o n => x = y

VARIABLES
    setup,      \* how the front end was built
    verdict,    \* what the engine would say of each text now
    lessons,    \* how often that has changed
    judged,     \* every report the engine has made
    cached,     \* the values of _cache
    order,      \* its keys, the least recently used first
    pc, body, at,   \* each request: where it is, what it carries, which part
    report,     \* the report in hand
    passed,     \* the parts let through
    stats       \* MCPToolFilter._stats

engine == <<verdict, lessons, judged>>
cache == <<cached, order>>
vars == <<setup, engine, cache, pc, body, at, report, passed, stats>>

Part(r) == body[r][at[r]]
Key(r) == CacheKey(Part(r).text, Part(r).name)
HasKey(k) == cached[k] # None
Ended == {"forwarded", "refused", "failed"}

(* The engine's report on a text as it stands.                             *)
Judge(x) == [text |-> x, action |-> verdict[x].action, found |-> verdict[x].found]

Init ==
    /\ setup \in Setups
    /\ verdict \in Opinions
    /\ lessons = 0 /\ judged = {}
    /\ cached = [k \in Keys |-> None] /\ order = <<>>
    /\ pc = [r \in Requests |-> IF r \in setup.callers THEN "new" ELSE "forwarded"]
    /\ body = [r \in Requests |-> <<>>]
    /\ at = [r \in Requests |-> 0] /\ report = [r \in Requests |-> None]
    /\ passed = [r \in Requests |-> {}]
    /\ stats = [total |-> 0, blocked |-> 0, sanitized |-> 0, passed |-> 0]

(* A call of MCPToolFilter is a task of an event loop: it hands over only  *)
(* while it waits for the tool.                                            *)
CanRun(r) ==
    setup.host = "filter" =>
        \A q \in Requests \ {r} : pc[q] \in Ended \cup {"new", "tool"}

Count(what) == IF setup.host = "filter" THEN [stats EXCEPT ![what] = @ + 1] ELSE stats

Begin(r) ==
    /\ pc[r] = "new" /\ CanRun(r)
    /\ \E b \in Bodies[setup.host] : body' = [body EXCEPT ![r] = b]
    /\ at' = [at EXCEPT ![r] = 1]
    /\ pc' = [pc EXCEPT ![r] = "part"]
    /\ stats' = Count("total")
    /\ UNCHANGED <<setup, engine, cache, report, passed>>

IsRead(r) ==
    /\ Reads(setup.host, Part(r))
    /\ setup.host = "filter" => Part(r).name \notin Exempt

IsLast(r) == at[r] = Len(body[r])

GoOnUncounted(r, p, how) ==
    /\ passed' = [passed EXCEPT ![r] = @ \cup p]
    /\ pc' = [pc EXCEPT ![r] = IF IsLast(r) THEN "forwarded"
                               ELSE IF setup.host = "filter" THEN "tool" ELSE "part"]
    /\ at' = [at EXCEPT ![r] = IF IsLast(r) THEN @ ELSE @ + 1]
    /\ stats' = IF IsLast(r) THEN Count("passed") ELSE Count(how)
    /\ UNCHANGED <<setup, cache, body>>

(* The part goes on (p: what of it is passed on); the filter calls the     *)
(* tool between the arguments and the result.                              *)
GoOn(r, p, how) ==
    /\ passed' = [passed EXCEPT ![r] = @ \cup p]
    /\ pc' = [pc EXCEPT ![r] = IF IsLast(r) THEN "forwarded"
                               ELSE IF setup.host = "filter" THEN "tool" ELSE "part"]
    /\ at' = [at EXCEPT ![r] = IF IsLast(r) THEN @ ELSE @ + 1]
    /\ stats' = IF IsLast(r) THEN Count(how) ELSE stats
    /\ UNCHANGED <<setup, cache, body>>

Raw(r) == {[part |-> Part(r), raw |-> TRUE]}
Masked(r) == {[part |-> Part(r), raw |-> FALSE]}

Refuse(r) ==
    /\ pc' = [pc EXCEPT ![r] = "refused"]
    /\ stats' = Count("blocked")
    /\ UNCHANGED <<setup, cache, body, at, passed>>

(* The call ends with an exception of the cache, or of the tool.           *)
Fail(r) ==
    /\ pc' = [pc EXCEPT ![r] = "failed"]
    /\ UNCHANGED <<setup, engine, cache, body, at, report, passed, stats>>

Skip(r) ==
    /\ pc[r] = "part" /\ CanRun(r) /\ ~ IsRead(r)
    /\ GoOn(r, Raw(r), "passed")
    /\ UNCHANGED <<engine, report>>

Refuses(part, v) ==
    CASE part.gate = "input"  -> RefusesInput(setup.host, setup.mode, v)
      [] part.gate = "result" -> RefusesResult(setup.host, setup.resultMode, v)
      [] part.gate = "output" -> RefusesOutput(setup.host, setup.mode, v)

(* engine.scan() on a prompt, a message, arguments or the model's answer.  *)
ScanText(r) ==
    /\ pc[r] = "part" /\ CanRun(r) /\ IsRead(r) /\ Part(r).gate # "result"
    /\ judged' = judged \cup {Judge(Part(r).text)}
    /\ report' = [report EXCEPT ![r] = Judge(Part(r).text)]
    /\ IF Refuses(Part(r), Judge(Part(r).text))
         THEN Refuse(r) ELSE GoOn(r, Raw(r), "passed")
    /\ UNCHANGED <<verdict, lessons>>

ToolAnswers(r) ==
    /\ pc[r] = "tool" /\ CanRun(r)
    /\ pc' = [pc EXCEPT ![r] = "part"]
    /\ UNCHANGED <<setup, engine, cache, body, at, report, passed, stats>>

ToolRaises(r) == pc[r] = "tool" /\ CanRun(r) /\ Fail(r)

Advance(r, from, to) ==
    /\ pc[r] = from /\ CanRun(r)
    /\ pc' = [pc EXCEPT ![r] = to]
    /\ UNCHANGED <<setup, verdict, lessons, body, at, passed, stats>>

(* `cache_key and cache_key in self._cache`: cache_size 0 has no key.      *)
Probe(r) ==
    /\ pc[r] = "part" /\ IsRead(r) /\ Part(r).gate = "result"
    /\ Advance(r, "part", IF setup.size > 0 /\ HasKey(Key(r)) THEN "touch" ELSE "scan")
    /\ UNCHANGED <<judged, cache, report>>

(* OrderedDict.move_to_end().                                              *)
MoveToEnd(s, k) ==
    LET at_k == CHOOSE i \in DOMAIN s : s[i] = k
    IN  [i \in DOMAIN s |-> IF i < at_k THEN s[i] ELSE IF i < Len(s) THEN s[i + 1] ELSE k]

Touch(r) ==
    /\ Advance(r, "touch", "fetch")
    /\ HasKey(Key(r))
    /\ order' = MoveToEnd(order, Key(r))
    /\ UNCHANGED <<judged, cached, report>>

Fetch(r) ==
    /\ Advance(r, "fetch", "decide")
    /\ HasKey(Key(r))
    /\ report' = [report EXCEPT ![r] = cached[Key(r)]]
    /\ UNCHANGED <<judged, cache>>

(* Another thread has evicted the key since: KeyError.                     *)
Gone(r) == pc[r] \in {"touch", "fetch"} /\ CanRun(r) /\ ~ HasKey(Key(r)) /\ Fail(r)

Scan(r) ==
    /\ Advance(r, "scan", IF setup.size > 0 THEN "insert" ELSE "decide")
    /\ judged' = judged \cup {Judge(Part(r).text)}
    /\ report' = [report EXCEPT ![r] = Judge(Part(r).text)]
    /\ UNCHANGED cache

(* A key that is there already keeps its place in the order.               *)
Insert(r) ==
    /\ Advance(r, "insert", "trim")
    /\ cached' = [cached EXCEPT ![Key(r)] = report[r]]
    /\ order' = IF HasKey(Key(r)) THEN order ELSE Append(order, Key(r))
    /\ UNCHANGED <<judged, report>>

TrimLate(r) ==
    /\ Advance(r, "trim", IF Len(order) > setup.size + 1 THEN "evict" ELSE "decide")
    /\ UNCHANGED <<judged, cache, report>>

Trim(r) ==
    /\ Advance(r, "trim", IF Len(order) > setup.size THEN "evict" ELSE "decide")
    /\ UNCHANGED <<judged, cache, report>>

EvictPeeks(r) ==
    /\ order # <<>>
    /\ Advance(r, "evict", "trim")
    /\ UNCHANGED <<judged, cache, report>>

Evict(r) ==
    /\ order # <<>>
    /\ Advance(r, "evict", "trim")
    /\ cached' = [cached EXCEPT ![Head(order)] = None]
    /\ order' = Tail(order)
    /\ UNCHANGED <<judged, report>>

(* popitem() of a dictionary the other threads have emptied: KeyError.     *)
EvictNothing(r) == pc[r] = "evict" /\ CanRun(r) /\ order = <<>> /\ Fail(r)

(* _enforce(), and what the front end makes of the report it gets back.    *)
Decide(r) ==
    /\ pc[r] = "decide" /\ CanRun(r)
    /\ IF Refuses(Part(r), report[r]) THEN Refuse(r)
       ELSE IF setup.host = "llamaindex" /\ LlamaIndexDrops(report[r])
         THEN GoOn(r, {}, "passed")
       ELSE IF Sanitizes(setup.host, setup.resultMode, report[r])
         THEN GoOn(r, Masked(r), "sanitized")
       ELSE GoOn(r, Raw(r), "passed")
    /\ UNCHANGED <<engine, report>>

(* The vault learns the text from another scan, from a feed or from        *)
(* feedback, or a false positive is taken out of it.                       *)
Learn(x) ==
    /\ lessons < MaxLessons /\ x \notin Blocklisted
    /\ \E o \in Opinions : o[x] # verdict[x] /\ verdict' = [verdict EXCEPT ![x] = o[x]]
    /\ lessons' = lessons + 1
    /\ UNCHANGED <<setup, judged, cache, pc, body, at, report, passed, stats>>

Step(r) ==
    \/ Begin(r) \/ Skip(r) \/ ScanText(r) \/ ToolAnswers(r) \/ ToolRaises(r)
    \/ Probe(r) \/ Touch(r) \/ Fetch(r) \/ Gone(r) \/ Scan(r) \/ Insert(r)
    \/ Trim(r) \/ Evict(r) \/ EvictNothing(r) \/ Decide(r)

Next == (\E r \in Requests : Step(r)) \/ (\E x \in Texts : Learn(x))

Spec == Init /\ [][Next]_vars

(* The scheduler runs every thread and task; a tool answers or raises.     *)
FairSpec == Spec /\ \A r \in Requests : WF_vars(Step(r))
-----------------------------------------------------------------------------
TypeOK ==
    /\ setup \in Setups /\ verdict \in [Texts -> Verdicts] /\ lessons \in 0..MaxLessons
    /\ judged \subseteq Reports
    /\ cached \in [Keys -> Reports \cup {None}] /\ order \in Seq(Keys)
    /\ pc \in [Requests -> Ended \cup {"new", "part", "tool", "touch", "fetch", "scan",
                                     "insert", "trim", "evict", "decide"}]
    /\ body \in [Requests -> {<<>>} \cup Bodies[setup.host]]
    /\ at \in [Requests -> Nat] /\ \A r \in Requests : at[r] <= Len(body[r])
    /\ report \in [Requests -> Reports \cup {None}]
    /\ passed \in [Requests -> SUBSET [part : Parts, raw : BOOLEAN]]
    /\ stats \in [{"total", "blocked", "sanitized", "passed"} -> Nat]

(* What keeps a part from being passed on as it is.                        *)
Stops(part, v) ==
    \/ Refuses(part, v)
    \/ part.gate = "result" /\ Sanitizes(setup.host, setup.resultMode, v)
    \/ part.gate = "result" /\ setup.host = "llamaindex" /\ LlamaIndexDrops(v)

IsReadPart(part) ==
    Reads(setup.host, part) /\ (setup.host = "filter" => part.name \notin Exempt)

(* A part that went on as it was, and that the front end reads, was let    *)
(* through on a report the engine made of that very text: never on another *)
(* text's report out of the cache, and never for want of a report after    *)
(* the cache failed.  (guard.py: scan, _cache_key.)                        *)
JudgedBeforePassed ==
    \A r \in Requests : \A p \in passed[r] :
        p.raw /\ IsReadPart(p.part) =>
            \E j \in judged : j.text = p.part.text /\ ~ Stops(p.part, j)

(* The cache outgrows cache_size by no more than the threads that are      *)
(* about to trim it, so that it fits whenever the guard is idle, and its   *)
(* order lists its keys.  (guard.py:147-150.)                              *)
CacheBounded ==
    /\ Len(order) <= setup.size + Cardinality({r \in Requests : pc[r] \in {"trim", "evict"}})
    /\ {order[i] : i \in 1..Len(order)} = {k \in Keys : HasKey(k)}

(* The statistics of the filter add up: every call is one of blocked,      *)
(* sanitized and passed, is still running, or raised.  (mcp.py: call_tool.) *)
StatsBalance ==
    setup.host = "filter" =>
        stats.total = stats.blocked + stats.sanitized + stats.passed
                      + Cardinality({r \in Requests : pc[r] \notin {"new", "forwarded", "refused"}})

(* Every request is forwarded, refused or failed in the end: no thread     *)
(* trims the cache for ever, whatever the others put in.                   *)
RequestsEnd == \A r \in Requests : <>(pc[r] \in Ended)

(* docs/configuration.md:96, "Regex blocklist - matching inputs are        *)
(* immediately blocked": with every gate in block mode no text the         *)
(* blocklist matches goes on.                                              *)
BlocklistHolds ==
    setup.mode = "block" /\ setup.resultMode = "block" =>
        \A r \in Requests : \A p \in passed[r] :
            p.raw /\ IsReadPart(p.part) => p.part.text \notin Blocklisted
=============================================================================
