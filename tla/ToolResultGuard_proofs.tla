------------------------ MODULE ToolResultGuard_proofs ------------------------
(***************************************************************************)
(* Nothing is let through on another text's report, the cache keeps its    *)
(* size and the statistics add up, for every number of threads, every set  *)
(* of texts and tools, every cache size and every front end.               *)
(***************************************************************************)
EXTENDS ToolResultGuard, FiniteSetTheorems, TLAPS

Active == {"part", "tool", "touch", "fetch", "scan", "insert", "trim", "evict", "decide"}
AtPart == \A r \in Requests : pc[r] \in Active => at[r] \in 1..Len(body[r])

(* The order lists the keys of the cache, each once.                       *)
Once(s) == \A i, j \in 1..Len(s) : s[i] = s[j] => i = j
OrderListsKeys == Once(order) /\ {order[i] : i \in 1..Len(order)} = {k \in Keys : HasKey(k)}

(* A report is filed under a key of the text it is about, and a request    *)
(* that is about to decide holds a report on its own text.                 *)
Filed == \A k \in Keys : HasKey(k) =>
            cached[k] \in judged /\ \E n \in Names : k = CacheKey(cached[k].text, n)
Holding == {"insert", "trim", "evict", "decide"}
InHand == \A r \in Requests : pc[r] \in Holding =>
            report[r] \in judged /\ report[r].text = Part(r).text

Trimming == {r \in Requests : pc[r] \in {"trim", "evict"}}
Bounded == Len(order) <= setup.size + Cardinality(Trimming)

Running == {r \in Requests : pc[r] \notin {"new", "forwarded", "refused"}}
Balance == setup.host = "filter" =>
              stats.total = stats.blocked + stats.sanitized + stats.passed + Cardinality(Running)

(***************************************************************************)
(* The inductive invariant.  JudgedBeforePassed says nothing of reports    *)
(* that are on their way: what makes it good is that whatever the threads  *)
(* do to the cache, a report stays under the key of its text.              *)
(***************************************************************************)
IInv == /\ TypeOK /\ AtPart /\ OrderListsKeys /\ Filed /\ InHand
        /\ JudgedBeforePassed /\ Bounded /\ Balance
-----------------------------------------------------------------------------
LEMMA SetupTypes ==
    ASSUME TypeOK
    PROVE  /\ setup.host \in Hosts /\ setup.size \in Nat
           /\ \A b \in Bodies[setup.host] : b \in Seq(Parts) /\ b # <<>>
BY GuardAssumption DEF TypeOK

(* A request under way is at a part of what it carries.                    *)
LEMMA AtItsPart ==
    ASSUME TypeOK, AtPart, NEW r \in Requests, pc[r] \in Active
    PROVE  /\ Part(r) \in Parts /\ Part(r).text \in Texts /\ Part(r).name \in Names
           /\ Key(r) \in Keys /\ at[r] \in 1..Len(body[r]) /\ Len(body[r]) \in Nat
<1>1. at[r] \in 1..Len(body[r])
  BY DEF AtPart
<1>2. body[r] \in Seq(Parts)
  <2>1. body[r] # <<>>
    BY <1>1
  <2>2. body[r] \in Bodies[setup.host]
    BY <2>1 DEF TypeOK
  <2> QED BY <2>2, SetupTypes
<1>3. Part(r) \in Parts
  BY <1>1, <1>2 DEF Part
<1>4. Part(r).text \in Texts /\ Part(r).name \in Names
  BY <1>3 DEF Parts
<1> QED BY <1>1, <1>2, <1>3, <1>4 DEF Key, Keys

(* A key tells of one text only.                                           *)
LEMMA KeyOfText ==
    ASSUME NEW x \in Texts, NEW y \in Texts, NEW m \in Names, NEW n \in Names,
           CacheKey(x, m) = CacheKey(y, n)
    PROVE  x = y
BY GuardAssumption DEF CacheKey

LEMMA JudgeTypes ==
    ASSUME TypeOK, NEW x \in Texts
    PROVE  Judge(x) \in Reports /\ Judge(x).text = x /\ Judge(x) # None
<1>1. verdict[x] \in Verdicts
  BY DEF TypeOK
<1> QED BY <1>1, GuardAssumption DEF Judge, Reports

(* What moves a key to the end of the order keeps its keys and its length. *)
LEMMA MovedToEnd ==
    ASSUME NEW s \in Seq(Keys), Once(s), NEW k \in Keys, k \in {s[i] : i \in 1..Len(s)}
    PROVE  /\ MoveToEnd(s, k) \in Seq(Keys) /\ Len(MoveToEnd(s, k)) = Len(s)
           /\ Once(MoveToEnd(s, k))
           /\ {MoveToEnd(s, k)[i] : i \in 1..Len(s)} = {s[i] : i \in 1..Len(s)}
<1> DEFINE p == CHOOSE i \in DOMAIN s : s[i] = k
           t == MoveToEnd(s, k)
<1>1. PICK n \in Nat : DOMAIN s = 1..n /\ Len(s) = n
  OBVIOUS
<1>2. p \in 1..n /\ s[p] = k
  BY <1>1
<1>3. t = [i \in 1..n |-> IF i < p THEN s[i] ELSE IF i < n THEN s[i + 1] ELSE k]
  BY <1>1 DEF MoveToEnd
<1> HIDE DEF p, t
<1>4. \A i \in 1..n : t[i] \in Keys
  BY <1>1, <1>2, <1>3
<1>5. t \in Seq(Keys) /\ Len(t) = Len(s)
  BY <1>1, <1>3, <1>4
<1>6. /\ \A i \in 1..n : i < p => t[i] = s[i]
      /\ \A i \in 1..n : i >= p /\ i < n => t[i] = s[i + 1]
      /\ \A i \in 1..n : i = n => t[i] = s[p]
  <2>1. \A i \in 1..n : i < p => t[i] = s[i]
    BY <1>3
  <2>2. \A i \in 1..n : i >= p /\ i < n => t[i] = s[i + 1]
    BY <1>1, <1>2, <1>3
  <2>3. \A i \in 1..n : i = n => t[i] = k
    BY <1>1, <1>2, <1>3
  <2> QED BY <1>2, <2>1, <2>2, <2>3
<1> DEFINE from(q) == IF q < p THEN q ELSE IF q < n THEN q + 1 ELSE p
<1>7. \A q \in 1..n : from(q) \in 1..n /\ t[q] = s[from(q)]
  <2> TAKE q \in 1..n
  <2>1. CASE q < p
    BY <1>6, <2>1
  <2>2. CASE q >= p /\ q < n
    BY <1>1, <1>2, <1>6, <2>2
  <2>3. CASE q = n /\ q >= p
    BY <1>1, <1>2, <1>6, <2>3
  <2> QED BY <1>1, <1>2, <2>1, <2>2, <2>3
<1>8. ASSUME NEW i \in 1..n, NEW j \in 1..n, t[i] = t[j] PROVE i = j
  <2>1. from(i) = from(j)
    <3>1. from(i) \in 1..n /\ from(j) \in 1..n /\ s[from(i)] = s[from(j)]
      BY <1>7, <1>8
    <3> HIDE DEF from
    <3> QED BY <1>1, <3>1 DEF Once
  <2> QED BY <1>1, <1>2, <2>1
<1>9. \A i \in 1..n : \E q \in 1..n : from(q) = i
  <2> TAKE i \in 1..n
  <2>1. CASE i < p
    BY <2>1
  <2>2. CASE i = p
    <3>1. n \in 1..n /\ from(n) = p
      BY <1>1, <1>2
    <3> QED BY <2>2, <3>1
  <2>3. CASE i > p
    <3>1. i - 1 \in 1..n /\ from(i - 1) = i
      BY <1>1, <1>2, <2>3
    <3> QED BY <3>1
  <2> QED BY <1>1, <1>2, <2>1, <2>2, <2>3
<1> HIDE DEF from
<1>10. {t[i] : i \in 1..n} = {s[i] : i \in 1..n}
  <2>1. \A x : (\E i \in 1..n : x = t[i]) <=> (\E i \in 1..n : x = s[i])
    BY <1>7, <1>9
  <2> QED BY <2>1, Zenon
<1> QED BY <1>1, <1>5, <1>8, <1>10 DEF Once, t

(* Adding a request to a set of them, or taking one out.                   *)
LEMMA Counting ==
    ASSUME NEW S \in SUBSET Requests, NEW r \in Requests
    PROVE  /\ Cardinality(S) \in Nat
           /\ r \notin S => Cardinality(S \cup {r}) = Cardinality(S) + 1
           /\ r \in S => Cardinality(S) = Cardinality(S \ {r}) + 1
           /\ Cardinality(S \ {r}) \in Nat
<1>1. IsFiniteSet(S) /\ IsFiniteSet(S \ {r})
  BY GuardAssumption, FS_Subset
<1>2. Cardinality(S) \in Nat /\ Cardinality(S \ {r}) \in Nat
  BY <1>1, FS_CardinalityType
<1>3. r \notin S => Cardinality(S \cup {r}) = Cardinality(S) + 1
  BY <1>1, FS_AddElement
<1>4. r \in S => Cardinality(S) = Cardinality(S \ {r}) + 1
  BY <1>1, <1>2, FS_RemoveElement
<1> QED BY <1>2, <1>3, <1>4

StatNames == {"total", "blocked", "sanitized", "passed"}
LEMMA CountTypes ==
    ASSUME TypeOK, NEW what \in StatNames
    PROVE  /\ Count(what) \in [StatNames -> Nat]
           /\ setup.host = "filter" =>
                \A w \in StatNames : Count(what)[w] = IF w = what THEN stats[w] + 1 ELSE stats[w]
BY DEF Count, TypeOK, StatNames
-----------------------------------------------------------------------------
LEMMA InitInvariant == Init => IInv
<1> SUFFICES ASSUME Init PROVE IInv
  OBVIOUS
<1>1. \A r \in Requests : pc[r] \in {"new", "forwarded"}
  BY DEF Init
<1>2. TypeOK
  <2>1. stats \in [{"total", "blocked", "sanitized", "passed"} -> Nat]
    BY DEF Init
  <2>2. order \in Seq(Keys) /\ cached \in [Keys -> Reports \cup {None}]
    BY DEF Init
  <2>3. setup \in Setups /\ verdict \in [Texts -> Verdicts] /\ lessons \in 0..MaxLessons /\ judged \subseteq Reports
    BY GuardAssumption DEF Init
  <2>4. /\ pc \in [Requests -> Ended \cup {"new", "part", "tool", "touch", "fetch", "scan",
                                     "insert", "trim", "evict", "decide"}]
        /\ body \in [Requests -> {<<>>} \cup Bodies[setup.host]]
        /\ report \in [Requests -> Reports \cup {None}]
        /\ passed \in [Requests -> SUBSET [part : Parts, raw : BOOLEAN]]
    BY DEF Init, Ended
  <2>5. at \in [Requests -> Nat] /\ \A r \in Requests : at[r] <= Len(body[r])
    BY DEF Init
  <2> QED BY <2>1, <2>2, <2>3, <2>4, <2>5 DEF TypeOK
<1>3. AtPart /\ InHand
  BY <1>1 DEF AtPart, InHand, Active, Holding
<1>4. OrderListsKeys /\ Filed
  BY DEF Init, OrderListsKeys, Once, Filed, HasKey
<1>5. JudgedBeforePassed
  BY DEF Init, JudgedBeforePassed
<1>6. Bounded
  <2>1. Len(order) = 0 /\ setup.size \in Nat
    BY <1>2, SetupTypes DEF Init
  <2>2. Trimming = {}
    BY <1>1 DEF Trimming
  <2> QED BY <2>1, <2>2, FS_EmptySet DEF Bounded
<1>7. Balance
  <2>1. Running = {}
    BY <1>1 DEF Running
  <2>2. stats.total = 0 /\ stats.blocked = 0 /\ stats.sanitized = 0 /\ stats.passed = 0
    BY DEF Init
  <2> QED BY <2>1, <2>2, FS_EmptySet DEF Balance
<1> QED BY <1>2, <1>3, <1>4, <1>5, <1>6, <1>7 DEF IInv
-----------------------------------------------------------------------------
(* What a step leaves alone.                                               *)
Others(r) == \A b \in Requests \ {r} :
    pc'[b] = pc[b] /\ body'[b] = body[b] /\ at'[b] = at[b] /\ report'[b] = report[b]

LEMMA HandsKept ==
    ASSUME IInv, NEW r \in Requests, Others(r), judged \subseteq judged',
           pc'[r] \in Holding => report'[r] \in judged' /\ report'[r].text = Part(r)'.text
    PROVE  InHand'
BY DEF IInv, InHand, Others, Part

LEMMA PlacesKept ==
    ASSUME IInv, NEW r \in Requests, Others(r),
           pc'[r] \in Active => at'[r] \in 1..Len(body'[r])
    PROVE  AtPart'
BY DEF IInv, AtPart, Others

LEMMA FilesKept ==
    ASSUME IInv, UNCHANGED cache, judged \subseteq judged'
    PROVE  OrderListsKeys' /\ Filed'
<1>1. UNCHANGED <<order, cached>>
  BY DEF cache
<1>2. OrderListsKeys'
  BY <1>1 DEF IInv, OrderListsKeys, Once, HasKey
<1>3. Filed'
  BY <1>1 DEF IInv, Filed, HasKey
<1> QED BY <1>2, <1>3

(* Whether a report stops a part is for the setup to say, which stays.     *)
LEMMA SameSetup ==
    ASSUME UNCHANGED setup, NEW part, NEW v
    PROVE  (Stops(part, v)' <=> Stops(part, v)) /\ (IsReadPart(part)' <=> IsReadPart(part))
BY DEF Stops, Refuses, IsReadPart

LetThrough(part) ==
    IsReadPart(part) => \E j \in judged' : j.text = part.text /\ ~ Stops(part, j)

LEMMA PassedKept ==
    ASSUME IInv, NEW r \in Requests, NEW P, UNCHANGED setup, judged \subseteq judged',
           passed' = [passed EXCEPT ![r] = @ \cup P],
           \A p \in P : p.raw => LetThrough(p.part)
    PROVE  JudgedBeforePassed'
<1> SUFFICES ASSUME NEW b \in Requests, NEW p \in passed'[b], p.raw, IsReadPart(p.part)'
             PROVE  \E j \in judged' : j.text = p.part.text /\ ~ Stops(p.part, j)'
  BY DEF JudgedBeforePassed
<1>1. IsReadPart(p.part)
  BY SameSetup
<1>2. \E j \in judged' : j.text = p.part.text /\ ~ Stops(p.part, j)
  <2>1. CASE p \in passed[b]
    BY <1>1, <2>1 DEF IInv, JudgedBeforePassed
  <2>2. CASE p \in P
    BY <1>1, <2>2 DEF LetThrough
  <2> QED BY <2>1, <2>2 DEF IInv, TypeOK
<1> QED BY <1>2, SameSetup

LEMMA NonePassed ==
    ASSUME IInv, UNCHANGED <<setup, passed>>, judged \subseteq judged'
    PROVE  JudgedBeforePassed'
<1> SUFFICES ASSUME NEW b \in Requests, NEW p \in passed'[b], p.raw, IsReadPart(p.part)'
             PROVE  \E j \in judged' : j.text = p.part.text /\ ~ Stops(p.part, j)'
  BY DEF JudgedBeforePassed
<1>1. \E j \in judged' : j.text = p.part.text /\ ~ Stops(p.part, j)
  BY SameSetup DEF IInv, JudgedBeforePassed
<1> QED BY <1>1, SameSetup

LEMMA BoundKept ==
    ASSUME IInv, NEW r \in Requests, Others(r), UNCHANGED <<setup, order>>,
           pc[r] \in {"trim", "evict"} => pc'[r] \in {"trim", "evict"}
    PROVE  Bounded'
<1>1. Trimming \in SUBSET Requests
  BY DEF Trimming
<1>2. Trimming' = Trimming \/ (r \notin Trimming /\ Trimming' = Trimming \cup {r})
  BY DEF Trimming, Others
<1>3. Len(order) \in Nat /\ setup.size \in Nat
  BY SetupTypes DEF IInv, TypeOK
<1>4. CASE Trimming' = Trimming
  BY <1>4 DEF IInv, Bounded
<1>5. CASE r \notin Trimming /\ Trimming' = Trimming \cup {r}
  BY <1>1, <1>3, <1>5, Counting DEF IInv, Bounded
<1> QED BY <1>2, <1>4, <1>5

Outside == {"new", "forwarded", "refused"}
LEMMA BalanceKept ==
    ASSUME IInv, NEW r \in Requests, Others(r), UNCHANGED <<setup, stats>>,
           pc[r] \in Outside <=> pc'[r] \in Outside
    PROVE  Balance'
<1>1. Running' = Running
  BY DEF Running, Others, Outside
<1> QED BY <1>1 DEF IInv, Balance

LEMMA BalanceAtEnd ==
    ASSUME IInv, NEW r \in Requests, Others(r), UNCHANGED setup, pc[r] \notin Outside,
           pc'[r] \in Outside, NEW how \in {"blocked", "sanitized", "passed"}, stats' = Count(how)
    PROVE  Balance'
<1> SUFFICES ASSUME setup.host = "filter"
             PROVE  stats'.total = stats'.blocked + stats'.sanitized + stats'.passed
                                   + Cardinality(Running')
  BY DEF Balance
<1>1. Running' = Running \ {r} /\ r \in Running /\ Running \in SUBSET Requests
  BY DEF Running, Others, Outside
<1>2. /\ Cardinality(Running) = Cardinality(Running') + 1
      /\ Cardinality(Running) \in Nat /\ Cardinality(Running') \in Nat
  BY <1>1, Counting
<1>3. \A w \in StatNames : stats'[w] = IF w = how THEN stats[w] + 1 ELSE stats[w]
  BY CountTypes DEF IInv, StatNames
<1>4. /\ stats["total"] \in Nat /\ stats["blocked"] \in Nat /\ stats["sanitized"] \in Nat
      /\ stats["passed"] \in Nat
  BY DEF IInv, TypeOK
<1>5. stats["total"] = stats["blocked"] + stats["sanitized"] + stats["passed"] + Cardinality(Running)
  BY DEF IInv, Balance
<1>6. stats'["total"] = stats["total"]
  BY <1>3 DEF StatNames
<1>7. CASE how = "blocked"
  <2>1. /\ stats'["blocked"] = stats["blocked"] + 1 /\ stats'["sanitized"] = stats["sanitized"]
        /\ stats'["passed"] = stats["passed"]
    BY <1>3, <1>7 DEF StatNames
  <2> QED BY <1>2, <1>4, <1>5, <1>6, <2>1
<1>8. CASE how = "sanitized"
  <2>1. /\ stats'["sanitized"] = stats["sanitized"] + 1 /\ stats'["blocked"] = stats["blocked"]
        /\ stats'["passed"] = stats["passed"]
    BY <1>3, <1>8 DEF StatNames
  <2> QED BY <1>2, <1>4, <1>5, <1>6, <2>1
<1>9. CASE how = "passed"
  <2>1. /\ stats'["passed"] = stats["passed"] + 1 /\ stats'["blocked"] = stats["blocked"]
        /\ stats'["sanitized"] = stats["sanitized"]
    BY <1>3, <1>9 DEF StatNames
  <2> QED BY <1>2, <1>4, <1>5, <1>6, <2>1
<1> QED BY <1>7, <1>8, <1>9

LEMMA BalanceAtBegin ==
    ASSUME IInv, NEW r \in Requests, Others(r), UNCHANGED setup, pc[r] \in Outside,
           pc'[r] \notin Outside, stats' = Count("total")
    PROVE  Balance'
<1> SUFFICES ASSUME setup.host = "filter"
             PROVE  stats'.total = stats'.blocked + stats'.sanitized + stats'.passed
                                   + Cardinality(Running')
  BY DEF Balance
<1>1. Running' = Running \cup {r} /\ r \notin Running /\ Running \in SUBSET Requests
  BY DEF Running, Others, Outside
<1>2. Cardinality(Running') = Cardinality(Running) + 1 /\ Cardinality(Running) \in Nat
  BY <1>1, Counting
<1>3. /\ stats'["total"] = stats["total"] + 1 /\ stats'["blocked"] = stats["blocked"]
      /\ stats'["sanitized"] = stats["sanitized"] /\ stats'["passed"] = stats["passed"]
  BY CountTypes DEF IInv, StatNames
<1>4. /\ stats["total"] \in Nat /\ stats["blocked"] \in Nat /\ stats["sanitized"] \in Nat
      /\ stats["passed"] \in Nat
  BY DEF IInv, TypeOK
<1>5. stats["total"] = stats["blocked"] + stats["sanitized"] + stats["passed"] + Cardinality(Running)
  BY DEF IInv, Balance
<1>6. Cardinality(Running') \in Nat
  BY <1>2
<1> HIDE DEF Running
<1> QED BY <1>2, <1>3, <1>4, <1>5, <1>6
-----------------------------------------------------------------------------
(* The types, variable by variable, for what most steps assign.            *)
Places == Ended \cup {"new", "part", "tool", "touch", "fetch", "scan", "insert", "trim", "evict", "decide"}

LEMMA TypesKept ==
    ASSUME IInv, NEW r \in Requests, NEW to \in Places, pc' = [pc EXCEPT ![r] = to],
           UNCHANGED <<setup, verdict, lessons, body>>,
           judged' \subseteq Reports, cached' \in [Keys -> Reports \cup {None}], order' \in Seq(Keys),
           at' \in [Requests -> Nat], \A b \in Requests : at'[b] <= Len(body[b]),
           report' \in [Requests -> Reports \cup {None}],
           passed' \in [Requests -> SUBSET [part : Parts, raw : BOOLEAN]],
           stats' \in [StatNames -> Nat]
    PROVE  TypeOK'
<1>1. pc' \in [Requests -> Places]
  BY DEF IInv, TypeOK, Places
<1>2. setup' \in Setups /\ verdict' \in [Texts -> Verdicts] /\ lessons' \in 0..MaxLessons
  BY DEF IInv, TypeOK
<1>3. body' \in [Requests -> {<<>>} \cup Bodies[setup'.host]]
  BY DEF IInv, TypeOK
<1> QED BY <1>1, <1>2, <1>3 DEF TypeOK, Places, StatNames, Ended

LEMMA OldTypes ==
    ASSUME IInv
    PROVE  /\ judged \subseteq Reports /\ cached \in [Keys -> Reports \cup {None}] /\ order \in Seq(Keys)
           /\ at \in [Requests -> Nat] /\ \A b \in Requests : at[b] <= Len(body[b])
           /\ report \in [Requests -> Reports \cup {None}]
           /\ passed \in [Requests -> SUBSET [part : Parts, raw : BOOLEAN]]
           /\ stats \in [StatNames -> Nat] /\ pc \in [Requests -> Places]
BY DEF IInv, TypeOK, StatNames, Places
-----------------------------------------------------------------------------
(* The three ways a request leaves a part.                                 *)
LEMMA Going ==
    ASSUME IInv, NEW r \in Requests, pc[r] \in {"part", "decide"}, NEW P \in SUBSET [part : Parts, raw : BOOLEAN],
           NEW how \in {"sanitized", "passed"}, GoOn(r, P, how), UNCHANGED <<verdict, lessons>>,
           judged \subseteq judged', judged' \subseteq Reports,
           report' \in [Requests -> Reports \cup {None}],
           \A b \in Requests \ {r} : report'[b] = report[b],
           \A p \in P : p.raw => LetThrough(p.part)
    PROVE  IInv'
<1> DEFINE to == IF IsLast(r) THEN "forwarded" ELSE IF setup.host = "filter" THEN "tool" ELSE "part"
<1>1. /\ pc' = [pc EXCEPT ![r] = to] /\ to \in {"forwarded", "tool", "part"}
      /\ UNCHANGED <<setup, cache, body>>
      /\ at' = [at EXCEPT ![r] = IF IsLast(r) THEN @ ELSE @ + 1]
      /\ passed' = [passed EXCEPT ![r] = @ \cup P]
      /\ stats' = IF IsLast(r) THEN Count(how) ELSE stats
  BY DEF GoOn
<1>2. at[r] \in 1..Len(body[r]) /\ Len(body[r]) \in Nat /\ TypeOK
  BY AtItsPart DEF IInv, Active
<1>3. Others(r) /\ pc'[r] = to
  BY <1>1, OldTypes DEF Others
<1>4. at'[r] \in 1..Len(body[r])
  BY <1>1, <1>2, OldTypes DEF IsLast
<1>5. TypeOK'
  <2>1. at' \in [Requests -> Nat] /\ \A b \in Requests : at'[b] <= Len(body[b])
    BY <1>1, <1>2, <1>4, OldTypes
  <2>2. stats' \in [StatNames -> Nat]
    BY <1>1, <1>2, CountTypes, OldTypes DEF StatNames
  <2>3. passed' \in [Requests -> SUBSET [part : Parts, raw : BOOLEAN]]
    BY <1>1, OldTypes
  <2>4. cached' = cached /\ order' = order
    BY <1>1 DEF cache
  <2>5. to \in Places
    BY <1>1 DEF Places, Ended
  <2> HIDE DEF to
  <2> QED BY <1>1, <2>1, <2>2, <2>3, <2>4, <2>5, TypesKept, OldTypes
<1>6. AtPart'
  BY <1>1, <1>3, <1>4, PlacesKept
<1>7. OrderListsKeys' /\ Filed'
  BY <1>1, FilesKept
<1>8. InHand'
  <2>1. pc'[r] \notin Holding
    BY <1>1, <1>3 DEF Holding
  <2> QED BY <1>3, <2>1, HandsKept
<1>9. JudgedBeforePassed'
  BY <1>1, PassedKept
<1>10. Bounded'
  BY <1>1, <1>3, BoundKept DEF cache
<1>11. Balance'
  <2>1. CASE IsLast(r)
    <3>1. pc'[r] \in Outside /\ pc[r] \notin Outside
      BY <1>3, <2>1 DEF Outside
    <3> QED BY <1>1, <1>3, <2>1, <3>1, BalanceAtEnd
  <2>2. CASE ~ IsLast(r)
    <3>1. pc'[r] \notin Outside /\ pc[r] \notin Outside
      BY <1>1, <1>3, <2>2 DEF Outside
    <3> QED BY <1>1, <1>3, <2>2, <3>1, BalanceKept
  <2> QED BY <2>1, <2>2
<1> QED BY <1>5, <1>6, <1>7, <1>8, <1>9, <1>10, <1>11 DEF IInv

LEMMA Refusing ==
    ASSUME IInv, NEW r \in Requests, pc[r] \in {"part", "decide"}, Refuse(r), UNCHANGED <<verdict, lessons>>,
           judged \subseteq judged', judged' \subseteq Reports,
           report' \in [Requests -> Reports \cup {None}],
           \A b \in Requests \ {r} : report'[b] = report[b]
    PROVE  IInv'
<1>1. /\ pc' = [pc EXCEPT ![r] = "refused"] /\ stats' = Count("blocked")
      /\ UNCHANGED <<setup, cache, body, at, passed>>
  BY DEF Refuse
<1>2. Others(r) /\ pc'[r] = "refused"
  BY <1>1, OldTypes DEF Others
<1>3. TypeOK'
  <2>1. stats' \in [StatNames -> Nat]
    BY <1>1, CountTypes DEF IInv, StatNames
  <2>2. cached' = cached /\ order' = order
    BY <1>1 DEF cache
  <2>3. "refused" \in Places
    BY DEF Places, Ended
  <2> QED BY <1>1, <2>1, <2>2, <2>3, TypesKept, OldTypes
<1>4. AtPart'
  BY <1>2, PlacesKept DEF Active
<1>5. OrderListsKeys' /\ Filed'
  BY <1>1, FilesKept
<1>6. InHand'
  <2>1. pc'[r] \notin Holding
    BY <1>2 DEF Holding
  <2> QED BY <1>2, <2>1, HandsKept
<1>7. JudgedBeforePassed'
  BY <1>1, NonePassed
<1>8. Bounded'
  BY <1>1, <1>2, BoundKept DEF cache
<1>9. Balance'
  <2>1. pc'[r] \in Outside /\ pc[r] \notin Outside
    BY <1>2 DEF Outside
  <2> QED BY <1>1, <1>2, <2>1, BalanceAtEnd
<1> QED BY <1>3, <1>4, <1>5, <1>6, <1>7, <1>8, <1>9 DEF IInv

LEMMA Failing ==
    ASSUME IInv, NEW r \in Requests, Fail(r), pc[r] \in {"tool", "touch", "fetch"} \/ (pc[r] = "evict" /\ order = <<>>)
    PROVE  IInv'
<1>1. /\ pc' = [pc EXCEPT ![r] = "failed"]
      /\ UNCHANGED <<setup, verdict, lessons, judged, cached, order, cache, body, at, report, passed, stats>>
  BY DEF Fail, engine, cache
<1>2. Others(r) /\ pc'[r] = "failed"
  BY <1>1, OldTypes DEF Others
<1>3. TypeOK'
  <2>1. "failed" \in Places
    BY DEF Places, Ended
  <2> QED BY <1>1, <2>1, TypesKept, OldTypes
<1>4. AtPart'
  BY <1>2, PlacesKept DEF Active
<1>5. OrderListsKeys' /\ Filed'
  BY <1>1, FilesKept
<1>6. InHand'
  <2>1. pc'[r] \notin Holding
    BY <1>2 DEF Holding
  <2> QED BY <1>1, <1>2, <2>1, HandsKept
<1>7. JudgedBeforePassed'
  BY <1>1, NonePassed
<1>8. Bounded'
  <2>1. CASE pc[r] = "evict" /\ order = <<>>
    <3>1. Len(order') = 0 /\ setup' \in Setups /\ setup'.size \in Nat
      BY <1>1, <2>1, SetupTypes DEF IInv, TypeOK
    <3>2. Cardinality(Trimming') \in Nat
      <4>1. Trimming' \in SUBSET Requests
        BY DEF Trimming
      <4> HIDE DEF Trimming
      <4> QED BY <4>1, Counting
    <3> QED BY <3>1, <3>2 DEF Bounded
  <2>2. CASE pc[r] \in {"tool", "touch", "fetch"}
    BY <1>1, <1>2, <2>2, BoundKept
  <2> QED BY <2>1, <2>2
<1>9. Balance'
  <2>1. pc'[r] \notin Outside /\ pc[r] \notin Outside
    BY <1>2 DEF Outside
  <2> QED BY <1>1, <1>2, <2>1, BalanceKept
<1> QED BY <1>3, <1>4, <1>5, <1>6, <1>7, <1>8, <1>9 DEF IInv
-----------------------------------------------------------------------------
(* A step of the guard itself moves one request on, and neither passes     *)
(* anything on nor counts.                                                 *)
LEMMA Advancing ==
    ASSUME IInv, NEW r \in Requests, NEW from \in Active, NEW to \in Active, Advance(r, from, to),
           judged \subseteq judged', \A b \in Requests \ {r} : report'[b] = report[b]
    PROVE  /\ pc' = [pc EXCEPT ![r] = to] /\ UNCHANGED <<setup, verdict, lessons, body, at, passed, stats>>
           /\ pc[r] = from /\ pc'[r] = to /\ Others(r) /\ to \in Places
           /\ AtPart' /\ JudgedBeforePassed' /\ Balance'
<1>1. /\ pc[r] = from /\ pc' = [pc EXCEPT ![r] = to]
      /\ UNCHANGED <<setup, verdict, lessons, body, at, passed, stats>>
  BY DEF Advance
<1>2. Others(r) /\ pc'[r] = to
  BY <1>1, OldTypes DEF Others
<1>3. AtPart'
  <2>1. at'[r] \in 1..Len(body'[r])
    BY <1>1 DEF IInv, AtPart
  <2> QED BY <1>2, <2>1, PlacesKept
<1>4. JudgedBeforePassed'
  BY <1>1, NonePassed
<1>5. Balance'
  <2>1. pc'[r] \notin Outside /\ pc[r] \notin Outside
    BY <1>1, <1>2 DEF Outside, Active
  <2> QED BY <1>1, <1>2, <2>1, BalanceKept
<1>6. to \in Places
  BY DEF Active, Places
<1> QED BY <1>1, <1>2, <1>3, <1>4, <1>5, <1>6

(* A report of the engine on the part of a request.                        *)
LEMMA OnItsPart ==
    ASSUME IInv, NEW r \in Requests, pc[r] \in Active
    PROVE  /\ Part(r) \in Parts /\ Key(r) \in Keys
           /\ Judge(Part(r).text) \in Reports /\ Judge(Part(r).text).text = Part(r).text
           /\ Raw(r) \in SUBSET [part : Parts, raw : BOOLEAN]
           /\ Masked(r) \in SUBSET [part : Parts, raw : BOOLEAN]
<1>1. Part(r) \in Parts /\ Part(r).text \in Texts /\ Key(r) \in Keys
  BY AtItsPart DEF IInv
<1>2. Judge(Part(r).text) \in Reports /\ Judge(Part(r).text).text = Part(r).text
  BY <1>1, JudgeTypes DEF IInv
<1> QED BY <1>1, <1>2 DEF Raw, Masked

LEMMA BeginKeeps ==
    ASSUME IInv, NEW r \in Requests, Begin(r)
    PROVE  IInv'
<1>1. PICK b \in Bodies[setup.host] : body' = [body EXCEPT ![r] = b]
  BY DEF Begin
<1>2. /\ pc[r] = "new" /\ at' = [at EXCEPT ![r] = 1] /\ pc' = [pc EXCEPT ![r] = "part"]
      /\ stats' = Count("total")
      /\ UNCHANGED <<setup, verdict, lessons, judged, cache, cached, order, report, passed>>
  BY DEF Begin, engine, cache
<1>3. b \in Seq(Parts) /\ b # <<>> /\ Len(b) \in Nat /\ Len(b) >= 1
  <2>1. b \in Seq(Parts) /\ b # <<>>
    BY SetupTypes DEF IInv
  <2> QED BY <2>1
<1>4. /\ pc'[r] = "part" /\ body'[r] = b /\ at'[r] = 1
      /\ \A q \in Requests \ {r} :
            pc'[q] = pc[q] /\ body'[q] = body[q] /\ at'[q] = at[q] /\ report'[q] = report[q]
  BY <1>1, <1>2, OldTypes DEF IInv, TypeOK
<1>5. Others(r)
  BY <1>4 DEF Others
<1>6. TypeOK'
  <2>1. pc' \in [Requests -> Places]
    BY <1>2, OldTypes DEF Places
  <2>2. body' \in [Requests -> {<<>>} \cup Bodies[setup'.host]]
    BY <1>1, <1>2 DEF IInv, TypeOK
  <2>3. at' \in [Requests -> Nat] /\ \A q \in Requests : at'[q] <= Len(body'[q])
    BY <1>2, <1>3, <1>4, OldTypes
  <2>4. stats' \in [StatNames -> Nat]
    BY <1>2, CountTypes DEF IInv, StatNames
  <2>5. setup' \in Setups /\ verdict' \in [Texts -> Verdicts] /\ lessons' \in 0..MaxLessons
    BY <1>2 DEF IInv, TypeOK
  <2> QED BY <1>2, <2>1, <2>2, <2>3, <2>4, <2>5, OldTypes DEF TypeOK, Places, StatNames, Ended
<1>7. AtPart'
  BY <1>3, <1>4, <1>5, PlacesKept
<1>8. OrderListsKeys' /\ Filed'
  BY <1>2, FilesKept
<1>9. InHand'
  <2>1. pc'[r] \notin Holding
    BY <1>4 DEF Holding
  <2> QED BY <1>2, <1>5, <2>1, HandsKept
<1>10. JudgedBeforePassed'
  BY <1>2, NonePassed
<1>11. Bounded'
  BY <1>2, <1>5, BoundKept
<1>12. Balance'
  <2>1. pc'[r] \notin Outside /\ pc[r] \in Outside
    BY <1>2, <1>4 DEF Outside
  <2> QED BY <1>2, <1>5, <2>1, BalanceAtBegin
<1> QED BY <1>6, <1>7, <1>8, <1>9, <1>10, <1>11, <1>12 DEF IInv

LEMMA SkipKeeps ==
    ASSUME IInv, NEW r \in Requests, Skip(r)
    PROVE  IInv'
<1>1. /\ pc[r] = "part" /\ ~ IsRead(r) /\ GoOn(r, Raw(r), "passed")
      /\ UNCHANGED <<verdict, lessons, judged, report>>
  BY DEF Skip, engine
<1>2. Raw(r) \in SUBSET [part : Parts, raw : BOOLEAN]
  BY <1>1, OnItsPart DEF Active
<1>3. \A p \in Raw(r) : LetThrough(p.part)
  BY <1>1 DEF Raw, LetThrough, IsRead, IsReadPart
<1> QED BY <1>1, <1>2, <1>3, Going, OldTypes

LEMMA ScanTextKeeps ==
    ASSUME IInv, NEW r \in Requests, ScanText(r)
    PROVE  IInv'
<1> DEFINE v == Judge(Part(r).text)
<1>1. /\ pc[r] = "part" /\ Part(r).gate # "result"
      /\ judged' = judged \cup {v} /\ report' = [report EXCEPT ![r] = v]
      /\ IF Refuses(Part(r), v) THEN Refuse(r) ELSE GoOn(r, Raw(r), "passed")
      /\ UNCHANGED <<verdict, lessons>>
  BY DEF ScanText
<1>2. /\ v \in Reports /\ v.text = Part(r).text
      /\ Raw(r) \in SUBSET [part : Parts, raw : BOOLEAN]
  BY <1>1, OnItsPart DEF Active
<1> HIDE DEF v
<1>3. /\ judged \subseteq judged' /\ judged' \subseteq Reports
      /\ report' \in [Requests -> Reports \cup {None}]
      /\ \A b \in Requests \ {r} : report'[b] = report[b]
  BY <1>1, <1>2, OldTypes
<1>4. CASE Refuses(Part(r), v)
  BY <1>1, <1>3, <1>4, Refusing
<1>5. CASE ~ Refuses(Part(r), v)
  <2>1. ~ Stops(Part(r), v)
    BY <1>1, <1>5 DEF Stops
  <2>2. \A p \in Raw(r) : LetThrough(p.part)
    BY <1>1, <1>2, <2>1 DEF Raw, LetThrough
  <2> QED BY <1>1, <1>2, <1>3, <1>5, <2>2, Going
<1> QED BY <1>4, <1>5

LEMMA DecideKeeps ==
    ASSUME IInv, NEW r \in Requests, Decide(r)
    PROVE  IInv'
<1> DEFINE v == report[r]
<1>1. /\ pc[r] = "decide" /\ UNCHANGED <<verdict, lessons, judged, report>>
      /\ IF Refuses(Part(r), v) THEN Refuse(r)
         ELSE IF setup.host = "llamaindex" /\ LlamaIndexDrops(v) THEN GoOn(r, {}, "passed")
         ELSE IF Sanitizes(setup.host, setup.resultMode, v) THEN GoOn(r, Masked(r), "sanitized")
         ELSE GoOn(r, Raw(r), "passed")
  BY DEF Decide, engine
<1>2. /\ Raw(r) \in SUBSET [part : Parts, raw : BOOLEAN]
      /\ Masked(r) \in SUBSET [part : Parts, raw : BOOLEAN]
  BY <1>1, OnItsPart DEF Active
<1>3. v \in judged /\ v.text = Part(r).text
  BY <1>1 DEF IInv, InHand, Holding
<1> HIDE DEF v
<1>4. CASE Refuses(Part(r), v)
  BY <1>1, <1>4, Refusing, OldTypes
<1>5. CASE ~ Refuses(Part(r), v) /\ setup.host = "llamaindex" /\ LlamaIndexDrops(v)
  <2>1. {} \in SUBSET [part : Parts, raw : BOOLEAN] /\ \A p \in {} : LetThrough(p.part)
    OBVIOUS
  <2>2. GoOn(r, {}, "passed")
    BY <1>1, <1>5
  <2> QED BY <1>1, <2>1, <2>2, Going, OldTypes
<1>6. CASE ~ Refuses(Part(r), v) /\ ~ (setup.host = "llamaindex" /\ LlamaIndexDrops(v))
           /\ Sanitizes(setup.host, setup.resultMode, v)
  <2>1. \A p \in Masked(r) : ~ p.raw
    BY DEF Masked
  <2> QED BY <1>1, <1>2, <1>6, <2>1, Going, OldTypes
<1>7. CASE ~ Refuses(Part(r), v) /\ ~ (setup.host = "llamaindex" /\ LlamaIndexDrops(v))
           /\ ~ Sanitizes(setup.host, setup.resultMode, v)
  <2>1. ~ Stops(Part(r), v)
    BY <1>7 DEF Stops
  <2>2. \A p \in Raw(r) : LetThrough(p.part)
    BY <1>1, <1>3, <2>1 DEF Raw, LetThrough
  <2> QED BY <1>1, <1>2, <1>7, <2>2, Going, OldTypes
<1> QED BY <1>4, <1>5, <1>6, <1>7
-----------------------------------------------------------------------------
(* The steps of the guard on its cache.                                    *)
LEMMA ToolAnswersKeeps ==
    ASSUME IInv, NEW r \in Requests, ToolAnswers(r)
    PROVE  IInv'
<1>1. /\ Advance(r, "tool", "part") /\ UNCHANGED <<judged, cache, cached, order, report>>
  BY DEF ToolAnswers, Advance, engine, cache
<1>2. "tool" \in Active /\ "part" \in Active /\ \A b \in Requests \ {r} : report'[b] = report[b]
  BY <1>1 DEF Active
<1>3. /\ pc' = [pc EXCEPT ![r] = "part"] /\ UNCHANGED <<setup, verdict, lessons, body, at, passed, stats>>
      /\ pc[r] = "tool" /\ pc'[r] = "part" /\ Others(r) /\ "part" \in Places
      /\ AtPart' /\ JudgedBeforePassed' /\ Balance'
  BY <1>1, <1>2, Advancing
<1>4. TypeOK'
  BY <1>1, <1>3, TypesKept, OldTypes
<1>5. OrderListsKeys' /\ Filed'
  BY <1>1, FilesKept
<1>6. InHand'
  BY <1>1, <1>3, HandsKept DEF Holding
<1>7. Bounded'
  BY <1>1, <1>3, BoundKept
<1> QED BY <1>3, <1>4, <1>5, <1>6, <1>7 DEF IInv

LEMMA ProbeKeeps ==
    ASSUME IInv, NEW r \in Requests, Probe(r)
    PROVE  IInv'
<1> DEFINE to == IF setup.size > 0 /\ HasKey(Key(r)) THEN "touch" ELSE "scan"
<1>1. Advance(r, "part", to) /\ UNCHANGED <<judged, cache, cached, order, report>>
  BY DEF Probe, cache
<1>2. /\ "part" \in Active /\ to \in Active /\ to \notin Holding
      /\ \A b \in Requests \ {r} : report'[b] = report[b]
  BY <1>1 DEF Active, Holding
<1> HIDE DEF to
<1>3. /\ pc' = [pc EXCEPT ![r] = to] /\ UNCHANGED <<setup, verdict, lessons, body, at, passed, stats>>
      /\ pc[r] = "part" /\ pc'[r] = to /\ Others(r) /\ to \in Places
      /\ AtPart' /\ JudgedBeforePassed' /\ Balance'
  BY <1>1, <1>2, Advancing
<1>4. TypeOK'
  BY <1>1, <1>3, TypesKept, OldTypes
<1>5. OrderListsKeys' /\ Filed'
  BY <1>1, FilesKept
<1>6. InHand'
  BY <1>1, <1>2, <1>3, HandsKept
<1>7. Bounded'
  BY <1>1, <1>3, BoundKept
<1> QED BY <1>3, <1>4, <1>5, <1>6, <1>7 DEF IInv

LEMMA TouchKeeps ==
    ASSUME IInv, NEW r \in Requests, Touch(r)
    PROVE  IInv'
<1> DEFINE k == Key(r)
<1>1. /\ Advance(r, "touch", "fetch") /\ HasKey(k) /\ order' = MoveToEnd(order, k)
      /\ UNCHANGED <<judged, cached, report>>
  BY DEF Touch
<1>2. /\ "touch" \in Active /\ "fetch" \in Active /\ \A b \in Requests \ {r} : report'[b] = report[b]
  BY <1>1 DEF Active
<1>3. /\ pc' = [pc EXCEPT ![r] = "fetch"] /\ UNCHANGED <<setup, verdict, lessons, body, at, passed, stats>>
      /\ pc[r] = "touch" /\ pc'[r] = "fetch" /\ Others(r) /\ "fetch" \in Places
      /\ AtPart' /\ JudgedBeforePassed' /\ Balance'
  BY <1>1, <1>2, Advancing
<1>4. k \in Keys
  BY <1>3, AtItsPart DEF IInv, Active
<1>5. k \in {order[i] : i \in 1..Len(order)} /\ Once(order) /\ order \in Seq(Keys)
  BY <1>1, <1>4 DEF IInv, OrderListsKeys, TypeOK
<1> HIDE DEF k
<1>6. /\ order' \in Seq(Keys) /\ Len(order') = Len(order) /\ Once(order')
      /\ {order'[i] : i \in 1..Len(order)} = {order[i] : i \in 1..Len(order)}
  <2> DEFINE t == MoveToEnd(order, k)
  <2>1. /\ t \in Seq(Keys) /\ Len(t) = Len(order) /\ Once(t)
        /\ {t[i] : i \in 1..Len(order)} = {order[i] : i \in 1..Len(order)}
    BY <1>4, <1>5, MovedToEnd
  <2>2. order' = t
    BY <1>1
  <2> HIDE DEF t
  <2> QED BY <2>1, <2>2, Zenon
<1>7. TypeOK'
  BY <1>1, <1>3, <1>6, TypesKept, OldTypes
<1>8. OrderListsKeys'
  <2>1. {order'[i] : i \in 1..Len(order')} = {order[i] : i \in 1..Len(order)}
    BY <1>6
  <2>2. {q \in Keys : HasKey(q)'} = {q \in Keys : HasKey(q)}
    BY <1>1 DEF HasKey
  <2>3. {order[i] : i \in 1..Len(order)} = {q \in Keys : HasKey(q)}
    BY DEF IInv, OrderListsKeys
  <2> QED BY <1>6, <2>1, <2>2, <2>3 DEF OrderListsKeys
<1>9. Filed'
  BY <1>1 DEF IInv, Filed, HasKey
<1>10. InHand'
  BY <1>1, <1>3, HandsKept DEF Holding
<1>11. Bounded'
  <2>1. Trimming' = Trimming
    BY <1>3 DEF Trimming, Others
  <2> QED BY <1>3, <1>6, <2>1 DEF IInv, Bounded
<1> QED BY <1>3, <1>7, <1>8, <1>9, <1>10, <1>11 DEF IInv

LEMMA FetchKeeps ==
    ASSUME IInv, NEW r \in Requests, Fetch(r)
    PROVE  IInv'
<1> DEFINE k == Key(r)
<1>1. /\ Advance(r, "fetch", "decide") /\ HasKey(k) /\ report' = [report EXCEPT ![r] = cached[k]]
      /\ UNCHANGED <<judged, cache, cached, order>>
  BY DEF Fetch, cache
<1>2. /\ "fetch" \in Active /\ "decide" \in Active /\ \A b \in Requests \ {r} : report'[b] = report[b]
  BY <1>1, OldTypes DEF Active
<1>3. /\ pc' = [pc EXCEPT ![r] = "decide"] /\ UNCHANGED <<setup, verdict, lessons, body, at, passed, stats>>
      /\ pc[r] = "fetch" /\ pc'[r] = "decide" /\ Others(r) /\ "decide" \in Places
      /\ AtPart' /\ JudgedBeforePassed' /\ Balance'
  BY <1>1, <1>2, Advancing
<1>4. k \in Keys /\ Part(r).text \in Texts /\ Part(r).name \in Names
  BY <1>3, AtItsPart DEF IInv, Active
<1>5. cached[k] \in judged /\ cached[k] \in Reports /\ cached[k].text = Part(r).text
  <2>1. cached[k] \in judged /\ cached[k] \in Reports
    BY <1>1, <1>4, OldTypes DEF IInv, Filed
  <2>2. PICK n \in Names : k = CacheKey(cached[k].text, n)
    BY <1>1, <1>4 DEF IInv, Filed
  <2>3. cached[k].text \in Texts
    BY <2>1 DEF Reports
  <2>4. k = CacheKey(Part(r).text, Part(r).name)
    BY DEF Key
  <2> HIDE DEF k
  <2> QED BY <1>4, <2>1, <2>2, <2>3, <2>4, KeyOfText
<1>6. report' \in [Requests -> Reports \cup {None}] /\ report'[r] = cached[k]
  BY <1>1, <1>5, OldTypes
<1>7. TypeOK'
  BY <1>1, <1>3, <1>6, TypesKept, OldTypes
<1>8. OrderListsKeys' /\ Filed'
  BY <1>1, FilesKept
<1>9. InHand'
  <2>1. Part(r)' = Part(r)
    BY <1>3 DEF Part
  <2> QED BY <1>1, <1>3, <1>5, <1>6, <2>1, HandsKept
<1>10. Bounded'
  BY <1>1, <1>3, BoundKept
<1> QED BY <1>3, <1>7, <1>8, <1>9, <1>10 DEF IInv

LEMMA ScanKeeps ==
    ASSUME IInv, NEW r \in Requests, Scan(r)
    PROVE  IInv'
<1> DEFINE to == IF setup.size > 0 THEN "insert" ELSE "decide"
           v == Judge(Part(r).text)
<1>1. /\ Advance(r, "scan", to) /\ UNCHANGED <<cache, cached, order>>
      /\ judged' = judged \cup {v} /\ report' = [report EXCEPT ![r] = v]
  BY DEF Scan, cache
<1>2. /\ "scan" \in Active /\ to \in Active /\ judged \subseteq judged'
      /\ \A b \in Requests \ {r} : report'[b] = report[b]
  BY <1>1, OldTypes DEF Active
<1>3. v \in Reports /\ v.text = Part(r).text
  <2>1. pc[r] \in Active
    BY <1>1 DEF Advance, Active
  <2> QED BY <2>1, OnItsPart
<1> HIDE DEF to, v
<1>4. /\ pc' = [pc EXCEPT ![r] = to] /\ UNCHANGED <<setup, verdict, lessons, body, at, passed, stats>>
      /\ pc[r] = "scan" /\ pc'[r] = to /\ Others(r) /\ to \in Places
      /\ AtPart' /\ JudgedBeforePassed' /\ Balance'
  BY <1>1, <1>2, Advancing
<1>5. /\ report' \in [Requests -> Reports \cup {None}] /\ report'[r] = v /\ judged' \subseteq Reports
  BY <1>1, <1>3, OldTypes
<1>6. TypeOK'
  BY <1>1, <1>4, <1>5, TypesKept, OldTypes
<1>7. OrderListsKeys' /\ Filed'
  BY <1>1, <1>2, FilesKept
<1>8. InHand'
  <2>1. Part(r)' = Part(r)
    BY <1>4 DEF Part
  <2> QED BY <1>1, <1>2, <1>3, <1>4, <1>5, <2>1, HandsKept
<1>9. Bounded'
  BY <1>1, <1>4, BoundKept
<1> QED BY <1>4, <1>6, <1>7, <1>8, <1>9 DEF IInv
-----------------------------------------------------------------------------
(* What adds a key at the end, or takes the first one out.                 *)
LEMMA AddedAtEnd ==
    ASSUME NEW s \in Seq(Keys), Once(s), NEW k \in Keys, k \notin {s[i] : i \in 1..Len(s)}
    PROVE  /\ Append(s, k) \in Seq(Keys) /\ Len(Append(s, k)) = Len(s) + 1
           /\ Once(Append(s, k))
           /\ \A x : x \in {Append(s, k)[i] : i \in 1..Len(s) + 1} <=> x \in {s[i] : i \in 1..Len(s)} \/ x = k
<1> DEFINE t == Append(s, k)
<1>1. PICK n \in Nat : n = Len(s)
  OBVIOUS
<1>2. /\ t \in Seq(Keys) /\ Len(t) = n + 1 /\ t[n + 1] = k
      /\ \A i \in 1..n : t[i] = s[i]
  BY <1>1
<1> HIDE DEF t
<1>3. ASSUME NEW i \in 1..(n + 1), NEW j \in 1..(n + 1), t[i] = t[j] PROVE i = j
  <2>1. CASE i = n + 1 /\ j = n + 1
    BY <2>1
  <2>2. CASE i \in 1..n /\ j \in 1..n
    BY <1>1, <1>2, <1>3, <2>2 DEF Once
  <2>3. CASE i \in 1..n /\ j = n + 1
    BY <1>1, <1>2, <1>3, <2>3
  <2>4. CASE i = n + 1 /\ j \in 1..n
    BY <1>1, <1>2, <1>3, <2>4
  <2> QED BY <1>1, <2>1, <2>2, <2>3, <2>4
<1>4. Once(t)
  BY <1>2, <1>3 DEF Once
<1>5. ASSUME NEW x PROVE (\E i \in 1..(n + 1) : x = t[i]) <=> (\E i \in 1..n : x = s[i]) \/ x = k
  <2>1. (\E i \in 1..n : x = s[i]) => \E i \in 1..(n + 1) : x = t[i]
    BY <1>1, <1>2
  <2>2. x = k => \E i \in 1..(n + 1) : x = t[i]
    BY <1>1, <1>2
  <2>3. ASSUME NEW i \in 1..(n + 1), x = t[i] PROVE (\E q \in 1..n : x = s[q]) \/ x = k
    <3>1. CASE i \in 1..n
      BY <1>2, <2>3, <3>1
    <3>2. CASE i = n + 1
      BY <1>2, <2>3, <3>2
    <3> QED BY <1>1, <3>1, <3>2
  <2> QED BY <2>1, <2>2, <2>3
<1>6. \A x : x \in {t[i] : i \in 1..n + 1} <=> x \in {s[i] : i \in 1..n} \/ x = k
  BY <1>5, Zenon
<1> QED BY <1>1, <1>2, <1>4, <1>6 DEF t

LEMMA TakenFirst ==
    ASSUME NEW s \in Seq(Keys), Once(s), s # <<>>
    PROVE  /\ Head(s) \in Keys /\ Tail(s) \in Seq(Keys) /\ Len(Tail(s)) = Len(s) - 1 /\ Len(s) \in Nat
           /\ Once(Tail(s))
           /\ \A x : x \in {Tail(s)[i] : i \in 1..Len(s) - 1} <=> x \in {s[i] : i \in 1..Len(s)} /\ x # Head(s)
<1> DEFINE t == Tail(s)
<1>1. PICK n \in Nat : n = Len(s) - 1 /\ Len(s) = n + 1
  OBVIOUS
<1>2. /\ t \in Seq(Keys) /\ Len(t) = n /\ Head(s) = s[1] /\ Head(s) \in Keys
      /\ \A i \in 1..n : t[i] = s[i + 1]
  BY <1>1
<1> HIDE DEF t
<1>3. Once(t)
  <2> SUFFICES ASSUME NEW i \in 1..n, NEW j \in 1..n, t[i] = t[j] PROVE i = j
    BY <1>2 DEF Once
  <2>1. s[i + 1] = s[j + 1] /\ i + 1 \in 1..Len(s) /\ j + 1 \in 1..Len(s)
    BY <1>1, <1>2
  <2>2. i + 1 = j + 1
    BY <2>1 DEF Once
  <2> QED BY <2>2
<1>4. ASSUME NEW x PROVE (\E i \in 1..n : x = t[i]) <=> (\E i \in 1..(n + 1) : x = s[i]) /\ x # s[1]
  <2>1. ASSUME NEW i \in 1..n, x = t[i] PROVE (\E q \in 1..(n + 1) : x = s[q]) /\ x # s[1]
    <3>1. x = s[i + 1] /\ i + 1 \in 1..Len(s) /\ 1 \in 1..Len(s) /\ i + 1 # 1
      BY <1>1, <1>2, <2>1
    <3> QED BY <1>1, <3>1 DEF Once
  <2>2. ASSUME NEW i \in 1..(n + 1), x = s[i], x # s[1] PROVE \E q \in 1..n : x = t[q]
    <3>1. i - 1 \in 1..n /\ t[i - 1] = s[i]
      BY <1>1, <1>2, <2>2
    <3> QED BY <2>2, <3>1
  <2> QED BY <2>1, <2>2
<1>5. \A x : x \in {t[i] : i \in 1..n} <=> x \in {s[i] : i \in 1..(n + 1)} /\ x # Head(s)
  <2>1. \A x : x \in {t[i] : i \in 1..n} <=> x \in {s[i] : i \in 1..(n + 1)} /\ x # s[1]
    BY <1>4, Zenon
  <2> QED BY <1>2, <2>1, Zenon
<1> QED BY <1>1, <1>2, <1>3, <1>5 DEF t

LEMMA InsertKeeps ==
    ASSUME IInv, NEW r \in Requests, Insert(r)
    PROVE  IInv'
<1> DEFINE k == Key(r)
<1>1. /\ Advance(r, "insert", "trim") /\ cached' = [cached EXCEPT ![k] = report[r]]
      /\ order' = IF HasKey(k) THEN order ELSE Append(order, k)
      /\ UNCHANGED <<judged, report>>
  BY DEF Insert
<1>2. "insert" \in Active /\ "trim" \in Active /\ \A b \in Requests \ {r} : report'[b] = report[b]
  BY <1>1 DEF Active
<1>3. /\ pc' = [pc EXCEPT ![r] = "trim"] /\ UNCHANGED <<setup, verdict, lessons, body, at, passed, stats>>
      /\ pc[r] = "insert" /\ pc'[r] = "trim" /\ Others(r) /\ "trim" \in Places
      /\ AtPart' /\ JudgedBeforePassed' /\ Balance'
  BY <1>1, <1>2, Advancing
<1>4. k \in Keys /\ Part(r).name \in Names /\ k = CacheKey(Part(r).text, Part(r).name)
  BY <1>3, AtItsPart DEF IInv, Active, Key
<1>5. report[r] \in judged /\ report[r].text = Part(r).text
  BY <1>3 DEF IInv, InHand, Holding
<1>6. report[r] \in Reports /\ report[r] # None
  BY <1>5, OldTypes, GuardAssumption
<1> HIDE DEF k
<1>7. /\ cached' \in [Keys -> Reports \cup {None}] /\ cached'[k] = report[r]
      /\ \A q \in Keys \ {k} : cached'[q] = cached[q]
  BY <1>1, <1>4, <1>6, OldTypes
<1>8. Once(order) /\ order \in Seq(Keys) /\ {order[i] : i \in 1..Len(order)} = {q \in Keys : HasKey(q)}
  BY DEF IInv, OrderListsKeys, TypeOK
<1>9. /\ order' \in Seq(Keys) /\ Once(order') /\ Len(order') <= Len(order) + 1
      /\ Len(order) \in Nat /\ Len(order') \in Nat
      /\ \A x : x \in {order'[i] : i \in 1..Len(order')} <=> x \in {order[i] : i \in 1..Len(order)} \/ x = k
  <2>1. CASE HasKey(k)
    <3>1. order' = order /\ k \in {order[i] : i \in 1..Len(order)}
      BY <1>1, <1>4, <1>8, <2>1
    <3>2. Len(order) \in Nat
      BY <1>8
    <3> QED BY <1>8, <3>1, <3>2
  <2>2. CASE ~ HasKey(k)
    <3>1. order' = Append(order, k) /\ k \notin {order[i] : i \in 1..Len(order)}
      BY <1>1, <1>8, <2>2
    <3>2. Len(order) \in Nat
      BY <1>8
    <3>3. /\ Append(order, k) \in Seq(Keys) /\ Len(Append(order, k)) = Len(order) + 1 /\ Once(Append(order, k))
          /\ \A x : x \in {Append(order, k)[i] : i \in 1..Len(order) + 1}
                      <=> x \in {order[i] : i \in 1..Len(order)} \/ x = k
      BY <1>4, <1>8, <3>1, AddedAtEnd
    <3>4. Len(order') = Len(order) + 1
      BY <3>1, <3>3
    <3> QED BY <3>1, <3>2, <3>3, <3>4
  <2> QED BY <2>1, <2>2
<1>10. TypeOK'
  BY <1>1, <1>3, <1>7, <1>9, TypesKept, OldTypes
<1>11. OrderListsKeys'
  <2>1. \A q \in Keys : HasKey(q)' <=> HasKey(q) \/ q = k
    BY <1>6, <1>7 DEF HasKey
  <2>2. {order'[i] : i \in 1..Len(order')} = {q \in Keys : HasKey(q)'}
    BY <1>4, <1>8, <1>9, <2>1
  <2> QED BY <1>9, <2>2 DEF OrderListsKeys
<1>12. Filed'
  <2> SUFFICES ASSUME NEW q \in Keys, HasKey(q)'
               PROVE  cached'[q] \in judged' /\ \E n \in Names : q = CacheKey(cached'[q].text, n)
    BY DEF Filed
  <2>1. CASE q = k
    BY <1>1, <1>4, <1>5, <1>7, <2>1
  <2>2. CASE q # k
    <3>1. HasKey(q) /\ cached'[q] = cached[q]
      BY <1>7, <2>2 DEF HasKey
    <3> QED BY <1>1, <3>1 DEF IInv, Filed
  <2> QED BY <2>1, <2>2
<1>13. InHand'
  <2>1. Part(r)' = Part(r)
    BY <1>3 DEF Part
  <2> QED BY <1>1, <1>3, <1>5, <2>1, HandsKept
<1>14. Bounded'
  <2>1. Trimming' = Trimming \cup {r} /\ r \notin Trimming /\ Trimming \in SUBSET Requests
    BY <1>3 DEF Trimming, Others
  <2>2. Cardinality(Trimming') = Cardinality(Trimming) + 1 /\ Cardinality(Trimming) \in Nat
    BY <2>1, Counting
  <2>3. setup.size \in Nat
    BY SetupTypes DEF IInv
  <2> HIDE DEF Trimming
  <2> QED BY <1>3, <1>9, <2>2, <2>3 DEF IInv, Bounded
<1> QED BY <1>3, <1>10, <1>11, <1>12, <1>13, <1>14 DEF IInv

LEMMA TrimKeeps ==
    ASSUME IInv, NEW r \in Requests, Trim(r)
    PROVE  IInv'
<1> DEFINE to == IF Len(order) > setup.size THEN "evict" ELSE "decide"
<1>1. Advance(r, "trim", to) /\ UNCHANGED <<judged, cache, cached, order, report>>
  BY DEF Trim, cache
<1>2. /\ "trim" \in Active /\ to \in Active /\ \A b \in Requests \ {r} : report'[b] = report[b]
      /\ to = "evict" \/ (to = "decide" /\ ~ Len(order) > setup.size)
  BY <1>1 DEF Active
<1> HIDE DEF to
<1>3. /\ pc' = [pc EXCEPT ![r] = to] /\ UNCHANGED <<setup, verdict, lessons, body, at, passed, stats>>
      /\ pc[r] = "trim" /\ pc'[r] = to /\ Others(r) /\ to \in Places
      /\ AtPart' /\ JudgedBeforePassed' /\ Balance'
  BY <1>1, <1>2, Advancing
<1>4. TypeOK'
  BY <1>1, <1>3, TypesKept, OldTypes
<1>5. OrderListsKeys' /\ Filed'
  BY <1>1, FilesKept
<1>6. InHand'
  <2>1. Part(r)' = Part(r) /\ report[r] \in judged /\ report[r].text = Part(r).text
    BY <1>3 DEF Part, IInv, InHand, Holding
  <2> QED BY <1>1, <1>3, <2>1, HandsKept
<1>7. Bounded'
  <2>1. CASE to = "evict"
    BY <1>1, <1>3, <2>1, BoundKept
  <2>2. CASE ~ Len(order) > setup.size
    <3>1. Len(order) \in Nat /\ setup.size \in Nat
      BY SetupTypes, OldTypes DEF IInv
    <3>2. Cardinality(Trimming') \in Nat
      <4>1. Trimming' \in SUBSET Requests
        BY DEF Trimming
      <4> HIDE DEF Trimming
      <4> QED BY <4>1, Counting
    <3> HIDE DEF Trimming
    <3> QED BY <1>1, <1>3, <2>2, <3>1, <3>2 DEF Bounded
  <2> QED BY <1>2, <2>1, <2>2
<1> QED BY <1>3, <1>4, <1>5, <1>6, <1>7 DEF IInv

LEMMA EvictKeeps ==
    ASSUME IInv, NEW r \in Requests, Evict(r)
    PROVE  IInv'
<1> DEFINE k == Head(order)
<1>1. /\ order # <<>> /\ Advance(r, "evict", "trim") /\ cached' = [cached EXCEPT ![k] = None]
      /\ order' = Tail(order) /\ UNCHANGED <<judged, report>>
  BY DEF Evict
<1>2. "evict" \in Active /\ "trim" \in Active /\ \A b \in Requests \ {r} : report'[b] = report[b]
  BY <1>1 DEF Active
<1>3. /\ pc' = [pc EXCEPT ![r] = "trim"] /\ UNCHANGED <<setup, verdict, lessons, body, at, passed, stats>>
      /\ pc[r] = "evict" /\ pc'[r] = "trim" /\ Others(r) /\ "trim" \in Places
      /\ AtPart' /\ JudgedBeforePassed' /\ Balance'
  BY <1>1, <1>2, Advancing
<1>4. Once(order) /\ order \in Seq(Keys) /\ {order[i] : i \in 1..Len(order)} = {q \in Keys : HasKey(q)}
  BY DEF IInv, OrderListsKeys, TypeOK
<1>5. /\ k \in Keys /\ order' \in Seq(Keys) /\ Once(order')
      /\ Len(order') = Len(order) - 1 /\ Len(order) \in Nat /\ Len(order') \in Nat
      /\ \A x : x \in {order'[i] : i \in 1..Len(order')} <=> x \in {order[i] : i \in 1..Len(order)} /\ x # k
  <2>1. Len(Tail(order)) = Len(order) - 1 /\ Len(order) \in Nat /\ Tail(order) \in Seq(Keys)
    BY <1>1, <1>4, TakenFirst
  <2>2. Len(order') = Len(order) - 1 /\ Len(order') \in Nat /\ order' \in Seq(Keys)
    BY <1>1, <2>1
  <2>3. /\ k \in Keys /\ Once(Tail(order))
        /\ \A x : x \in {Tail(order)[i] : i \in 1..Len(order) - 1}
                    <=> x \in {order[i] : i \in 1..Len(order)} /\ x # k
    BY <1>1, <1>4, TakenFirst
  <2> HIDE DEF k
  <2> QED BY <1>1, <2>1, <2>2, <2>3
<1> HIDE DEF k
<1>6. /\ cached' \in [Keys -> Reports \cup {None}] /\ cached'[k] = None
      /\ \A q \in Keys \ {k} : cached'[q] = cached[q]
  BY <1>1, <1>5, OldTypes
<1>7. TypeOK'
  BY <1>1, <1>3, <1>5, <1>6, TypesKept, OldTypes
<1>8. OrderListsKeys'
  <2>1. \A q \in Keys : HasKey(q)' <=> HasKey(q) /\ q # k
    BY <1>6 DEF HasKey
  <2>2. {order'[i] : i \in 1..Len(order')} = {q \in Keys : HasKey(q)'}
    BY <1>4, <1>5, <2>1
  <2> QED BY <1>5, <2>2 DEF OrderListsKeys
<1>9. Filed'
  <2> SUFFICES ASSUME NEW q \in Keys, HasKey(q)'
               PROVE  cached'[q] \in judged' /\ \E n \in Names : q = CacheKey(cached'[q].text, n)
    BY DEF Filed
  <2>1. HasKey(q) /\ cached'[q] = cached[q]
    BY <1>6 DEF HasKey
  <2> QED BY <1>1, <2>1 DEF IInv, Filed
<1>10. InHand'
  <2>1. Part(r)' = Part(r) /\ report[r] \in judged /\ report[r].text = Part(r).text
    BY <1>3 DEF Part, IInv, InHand, Holding
  <2> QED BY <1>1, <1>3, <2>1, HandsKept
<1>11. Bounded'
  <2>1. Trimming' = Trimming /\ Trimming \in SUBSET Requests
    BY <1>3 DEF Trimming, Others
  <2>2. setup.size \in Nat /\ Cardinality(Trimming) \in Nat
    BY <2>1, SetupTypes, Counting DEF IInv
  <2> HIDE DEF Trimming
  <2> QED BY <1>3, <1>5, <2>1, <2>2 DEF IInv, Bounded
<1> QED BY <1>3, <1>7, <1>8, <1>9, <1>10, <1>11 DEF IInv

(* The engine may change its mind: the reports it has made stay made.      *)
LEMMA LearnKeeps ==
    ASSUME IInv, NEW x \in Texts, Learn(x)
    PROVE  IInv'
<1>1. PICK o \in Opinions : verdict' = [verdict EXCEPT ![x] = o[x]]
  BY DEF Learn
<1>2. /\ lessons < MaxLessons /\ lessons' = lessons + 1
      /\ UNCHANGED <<setup, judged, cached, order, cache, pc, body, at, report, passed, stats>>
  BY DEF Learn, cache
<1>3. TypeOK'
  <2>1. verdict' \in [Texts -> Verdicts]
    BY <1>1, GuardAssumption DEF IInv, TypeOK
  <2>2. lessons' \in 0..MaxLessons
    BY <1>2, GuardAssumption DEF IInv, TypeOK
  <2> QED BY <1>2, <2>1, <2>2 DEF IInv, TypeOK
<1>4. AtPart' /\ InHand'
  BY <1>2 DEF IInv, AtPart, InHand, Part
<1>5. OrderListsKeys' /\ Filed'
  BY <1>2, FilesKept
<1>6. JudgedBeforePassed'
  BY <1>2, NonePassed
<1>7. Bounded' /\ Balance'
  BY <1>2 DEF IInv, Bounded, Trimming, Balance, Running
<1> QED BY <1>3, <1>4, <1>5, <1>6, <1>7 DEF IInv
-----------------------------------------------------------------------------
LEMMA StepKeeps ==
    ASSUME IInv, NEW r \in Requests, Step(r)
    PROVE  IInv'
<1>1. CASE Begin(r)
  BY <1>1, BeginKeeps
<1>2. CASE Skip(r)
  BY <1>2, SkipKeeps
<1>3. CASE ScanText(r)
  BY <1>3, ScanTextKeeps
<1>4. CASE ToolAnswers(r)
  BY <1>4, ToolAnswersKeeps
<1>5. CASE ToolRaises(r) \/ Gone(r) \/ EvictNothing(r)
  <2>1. /\ Fail(r)
        /\ pc[r] \in {"tool", "touch", "fetch"} \/ (pc[r] = "evict" /\ order = <<>>)
    BY <1>5 DEF ToolRaises, Gone, EvictNothing
  <2> QED BY <2>1, Failing
<1>6. CASE Probe(r)
  BY <1>6, ProbeKeeps
<1>7. CASE Touch(r)
  BY <1>7, TouchKeeps
<1>8. CASE Fetch(r)
  BY <1>8, FetchKeeps
<1>9. CASE Scan(r)
  BY <1>9, ScanKeeps
<1>10. CASE Insert(r)
  BY <1>10, InsertKeeps
<1>11. CASE Trim(r)
  BY <1>11, TrimKeeps
<1>12. CASE Evict(r)
  BY <1>12, EvictKeeps
<1>13. CASE Decide(r)
  BY <1>13, DecideKeeps
<1> QED BY <1>1, <1>2, <1>3, <1>4, <1>5, <1>6, <1>7, <1>8, <1>9, <1>10, <1>11, <1>12, <1>13 DEF Step

LEMMA NextInvariant == IInv /\ [Next]_vars => IInv'
<1> SUFFICES ASSUME IInv, [Next]_vars PROVE IInv'
  OBVIOUS
<1>1. CASE \E r \in Requests : Step(r)
  BY <1>1, StepKeeps
<1>2. CASE \E x \in Texts : Learn(x)
  BY <1>2, LearnKeeps
<1>3. CASE UNCHANGED vars
  <2>1. UNCHANGED <<setup, verdict, lessons, judged, cached, order, pc, body, at, report, passed, stats>>
    BY <1>3 DEF vars, engine, cache
  <2>2. TypeOK' /\ AtPart' /\ InHand'
    BY <2>1 DEF IInv, TypeOK, AtPart, InHand, Part
  <2>3. OrderListsKeys' /\ Filed'
    BY <2>1, FilesKept DEF cache
  <2>4. JudgedBeforePassed'
    BY <2>1, NonePassed
  <2>5. Bounded' /\ Balance'
    BY <2>1 DEF IInv, Bounded, Trimming, Balance, Running
  <2> QED BY <2>2, <2>3, <2>4, <2>5 DEF IInv
<1> QED BY <1>1, <1>2, <1>3 DEF Next

LEMMA Invariance == Spec => []IInv
BY InitInvariant, NextInvariant, PTL DEF Spec

(* What goes on unchanged was let through on a report of that very text,   *)
(* however the threads race on the cache.  (guard.py: scan, _cache_key.)   *)
THEOREM PassedWasJudged == Spec => []JudgedBeforePassed
<1>1. IInv => JudgedBeforePassed
  BY DEF IInv
<1> QED BY <1>1, Invariance, PTL

(* The cache outgrows its size by the threads about to trim it at most,    *)
(* and its order lists its keys.  (guard.py:147-150.)                      *)
THEOREM CacheStaysBounded == Spec => []CacheBounded
<1>1. IInv => CacheBounded
  BY DEF IInv, Bounded, Trimming, OrderListsKeys, CacheBounded
<1> QED BY <1>1, Invariance, PTL

(* Every call of the filter is counted once, whichever way it ends, and    *)
(* whatever ran while it waited for its tool.  (mcp.py: call_tool.)        *)
THEOREM StatsAddUp == Spec => []StatsBalance
<1>1. IInv => StatsBalance
  BY DEF IInv, Balance, Running, StatsBalance
<1> QED BY <1>1, Invariance, PTL
=============================================================================
