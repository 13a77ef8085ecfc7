-------------------------- MODULE ScanEngine_proofs --------------------------
(***************************************************************************)
(* The pipeline implements what ScanVerdict promises, and leaves nothing   *)
(* behind: for every number of scans, all detectors and outcomes, any pool *)
(* and any settings.                                                       *)
(***************************************************************************)
EXTENDS ScanEngine, FiniteSetTheorems, SequenceTheorems, TLAPS

ScanStates == [at : {"idle", "loop", "pool", "raising", "failed", "reported"},
               input : Inputs \cup {""}, plan : SUBSET Detectors, sure : SUBSET Detectors,
               early : SUBSET Detectors, deaf : SUBSET Detectors,
               current : SUBSET Detectors, torn : SUBSET Detectors,
               todo : Seq(Detectors), found : Seq(Detectors), risk : 0..100, action : Actions]

Types ==
    /\ options \in Options
    /\ registry \in Seq(Detectors) /\ IsInjective(registry)
    /\ setup \in [Detectors -> {"done", "due", "failed"}]
    /\ torn \in SUBSET Detectors /\ leaving \in SUBSET Detectors
    /\ changes \in Nat
    /\ scan \in [Scans -> ScanStates]
    /\ running \in [Scans -> SUBSET Detectors]
    /\ observed \in [Scans -> SUBSET Detectors]

Raises(i, d) == Outcome[i][d].raises
Fires(i, d) == /\ ~ Outcome[i][d].raises /\ Outcome[i][d].detected
               /\ Outcome[i][d].confidence >= Threshold[d]

(* A detector waits, runs or is found, never two of these.                 *)
Apart(s) ==
    /\ IsInjective(scan[s].todo) /\ IsInjective(scan[s].found)
    /\ ToSet(scan[s].todo) \cap ToSet(scan[s].found) = {}
    /\ running[s] \cap (ToSet(scan[s].todo) \cup ToSet(scan[s].found)) = {}
    /\ Waiting(s) \cup ToSet(scan[s].found) \subseteq scan[s].plan
    /\ Cardinality(running[s]) <= options.workers

(* Who is not set up is being set up, and was not when the plan was made.  *)
Ready(s) ==
    /\ scan[s].sure \subseteq scan[s].plan
    /\ scan[s].sure \cap (scan[s].early \cup scan[s].deaf) = {}
    /\ \A d \in scan[s].early : setup[d] = "due"

Scanning == {"loop", "pool"}
Under == {"loop", "pool", "raising", "failed"}

(* What has been made of the detectors that are done.  Of one that was     *)
(* torn down before it had answered, nothing is certain.                   *)
Heard(s) ==
    LET c == scan[s] IN
    /\ c.at \in Under => c.input \in Inputs \ (Allowed \cup Blocked)
    /\ c.at \in Scanning =>
          /\ \A d \in ToSet(c.found) : Fires(c.input, d)
          /\ \A d \in c.sure \ (Waiting(s) \cup c.torn) :
                /\ Fires(c.input, d) => d \in ToSet(c.found)
                /\ ~ (options.strict /\ Raises(c.input, d))
    /\ c.at \in {"raising", "failed"} =>
          options.strict /\ (c.torn # {} \/ \E d \in c.plan : Raises(c.input, d))
    /\ c.at \in Scanning \cup {"raising", "reported"} =>
          \A d \in c.plan \ (observed[s] \cup Waiting(s) \cup c.torn) : Raises(c.input, d)

(* Who may have anything under way.                                        *)
Ended(s) ==
    /\ scan[s].at \in {"idle", "loop", "failed", "reported"} => running[s] = {}
    /\ scan[s].at \in {"idle", "failed", "reported"} => scan[s].todo = <<>>
    /\ scan[s].at = "idle" => scan[s].plan = {}

Good(s) == Apart(s) /\ Ready(s) /\ Heard(s) /\ Ended(s)

IInv == Types /\ \A s \in Scans : Good(s)
-----------------------------------------------------------------------------
(* A set of numbers with a bound has a greatest element.                   *)
LEMMA GreatestOf ==
    ASSUME NEW n \in Nat, NEW S \in SUBSET (0..n), S # {}
    PROVE  \E m \in S : \A x \in S : x <= m
<1> DEFINE above == [m \in 0..n |-> m + 1..n]
           U == 0..n
           T == {above[m] : m \in S}
<1>1. IsFiniteSet(U)
  BY FS_Interval
<1>2. IsWellFoundedOn(StrictSubsetOrdering(U), FiniteSubsetsOf(U))
  BY FS_StrictSubsetOrderingWellFounded
<1>3. T \subseteq FiniteSubsetsOf(U) /\ T # {}
  <2>1. \A m \in S : above[m] \in SUBSET U
    OBVIOUS
  <2>2. FiniteSubsetsOf(U) = SUBSET U
    BY <1>1, FS_FiniteSubsetsOfFinite
  <2>3. T \subseteq SUBSET U
    BY <2>1
  <2>4. T # {}
    OBVIOUS
  <2> QED BY <2>2, <2>3, <2>4
<1>4. PICK t \in T : \A y \in T : ~ (<<y, t>> \in StrictSubsetOrdering(U))
  BY <1>2, <1>3, WFMin
<1>5. PICK m \in S : t = above[m]
  OBVIOUS
<1>6. ASSUME NEW x \in S, x > m PROVE FALSE
  <2>1. above[x] \in T /\ above[x] \in SUBSET U /\ t \in SUBSET U
    BY <1>5
  <2>2. x \in t /\ x \notin above[x] /\ above[x] \subseteq t
    BY <1>5, <1>6
  <2>3. <<above[x], t>> \in StrictSubsetOrdering(U)
    BY <2>1, <2>2 DEF StrictSubsetOrdering
  <2> QED BY <1>4, <2>1, <2>3
<1> QED BY <1>6

(* max() of some confidences is one of them, and the greatest.             *)
LEMMA MaxOf ==
    ASSUME NEW n \in Nat, NEW S \in SUBSET (0..n), S # {}
    PROVE  /\ Max(S) \in S /\ \A x \in S : x <= Max(S)
           /\ \A m \in S : (\A x \in S : x <= m) => m = Max(S)
<1>1. PICK m \in S : \A x \in S : x <= m
  BY GreatestOf
<1>2. \E y \in S : \A x \in S : y >= x
  BY <1>1
<1>3. Max(S) \in S /\ \A x \in S : Max(S) >= x
  BY <1>2 DEF Max
<1>4. \A x \in S : x \in Nat
  OBVIOUS
<1>5. \A x \in S : x <= Max(S)
  BY <1>3, <1>4
<1>6. ASSUME NEW k \in S, \A x \in S : x <= k PROVE k = Max(S)
  <2>1. k \in Nat /\ Max(S) \in Nat /\ k <= Max(S) /\ Max(S) <= k
    BY <1>3, <1>4, <1>5, <1>6
  <2> QED BY <2>1
<1> QED BY <1>3, <1>5, <1>6
-----------------------------------------------------------------------------
(* Sequences without repetition.                                           *)
LEMMA SetOf ==
    ASSUME NEW S, NEW s \in Seq(S)
    PROVE  /\ Len(s) \in Nat /\ DOMAIN s = 1..Len(s) /\ ToSet(s) = {s[i] : i \in 1..Len(s)}
           /\ ToSet(s) \subseteq S /\ (s = <<>> <=> ToSet(s) = {})
<1>1. Len(s) \in Nat /\ DOMAIN s = 1..Len(s) /\ \A i \in 1..Len(s) : s[i] \in S
  BY LenProperties, ElementOfSeq
<1>2. s # <<>> => Len(s) > 0
  BY EmptySeq
<1>3. s = <<>> => Len(s) = 0
  BY EmptySeq
<1>4. ToSet(s) = {s[i] : i \in 1..Len(s)}
  BY <1>1 DEF ToSet
<1>5. s = <<>> <=> ToSet(s) = {}
  <2>1. CASE s = <<>>
    BY <1>3, <1>4, <2>1
  <2>2. CASE s # <<>>
    <3>1. 1 \in 1..Len(s)
      BY <1>1, <1>2, <2>2
    <3> QED BY <1>4, <2>2, <3>1
  <2> QED BY <2>1, <2>2
<1> QED BY <1>1, <1>4, <1>5

LEMMA Appended ==
    ASSUME NEW S, NEW s \in Seq(S), NEW x \in S
    PROVE  /\ Append(s, x) \in Seq(S) /\ ToSet(Append(s, x)) = ToSet(s) \cup {x}
           /\ (IsInjective(s) /\ x \notin ToSet(s)) => IsInjective(Append(s, x))
<1>1. PICK n \in Nat : Len(s) = n /\ DOMAIN s = 1..n /\ ToSet(s) = {s[i] : i \in 1..n}
  BY SetOf
<1>2. /\ Append(s, x) \in Seq(S) /\ Len(Append(s, x)) = n + 1
      /\ \A i \in 1..n : Append(s, x)[i] = s[i]
      /\ Append(s, x)[n + 1] = x
  BY <1>1, AppendProperties
<1> DEFINE t == Append(s, x)
<1>3. DOMAIN t = 1..n + 1 /\ ToSet(t) = {t[i] : i \in 1..n + 1}
  <2>1. t \in Seq(S) /\ Len(t) = n + 1
    BY <1>2
  <2> HIDE DEF t
  <2> QED BY <2>1, SetOf
<1> HIDE DEF t
<1>4. /\ \A i \in 1..n : t[i] = s[i]
      /\ t[n + 1] = x
  BY <1>2 DEF t
<1>5. ToSet(t) = ToSet(s) \cup {x}
  <2>1. \A i \in 1..n + 1 : i \in 1..n \/ i = n + 1
    OBVIOUS
  <2>2. 1..n \subseteq 1..n + 1 /\ n + 1 \in 1..n + 1
    OBVIOUS
  <2>3. ASSUME NEW y PROVE y \in ToSet(t) <=> y \in ToSet(s) \cup {x}
    BY <1>1, <1>3, <1>4, <2>1, <2>2
  <2> QED BY <2>3
<1>6. ASSUME IsInjective(s), x \notin ToSet(s) PROVE IsInjective(t)
  <2> SUFFICES ASSUME NEW i \in 1..n + 1, NEW j \in 1..n + 1, t[i] = t[j] PROVE i = j
    BY <1>3 DEF IsInjective
  <2>1. \A k \in 1..n : t[k] \in ToSet(s) /\ t[k] # x
    BY <1>1, <1>4, <1>6
  <2>2. CASE i \in 1..n /\ j \in 1..n
    BY <1>1, <1>4, <1>6, <2>2 DEF IsInjective
  <2>3. CASE i = n + 1 \/ j = n + 1
    BY <1>4, <2>1, <2>3
  <2> QED BY <2>2, <2>3
<1> QED BY <1>2, <1>5, <1>6 DEF t

LEMMA Taken ==
    ASSUME NEW S, NEW s \in Seq(S), s # <<>>, IsInjective(s)
    PROVE  /\ Head(s) \in S /\ Tail(s) \in Seq(S) /\ IsInjective(Tail(s))
           /\ ToSet(s) = {Head(s)} \cup ToSet(Tail(s)) /\ Head(s) \notin ToSet(Tail(s))
<1>1. PICK n \in Nat : Len(s) = n /\ DOMAIN s = 1..n /\ ToSet(s) = {s[i] : i \in 1..n}
  BY SetOf
<1>2. n > 0
  BY <1>1, EmptySeq
<1>3. /\ Head(s) = s[1] /\ Head(s) \in S /\ Tail(s) \in Seq(S) /\ Len(Tail(s)) = n - 1
      /\ \A i \in 1..n - 1 : Tail(s)[i] = s[i + 1]
  BY <1>1, HeadTailProperties
<1> DEFINE t == Tail(s)
<1>4. DOMAIN t = 1..n - 1 /\ ToSet(t) = {t[i] : i \in 1..n - 1}
  <2>1. t \in Seq(S) /\ Len(t) = n - 1
    BY <1>3
  <2> HIDE DEF t
  <2> QED BY <2>1, SetOf
<1> HIDE DEF t
<1>5. \A i \in 1..n - 1 : t[i] = s[i + 1]
  BY <1>3 DEF t
<1>6. ToSet(s) = {s[1]} \cup ToSet(t)
  <2>1. \A i \in 1..n : i = 1 \/ (i - 1 \in 1..n - 1 /\ t[i - 1] = s[i])
    <3> TAKE i \in 1..n
    <3>1. CASE i # 1
      <4>1. i - 1 \in 1..n - 1 /\ (i - 1) + 1 = i
        BY <3>1
      <4>2. t[i - 1] = s[(i - 1) + 1]
        BY <1>5, <4>1
      <4> QED BY <4>1, <4>2
    <3>2. CASE i = 1
      BY <3>2
    <3> QED BY <3>1, <3>2
  <2>2. 1 \in 1..n /\ \A i \in 1..n - 1 : i + 1 \in 1..n
    BY <1>2
  <2>3. ASSUME NEW y \in ToSet(s) PROVE y \in {s[1]} \cup ToSet(t)
    BY <1>1, <1>4, <2>1
  <2>4. ASSUME NEW y \in {s[1]} \cup ToSet(t) PROVE y \in ToSet(s)
    BY <1>1, <1>4, <1>5, <2>2
  <2> QED BY <2>3, <2>4
<1>7. IsInjective(t) /\ s[1] \notin ToSet(t)
  <2>1. \A i \in 1..n - 1 : i + 1 \in 1..n
    OBVIOUS
  <2>2. \A i, j \in 1..n - 1 : t[i] = t[j] => i = j
    <3> TAKE i, j \in 1..n - 1
    <3>1. t[i] = t[j] => i + 1 = j + 1
      BY <1>1, <1>5, <2>1 DEF IsInjective
    <3> QED BY <3>1
  <2>3. \A i \in 1..n - 1 : t[i] # s[1]
    <3> TAKE i \in 1..n - 1
    <3>1. 1 \in 1..n /\ i + 1 \in 1..n /\ i + 1 # 1
      BY <1>2
    <3>2. t[i] = s[1] => i + 1 = 1
      BY <1>1, <1>5, <3>1 DEF IsInjective
    <3> QED BY <3>1, <3>2
  <2> QED BY <1>4, <2>2, <2>3 DEF IsInjective
<1> QED BY <1>3, <1>6, <1>7 DEF t
(* Two sequences one after the other repeat nothing.                       *)
LEMMA Joined ==
    ASSUME NEW S, NEW s \in Seq(S), NEW t \in Seq(S), IsInjective(s), IsInjective(t),
           ToSet(s) \cap ToSet(t) = {}
    PROVE  IsInjective(s \o t) /\ ToSet(s \o t) = ToSet(s) \cup ToSet(t)
<1>1. PICK m \in Nat : Len(s) = m /\ DOMAIN s = 1..m /\ ToSet(s) = {s[i] : i \in 1..m}
  BY SetOf
<1>2. PICK n \in Nat : Len(t) = n /\ DOMAIN t = 1..n /\ ToSet(t) = {t[i] : i \in 1..n}
  BY SetOf
<1> DEFINE u == s \o t
<1>3. /\ u \in Seq(S) /\ Len(u) = m + n
      /\ \A i \in 1..m + n : u[i] = IF i <= m THEN s[i] ELSE t[i - m]
  <2>1. /\ s \o t \in Seq(S) /\ Len(s \o t) = Len(s) + Len(t)
        /\ \A i \in 1..Len(s) + Len(t) : (s \o t)[i] = IF i <= Len(s) THEN s[i] ELSE t[i - Len(s)]
    BY ConcatProperties
  <2> QED BY <1>1, <1>2, <2>1
<1> HIDE DEF u
<1>4. DOMAIN u = 1..m + n /\ ToSet(u) = {u[i] : i \in 1..m + n}
  BY <1>3, SetOf
<1>5. /\ \A i \in 1..m : i \in 1..m + n /\ u[i] = s[i]
      /\ \A i \in 1..n : i + m \in 1..m + n /\ u[i + m] = t[i]
      /\ \A i \in 1..m + n : i > m => i - m \in 1..n /\ u[i] = t[i - m]
  <2>1. \A i \in 1..m : i \in 1..m + n /\ u[i] = s[i]
    BY <1>3
  <2>2. ASSUME NEW i \in 1..m + n, i > m PROVE i - m \in 1..n /\ u[i] = t[i - m]
    BY <1>3, <2>2
  <2>3. ASSUME NEW i \in 1..n PROVE i + m \in 1..m + n /\ u[i + m] = t[i]
    <3>1. i + m \in 1..m + n /\ i + m > m /\ (i + m) - m = i
      OBVIOUS
    <3>2. u[i + m] = t[(i + m) - m]
      BY <2>2, <3>1
    <3> QED BY <3>1, <3>2
  <2> QED BY <2>1, <2>2, <2>3
<1>6. \A i \in 1..m + n : i \in 1..m \/ i > m
  OBVIOUS
<1>7. ToSet(u) = ToSet(s) \cup ToSet(t)
  <2>1. ASSUME NEW y \in ToSet(u) PROVE y \in ToSet(s) \cup ToSet(t)
    BY <1>1, <1>2, <1>4, <1>5, <1>6
  <2>2. ASSUME NEW y \in ToSet(s) \cup ToSet(t) PROVE y \in ToSet(u)
    BY <1>1, <1>2, <1>4, <1>5
  <2> QED BY <2>1, <2>2
<1>8. IsInjective(u)
  <2> SUFFICES ASSUME NEW i \in 1..m + n, NEW j \in 1..m + n, u[i] = u[j] PROVE i = j
    BY <1>4 DEF IsInjective
  <2>1. CASE i \in 1..m /\ j \in 1..m
    BY <1>1, <1>5, <2>1 DEF IsInjective
  <2>2. CASE i > m /\ j > m
    <3> DEFINE k == i - m
               l == j - m
    <3>1. k \in 1..n /\ l \in 1..n /\ t[k] = t[l]
      BY <1>5, <2>2
    <3>2. k = l
      <4> HIDE DEF k, l
      <4> QED BY <1>2, <3>1 DEF IsInjective
    <3> QED BY <3>2
  <2>3. CASE i \in 1..m /\ j > m
    <3>1. u[i] \in ToSet(s) /\ u[j] \in ToSet(t)
      BY <1>1, <1>2, <1>5, <2>3
    <3> QED BY <3>1
  <2>4. CASE i > m /\ j \in 1..m
    <3>1. u[j] \in ToSet(s) /\ u[i] \in ToSet(t)
      BY <1>1, <1>2, <1>5, <2>4
    <3> QED BY <3>1
  <2> QED BY <1>6, <2>1, <2>2, <2>3, <2>4
<1> QED BY <1>7, <1>8 DEF u

(* What is left when one element is taken out of the middle.               *)
LEMMA Removed ==
    ASSUME NEW S, NEW s \in Seq(S), IsInjective(s), NEW x
    PROVE  RemoveFirst(s, x) \in Seq(S) /\ IsInjective(RemoveFirst(s, x))
<1>1. PICK n \in Nat : Len(s) = n /\ DOMAIN s = 1..n /\ \A i \in 1..n : s[i] \in S
  BY SetOf, ElementOfSeq
<1>2. CASE ~ \E i \in 1..Len(s) : s[i] = x
  BY <1>2 DEF RemoveFirst
<1>3. CASE \E i \in 1..Len(s) : s[i] = x
  <2> DEFINE I == {i \in 1..Len(s) : s[i] = x}
             p == Min(I)
             a == SubSeq(s, 1, p - 1)
             b == SubSeq(s, p + 1, Len(s))
  <2>1. RemoveFirst(s, x) = a \o b
    BY <1>3 DEF RemoveFirst, SelectInSeq, RemoveAt
  <2>2. p \in I
    <3>1. PICK k \in 1..n : s[k] = x
      BY <1>1, <1>3
    <3>2. I = {k}
      BY <1>1, <3>1 DEF IsInjective
    <3>3. \E y \in I : \A z \in I : y <= z
      BY <3>2
    <3> HIDE DEF I
    <3> QED BY <3>3 DEF Min
  <2>3. p \in 1..n
    BY <1>1, <2>2
  <2> HIDE DEF p
  <2>4. /\ a \in Seq(S) /\ Len(a) = p - 1 /\ \A i \in 1..p - 1 : a[i] = s[i]
    <3>1. \A i \in 1..p - 1 : i \in 1..n /\ s[i] \in S
      BY <1>1, <2>3
    <3>2. /\ SubSeq(s, 1, p - 1) \in Seq(S)
          /\ Len(SubSeq(s, 1, p - 1)) = IF 1 <= p - 1 THEN (p - 1) - 1 + 1 ELSE 0
          /\ \A i \in 1..((p - 1) - 1 + 1) : SubSeq(s, 1, p - 1)[i] = s[1 + i - 1]
      BY <2>3, <3>1, SubSeqProperties
    <3> HIDE DEF a
    <3>3. \A i \in 1..p - 1 : 1 + i - 1 = i /\ i \in 1..((p - 1) - 1 + 1)
      BY <2>3
    <3> QED BY <2>3, <3>2, <3>3 DEF a
  <2>5. /\ b \in Seq(S) /\ Len(b) = n - p /\ \A i \in 1..n - p : b[i] = s[i + p]
    <3>1. \A i \in p + 1..n : i \in 1..n /\ s[i] \in S
      BY <1>1, <2>3
    <3>2. /\ SubSeq(s, p + 1, n) \in Seq(S)
          /\ Len(SubSeq(s, p + 1, n)) = IF p + 1 <= n THEN n - (p + 1) + 1 ELSE 0
          /\ \A i \in 1..(n - (p + 1) + 1) : SubSeq(s, p + 1, n)[i] = s[p + 1 + i - 1]
      BY <2>3, <3>1, SubSeqProperties
    <3> HIDE DEF b
    <3>3. \A i \in 1..n - p : p + 1 + i - 1 = i + p /\ i \in 1..(n - (p + 1) + 1)
      BY <2>3
    <3> QED BY <1>1, <2>3, <3>2, <3>3 DEF b
  <2> HIDE DEF a, b
  <2>6. /\ DOMAIN a = 1..p - 1 /\ ToSet(a) = {a[i] : i \in 1..p - 1}
        /\ DOMAIN b = 1..n - p /\ ToSet(b) = {b[i] : i \in 1..n - p}
    BY <2>4, <2>5, SetOf
  <2>7. IsInjective(a)
    BY <1>1, <2>3, <2>4, <2>6 DEF IsInjective
  <2>8. IsInjective(b)
    <3> SUFFICES ASSUME NEW i \in 1..n - p, NEW j \in 1..n - p, b[i] = b[j] PROVE i = j
      BY <2>6 DEF IsInjective
    <3>1. i + p \in 1..n /\ j + p \in 1..n /\ s[i + p] = s[j + p]
      BY <2>3, <2>5
    <3>2. i + p = j + p
      BY <1>1, <3>1 DEF IsInjective
    <3> QED BY <2>3, <3>2
  <2>9. ToSet(a) \cap ToSet(b) = {}
    <3> SUFFICES ASSUME NEW i \in 1..p - 1, NEW j \in 1..n - p, a[i] = b[j] PROVE FALSE
      BY <2>6
    <3>1. i \in 1..n /\ j + p \in 1..n /\ s[i] = s[j + p] /\ i # j + p
      BY <2>3, <2>4, <2>5
    <3> QED BY <1>1, <3>1 DEF IsInjective
  <2>10. a \o b \in Seq(S) /\ IsInjective(a \o b)
    BY <2>4, <2>5, <2>7, <2>8, <2>9, Joined, ConcatProperties
  <2> QED BY <2>1, <2>10
<1> QED BY <1>2, <1>3

(* A sequence without repetition is as long as its set is big.             *)
LEMMA Counted ==
    ASSUME NEW S, NEW s \in Seq(S), IsInjective(s)
    PROVE  Cardinality(ToSet(s)) = Len(s) /\ IsFiniteSet(ToSet(s))
<1>1. PICK n \in Nat : Len(s) = n /\ DOMAIN s = 1..n /\ ToSet(s) = {s[i] : i \in 1..n}
  BY SetOf
<1>2. s \in [1..n -> ToSet(s)]
  BY <1>1, LenProperties
<1>3. s \in Bijection(1..n, ToSet(s))
  BY <1>1, <1>2 DEF Bijection, Injection, Surjection, IsInjective
<1>4. ExistsBijection(1..n, ToSet(s))
  BY <1>3 DEF ExistsBijection
<1> QED BY <1>1, <1>4, FS_CountingElements, FS_NatBijection
-----------------------------------------------------------------------------
(* What the assumptions say of one detector on one input.                  *)
LEMMA Confident ==
    ASSUME NEW i \in Inputs, NEW d \in Detectors
    PROVE  Outcome[i][d] \in Outcomes /\ Confidence(i, d) \in 0..100 /\ Severity(i, d) \in Severities
BY VerdictAssumption DEF Confidence, Severity, Outcomes

(* The verdict counts as the engine does.                                  *)
LEMMA SameSize ==
    ASSUME NEW S
    PROVE  Verdict!Cardinality(S) = Cardinality(S)
BY DEF Cardinality, Verdict!Cardinality

(* The score of the engine is the one the verdict speaks of: what is found *)
(* counts as a set, and the cap keeps it in range.                         *)
LEMMA ScoreIsRisk ==
    ASSUME NEW i \in Inputs, NEW found \in Seq(Detectors), IsInjective(found)
    PROVE  Score(i, found) \in 0..100 /\ Score(i, found) = Verdict!Risk(i, ToSet(found))
<1> DEFINE F == ToSet(found)
           C == {Confidence(i, d) : d \in F}
<1>1. F \subseteq Detectors /\ (found = <<>> <=> F = {})
  BY SetOf
<1>2. Len(found) \in Nat /\ Cardinality(F) = Len(found)
  BY SetOf, Counted
<1> HIDE DEF F
<1>3. CASE F = {}
  BY <1>1, <1>3 DEF Score, Verdict!Risk, F
<1>4. CASE F # {}
  <2>1. C \in SUBSET (0..100) /\ C # {}
    BY <1>1, <1>4, Confident
  <2>2. /\ Max(C) \in C /\ \A x \in C : x <= Max(C)
        /\ \A m \in C : (\A x \in C : x <= m) => m = Max(C)
    <3> HIDE DEF C
    <3> QED BY <2>1, MaxOf
  <2> DEFINE top == CHOOSE c \in {Outcome[i][d].confidence : d \in F} :
                        \A d \in F : Outcome[i][d].confidence <= c
  <2>3. top = Max(C)
    <3>1. C = {Outcome[i][d].confidence : d \in F}
      BY DEF Confidence
    <3>2. \E c \in {Outcome[i][d].confidence : d \in F} :
             \A d \in F : Outcome[i][d].confidence <= c
      BY <2>2, <3>1
    <3>3. top \in C /\ \A d \in F : Outcome[i][d].confidence <= top
      BY <3>1, <3>2
    <3> HIDE DEF top
    <3>4. \A x \in C : x <= top
      BY <3>1, <3>3
    <3> QED BY <2>2, <3>3, <3>4
  <2>4. Highest(i, found) = top
    BY <2>3 DEF Highest, F
  <2> HIDE DEF top
  <2>5. Score(i, found) = LET sum == top + Bonus * (Len(found) - 1)
                          IN  IF sum > 100 THEN 100 ELSE sum
    BY <1>1, <1>4, <2>4 DEF Score
  <2>6. Verdict!Risk(i, F) = LET sum == top + Bonus * (Len(found) - 1)
                             IN  IF sum > 100 THEN 100 ELSE sum
    <3>1. Verdict!Risk(i, F) = LET sum == top + Bonus * (Cardinality(F) - 1)
                               IN  IF sum > 100 THEN 100 ELSE sum
      BY <1>4, SameSize DEF Verdict!Risk, top
    <3> QED BY <1>2, <3>1
  <2>7. top \in Nat /\ Bonus * (Len(found) - 1) \in Nat
    <3> HIDE DEF C
    <3>1. top \in 0..100
      BY <2>1, <2>2, <2>3
    <3>2. Len(found) - 1 \in Nat
      BY <1>1, <1>2, <1>4, EmptySeq
    <3>3. Bonus \in Nat
      BY VerdictAssumption
    <3>4. \A a, b \in Nat : a * b \in Nat
      OBVIOUS
    <3>5. \A n \in 0..100 : n \in Nat
      OBVIOUS
    <3> QED BY <3>1, <3>2, <3>3, <3>4, <3>5
  <2>8. Score(i, found) \in 0..100
    <3> DEFINE more == Bonus * (Len(found) - 1)
    <3> HIDE DEF more
    <3>1. Score(i, found) = IF top + more > 100 THEN 100 ELSE top + more
      BY <2>5 DEF more
    <3>2. top \in Nat /\ more \in Nat
      BY <2>7 DEF more
    <3> QED BY <3>1, <3>2
  <2> QED BY <2>5, <2>6, <2>8 DEF F
<1> QED BY <1>3, <1>4 DEF F

(* The first severity from the worst that was found is the worst of those  *)
(* found.                                                                  *)
LEMMA WorstOf ==
    ASSUME NEW i \in Inputs, NEW found \in Seq(Detectors), found # <<>>
    PROVE  /\ Worst(i, found) \in Severities
           /\ Worst(i, found) = CHOOSE v \in {Severity(i, d) : d \in ToSet(found)} :
                  \A d \in ToSet(found) : Verdict!Rank[Severity(i, d)] <= Verdict!Rank[v]
<1> DEFINE V == {Severity(i, d) : d \in ToSet(found)}
           I == {k \in 1..4 : SeverityOrder[k] \in V}
           R == Verdict!Rank
           w == CHOOSE v \in V : \A u \in V : R[u] <= R[v]
<1>1. V \subseteq Severities /\ V # {}
  <2>1. ToSet(found) \subseteq Detectors /\ ToSet(found) # {}
    BY SetOf
  <2> QED BY <2>1, Confident
<1>2. Worst(i, found) = SeverityOrder[IF I # {} THEN Min(I) ELSE 0]
  <2>1. Len(SeverityOrder) = 4
    BY DEF SeverityOrder
  <2>2. \A v : v \in V <=> \E d \in ToSet(found) : Severity(i, d) = v
    OBVIOUS
  <2> HIDE DEF V
  <2>3. I = {k \in 1..Len(SeverityOrder) :
                \E d \in ToSet(found) : Severity(i, d) = SeverityOrder[k]}
    BY <2>1, <2>2
  <2>4. I # {} <=> \E k \in 1..Len(SeverityOrder) :
                      \E d \in ToSet(found) : Severity(i, d) = SeverityOrder[k]
    BY <2>3
  <2> HIDE DEF I
  <2> QED BY <2>3, <2>4 DEF Worst, SelectInSeq
<1>3. (CHOOSE v \in V : \A d \in ToSet(found) : R[Severity(i, d)] <= R[v]) = w
  <2>1. \A v : (\A d \in ToSet(found) : R[Severity(i, d)] <= R[v]) <=> (\A u \in V : R[u] <= R[v])
    OBVIOUS
  <2> HIDE DEF V, R
  <2> QED BY <2>1
<1> HIDE DEF V
<1>4. \E k \in I : \A l \in I : k <= l
  <2>1. \A v \in Severities : \E k \in 1..4 : SeverityOrder[k] = v
    BY DEF SeverityOrder, Severities
  <2>2. I # {} /\ I \in SUBSET (1..4)
    BY <1>1, <2>1
  <2> HIDE DEF I
  <2>3. 1 \in I \/ 2 \in I \/ 3 \in I \/ 4 \in I
    <3>1. PICK k \in I : k \in 1..4
      BY <2>2
    <3>2. k = 1 \/ k = 2 \/ k = 3 \/ k = 4
      BY <3>1
    <3> QED BY <3>1, <3>2
  <2>4. CASE 1 \in I
    BY <2>2, <2>4
  <2>5. CASE 1 \notin I /\ 2 \in I
    BY <2>2, <2>5
  <2>6. CASE 1 \notin I /\ 2 \notin I /\ 3 \in I
    BY <2>2, <2>6
  <2>7. CASE 1 \notin I /\ 2 \notin I /\ 3 \notin I /\ 4 \in I
    BY <2>2, <2>7
  <2> QED BY <2>3, <2>4, <2>5, <2>6, <2>7
<1>5. PICK m \in I : m = Min(I) /\ \A l \in I : m <= l
  <2> HIDE DEF I
  <2> QED BY <1>4 DEF Min
<1>6. Worst(i, found) = SeverityOrder[m]
  BY <1>2, <1>5
<1>7. m \in 1..4 /\ SeverityOrder[m] \in V
  BY <1>5
<1>8. \A k \in 1..4 : SeverityOrder[k] \in Severities /\ R[SeverityOrder[k]] = 5 - k
  BY DEF SeverityOrder, Severities, Verdict!Rank
<1>9. \A v \in V : \E l \in I : v = SeverityOrder[l]
  BY <1>1 DEF SeverityOrder, Severities
<1>10. \A v \in V : R[v] <= R[SeverityOrder[m]]
  <2> TAKE v \in V
  <2>1. PICK l \in I : v = SeverityOrder[l]
    BY <1>9
  <2>2. m <= l /\ l \in 1..4
    BY <1>5
  <2> QED BY <1>7, <1>8, <2>1, <2>2
<1>11. \A v \in V : (\A u \in V : R[u] <= R[v]) => v = SeverityOrder[m]
  <2> SUFFICES ASSUME NEW v \in V, \A u \in V : R[u] <= R[v] PROVE v = SeverityOrder[m]
    OBVIOUS
  <2>1. PICK l \in I : v = SeverityOrder[l]
    BY <1>9
  <2>2. m <= l /\ l \in 1..4 /\ R[SeverityOrder[m]] <= R[SeverityOrder[l]]
    BY <1>5, <1>7, <2>1
  <2>3. 5 - m <= 5 - l
    BY <1>7, <1>8, <2>2
  <2>4. m = l
    BY <1>7, <2>2, <2>3
  <2> QED BY <2>1, <2>4
<1>12. SeverityOrder[m] = w
  <2> HIDE DEF R
  <2>1. w \in V /\ \A u \in V : R[u] <= R[w]
    BY <1>7, <1>10
  <2> HIDE DEF w
  <2> QED BY <1>11, <2>1
<1> QED BY <1>3, <1>6, <1>7, <1>8, <1>12 DEF V

LEMMA ActionIsRight ==
    ASSUME NEW i \in Inputs, NEW found \in Seq(Detectors)
    PROVE  /\ DetermineAction(i, found) \in Actions
           /\ DetermineAction(i, found) = Verdict!Action(i, ToSet(found))
<1>1. found = <<>> <=> ToSet(found) = {}
  BY SetOf
<1>2. CASE found = <<>>
  BY <1>1, <1>2 DEF DetermineAction, Verdict!Action, Actions
<1>3. CASE found # <<>> /\ options.monitor
  BY <1>1, <1>3 DEF DetermineAction, Verdict!Action, Actions
<1>4. CASE found # <<>> /\ ~ options.monitor
  <2> DEFINE w == CHOOSE v \in {Severity(i, d) : d \in ToSet(found)} :
                  \A d \in ToSet(found) : Verdict!Rank[Severity(i, d)] <= Verdict!Rank[v]
  <2>1. Worst(i, found) \in Severities /\ Worst(i, found) = w
    BY <1>4, WorstOf
  <2>2. Verdict!Action(i, ToSet(found)) = ActionFor[w]
    BY <1>1, <1>4 DEF Verdict!Action, Severity
  <2> HIDE DEF w
  <2>3. DetermineAction(i, found) = ActionFor[Worst(i, found)]
    BY <1>4 DEF DetermineAction
  <2>4. ActionFor[Worst(i, found)] \in Actions
    BY <2>1, VerdictAssumption
  <2> QED BY <2>1, <2>2, <2>3, <2>4
<1> QED BY <1>2, <1>3, <1>4
-----------------------------------------------------------------------------
LEMMA FreshScan == Fresh \in ScanStates
<1>1. <<>> \in Seq(Detectors) /\ {} \in SUBSET Detectors /\ "" \in Inputs \cup {""} /\ 0 \in 0..100
  OBVIOUS
<1>2. "pass" \in Actions
  BY DEF Actions
<1> QED BY <1>1, <1>2 DEF Fresh, ScanStates

LEMMA InitHolds == Init => IInv
<1> SUFFICES ASSUME Init PROVE IInv
  OBVIOUS
<1> USE DEF Init
<1>1. /\ <<>> \in Seq(Detectors) /\ IsInjective(<<>>) /\ ToSet(<<>>) = {}
  BY EmptySeq DEF IsInjective, ToSet
<1>2. Fresh \in ScanStates
  BY FreshScan
<1>3. Types
  BY <1>2, EngineAssumption DEF Types
<1>4. ASSUME NEW s \in Scans PROVE Good(s)
  <2>1. scan[s] = Fresh /\ running[s] = {}
    OBVIOUS
  <2>2. Cardinality({}) <= options.workers
    BY FS_EmptySet, VerdictAssumption DEF Settings
  <2>3. Apart(s)
    BY <1>1, <2>1, <2>2 DEF Apart, Waiting, Fresh
  <2> QED BY <2>1, <2>3 DEF Good, Ready, Heard, Ended, Fresh, Scanning, Under
<1> QED BY <1>3, <1>4 DEF IInv

(* What a step leaves alone stays right.                                   *)
LEMMA Untouched ==
    ASSUME IInv, NEW s \in Scans, options' = options,
           scan'[s] = scan[s], running'[s] = running[s], observed'[s] = observed[s],
           \A d \in scan[s].early : setup[d] = "due" => setup'[d] = "due"
    PROVE  Good(s)'
<1>1. Good(s)
  BY DEF IInv
<1>2. Waiting(s)' = Waiting(s)
  BY DEF Waiting
<1>3. Apart(s)'
  BY <1>1, <1>2 DEF Good, Apart
<1>4. Ready(s)'
  BY <1>1 DEF Good, Ready
<1>5. Heard(s)'
  BY <1>1, <1>2 DEF Good, Heard
<1>6. Ended(s)'
  BY <1>1 DEF Good, Ended
<1> QED BY <1>3, <1>4, <1>5, <1>6 DEF Good

(* The state of a scan, field by field.                                    *)
LEMMA Fields ==
    ASSUME Types, NEW s \in Scans
    PROVE  /\ scan[s] \in ScanStates /\ scan[s].todo \in Seq(Detectors)
           /\ scan[s].found \in Seq(Detectors)
           /\ scan[s].plan \subseteq Detectors /\ scan[s].sure \subseteq Detectors
           /\ scan[s].early \subseteq Detectors /\ scan[s].deaf \subseteq Detectors
           /\ scan[s].current \subseteq Detectors /\ scan[s].torn \subseteq Detectors
           /\ running[s] \subseteq Detectors /\ observed[s] \subseteq Detectors
           /\ scan[s].at \in {"idle", "loop", "pool", "raising", "failed", "reported"}
           /\ scan[s].risk \in 0..100 /\ scan[s].action \in Actions
           /\ options.workers \in Nat
<1>1. scan[s] \in ScanStates /\ running[s] \subseteq Detectors /\ observed[s] \subseteq Detectors
  BY DEF Types
<1>2. options.workers \in Nat
  BY VerdictAssumption DEF Types, Settings
<1> QED BY <1>1, <1>2 DEF ScanStates

(* So does one of which only the state of its detectors is noted.          *)
LEMMA Relabelled ==
    ASSUME IInv, NEW s \in Scans, options' = options, running' = running, observed' = observed,
           scan'[s].at = scan[s].at, scan'[s].input = scan[s].input,
           scan'[s].plan = scan[s].plan, scan'[s].sure = scan[s].sure,
           scan'[s].todo = scan[s].todo, scan'[s].found = scan[s].found,
           scan[s].torn \subseteq scan'[s].torn,
           scan'[s].early \cup scan'[s].deaf \subseteq scan[s].early \cup scan[s].deaf,
           \A d \in scan'[s].early : setup'[d] = "due"
    PROVE  Good(s)'
<1>1. Good(s)
  BY DEF IInv
<1>2. Waiting(s)' = Waiting(s)
  BY DEF Waiting
<1>3. Apart(s)'
  BY <1>1, <1>2 DEF Good, Apart
<1>4. Ready(s)'
  BY <1>1 DEF Good, Ready
<1>5. Heard(s)'
  BY <1>1, <1>2 DEF Good, Heard
<1>6. Ended(s)'
  BY <1>1 DEF Good, Ended
<1> QED BY <1>3, <1>4, <1>5, <1>6 DEF Good

LEMMA RegisterKeeps ==
    ASSUME IInv, NEW d \in Detectors, Register(d)
    PROVE  IInv'
<1>1. registry \in Seq(Detectors) /\ IsInjective(registry)
  BY DEF IInv, Types
<1>2. registry' \in Seq(Detectors) /\ IsInjective(registry')
  BY <1>1, Appended DEF Register
<1>3. ASSUME NEW s \in Scans
      PROVE  /\ scan'[s] \in ScanStates
             /\ scan'[s].at = scan[s].at /\ scan'[s].input = scan[s].input
             /\ scan'[s].plan = scan[s].plan /\ scan'[s].sure = scan[s].sure
             /\ scan'[s].todo = scan[s].todo /\ scan'[s].found = scan[s].found
             /\ scan'[s].early = scan[s].early /\ scan'[s].deaf = scan[s].deaf
             /\ scan'[s].torn = scan[s].torn
  <2>1. scan[s] \in ScanStates
    BY DEF IInv, Types
  <2>2. scan'[s] = [scan[s] EXCEPT !.current = @ \ {d}]
    BY DEF Register
  <2> QED BY <2>1, <2>2 DEF ScanStates
<1>4. Types'
  <2>1. scan' = [s \in Scans |-> scan'[s]]
    BY DEF Register
  <2>2. scan' \in [Scans -> ScanStates]
    BY <1>3, <2>1
  <2> QED BY <1>2, <2>2 DEF IInv, Types, Register
<1>5. ASSUME NEW s \in Scans PROVE Good(s)'
  <2>1. \A e \in Detectors : setup[e] = "due" => setup'[e] = "due"
    BY DEF IInv, Types, Register
  <2>2. scan[s].early \subseteq Detectors
    BY Fields DEF IInv
  <2>3. \A e \in scan'[s].early : setup'[e] = "due"
    BY <1>3, <2>1, <2>2 DEF IInv, Good, Ready
  <2> QED BY <1>3, <2>3, Relabelled DEF Register
<1> QED BY <1>4, <1>5 DEF IInv

LEMMA SetUpKeeps ==
    ASSUME IInv, NEW d \in Detectors, SetUp(d)
    PROVE  IInv'
<1>1. PICK outcome \in {"done", "failed"} :
          /\ setup' = [setup EXCEPT ![d] = outcome]
          /\ scan' = [s \in Scans |->
                IF d \notin scan[s].early THEN scan[s]
                ELSE [scan[s] EXCEPT !.early = @ \ {d},
                                     !.deaf = IF outcome = "done" THEN @ ELSE @ \cup {d}]]
  BY DEF SetUp
<1>2. UNCHANGED <<options, registry, torn, leaving, changes, running, observed>>
  BY DEF SetUp
<1>3. ASSUME NEW s \in Scans
      PROVE  /\ scan'[s] \in ScanStates
             /\ scan'[s].at = scan[s].at /\ scan'[s].input = scan[s].input
             /\ scan'[s].plan = scan[s].plan /\ scan'[s].sure = scan[s].sure
             /\ scan'[s].todo = scan[s].todo /\ scan'[s].found = scan[s].found
             /\ scan'[s].early = scan[s].early \ {d} /\ scan'[s].torn = scan[s].torn
             /\ scan'[s].early \cup scan'[s].deaf \subseteq scan[s].early \cup scan[s].deaf
  <2>1. scan[s] \in ScanStates
    BY DEF IInv, Types
  <2>2. CASE d \notin scan[s].early
    <3>1. scan'[s] = scan[s]
      BY <1>1, <2>2
    <3> QED BY <2>1, <2>2, <3>1
  <2>3. CASE d \in scan[s].early
    <3>1. PICK deaf \in SUBSET Detectors :
              /\ deaf \subseteq scan[s].deaf \cup {d}
              /\ scan'[s] = [scan[s] EXCEPT !.early = @ \ {d}, !.deaf = deaf]
      <4>1. scan[s].deaf \subseteq Detectors
        BY Fields DEF IInv
      <4>2. scan'[s] = [scan[s] EXCEPT !.early = @ \ {d},
                          !.deaf = IF outcome = "done" THEN @ ELSE @ \cup {d}]
        BY <1>1, <2>3
      <4>3. CASE outcome = "done"
        BY <4>1, <4>2, <4>3
      <4>4. CASE outcome = "failed"
        BY <4>1, <4>2, <4>4
      <4> QED BY <4>3, <4>4
    <3>2. scan'[s] \in ScanStates
      BY <2>1, <3>1 DEF ScanStates
    <3>3. /\ scan'[s].at = scan[s].at /\ scan'[s].input = scan[s].input
          /\ scan'[s].plan = scan[s].plan /\ scan'[s].sure = scan[s].sure
          /\ scan'[s].todo = scan[s].todo /\ scan'[s].found = scan[s].found
          /\ scan'[s].early = scan[s].early \ {d} /\ scan'[s].deaf = deaf
          /\ scan'[s].torn = scan[s].torn
      BY <2>1, <3>1 DEF ScanStates
    <3> QED BY <2>3, <3>1, <3>2, <3>3
  <2> QED BY <2>2, <2>3
<1>4. Types'
  <2>1. scan' \in [Scans -> ScanStates]
    <3>1. scan' = [s \in Scans |-> scan'[s]]
      BY <1>1
    <3> QED BY <1>3, <3>1
  <2>2. setup' \in [Detectors -> {"done", "due", "failed"}]
    BY <1>1 DEF IInv, Types
  <2> QED BY <1>2, <2>1, <2>2 DEF IInv, Types
<1>5. ASSUME NEW s \in Scans PROVE Good(s)'
  <2>1. scan[s].early \subseteq Detectors
    BY Fields DEF IInv
  <2>2. \A e \in Detectors \ {d} : setup'[e] = setup[e]
    BY <1>1 DEF IInv, Types
  <2>3. \A e \in scan'[s].early : setup'[e] = "due"
    BY <1>3, <2>1, <2>2 DEF IInv, Good, Ready
  <2> QED BY <1>2, <1>3, <2>3, Relabelled
<1> QED BY <1>4, <1>5 DEF IInv

LEMMA TearDownKeeps ==
    ASSUME IInv, NEW d \in Detectors, TearDown(d)
    PROVE  IInv'
<1>1. UNCHANGED <<options, registry, setup, running, observed>>
  BY DEF TearDown
<1>2. ASSUME NEW s \in Scans
      PROVE  /\ scan'[s] \in ScanStates
             /\ scan'[s].at = scan[s].at /\ scan'[s].input = scan[s].input
             /\ scan'[s].plan = scan[s].plan /\ scan'[s].sure = scan[s].sure
             /\ scan'[s].todo = scan[s].todo /\ scan'[s].found = scan[s].found
             /\ scan'[s].early = scan[s].early /\ scan'[s].deaf = scan[s].deaf
             /\ scan[s].torn \subseteq scan'[s].torn
  <2>1. scan[s] \in ScanStates
    BY DEF IInv, Types
  <2>2. scan'[s] = scan[s] \/ scan'[s] = [scan[s] EXCEPT !.torn = @ \cup {d}]
    BY DEF TearDown
  <2>3. CASE scan'[s] = scan[s]
    BY <2>1, <2>3
  <2>4. CASE scan'[s] = [scan[s] EXCEPT !.torn = @ \cup {d}]
    <3>1. PICK spent \in SUBSET Detectors : spent = scan[s].torn \cup {d}
      BY Fields DEF IInv
    <3>2. scan'[s] = [scan[s] EXCEPT !.torn = spent]
      BY <2>4, <3>1
    <3> QED BY <2>1, <3>1, <3>2 DEF ScanStates
  <2> QED BY <2>2, <2>3, <2>4
<1>3. Types'
  <2>1. scan' = [s \in Scans |-> scan'[s]]
    BY DEF TearDown
  <2>2. scan' \in [Scans -> ScanStates]
    BY <1>2, <2>1
  <2> QED BY <1>1, <2>2 DEF IInv, Types, TearDown
<1>4. ASSUME NEW s \in Scans PROVE Good(s)'
  <2>1. \A e \in scan'[s].early : setup'[e] = "due"
    BY <1>1, <1>2 DEF IInv, Good, Ready
  <2> QED BY <1>1, <1>2, <2>1, Relabelled
<1> QED BY <1>3, <1>4 DEF IInv

LEMMA UnregisterKeeps ==
    ASSUME IInv, NEW d \in Detectors, Unregister(d)
    PROVE  IInv'
<1>1. registry \in Seq(Detectors) /\ IsInjective(registry)
  BY DEF IInv, Types
<1>2. registry' \in Seq(Detectors) /\ IsInjective(registry')
  BY <1>1, Removed DEF Unregister
<1>3. Types'
  BY <1>2 DEF IInv, Types, Unregister
<1>4. ASSUME NEW s \in Scans PROVE Good(s)'
  BY Untouched DEF Unregister
<1> QED BY <1>3, <1>4 DEF IInv
-----------------------------------------------------------------------------
(* The steps of one scan leave the others alone.                           *)
LEMMA Others ==
    ASSUME IInv, NEW s \in Scans, NEW t \in Scans \ {s},
           UNCHANGED <<options, setup>>,
           \E c : scan' = [scan EXCEPT ![s] = c],
           \E c : running' = [running EXCEPT ![s] = c],
           \E c : observed' = [observed EXCEPT ![s] = c]
    PROVE  Good(t)'
<1>1. scan'[t] = scan[t] /\ running'[t] = running[t] /\ observed'[t] = observed[t]
  BY DEF IInv, Types
<1> QED BY <1>1, Untouched

LEMMA Same ==
    ASSUME Types, NEW s \in Scans
    PROVE  running = [running EXCEPT ![s] = @] /\ observed = [observed EXCEPT ![s] = @]
BY DEF Types

(* A step of one scan that keeps it right, and the types, keeps all.       *)
LEMMA OneScan ==
    ASSUME IInv, NEW s \in Scans,
           UNCHANGED <<options, registry, setup, torn, leaving, changes>>,
           \E c \in ScanStates : scan' = [scan EXCEPT ![s] = c],
           \E r \in SUBSET Detectors : running' = [running EXCEPT ![s] = r],
           \E o \in SUBSET Detectors : observed' = [observed EXCEPT ![s] = o],
           Good(s)'
    PROVE  IInv'
<1>1. Types'
  BY DEF IInv, Types
<1>2. \A t \in Scans : Good(t)'
  BY Others
<1> QED BY <1>1, <1>2 DEF IInv

LEMMA ListedKeeps ==
    ASSUME IInv, NEW s \in Scans, NEW i \in Inputs, Listed(s, i)
    PROVE  IInv'
<1>1. PICK risk \in 0..100, action \in Actions :
         scan' = [scan EXCEPT ![s] = [Fresh EXCEPT !.at = "reported", !.input = i,
                                                   !.risk = risk, !.action = action]]
  BY DEF Listed, ListedAs, Actions
<1> DEFINE c == [Fresh EXCEPT !.at = "reported", !.input = i,
                              !.risk = risk, !.action = action]
<1>2. c \in ScanStates
  BY FreshScan DEF ScanStates
<1>3. /\ scan[s].at = "idle" /\ UNCHANGED <<options, registry, setup, torn, leaving, changes>>
      /\ running' = running /\ observed' = observed
  BY DEF Listed
<1>4. /\ c.at = "reported" /\ c.input = i /\ c.plan = {} /\ c.sure = {} /\ c.early = {}
      /\ c.deaf = {} /\ c.torn = {} /\ c.todo = <<>> /\ c.found = <<>>
  BY DEF Fresh
<1> HIDE DEF c
<1>5. scan' = [scan EXCEPT ![s] = c] /\ scan'[s] = c
  BY <1>1 DEF c, IInv, Types
<1>6. Good(s)'
  <2>1. Good(s) /\ running[s] = {} /\ running'[s] = {}
    BY <1>3 DEF IInv, Good, Ended
  <2>2. ToSet(<<>>) = {} /\ IsInjective(<<>>)
    BY DEF ToSet, IsInjective
  <2>3. Apart(s)'
    BY <1>3, <1>4, <1>5, <2>1, <2>2 DEF Good, Apart, Waiting
  <2> QED BY <1>3, <1>4, <1>5, <2>1, <2>3 DEF Good, Ready, Heard, Ended, Scanning, Under
<1>7. running[s] \subseteq Detectors /\ observed[s] \subseteq Detectors
  BY Fields DEF IInv
<1> QED BY <1>2, <1>3, <1>5, <1>6, <1>7, Same, OneScan DEF IInv

LEMMA PlanKeeps ==
    ASSUME IInv, NEW s \in Scans, NEW i \in Inputs, Plan(s, i)
    PROVE  IInv'
<1> DEFINE At(status) == {d \in ToSet(registry) : setup[d] = status}
<1>1. PICK at \in Scanning, todo \in Seq(Detectors),
           plan, sure, early, deaf, spent \in SUBSET Detectors :
         /\ scan' = [scan EXCEPT ![s] = [Fresh EXCEPT !.at = at, !.input = i, !.plan = plan,
                          !.todo = todo, !.sure = sure, !.early = early, !.deaf = deaf,
                          !.current = plan, !.torn = spent]]
         /\ todo = registry /\ plan = ToSet(registry)
         /\ sure = At("done") /\ early = At("due") /\ deaf = At("failed")
  <2>1. registry \in Seq(Detectors) /\ ToSet(registry) \subseteq Detectors
    BY SetOf DEF IInv, Types
  <2>2. scan' = [scan EXCEPT ![s] = [Fresh EXCEPT
                !.at = IF options.workers > 0 /\ Len(registry) > 1 THEN "pool" ELSE "loop",
                !.input = i, !.plan = ToSet(registry), !.todo = registry,
                !.sure = At("done"), !.early = At("due"), !.deaf = At("failed"),
                !.current = ToSet(registry), !.torn = torn \cap ToSet(registry)]]
    BY DEF Plan
  <2>3. PICK at \in Scanning :
           at = IF options.workers > 0 /\ Len(registry) > 1 THEN "pool" ELSE "loop"
    BY DEF Scanning
  <2>4. At("done") \subseteq Detectors /\ At("due") \subseteq Detectors /\ At("failed") \subseteq Detectors
        /\ torn \cap ToSet(registry) \subseteq Detectors
    BY <2>1
  <2> HIDE DEF At
  <2> QED BY <2>1, <2>2, <2>3, <2>4
<1> DEFINE c == [Fresh EXCEPT !.at = at, !.input = i, !.plan = plan,
                          !.todo = todo, !.sure = sure, !.early = early, !.deaf = deaf,
                          !.current = plan, !.torn = spent]
<1>2. c \in ScanStates
  <2>1. at \in {"idle", "loop", "pool", "raising", "failed", "reported"}
    BY DEF Scanning
  <2> QED BY <2>1, FreshScan DEF ScanStates
<1>3. /\ scan[s].at = "idle" /\ UNCHANGED <<options, registry, setup, torn, leaving, changes>>
      /\ running' = running /\ observed' = observed /\ i \in Inputs \ (Allowed \cup Blocked)
  BY DEF Plan
<1>4. /\ c.at = at /\ c.input = i /\ c.plan = plan /\ c.sure = sure /\ c.early = early
      /\ c.deaf = deaf /\ c.todo = todo /\ c.found = <<>>
  BY DEF Fresh
<1> HIDE DEF c
<1>5. scan' = [scan EXCEPT ![s] = c] /\ scan'[s] = c
  BY <1>1 DEF c, IInv, Types
<1>6. Good(s)'
  <2>1. Good(s) /\ running[s] = {} /\ running'[s] = {}
    BY <1>3 DEF IInv, Good, Ended
  <2>2. ToSet(<<>>) = {} /\ IsInjective(<<>>)
    BY DEF ToSet, IsInjective
  <2>3. IsInjective(todo) /\ ToSet(todo) = plan
    BY <1>1 DEF IInv, Types
  <2>4. Waiting(s)' = plan
    BY <1>4, <1>5, <2>1, <2>3 DEF Waiting
  <2>5. Apart(s)'
    BY <1>3, <1>4, <1>5, <2>1, <2>2, <2>3, <2>4 DEF Good, Apart
  <2>6. sure \subseteq plan /\ sure \cap (early \cup deaf) = {} /\ \A d \in early : setup[d] = "due"
    BY <1>1
  <2>7. Ready(s)'
    BY <1>3, <1>4, <1>5, <2>6 DEF Ready
  <2>8. Heard(s)'
    BY <1>3, <1>4, <1>5, <2>2, <2>4, <2>6 DEF Heard, Scanning, Under
  <2>9. Ended(s)'
    BY <1>4, <1>5, <2>1 DEF Ended, Scanning
  <2> QED BY <2>5, <2>7, <2>8, <2>9 DEF Good
<1>7. running[s] \subseteq Detectors /\ observed[s] \subseteq Detectors
  BY Fields DEF IInv
<1> QED BY <1>2, <1>3, <1>5, <1>6, <1>7, Same, OneScan DEF IInv
-----------------------------------------------------------------------------
LEMMA ResultOf ==
    ASSUME NEW s, NEW d, NEW r \in Results(s, d)
    PROVE  /\ r = "raised" => Raises(scan[s].input, d) \/ d \in scan[s].torn
           /\ r = "fired" => Fires(scan[s].input, d)
           /\ d \notin scan[s].early \cup scan[s].deaf \cup scan[s].torn =>
                 /\ Raises(scan[s].input, d) => r = "raised"
                 /\ Fires(scan[s].input, d) => r = "fired"
<1> DEFINE o == Outcome[scan[s].input][d]
           ready == d \notin scan[s].early \cup scan[s].deaf
           q == Result(s, d)
<1>1. /\ q = "raised" => Raises(scan[s].input, d)
      /\ q = "fired" => Fires(scan[s].input, d)
      /\ ready => /\ Raises(scan[s].input, d) => q = "raised"
                  /\ Fires(scan[s].input, d) => q = "fired"
  <2>1. CASE ready /\ o.raises
    BY <2>1 DEF Result, Raises, Fires
  <2>2. CASE ready /\ ~ o.raises /\ o.detected /\ o.confidence >= Threshold[d]
    BY <2>2 DEF Result, Raises, Fires
  <2>3. CASE /\ ~ (ready /\ o.raises)
             /\ ~ (ready /\ ~ o.raises /\ o.detected /\ o.confidence >= Threshold[d])
    <3>1. q = "quiet"
      BY <2>3 DEF Result
    <3> QED BY <2>3, <3>1 DEF Raises, Fires
  <2> QED BY <2>1, <2>2, <2>3
<1>2. r = q \/ (d \in scan[s].torn /\ r \in {"quiet", "raised"})
  BY DEF Results
<1> HIDE DEF q
<1> QED BY <1>1, <1>2

(* One detector has answered, and the scan goes on.                        *)
LEMMA OneHeard ==
    ASSUME IInv, NEW s \in Scans, NEW d \in Waiting(s), NEW r \in Results(s, d),
           scan[s].at \in Scanning, options' = options, setup' = setup,
           ~ (options.strict /\ r = "raised"),
           scan'[s].at = scan[s].at, scan'[s].input = scan[s].input,
           scan'[s].plan = scan[s].plan, scan'[s].sure = scan[s].sure, scan'[s].torn = scan[s].torn,
           scan'[s].found = Found(s, d, r), observed' = Observed(s, d, r),
           Waiting(s)' = Waiting(s) \ {d}
    PROVE  Heard(s)'
<1>1. Good(s)
  BY DEF IInv
<1>2. d \in Detectors /\ d \notin ToSet(scan[s].found)
  <2>1. Waiting(s) \subseteq Detectors
    BY Fields, SetOf DEF IInv, Waiting
  <2> QED BY <1>1, <2>1 DEF Good, Apart, Waiting
<1>3. ToSet(scan'[s].found) = IF r = "fired" THEN ToSet(scan[s].found) \cup {d} ELSE ToSet(scan[s].found)
  <2>1. scan[s].found \in Seq(Detectors)
    BY Fields DEF IInv
  <2>2. ToSet(Append(scan[s].found, d)) = ToSet(scan[s].found) \cup {d}
    BY <1>2, <2>1, Appended
  <2> QED BY <2>2 DEF Found
<1>4. observed'[s] = IF r = "raised" THEN observed[s] ELSE observed[s] \cup {d}
  BY DEF Observed, IInv, Types
<1> DEFINE i == scan[s].input
<1>5. \A e \in ToSet(scan'[s].found) : Fires(i, e)
  BY <1>1, <1>3, ResultOf DEF Good, Heard
<1>6. \A e \in scan[s].sure \ ((Waiting(s) \ {d}) \cup scan[s].torn) :
         /\ Fires(i, e) => e \in ToSet(scan'[s].found)
         /\ ~ (options.strict /\ Raises(i, e))
  <2> TAKE e \in scan[s].sure \ ((Waiting(s) \ {d}) \cup scan[s].torn)
  <2>1. CASE e = d
    <3>1. d \notin scan[s].early \cup scan[s].deaf \cup scan[s].torn
      BY <1>1, <2>1 DEF Good, Ready
    <3> QED BY <1>3, <2>1, <3>1, ResultOf
  <2>2. CASE e # d
    <3>1. e \in scan[s].sure \ (Waiting(s) \cup scan[s].torn)
      BY <2>2
    <3>2. Fires(i, e) => e \in ToSet(scan[s].found)
      BY <1>1, <3>1 DEF Good, Heard
    <3>3. ~ (options.strict /\ Raises(i, e))
      BY <1>1, <3>1 DEF Good, Heard
    <3> QED BY <1>3, <3>2, <3>3
  <2> QED BY <2>1, <2>2
<1>7. \A e \in scan[s].plan \ (observed'[s] \cup (Waiting(s) \ {d}) \cup scan[s].torn) : Raises(i, e)
  <2> TAKE e \in scan[s].plan \ (observed'[s] \cup (Waiting(s) \ {d}) \cup scan[s].torn)
  <2>1. CASE e = d
    <3>1. r = "raised"
      BY <1>4, <2>1
    <3> QED BY <2>1, <3>1, ResultOf
  <2>2. CASE e # d
    <3>1. e \in scan[s].plan \ (observed[s] \cup Waiting(s) \cup scan[s].torn)
      BY <1>4, <2>2
    <3> QED BY <1>1, <3>1 DEF Good, Heard
  <2> QED BY <2>1, <2>2
<1>8. i \in Inputs \ (Allowed \cup Blocked)
  BY <1>1 DEF Good, Heard, Scanning, Under
<1>9. scan[s].at \notin {"raising", "failed"}
  BY DEF Scanning
<1> QED BY <1>5, <1>6, <1>7, <1>8, <1>9 DEF Heard

(* What becomes of the detectors found and of the observations has its     *)
(* type.                                                                   *)
LEMMA AnswerTypes ==
    ASSUME IInv, NEW s \in Scans, NEW d \in Detectors, NEW r
    PROVE  /\ Found(s, d, r) \in Seq(Detectors)
           /\ \E o \in SUBSET Detectors : Observed(s, d, r) = [observed EXCEPT ![s] = o]
<1>1. Found(s, d, r) \in Seq(Detectors)
  BY Fields, Appended DEF Found, IInv
<1>2. observed[s] \in SUBSET Detectors /\ observed = [observed EXCEPT ![s] = observed[s]]
  BY DEF IInv, Types
<1>3. CASE r = "raised"
  <2>1. Observed(s, d, r) = [observed EXCEPT ![s] = observed[s]]
    BY <1>2, <1>3 DEF Observed
  <2>2. \E o \in SUBSET Detectors : Observed(s, d, r) = [observed EXCEPT ![s] = o]
    BY <1>2, <2>1
  <2> QED BY <1>1, <2>2
<1>4. CASE r # "raised"
  <2> DEFINE o == observed[s] \cup {d}
  <2>1. Observed(s, d, r) = [observed EXCEPT ![s] = o]
    BY <1>4 DEF Observed
  <2>2. o \in SUBSET Detectors
    BY <1>2
  <2> HIDE DEF o
  <2>3. \E x \in SUBSET Detectors : Observed(s, d, r) = [observed EXCEPT ![s] = x]
    BY <2>1, <2>2
  <2> QED BY <1>1, <2>3
<1> QED BY <1>3, <1>4

LEMMA RunNextKeeps ==
    ASSUME IInv, NEW s \in Scans, RunNext(s)
    PROVE  IInv'
<1>1. PICK d : d = Head(scan[s].todo)
  OBVIOUS
<1>2. PICK r :
      /\ r \in Results(s, d)
      /\ scan[s].at = "loop" /\ scan[s].todo # <<>>
      /\ observed' = Observed(s, d, r)
      /\ scan' = [scan EXCEPT ![s] =
            IF options.strict /\ r = "raised" THEN [scan[s] EXCEPT !.at = "failed", !.todo = <<>>]
            ELSE [scan[s] EXCEPT !.todo = Tail(@), !.found = Found(s, d, r)]]
      /\ UNCHANGED <<options, registry, setup, torn, leaving, changes, running>>
  BY <1>1 DEF RunNext
<1>3. Good(s) /\ scan[s] \in ScanStates /\ running[s] = {} /\ running'[s] = {}
  BY <1>2 DEF IInv, Types, Good, Ended
<1>4. /\ d \in Detectors /\ Tail(scan[s].todo) \in Seq(Detectors)
      /\ IsInjective(Tail(scan[s].todo))
      /\ ToSet(scan[s].todo) = {d} \cup ToSet(Tail(scan[s].todo))
      /\ d \notin ToSet(Tail(scan[s].todo))
  BY <1>1, <1>2, <1>3, Fields, Taken DEF Good, Apart, IInv
<1>5. Found(s, d, r) \in Seq(Detectors) /\ \E o \in SUBSET Detectors : observed' = [observed EXCEPT ![s] = o]
  <2>1. d \in Detectors /\ observed' = Observed(s, d, r)
    BY <1>2, <1>4
  <2>2. /\ Found(s, d, r) \in Seq(Detectors)
        /\ \E o \in SUBSET Detectors : Observed(s, d, r) = [observed EXCEPT ![s] = o]
    BY <2>1, AnswerTypes
  <2> QED BY <2>1, <2>2
<1>6. running[s] \subseteq Detectors /\ running' = [running EXCEPT ![s] = running[s]]
  BY <1>2, <1>3 DEF IInv, Types
<1>7. d \in Waiting(s) /\ d \in scan[s].plan
  BY <1>3, <1>4 DEF Waiting, Good, Apart
<1>8. CASE options.strict /\ r = "raised"
  <2> DEFINE c == [scan[s] EXCEPT !.at = "failed", !.todo = <<>>]
  <2>1. c \in ScanStates
    <3>1. <<>> \in Seq(Detectors)
      OBVIOUS
    <3> QED BY <1>3, <3>1 DEF ScanStates
  <2>2. /\ c.at = "failed" /\ c.todo = <<>> /\ c.found = scan[s].found
        /\ c.plan = scan[s].plan /\ c.sure = scan[s].sure /\ c.early = scan[s].early
        /\ c.deaf = scan[s].deaf /\ c.torn = scan[s].torn /\ c.input = scan[s].input
    BY <1>3 DEF ScanStates
  <2> HIDE DEF c
  <2>3. scan' = [scan EXCEPT ![s] = c] /\ scan'[s] = c
    BY <1>2, <1>8 DEF c, IInv, Types
  <2>4. ToSet(<<>>) = {} /\ IsInjective(<<>>)
    BY DEF ToSet, IsInjective
  <2>5. Apart(s)'
    BY <1>2, <1>3, <2>2, <2>3, <2>4 DEF Good, Apart, Waiting
  <2>6. Ready(s)'
    BY <1>2, <1>3, <2>2, <2>3 DEF Good, Ready
  <2>7. Heard(s)'
    <3>1. options.strict /\ (scan[s].torn # {} \/ Raises(scan[s].input, d))
      BY <1>2, <1>8, ResultOf
    <3>2. scan[s].input \in Inputs \ (Allowed \cup Blocked)
      BY <1>2, <1>3 DEF Good, Heard, Under
    <3> QED BY <1>2, <1>7, <2>2, <2>3, <3>1, <3>2 DEF Heard, Scanning
  <2>8. Ended(s)'
    BY <1>3, <2>2, <2>3 DEF Ended
  <2>9. Good(s)'
    BY <2>5, <2>6, <2>7, <2>8 DEF Good
  <2> QED BY <1>2, <1>5, <1>6, <2>1, <2>3, <2>9, OneScan
<1>9. CASE ~ (options.strict /\ r = "raised")
  <2> DEFINE c == [scan[s] EXCEPT !.todo = Tail(@), !.found = Found(s, d, r)]
  <2>1. c \in ScanStates
    BY <1>3, <1>4, <1>5 DEF ScanStates
  <2>2. /\ c.at = "loop" /\ c.todo = Tail(scan[s].todo) /\ c.found = Found(s, d, r)
        /\ c.plan = scan[s].plan /\ c.sure = scan[s].sure /\ c.early = scan[s].early
        /\ c.deaf = scan[s].deaf /\ c.torn = scan[s].torn /\ c.input = scan[s].input
    BY <1>2, <1>3 DEF ScanStates
  <2> HIDE DEF c
  <2>3. scan' = [scan EXCEPT ![s] = c] /\ scan'[s] = c
    <3>1. scan' = [scan EXCEPT ![s] = [scan[s] EXCEPT !.todo = Tail(@), !.found = Found(s, d, r)]]
      BY <1>2, <1>9
    <3>2. scan' = [scan EXCEPT ![s] = c]
      BY <3>1 DEF c
    <3> QED BY <3>2 DEF IInv, Types
  <2>4. Waiting(s)' = Waiting(s) \ {d}
    BY <1>3, <1>4, <2>2, <2>3 DEF Waiting
  <2>5. IsInjective(c.found) /\ ToSet(c.found) \subseteq ToSet(scan[s].found) \cup {d}
    <3>1. d \notin ToSet(scan[s].found)
      BY <1>3, <1>4 DEF Good, Apart
    <3> QED BY <1>3, <1>4, <2>2, <3>1, Fields, Appended DEF Found, Good, Apart, IInv
  <2>6. Apart(s)'
    <3>1. IsInjective(c.todo) /\ ToSet(c.todo) \cap ToSet(c.found) = {}
      BY <1>3, <1>4, <2>2, <2>5 DEF Good, Apart
    <3>2. Waiting(s)' \cup ToSet(c.found) \subseteq c.plan
      BY <1>3, <1>7, <2>2, <2>4, <2>5 DEF Good, Apart
    <3>3. Cardinality(running'[s]) <= options'.workers
      BY <1>2, <1>3 DEF Good, Apart
    <3> QED BY <1>3, <2>3, <2>5, <3>1, <3>2, <3>3 DEF Apart
  <2>7. Ready(s)'
    BY <1>2, <1>3, <2>2, <2>3 DEF Good, Ready
  <2>8. Heard(s)'
    BY <1>1, <1>2, <1>7, <1>9, <2>2, <2>3, <2>4, OneHeard DEF Scanning
  <2>9. Ended(s)'
    BY <1>3, <2>2, <2>3 DEF Ended
  <2>10. Good(s)'
    BY <2>6, <2>7, <2>8, <2>9 DEF Good
  <2> QED BY <1>2, <1>5, <1>6, <2>1, <2>3, <2>10, OneScan
<1> QED BY <1>8, <1>9
-----------------------------------------------------------------------------
LEMMA Pool ==
    ASSUME Types, NEW s \in Scans
    PROVE  /\ IsFiniteSet(running[s]) /\ Cardinality(running[s]) \in Nat
           /\ \A d : Cardinality(running[s] \ {d}) <= Cardinality(running[s])
           /\ \A d : d \notin running[s] =>
                 Cardinality(running[s] \cup {d}) = Cardinality(running[s]) + 1
<1>1. IsFiniteSet(running[s])
  BY Fields, FS_Subset, VerdictAssumption
<1>2. Cardinality(running[s]) \in Nat
  BY <1>1, FS_CardinalityType
<1>3. \A d : Cardinality(running[s] \ {d}) <= Cardinality(running[s])
  <2> TAKE d
  <2> HIDE DEF Types
  <2>1. Cardinality(running[s] \ {d}) = IF d \in running[s] THEN Cardinality(running[s]) - 1
                                        ELSE Cardinality(running[s])
    BY <1>1, FS_RemoveElement
  <2> QED BY <1>2, <2>1
<1>4. \A d : d \notin running[s] => Cardinality(running[s] \cup {d}) = Cardinality(running[s]) + 1
  BY <1>1, FS_AddElement
<1> QED BY <1>1, <1>2, <1>3, <1>4

LEMMA BeginKeeps ==
    ASSUME IInv, NEW s \in Scans, Begin(s)
    PROVE  IInv'
<1>1. PICK d : d = Head(scan[s].todo)
  OBVIOUS
<1>2. /\ scan[s].at \in {"pool", "raising"} /\ scan[s].todo # <<>>
      /\ Cardinality(running[s]) < options.workers
      /\ running' = [running EXCEPT ![s] = running[s] \cup {d}]
      /\ scan' = [scan EXCEPT ![s].todo = Tail(scan[s].todo)]
      /\ UNCHANGED <<options, registry, setup, torn, leaving, changes, observed>>
  BY <1>1 DEF Begin
<1>3. Good(s) /\ scan[s] \in ScanStates
  BY DEF IInv, Types
<1>4. /\ d \in Detectors /\ Tail(scan[s].todo) \in Seq(Detectors)
      /\ IsInjective(Tail(scan[s].todo))
      /\ ToSet(scan[s].todo) = {d} \cup ToSet(Tail(scan[s].todo))
      /\ d \notin ToSet(Tail(scan[s].todo))
  BY <1>1, <1>2, <1>3, Fields, Taken DEF Good, Apart, IInv
<1> DEFINE c == [scan[s] EXCEPT !.todo = Tail(scan[s].todo)]
<1>5. c \in ScanStates
  BY <1>3, <1>4 DEF ScanStates
<1>6. /\ c.at = scan[s].at /\ c.todo = Tail(scan[s].todo) /\ c.found = scan[s].found
      /\ c.plan = scan[s].plan /\ c.sure = scan[s].sure /\ c.early = scan[s].early
      /\ c.deaf = scan[s].deaf /\ c.torn = scan[s].torn /\ c.input = scan[s].input
  BY <1>3 DEF ScanStates
<1>7. scan' = [scan EXCEPT ![s] = c]
  BY <1>2
<1> HIDE DEF c
<1>8. scan'[s] = c /\ running'[s] = running[s] \cup {d} /\ observed'[s] = observed[s]
  BY <1>2, <1>7 DEF IInv, Types
<1>9. Waiting(s)' = Waiting(s)
  BY <1>4, <1>6, <1>8 DEF Waiting
<1>10. Apart(s)'
  <2>1. d \notin running[s] /\ d \notin ToSet(scan[s].found)
    BY <1>3, <1>4 DEF Good, Apart
  <2>2. Cardinality(running[s] \cup {d}) <= options.workers
    <3>1. Cardinality(running[s]) \in Nat /\ options.workers \in Nat
      BY Pool, Fields DEF IInv
    <3>2. Cardinality(running[s] \cup {d}) = Cardinality(running[s]) + 1
      BY <2>1, Pool DEF IInv
    <3> QED BY <1>2, <3>1, <3>2
  <2>3. IsInjective(c.todo) /\ ToSet(c.todo) \cap ToSet(c.found) = {}
    BY <1>3, <1>4, <1>6 DEF Good, Apart
  <2>4. (running[s] \cup {d}) \cap (ToSet(c.todo) \cup ToSet(c.found)) = {}
    BY <1>3, <1>4, <1>6, <2>1 DEF Good, Apart
  <2> QED BY <1>2, <1>3, <1>6, <1>8, <1>9, <2>2, <2>3, <2>4 DEF Good, Apart
<1>11. Ready(s)'
  BY <1>2, <1>3, <1>6, <1>8 DEF Good, Ready
<1>12. Heard(s)'
  BY <1>2, <1>3, <1>6, <1>8, <1>9 DEF Good, Heard
<1>13. Ended(s)'
  BY <1>2, <1>6, <1>8 DEF Ended
<1>14. Good(s)'
  BY <1>10, <1>11, <1>12, <1>13 DEF Good
<1>15. running[s] \cup {d} \in SUBSET Detectors /\ observed[s] \in SUBSET Detectors
  BY <1>4, Fields DEF IInv
<1>16. observed' = [observed EXCEPT ![s] = observed[s]]
  BY <1>2 DEF IInv, Types
<1> QED BY <1>2, <1>5, <1>7, <1>14, <1>15, <1>16, OneScan

(* The states from which Complete(s, d) can start, and what it makes of    *)
(* the pool.                                                               *)
LEMMA Leaves ==
    ASSUME IInv, NEW s \in Scans, NEW d \in running[s],
           running' = [running EXCEPT ![s] = running[s] \ {d}]
    PROVE  /\ scan[s].at \in {"pool", "raising"} /\ d \in Detectors /\ d \in Waiting(s)
           /\ d \in scan[s].plan /\ d \notin ToSet(scan[s].todo) /\ d \notin ToSet(scan[s].found)
           /\ running'[s] = running[s] \ {d} /\ running'[s] \in SUBSET Detectors
           /\ Cardinality(running'[s]) <= options.workers
<1>1. Good(s) /\ running[s] # {} /\ running[s] \subseteq Detectors
  BY Fields DEF IInv
<1>2. scan[s].at \in {"pool", "raising"}
  BY <1>1, Fields DEF Good, Ended, IInv
<1>3. running'[s] = running[s] \ {d}
  BY DEF IInv, Types
<1>4. Cardinality(running[s] \ {d}) <= options.workers
  <2>1. Cardinality(running[s]) \in Nat /\ options.workers \in Nat
    BY Pool, Fields DEF IInv
  <2>2. Cardinality(running[s] \ {d}) <= Cardinality(running[s])
    BY Pool DEF IInv
  <2>3. Cardinality(running[s]) <= options.workers
    BY <1>1 DEF Good, Apart
  <2>4. Cardinality(running[s] \ {d}) \in Nat
    BY Pool, FS_Subset, FS_CardinalityType DEF IInv
  <2> QED BY <2>1, <2>2, <2>3, <2>4
<1> QED BY <1>1, <1>2, <1>3, <1>4 DEF Good, Apart, Waiting

LEMMA CompleteKeeps ==
    ASSUME IInv, NEW s \in Scans, NEW d \in Detectors, Complete(s, d)
    PROVE  IInv'
<1>2. PICK r :
      /\ r \in Results(s, d)
      /\ d \in running[s]
      /\ running' = [running EXCEPT ![s] = running[s] \ {d}]
      /\ observed' = Observed(s, d, r)
      /\ scan' = [scan EXCEPT ![s] =
            IF scan[s].at = "raising" THEN scan[s]
            ELSE IF options.strict /\ r = "raised" THEN [scan[s] EXCEPT !.at = "raising"]
            ELSE [scan[s] EXCEPT !.found = Found(s, d, r)]]
      /\ UNCHANGED <<options, registry, setup, torn, leaving, changes>>
  BY DEF Complete
<1>3. Good(s) /\ scan[s] \in ScanStates
  BY DEF IInv, Types
<1>4. /\ scan[s].at \in {"pool", "raising"} /\ d \in Waiting(s)
      /\ d \in scan[s].plan /\ d \notin ToSet(scan[s].todo) /\ d \notin ToSet(scan[s].found)
      /\ running'[s] = running[s] \ {d} /\ running'[s] \in SUBSET Detectors
      /\ Cardinality(running'[s]) <= options.workers
  BY <1>2, Leaves
<1>5. running' = [running EXCEPT ![s] = running'[s]]
  BY <1>2, <1>4
<1>6. Found(s, d, r) \in Seq(Detectors) /\ \E o \in SUBSET Detectors : observed' = [observed EXCEPT ![s] = o]
  <2>1. observed' = Observed(s, d, r)
    BY <1>2
  <2>2. /\ Found(s, d, r) \in Seq(Detectors)
        /\ \E o \in SUBSET Detectors : Observed(s, d, r) = [observed EXCEPT ![s] = o]
    BY AnswerTypes
  <2> QED BY <2>1, <2>2
<1>7. observed'[s] = IF r = "raised" THEN observed[s] ELSE observed[s] \cup {d}
  BY <1>2 DEF Observed, IInv, Types
<1>8. r = "raised" => Raises(scan[s].input, d) \/ d \in scan[s].torn
  BY <1>2, ResultOf
<1>9. CASE scan[s].at = "raising" \/ (options.strict /\ r = "raised")
  <2> DEFINE c == [scan[s] EXCEPT !.at = "raising"]
  <2>1. c \in ScanStates
    BY <1>3 DEF ScanStates
  <2>2. /\ c.at = "raising" /\ c.todo = scan[s].todo /\ c.found = scan[s].found
        /\ c.plan = scan[s].plan /\ c.sure = scan[s].sure /\ c.early = scan[s].early
        /\ c.deaf = scan[s].deaf /\ c.torn = scan[s].torn /\ c.input = scan[s].input
    BY <1>3 DEF ScanStates
  <2>3. scan' = [scan EXCEPT ![s] = c]
    <3>1. CASE scan[s].at = "raising"
      <4>1. c = scan[s]
        BY <1>3, <3>1 DEF ScanStates
      <4> QED BY <1>2, <3>1, <4>1
    <3>2. CASE scan[s].at # "raising"
      BY <1>2, <1>9, <3>2
    <3> QED BY <3>1, <3>2
  <2> HIDE DEF c
  <2>4. scan'[s] = c
    BY <2>3 DEF IInv, Types
  <2>5. Waiting(s)' = Waiting(s) \ {d}
    BY <1>4, <2>2, <2>4 DEF Waiting
  <2>6. Apart(s)'
    BY <1>2, <1>3, <1>4, <2>2, <2>4, <2>5 DEF Good, Apart
  <2>7. Ready(s)'
    BY <1>2, <1>3, <2>2, <2>4 DEF Good, Ready
  <2>8. Heard(s)'
    <3>1. scan[s].input \in Inputs \ (Allowed \cup Blocked)
      BY <1>3, <1>4 DEF Good, Heard, Under
    <3>2. options.strict /\ (scan[s].torn # {} \/ \E e \in scan[s].plan : Raises(scan[s].input, e))
      BY <1>3, <1>4, <1>8, <1>9 DEF Good, Heard
    <3>3. \A e \in scan[s].plan \ (observed'[s] \cup (Waiting(s) \ {d}) \cup scan[s].torn) : Raises(scan[s].input, e)
      <4> TAKE e \in scan[s].plan \ (observed'[s] \cup (Waiting(s) \ {d}) \cup scan[s].torn)
      <4>1. CASE e = d
        BY <1>7, <1>8, <4>1
      <4>2. CASE e # d
        <5>1. e \in scan[s].plan \ (observed[s] \cup Waiting(s) \cup scan[s].torn)
          BY <1>7, <4>2
        <5> QED BY <1>3, <1>4, <5>1 DEF Good, Heard, Scanning
      <4> QED BY <4>1, <4>2
    <3> QED BY <1>2, <2>2, <2>4, <2>5, <3>1, <3>2, <3>3 DEF Heard, Scanning
  <2>9. Ended(s)'
    BY <2>2, <2>4 DEF Ended
  <2>10. Good(s)'
    BY <2>6, <2>7, <2>8, <2>9 DEF Good
  <2> QED BY <1>2, <1>4, <1>5, <1>6, <2>1, <2>3, <2>10, OneScan
<1>10. CASE scan[s].at = "pool" /\ ~ (options.strict /\ r = "raised")
  <2> DEFINE c == [scan[s] EXCEPT !.found = Found(s, d, r)]
  <2>1. c \in ScanStates
    BY <1>3, <1>6 DEF ScanStates
  <2>2. /\ c.at = "pool" /\ c.todo = scan[s].todo /\ c.found = Found(s, d, r)
        /\ c.plan = scan[s].plan /\ c.sure = scan[s].sure /\ c.early = scan[s].early
        /\ c.deaf = scan[s].deaf /\ c.torn = scan[s].torn /\ c.input = scan[s].input
    BY <1>3, <1>10 DEF ScanStates
  <2>3. scan' = [scan EXCEPT ![s] = c]
    BY <1>2, <1>10
  <2> HIDE DEF c
  <2>4. scan'[s] = c
    BY <2>3 DEF IInv, Types
  <2>5. Waiting(s)' = Waiting(s) \ {d}
    BY <1>4, <2>2, <2>4 DEF Waiting
  <2>6. IsInjective(c.found) /\ ToSet(c.found) \subseteq ToSet(scan[s].found) \cup {d}
    BY <1>3, <1>4, <2>2, Fields, Appended DEF Found, Good, Apart, IInv
  <2>7. Apart(s)'
    <3>1. IsInjective(c.todo) /\ ToSet(c.todo) \cap ToSet(c.found) = {}
      BY <1>3, <1>4, <2>2, <2>6 DEF Good, Apart
    <3>2. Waiting(s)' \cup ToSet(c.found) \subseteq c.plan
      BY <1>3, <1>4, <2>2, <2>5, <2>6 DEF Good, Apart
    <3>3. running'[s] \cap (ToSet(c.todo) \cup ToSet(c.found)) = {}
      BY <1>3, <1>4, <2>2, <2>6 DEF Good, Apart
    <3> QED BY <1>2, <1>4, <2>4, <2>6, <3>1, <3>2, <3>3 DEF Apart
  <2>8. Ready(s)'
    BY <1>2, <1>3, <2>2, <2>4 DEF Good, Ready
  <2>9. Heard(s)'
    BY <1>2, <1>4, <1>10, <2>2, <2>4, <2>5, OneHeard DEF Scanning
  <2>10. Ended(s)'
    BY <2>2, <2>4 DEF Ended
  <2>11. Good(s)'
    BY <2>7, <2>8, <2>9, <2>10 DEF Good
  <2> QED BY <1>2, <1>4, <1>5, <1>6, <2>1, <2>3, <2>11, OneScan
<1> QED BY <1>4, <1>9, <1>10

LEMMA RaiseKeeps ==
    ASSUME IInv, NEW s \in Scans, Raise(s)
    PROVE  IInv'
<1> DEFINE c == [scan[s] EXCEPT !.at = "failed"]
<1>1. /\ scan[s].at = "raising" /\ scan[s].todo = <<>> /\ running[s] = {}
      /\ scan' = [scan EXCEPT ![s].at = "failed"]
      /\ UNCHANGED <<options, registry, setup, torn, leaving, changes, running, observed>>
  BY DEF Raise, PoolIsDone
<1>2. Good(s) /\ scan[s] \in ScanStates
  BY DEF IInv, Types
<1>3. c \in ScanStates
  BY <1>2 DEF ScanStates
<1>4. /\ c.at = "failed" /\ c.todo = <<>> /\ c.found = scan[s].found
      /\ c.plan = scan[s].plan /\ c.sure = scan[s].sure /\ c.early = scan[s].early
      /\ c.deaf = scan[s].deaf /\ c.torn = scan[s].torn /\ c.input = scan[s].input
  BY <1>1, <1>2 DEF ScanStates
<1>5. scan' = [scan EXCEPT ![s] = c]
  BY <1>1
<1> HIDE DEF c
<1>6. scan'[s] = c
  BY <1>5 DEF IInv, Types
<1>7. Waiting(s)' = Waiting(s)
  BY <1>1, <1>4, <1>6 DEF Waiting
<1>8. Apart(s)'
  BY <1>1, <1>2, <1>4, <1>6, <1>7 DEF Good, Apart
<1>9. Ready(s)'
  BY <1>1, <1>2, <1>4, <1>6 DEF Good, Ready
<1>10. Heard(s)'
  BY <1>1, <1>2, <1>4, <1>6 DEF Good, Heard, Scanning, Under
<1>11. Ended(s)'
  BY <1>1, <1>4, <1>6 DEF Ended
<1>12. Good(s)'
  BY <1>8, <1>9, <1>10, <1>11 DEF Good
<1>13. running[s] \in SUBSET Detectors /\ observed[s] \in SUBSET Detectors
  BY Fields DEF IInv
<1>14. running' = [running EXCEPT ![s] = running[s]] /\ observed' = [observed EXCEPT ![s] = observed[s]]
  BY <1>1 DEF IInv, Types
<1> QED BY <1>1, <1>3, <1>5, <1>12, <1>13, <1>14, OneScan

LEMMA ReportKeeps ==
    ASSUME IInv, NEW s \in Scans, Report(s)
    PROVE  IInv'
<1>1. PICK risk, action : /\ risk = Score(scan[s].input, scan[s].found)
                          /\ action = DetermineAction(scan[s].input, scan[s].found)
  OBVIOUS
<1> DEFINE c == [scan[s] EXCEPT !.at = "reported", !.risk = risk, !.action = action]
<1>2. /\ scan[s].at \in Scanning /\ scan[s].todo = <<>> /\ running[s] = {}
      /\ scan' = [scan EXCEPT ![s] = [scan[s] EXCEPT !.at = "reported", !.risk = risk, !.action = action]]
      /\ UNCHANGED <<options, registry, setup, torn, leaving, changes, running, observed>>
  BY <1>1 DEF Report, PoolIsDone, Scanning
<1>3. Good(s) /\ scan[s] \in ScanStates
  BY DEF IInv, Types
<1>4. risk \in 0..100 /\ action \in Actions
  <2>1. scan[s].input \in Inputs
    BY <1>2, <1>3 DEF Good, Heard, Scanning, Under
  <2>2. scan[s].found \in Seq(Detectors) /\ IsInjective(scan[s].found)
    BY <1>3, Fields DEF Good, Apart, IInv
  <2> QED BY <1>1, <2>1, <2>2, ScoreIsRisk, ActionIsRight
<1>5. c \in ScanStates
  BY <1>3, <1>4 DEF ScanStates
<1>6. /\ c.at = "reported" /\ c.todo = <<>> /\ c.found = scan[s].found
      /\ c.plan = scan[s].plan /\ c.sure = scan[s].sure /\ c.early = scan[s].early
      /\ c.deaf = scan[s].deaf /\ c.torn = scan[s].torn /\ c.input = scan[s].input
  BY <1>2, <1>3 DEF ScanStates
<1>7. scan' = [scan EXCEPT ![s] = c]
  BY <1>2
<1> HIDE DEF c
<1>8. scan'[s] = c
  BY <1>7 DEF IInv, Types
<1>9. Waiting(s)' = Waiting(s)
  BY <1>2, <1>6, <1>8 DEF Waiting
<1>10. Apart(s)'
  BY <1>2, <1>3, <1>6, <1>8, <1>9 DEF Good, Apart
<1>11. Ready(s)'
  BY <1>2, <1>3, <1>6, <1>8 DEF Good, Ready
<1>12. Heard(s)'
  BY <1>2, <1>3, <1>6, <1>8, <1>9 DEF Good, Heard, Scanning, Under
<1>13. Ended(s)'
  BY <1>2, <1>6, <1>8 DEF Ended
<1>14. Good(s)'
  BY <1>10, <1>11, <1>12, <1>13 DEF Good
<1>15. running[s] \in SUBSET Detectors /\ observed[s] \in SUBSET Detectors
  BY Fields DEF IInv
<1>16. running' = [running EXCEPT ![s] = running[s]] /\ observed' = [observed EXCEPT ![s] = observed[s]]
  BY <1>2 DEF IInv, Types
<1> QED BY <1>2, <1>5, <1>7, <1>14, <1>15, <1>16, OneScan
-----------------------------------------------------------------------------
LEMMA StepHolds == IInv /\ [Next]_vars => IInv'
<1> SUFFICES ASSUME IInv, [Next]_vars PROVE IInv'
  OBVIOUS
<1>1. CASE \E d \in Detectors : Register(d) \/ SetUp(d) \/ TearDown(d) \/ Unregister(d)
  BY <1>1, RegisterKeeps, SetUpKeeps, TearDownKeeps, UnregisterKeeps
<1>2. CASE \E s \in Scans : Advance(s)
  BY <1>2, RunNextKeeps, BeginKeeps, CompleteKeeps, RaiseKeeps, ReportKeeps DEF Advance
<1>3. CASE \E s \in Scans, i \in Inputs : Listed(s, i) \/ Plan(s, i)
  BY <1>3, ListedKeeps, PlanKeeps
<1>4. CASE UNCHANGED vars
  <2>1. Types'
    BY <1>4 DEF IInv, Types, vars
  <2>2. \A s \in Scans : Good(s)'
    BY <1>4, Untouched DEF vars
  <2> QED BY <2>1, <2>2 DEF IInv
<1> QED BY <1>1, <1>2, <1>3, <1>4 DEF Next

LEMMA Invariance == Spec => []IInv
BY InitHolds, StepHolds, PTL DEF Spec
-----------------------------------------------------------------------------
(* The state of the engine is always one the code can make: a detector     *)
(* waits, runs or has answered, never two of these, whatever the pool      *)
(* does; no more run than max_workers; and the score never leaves 0..100   *)
(* (_run_detectors_parallel, and the min(1.0, ...) of scan()).             *)
THEOREM TypeCorrect == Spec => []TypeOK
<1>1. IInv => TypeOK
  <2> SUFFICES ASSUME IInv PROVE TypeOK
    OBVIOUS
  <2>1. ASSUME NEW s \in Scans
        PROVE  LET c == scan[s] IN
              /\ c.at \in {"idle", "loop", "pool", "raising", "failed", "reported"}
              /\ c.risk \in 0..100 /\ c.action \in {"block", "flag", "log", "pass"}
              /\ IsInjective(c.todo \o c.found)
              /\ Waiting(s) \cup ToSet(c.found) \subseteq c.plan
              /\ running[s] \cap ToSet(c.todo \o c.found) = {}
              /\ Cardinality(running[s]) <= options.workers
    <3>1. Apart(s) /\ Types
      BY DEF IInv, Good
    <3>2. /\ IsInjective(scan[s].todo \o scan[s].found)
          /\ ToSet(scan[s].todo \o scan[s].found) = ToSet(scan[s].todo) \cup ToSet(scan[s].found)
      BY <3>1, Fields, Joined DEF Apart
    <3>3. scan[s].action \in {"block", "flag", "log", "pass"}
      BY <3>1, Fields DEF Actions
    <3> QED BY <3>1, <3>2, <3>3, Fields DEF Apart, Waiting
  <2> QED BY <2>1 DEF TypeOK, IInv, Types
<1> QED BY <1>1, Invariance, PTL

(* When scan() returns or raises, no detector of it runs or waits behind   *)
(* it, and it reports only after each one in the plan was heard by the     *)
(* fatigue tracker, or raised, or was torn down before it could: the pool  *)
(* is joined on both ways out.                                             *)
THEOREM PoolJoined == Spec => []NothingLeftBehind
<1>1. IInv => NothingLeftBehind
  <2> SUFFICES ASSUME IInv, NEW s \in Scans, Over(s)
               PROVE  /\ scan[s].todo = <<>> /\ running[s] = {}
                      /\ scan[s].at = "reported" =>
                            \A d \in scan[s].plan \ (observed[s] \cup scan[s].torn) :
                                Outcome[scan[s].input][d].raises
    BY DEF NothingLeftBehind
  <2>1. scan[s].todo = <<>> /\ running[s] = {}
    BY DEF IInv, Good, Ended, Over
  <2>2. Waiting(s) = {}
    BY <2>1 DEF Waiting, ToSet
  <2>3. ASSUME scan[s].at = "reported", NEW d \in scan[s].plan \ (observed[s] \cup scan[s].torn)
        PROVE  Raises(scan[s].input, d)
    BY <2>2, <2>3 DEF IInv, Good, Heard
  <2> QED BY <2>1, <2>3 DEF Raises
<1> QED BY <1>1, Invariance, PTL
-----------------------------------------------------------------------------
(* The scans as the verdict sees them.                                     *)
Jobs == [s \in Scans |-> JobOf(s)]
Answers == [s \in Scans |-> AnswerOf(s)]

LEMMA JobApart ==
    ASSUME NEW i, NEW D, NEW sure, NEW spent
    PROVE  [input |-> i, detectors |-> D, sure |-> sure, torn |-> spent] # [input |-> {}]
<1>1. DOMAIN [input |-> i, detectors |-> D, sure |-> sure, torn |-> spent] # DOMAIN [input |-> {}]
  OBVIOUS
<1> QED BY <1>1

LEMMA AnswerApart ==
    ASSUME NEW s, scan[s].at \notin {"reported", "failed"}
    PROVE  AnswerOf(s) = Verdict!NoAnswer
BY DEF AnswerOf, Verdict!NoAnswer

(* A step that shows in no scan is no step of the verdict.                 *)
LEMMA Mute ==
    ASSUME options' = options,
           \A s \in Scans : JobOf(s)' = JobOf(s) /\ AnswerOf(s)' = AnswerOf(s)
    PROVE  UNCHANGED <<options, Jobs, Answers>>
BY DEF Jobs, Answers

LEMMA OneShows ==
    ASSUME NEW s \in Scans, \A t \in Scans \ {s} : scan'[t] = scan[t]
    PROVE  /\ Jobs' = [Jobs EXCEPT ![s] = JobOf(s)']
           /\ Answers' = [Answers EXCEPT ![s] = AnswerOf(s)']
<1>1. \A t \in Scans \ {s} : JobOf(t)' = JobOf(t) /\ AnswerOf(t)' = AnswerOf(t)
  BY DEF JobOf, AnswerOf
<1> QED BY <1>1 DEF Jobs, Answers

LEMMA OneMute ==
    ASSUME NEW s \in Scans, \A t \in Scans \ {s} : scan'[t] = scan[t], options' = options,
           JobOf(s)' = JobOf(s), AnswerOf(s)' = AnswerOf(s)
    PROVE  UNCHANGED <<options, Jobs, Answers>>
<1>1. \A t \in Scans \ {s} : JobOf(t)' = JobOf(t) /\ AnswerOf(t)' = AnswerOf(t)
  BY DEF JobOf, AnswerOf
<1> QED BY <1>1, Mute

(* Detectors come and are set up: no answer depends on it.                 *)
LEMMA RegistryIsMute ==
    ASSUME IInv, NEW d \in Detectors, Register(d) \/ SetUp(d) \/ Unregister(d)
    PROVE  UNCHANGED <<options, Jobs, Answers>>
<1>1. ASSUME NEW s \in Scans
      PROVE  /\ scan'[s].at = scan[s].at /\ scan'[s].input = scan[s].input
             /\ scan'[s].plan = scan[s].plan /\ scan'[s].sure = scan[s].sure
             /\ scan'[s].torn = scan[s].torn /\ scan'[s].found = scan[s].found
             /\ scan'[s].risk = scan[s].risk /\ scan'[s].action = scan[s].action
  <2>1. scan[s] \in ScanStates
    BY DEF IInv, Types
  <2>2. CASE Register(d)
    <3>1. scan'[s] = [scan[s] EXCEPT !.current = @ \ {d}]
      BY <2>2 DEF Register
    <3> QED BY <2>1, <3>1 DEF ScanStates
  <2>3. CASE SetUp(d)
    <3>1. \/ scan'[s] = scan[s]
          \/ \E early, deaf : scan'[s] = [scan[s] EXCEPT !.early = early, !.deaf = deaf]
      <4>1. PICK outcome : scan' = [t \in Scans |->
                IF d \notin scan[t].early THEN scan[t]
                ELSE [scan[t] EXCEPT !.early = @ \ {d},
                                     !.deaf = IF outcome = "done" THEN @ ELSE @ \cup {d}]]
        BY <2>3 DEF SetUp
      <4>2. scan'[s] = IF d \notin scan[s].early THEN scan[s]
                ELSE [scan[s] EXCEPT !.early = @ \ {d},
                                     !.deaf = IF outcome = "done" THEN @ ELSE @ \cup {d}]
        BY <4>1
      <4> QED BY <4>2
    <3> QED BY <2>1, <3>1 DEF ScanStates
  <2>4. CASE Unregister(d)
    BY <2>4 DEF Unregister
  <2> QED BY <2>2, <2>3, <2>4
<1>2. \A s \in Scans : JobOf(s)' = JobOf(s) /\ AnswerOf(s)' = AnswerOf(s)
  BY <1>1 DEF JobOf, AnswerOf
<1>3. options' = options
  BY DEF Register, SetUp, Unregister
<1> QED BY <1>2, <1>3, Mute

(* A scan that still waits for the detector torn down is unanswered.       *)
LEMMA TearDownShows ==
    ASSUME IInv, NEW d \in Detectors, TearDown(d)
    PROVE  Verdict!TornDown(d)
<1> DEFINE S == {s \in Scans : d \in scan[s].current \cap Waiting(s)}
<1>1. ASSUME NEW s \in S
      PROVE  /\ Jobs[s] # Verdict!NoJob /\ Answers[s] = Verdict!NoAnswer
             /\ d \in Jobs[s].detectors
             /\ JobOf(s)' = [JobOf(s) EXCEPT !.torn = @ \cup {d}] /\ AnswerOf(s)' = AnswerOf(s)
  <2>1. Good(s) /\ scan[s] \in ScanStates /\ Waiting(s) # {}
    BY DEF IInv, Types
  <2>2. scan[s].at \notin {"idle", "failed", "reported"}
    BY <2>1 DEF Good, Ended, Waiting, ToSet
  <2>3. d \in scan[s].plan
    BY <2>1 DEF Good, Apart
  <2>4. scan'[s] = [scan[s] EXCEPT !.torn = @ \cup {d}]
    BY DEF TearDown
  <2>5. /\ scan'[s].at = scan[s].at /\ scan'[s].input = scan[s].input
        /\ scan'[s].plan = scan[s].plan /\ scan'[s].sure = scan[s].sure
        /\ scan'[s].torn = scan[s].torn \cup {d}
    BY <2>1, <2>4 DEF ScanStates
  <2>6. JobOf(s) = [input |-> scan[s].input, detectors |-> scan[s].plan,
                    sure |-> scan[s].sure, torn |-> scan[s].torn]
    BY <2>2 DEF JobOf
  <2>7. JobOf(s)' = [input |-> scan[s].input, detectors |-> scan[s].plan,
                     sure |-> scan[s].sure, torn |-> scan[s].torn \cup {d}]
    BY <2>2, <2>5 DEF JobOf
  <2>8. Jobs[s] = JobOf(s) /\ Answers[s] = AnswerOf(s)
    BY DEF Jobs, Answers
  <2>9. Jobs[s] # Verdict!NoJob /\ Answers[s] = Verdict!NoAnswer
    BY <2>2, <2>6, <2>8, JobApart, AnswerApart DEF Verdict!NoJob
  <2>10. AnswerOf(s)' = AnswerOf(s)
    BY <2>2, <2>5 DEF AnswerOf
  <2>11. JobOf(s)' = [JobOf(s) EXCEPT !.torn = @ \cup {d}]
    BY <2>6, <2>7
  <2>12. d \in Jobs[s].detectors
    BY <2>3, <2>6, <2>8
  <2> HIDE DEF S
  <2> QED BY <2>9, <2>10, <2>11, <2>12
<1>2. ASSUME NEW s \in Scans \ S PROVE JobOf(s)' = JobOf(s) /\ AnswerOf(s)' = AnswerOf(s)
  <2>1. scan'[s] = scan[s]
    BY DEF TearDown
  <2> QED BY <2>1 DEF JobOf, AnswerOf
<1>3. S \subseteq Scans
  OBVIOUS
<1> HIDE DEF S
<1>4. \A s \in Scans : AnswerOf(s)' = AnswerOf(s)
  BY <1>1, <1>2
<1>5. Answers' = Answers
  BY <1>4 DEF Answers
<1>6. Jobs' = [s \in Scans |-> IF s \in S THEN [Jobs[s] EXCEPT !.torn = @ \cup {d}] ELSE Jobs[s]]
  BY <1>1, <1>2, <1>3 DEF Jobs
<1>7. options' = options
  BY DEF TearDown
<1>8. S \in SUBSET {s \in {t \in Scans : Jobs[t] # Verdict!NoJob /\ Answers[t] = Verdict!NoAnswer} :
                     d \in Jobs[s].detectors}
  BY <1>1, <1>3
<1> QED BY <1>5, <1>6, <1>7, <1>8 DEF Verdict!TornDown, Verdict!Unanswered, Jobs, Answers

(* A scan under way that returns: the verdict on the detectors D that had  *)
(* their say, or an error that a detector torn down may raise.             *)
LEMMA Returns ==
    ASSUME IInv, NEW s \in Scans, \A t \in Scans \ {s} : scan'[t] = scan[t], options' = options,
           scan[s].at \in {"loop", "pool", "raising"}, JobOf(s)' = JobOf(s),
           NEW D \in SUBSET scan[s].plan, scan[s].sure \ scan[s].torn \subseteq D,
           \/ AnswerOf(s)' = Verdict!Judged(scan[s].input, D)
           \/ options.strict /\ scan[s].torn # {} /\ AnswerOf(s)' = Verdict!Error
    PROVE  Verdict!Return(s)
<1>1. JobOf(s) = [input |-> scan[s].input, detectors |-> scan[s].plan,
                  sure |-> scan[s].sure, torn |-> scan[s].torn]
  BY DEF JobOf
<1>2. Jobs[s] = JobOf(s) /\ Answers[s] = AnswerOf(s)
  BY DEF Jobs, Answers
<1>3. Jobs[s] # Verdict!NoJob /\ Answers[s] = Verdict!NoAnswer
  BY <1>1, <1>2, JobApart, AnswerApart DEF Verdict!NoJob
<1>4. Jobs' = Jobs /\ Answers' = [Answers EXCEPT ![s] = AnswerOf(s)']
  <2>1. Jobs' = [Jobs EXCEPT ![s] = JobOf(s)]
    BY OneShows
  <2>2. Jobs' = Jobs
    BY <2>1 DEF Jobs
  <2> QED BY <2>2, OneShows
<1>5. /\ Jobs[s].input = scan[s].input /\ Jobs[s].detectors = scan[s].plan
      /\ Jobs[s].sure = scan[s].sure /\ Jobs[s].torn = scan[s].torn
  BY <1>1, <1>2
<1>6. /\ s \in {t \in Scans : Jobs[t] # Verdict!NoJob /\ Answers[t] = Verdict!NoAnswer}
      /\ \/ \E E \in SUBSET Jobs[s].detectors :
               /\ Jobs[s].sure \ Jobs[s].torn \subseteq E
               /\ Answers' = [Answers EXCEPT ![s] = Verdict!Judged(Jobs[s].input, E)]
         \/ /\ options.strict /\ Jobs[s].torn # {}
            /\ Answers' = [Answers EXCEPT ![s] = Verdict!Error]
      /\ UNCHANGED <<options, Jobs>>
  BY <1>3, <1>4, <1>5
<1> QED BY <1>6 DEF Verdict!Return, Verdict!Unanswered, Jobs, Answers

LEMMA OnlyOne ==
    ASSUME IInv, NEW s \in Scans, \E c : scan' = [scan EXCEPT ![s] = c]
    PROVE  \A t \in Scans \ {s} : scan'[t] = scan[t]
BY DEF IInv, Types

(* The answers from the lists.                                             *)
LEMMA ListedShows ==
    ASSUME IInv, NEW s \in Scans, NEW i \in Inputs, Listed(s, i)
    PROVE  Verdict!Shortcut(s, i)
<1>1. /\ i \in Allowed \cup Blocked /\ scan[s].at = "idle" /\ options' = options
  BY DEF Listed
<1>2. PICK risk, action :
         /\ IF i \in Allowed THEN risk = 0 /\ action = "pass" ELSE risk = 100 /\ action = "block"
         /\ scan' = [scan EXCEPT ![s] = [Fresh EXCEPT !.at = "reported", !.input = i,
                                                      !.risk = risk, !.action = action]]
  BY DEF Listed, ListedAs
<1>3. /\ scan'[s].at = "reported" /\ scan'[s].input = i /\ scan'[s].plan = {}
      /\ scan'[s].sure = {} /\ scan'[s].torn = {} /\ scan'[s].found = <<>>
      /\ scan'[s].risk = risk /\ scan'[s].action = action
  BY <1>2 DEF Fresh, IInv, Types
<1>4. JobOf(s)' = [input |-> i, detectors |-> {}, sure |-> {}, torn |-> {}]
  BY <1>3 DEF JobOf
<1>5. AnswerOf(s)' = Verdict!Judged(i, {})
  <2>1. ToSet(<<>>) = {}
    BY DEF ToSet
  <2>2. AnswerOf(s)' = [kind |-> "report", detections |-> {}, risk |-> risk, action |-> action]
    BY <1>3, <2>1 DEF AnswerOf
  <2> QED BY <1>1, <1>2, <2>2 DEF Verdict!Judged, Verdict!Report
<1>6. Jobs' = [Jobs EXCEPT ![s] = JobOf(s)'] /\ Answers' = [Answers EXCEPT ![s] = AnswerOf(s)']
  BY <1>2, OnlyOne, OneShows
<1>7. Jobs[s] = Verdict!NoJob
  BY <1>1 DEF Jobs, JobOf, Verdict!NoJob
<1> QED BY <1>1, <1>4, <1>5, <1>6, <1>7 DEF Verdict!Shortcut, Jobs, Answers

(* The plan is a snapshot of the registry.                                 *)
LEMMA PlanShows ==
    ASSUME IInv, NEW s \in Scans, NEW i \in Inputs, Plan(s, i)
    PROVE  Verdict!Plan(s)
<1> DEFINE D == ToSet(registry)
           sure == {d \in D : setup[d] = "done"}
           spent == torn \cap D
<1>1. i \in Inputs \ (Allowed \cup Blocked) /\ scan[s].at = "idle" /\ options' = options
  BY DEF Plan
<1>2. PICK at, early, deaf :
         /\ at \in Scanning
         /\ scan' = [scan EXCEPT ![s] = [Fresh EXCEPT !.at = at, !.input = i, !.plan = D,
                          !.todo = registry, !.sure = sure, !.early = early, !.deaf = deaf,
                          !.current = D, !.torn = spent]]
  <2>1. PICK at \in Scanning :
           at = IF options.workers > 0 /\ Len(registry) > 1 THEN "pool" ELSE "loop"
    BY DEF Scanning
  <2> QED BY <2>1 DEF Plan
<1>3. D \subseteq Detectors /\ sure \subseteq D /\ spent \subseteq D
  BY SetOf DEF IInv, Types
<1> HIDE DEF D, sure, spent
<1>4. /\ scan'[s].at \in Scanning /\ scan'[s].input = i /\ scan'[s].plan = D /\ scan'[s].sure = sure
      /\ scan'[s].torn = spent
  BY <1>2 DEF Fresh, IInv, Types
<1>5. JobOf(s)' = [input |-> i, detectors |-> D, sure |-> sure, torn |-> spent]
  BY <1>4 DEF JobOf, Scanning
<1>6. AnswerOf(s)' = AnswerOf(s)
  BY <1>1, <1>4 DEF AnswerOf, Scanning
<1>7. Jobs' = [Jobs EXCEPT ![s] = JobOf(s)'] /\ Answers' = [Answers EXCEPT ![s] = AnswerOf(s)']
  BY <1>2, OnlyOne, OneShows
<1>8. Answers' = Answers
  BY <1>6, <1>7 DEF Answers
<1>9. Jobs[s] = Verdict!NoJob
  BY <1>1 DEF Jobs, JobOf, Verdict!NoJob
<1>10. /\ Jobs[s] = Verdict!NoJob
       /\ \E j \in Inputs \ (Allowed \cup Blocked), E \in SUBSET Detectors :
             \E ready, gone \in SUBSET E :
                Jobs' = [Jobs EXCEPT ![s] = [input |-> j, detectors |-> E,
                                             sure |-> ready, torn |-> gone]]
       /\ UNCHANGED <<options, Answers>>
  BY <1>1, <1>3, <1>5, <1>7, <1>8, <1>9
<1> QED BY <1>10 DEF Verdict!Plan, Jobs, Answers

(* An exception under strict mode: every detector of the plan had its say, *)
(* or one that was torn down raised.                                       *)
LEMMA ErrorShows ==
    ASSUME IInv, NEW s \in Scans, \A t \in Scans \ {s} : scan'[t] = scan[t], options' = options,
           scan[s].at \in {"loop", "pool", "raising"}, JobOf(s)' = JobOf(s),
           scan'[s].at = "failed", options.strict,
           scan[s].torn # {} \/ \E d \in scan[s].plan : Raises(scan[s].input, d)
    PROVE  Verdict!Return(s)
<1>1. scan[s].input \notin Allowed /\ scan[s].input \notin Blocked
  BY DEF IInv, Good, Heard, Under
<1>2. scan[s].sure \ scan[s].torn \subseteq scan[s].plan
  BY DEF IInv, Good, Ready
<1>3. AnswerOf(s)' = Verdict!Error
  BY DEF AnswerOf, Verdict!Error
<1>4. CASE scan[s].torn # {}
  BY <1>2, <1>3, <1>4, Returns
<1>5. CASE \E d \in scan[s].plan : Raises(scan[s].input, d)
  <2>1. Verdict!Judged(scan[s].input, scan[s].plan) = Verdict!Error
    BY <1>1, <1>5 DEF Verdict!Judged, Raises
  <2> QED BY <1>2, <1>3, <2>1, Returns
<1> QED BY <1>4, <1>5

(* A report: the detectors that had no say are those that were not set up  *)
(* in time, or torn down too early, and would have raised or fired.        *)
LEMMA ReportShows ==
    ASSUME IInv, NEW s \in Scans, Report(s)
    PROVE  Verdict!Return(s)
<1> DEFINE i == scan[s].input
           F == ToSet(scan[s].found)
           silent == {d \in scan[s].plan : \/ Fires(i, d) /\ d \notin F
                                           \/ options.strict /\ Raises(i, d)}
           D == scan[s].plan \ silent
<1>1. /\ scan[s].at \in Scanning /\ scan[s].todo = <<>> /\ running[s] = {} /\ options' = options
      /\ scan' = [scan EXCEPT ![s] =
            [scan[s] EXCEPT !.at = "reported", !.risk = Score(i, scan[s].found),
                            !.action = DetermineAction(i, scan[s].found)]]
  BY DEF Report, PoolIsDone, Scanning
<1>2. Good(s) /\ scan[s] \in ScanStates /\ Waiting(s) = {}
  BY <1>1 DEF IInv, Types, Waiting, ToSet
<1>3. scan[s].at \in Under /\ scan[s].at \in {"loop", "pool", "raising"}
  BY <1>1 DEF Scanning, Under
<1>4. i \in Inputs /\ i \notin Allowed /\ i \notin Blocked
  BY <1>2, <1>3 DEF Good, Heard
<1>5. scan[s].found \in Seq(Detectors) /\ IsInjective(scan[s].found) /\ F \subseteq scan[s].plan
  BY <1>2, Fields DEF Good, Apart, IInv
<1>6. /\ scan'[s].at = "reported" /\ scan'[s].input = i /\ scan'[s].plan = scan[s].plan
      /\ scan'[s].sure = scan[s].sure /\ scan'[s].found = scan[s].found
      /\ scan'[s].torn = scan[s].torn
      /\ scan'[s].risk = Score(i, scan[s].found)
      /\ scan'[s].action = DetermineAction(i, scan[s].found)
  <2>1. PICK risk, action : /\ risk = Score(i, scan[s].found)
                            /\ action = DetermineAction(i, scan[s].found)
    OBVIOUS
  <2>2. scan'[s] = [scan[s] EXCEPT !.at = "reported", !.risk = risk, !.action = action]
    BY <1>1, <2>1 DEF IInv, Types
  <2> QED BY <1>2, <2>1, <2>2 DEF ScanStates
<1>7. /\ \A d \in F : Fires(i, d)
      /\ \A d \in scan[s].sure \ scan[s].torn : (Fires(i, d) => d \in F) /\ ~ (options.strict /\ Raises(i, d))
  BY <1>1, <1>2 DEF Good, Heard
<1>8. scan[s].sure \ scan[s].torn \subseteq D
  BY <1>2, <1>7 DEF Good, Ready
<1>9. Verdict!Fired(i, D) = F
  <2>1. \A d : Fires(i, d) <=> /\ ~ Outcome[i][d].raises /\ Outcome[i][d].detected
                               /\ Outcome[i][d].confidence >= Threshold[d]
    BY DEF Fires
  <2>2. Verdict!Fired(i, D) = {d \in D : Fires(i, d)}
    BY <2>1 DEF Verdict!Fired
  <2>3. \A d \in F : ~ Raises(i, d)
    BY <1>7 DEF Fires, Raises
  <2>4. F \subseteq D
    BY <1>5, <2>3
  <2> QED BY <1>7, <2>2, <2>4
<1>10. ~ (options.strict /\ \E d \in D : Outcome[i][d].raises)
  BY DEF Raises
<1>11. Verdict!Judged(i, D) = [kind |-> "report", detections |-> F,
                               risk |-> Verdict!Risk(i, F), action |-> Verdict!Action(i, F)]
  <2> HIDE DEF D, F, i
  <2> QED BY <1>4, <1>9, <1>10 DEF Verdict!Judged, Verdict!Report
<1>12. AnswerOf(s)' = Verdict!Judged(i, D)
  <2>1. AnswerOf(s)' = [kind |-> "report", detections |-> F,
                        risk |-> Score(i, scan[s].found), action |-> DetermineAction(i, scan[s].found)]
    BY <1>6 DEF AnswerOf
  <2>2. /\ Score(i, scan[s].found) = Verdict!Risk(i, F)
        /\ DetermineAction(i, scan[s].found) = Verdict!Action(i, F)
    BY <1>4, <1>5, ScoreIsRisk, ActionIsRight
  <2> QED BY <1>11, <2>1, <2>2
<1>13. JobOf(s)' = JobOf(s)
  BY <1>3, <1>6 DEF JobOf
<1>14. \A t \in Scans \ {s} : scan'[t] = scan[t]
  BY <1>1, OnlyOne
<1>15. D \in SUBSET scan[s].plan
  OBVIOUS
<1> HIDE DEF D
<1> QED BY <1>1, <1>3, <1>8, <1>12, <1>13, <1>14, <1>15, Returns

LEMMA RunNextShows ==
    ASSUME IInv, NEW s \in Scans, RunNext(s)
    PROVE  Verdict!Return(s) \/ UNCHANGED <<options, Jobs, Answers>>
<1>1. PICK d : d = Head(scan[s].todo)
  OBVIOUS
<1>2. PICK r :
      /\ r \in Results(s, d)
      /\ scan[s].at = "loop" /\ scan[s].todo # <<>> /\ options' = options
      /\ scan' = [scan EXCEPT ![s] =
            IF options.strict /\ r = "raised" THEN [scan[s] EXCEPT !.at = "failed", !.todo = <<>>]
            ELSE [scan[s] EXCEPT !.todo = Tail(@), !.found = Found(s, d, r)]]
  BY <1>1 DEF RunNext
<1>3. scan[s] \in ScanStates
  BY DEF IInv, Types
<1>4. \A t \in Scans \ {s} : scan'[t] = scan[t]
  BY <1>2, OnlyOne
<1>5. CASE options.strict /\ r = "raised"
  <2>1. scan'[s] = [scan[s] EXCEPT !.at = "failed", !.todo = <<>>]
    BY <1>2, <1>5 DEF IInv, Types
  <2>2. /\ scan'[s].at = "failed" /\ scan'[s].input = scan[s].input
        /\ scan'[s].plan = scan[s].plan /\ scan'[s].sure = scan[s].sure
        /\ scan'[s].torn = scan[s].torn
    BY <1>3, <2>1 DEF ScanStates
  <2>3. Raises(scan[s].input, d) \/ scan[s].torn # {}
    BY <1>2, <1>5, ResultOf
  <2>4. d \in scan[s].plan
    BY <1>1, <1>2, Fields, Taken DEF IInv, Good, Apart, Waiting
  <2>5. JobOf(s)' = JobOf(s)
    BY <1>2, <2>2 DEF JobOf
  <2> QED BY <1>2, <1>4, <1>5, <2>2, <2>3, <2>4, <2>5, ErrorShows
<1>6. CASE ~ (options.strict /\ r = "raised")
  <2>1. scan'[s] = [scan[s] EXCEPT !.todo = Tail(scan[s].todo), !.found = Found(s, d, r)]
    BY <1>2, <1>6 DEF IInv, Types
  <2>2. /\ scan'[s].at = "loop" /\ scan'[s].input = scan[s].input
        /\ scan'[s].plan = scan[s].plan /\ scan'[s].sure = scan[s].sure
        /\ scan'[s].torn = scan[s].torn
    <3>1. scan[s].at = "loop"
      BY <1>2
    <3>2. \E todo, found : scan'[s] = [scan[s] EXCEPT !.todo = todo, !.found = found]
      BY <2>1
    <3> QED BY <1>3, <3>1, <3>2 DEF ScanStates
  <2>3. JobOf(s)' = JobOf(s) /\ AnswerOf(s)' = AnswerOf(s)
    BY <1>2, <2>2 DEF JobOf, AnswerOf
  <2> QED BY <1>2, <1>4, <2>3, OneMute
<1> QED BY <1>5, <1>6

LEMMA PoolIsMute ==
    ASSUME IInv, NEW s \in Scans, Begin(s) \/ \E d \in Detectors : Complete(s, d)
    PROVE  UNCHANGED <<options, Jobs, Answers>>
<1>1. scan[s] \in ScanStates
  BY DEF IInv, Types
<1>2. /\ options' = options /\ \A t \in Scans \ {s} : scan'[t] = scan[t]
      /\ scan[s].at \in {"pool", "raising"} /\ scan'[s].at \in {"pool", "raising"}
      /\ scan'[s].input = scan[s].input
      /\ scan'[s].plan = scan[s].plan /\ scan'[s].sure = scan[s].sure
      /\ scan'[s].torn = scan[s].torn
  <2>1. CASE Begin(s)
    <3>1. PICK todo : scan' = [scan EXCEPT ![s] = [scan[s] EXCEPT !.todo = todo]]
      BY <2>1 DEF Begin
    <3>2. scan'[s] = [scan[s] EXCEPT !.todo = todo]
      BY <3>1 DEF IInv, Types
    <3>3. /\ scan'[s].at = scan[s].at /\ scan'[s].input = scan[s].input
          /\ scan'[s].plan = scan[s].plan /\ scan'[s].sure = scan[s].sure
          /\ scan'[s].torn = scan[s].torn
      BY <1>1, <3>2 DEF ScanStates
    <3>4. scan[s].at \in {"pool", "raising"} /\ options' = options
      BY <2>1 DEF Begin
    <3> QED BY <3>1, <3>3, <3>4, OnlyOne
  <2>2. CASE \E d \in Detectors : Complete(s, d)
    <3>1. PICK d \in Detectors : Complete(s, d)
      BY <2>2
    <3>2. scan[s].at \in {"pool", "raising"} /\ options' = options
      BY <3>1, Leaves DEF Complete
    <3>4. PICK r \in Results(s, d) : scan' = [scan EXCEPT ![s] =
            IF scan[s].at = "raising" THEN scan[s]
            ELSE IF options.strict /\ r = "raised" THEN [scan[s] EXCEPT !.at = "raising"]
            ELSE [scan[s] EXCEPT !.found = Found(s, d, r)]]
      BY <3>1 DEF Complete
    <3>5. \/ scan'[s] = scan[s]
          \/ scan'[s] = [scan[s] EXCEPT !.at = "raising"]
          \/ scan'[s] = [scan[s] EXCEPT !.found = Found(s, d, r)]
      BY <3>4 DEF IInv, Types
    <3>6. /\ scan'[s].at \in {"pool", "raising"} /\ scan'[s].input = scan[s].input
          /\ scan'[s].plan = scan[s].plan /\ scan'[s].sure = scan[s].sure
          /\ scan'[s].torn = scan[s].torn
      BY <1>1, <3>2, <3>5 DEF ScanStates
    <3> QED BY <3>2, <3>4, <3>6, OnlyOne
  <2> QED BY <2>1, <2>2
<1>3. JobOf(s)' = JobOf(s) /\ AnswerOf(s)' = AnswerOf(s)
  BY <1>2 DEF JobOf, AnswerOf
<1> QED BY <1>2, <1>3, OneMute

LEMMA RaiseShows ==
    ASSUME IInv, NEW s \in Scans, Raise(s)
    PROVE  Verdict!Return(s)
<1>1. scan[s].at = "raising" /\ scan' = [scan EXCEPT ![s].at = "failed"] /\ options' = options
  BY DEF Raise
<1>2. scan'[s] = [scan[s] EXCEPT !.at = "failed"] /\ scan[s] \in ScanStates
  BY <1>1 DEF IInv, Types
<1>3. /\ scan'[s].at = "failed" /\ scan'[s].input = scan[s].input
      /\ scan'[s].plan = scan[s].plan /\ scan'[s].sure = scan[s].sure
      /\ scan'[s].torn = scan[s].torn
  BY <1>2 DEF ScanStates
<1>4. JobOf(s)' = JobOf(s)
  BY <1>1, <1>3 DEF JobOf
<1>5. options.strict /\ (scan[s].torn # {} \/ \E d \in scan[s].plan : Raises(scan[s].input, d))
  BY <1>1 DEF IInv, Good, Heard
<1>6. \A t \in Scans \ {s} : scan'[t] = scan[t]
  BY <1>1, OnlyOne
<1> QED BY <1>1, <1>3, <1>4, <1>5, <1>6, ErrorShows

(* Every step of the engine is a step of the verdict or shows in no        *)
(* answer.                                                                 *)
LEMMA StepShows ==
    ASSUME IInv, [Next]_vars
    PROVE  Verdict!Next \/ UNCHANGED <<options, Jobs, Answers>>
<1>1. CASE \E d \in Detectors : Register(d) \/ SetUp(d) \/ TearDown(d) \/ Unregister(d)
  <2>1. PICK d \in Detectors : Register(d) \/ SetUp(d) \/ TearDown(d) \/ Unregister(d)
    BY <1>1
  <2>2. CASE TearDown(d)
    BY <2>2, TearDownShows DEF Verdict!Next
  <2>3. CASE Register(d) \/ SetUp(d) \/ Unregister(d)
    BY <2>3, RegistryIsMute
  <2> QED BY <2>1, <2>2, <2>3
<1>2. CASE \E s \in Scans : Advance(s)
  <2>1. PICK s \in Scans : Advance(s)
    BY <1>2
  <2>2. Verdict!Return(s) \/ UNCHANGED <<options, Jobs, Answers>>
    BY <2>1, RunNextShows, PoolIsMute, RaiseShows, ReportShows DEF Advance
  <2> QED BY <2>2 DEF Verdict!Next
<1>3. CASE \E s \in Scans, i \in Inputs : Listed(s, i) \/ Plan(s, i)
  BY <1>3, ListedShows, PlanShows DEF Verdict!Next
<1>4. CASE UNCHANGED vars
  <2>1. scan' = scan /\ options' = options
    BY <1>4 DEF vars
  <2>2. \A s \in Scans : JobOf(s)' = JobOf(s) /\ AnswerOf(s)' = AnswerOf(s)
    BY <2>1 DEF JobOf, AnswerOf
  <2> QED BY <2>1, <2>2, Mute
<1> QED BY <1>1, <1>2, <1>3, <1>4 DEF Next

(* The engine gives the answers ScanVerdict promises: a scan's report      *)
(* depends on its input and on the detectors registered when it was        *)
(* planned, and on nothing else - not on the pool, on the order in which   *)
(* detectors finish, on other scans, or on what is registered meanwhile;   *)
(* only a detector that unregister_detector() tears down before it has     *)
(* answered may have no say, or raise (scan(), _run_detectors_sequential   *)
(* and _run_detectors_parallel).                                           *)
THEOREM EngineImplementsVerdict == Spec => Refines
<1>1. Init => Verdict!Init
  <2> SUFFICES ASSUME Init PROVE Verdict!Init
    OBVIOUS
  <2>1. ASSUME NEW s \in Scans
        PROVE  JobOf(s) = Verdict!NoJob /\ AnswerOf(s) = Verdict!NoAnswer
    <3>1. scan[s].at = "idle"
      BY DEF Init, Fresh
    <3> QED BY <3>1 DEF JobOf, AnswerOf, Verdict!NoJob, Verdict!NoAnswer
  <2>2. options \in Options
    BY DEF Init
  <2> QED BY <2>1, <2>2 DEF Verdict!Init
<1>2. IInv /\ [Next]_vars => [Verdict!Next]_<<options, Jobs, Answers>>
  BY StepShows
<1>3. IInv /\ [Next]_vars
         => [Verdict!Next]_<<options, [s \in Scans |-> JobOf(s)], [s \in Scans |-> AnswerOf(s)]>>
  BY <1>2 DEF Jobs, Answers
<1> QED BY <1>1, <1>3, Invariance, PTL DEF Spec, Refines, Verdict!Spec
=============================================================================
