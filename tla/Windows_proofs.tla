---------------------------- MODULE Windows_proofs ---------------------------
(***************************************************************************)
(* What holds of the two components that look at requests through a moving *)
(* window, key by key: of the limiter that admits them, for every number   *)
(* of keys, limit, window and capacity; and of the fatigue tracker, for    *)
(* any number of scans and pairs, any confidences and any trigger no lower *)
(* than alpha.                                                             *)
(***************************************************************************)
EXTENDS SlidingWindowLimiter, FatigueTracker, FiniteSetTheorems, SequenceTheorems,
        WellFoundedInduction, TLAPS

(***************************************************************************)
(* The limiter.                                                            *)
(***************************************************************************)
Times == 0..MaxTime

(***************************************************************************)
(* The inductive invariant, key by key, for a key with deque b, grant      *)
(* history g and promise p at time t: the deque is the end of the history, *)
(* what pruning dropped from the front has left the window, a promise is   *)
(* the expiry of the head of a full deque until that head is gone, and the *)
(* history respects the rate.  The rate alone is not inductive: that the   *)
(* grant MaxRequests before the next one is a window old follows from the  *)
(* deque holding every live grant.                                         *)
(***************************************************************************)
RecentGrants(b, g) ==
    /\ Len(b) <= Len(g)
    /\ \A j \in 1..Len(b) : b[j] = g[Len(g) - Len(b) + j]

DroppedExpired(t, b, g) ==
    \A i \in 1..(Len(g) - Len(b)) : g[i] <= t - Window

PromiseIsHeadExpiry(t, b, p) ==
    p > 0 => \/ Len(b) = MaxRequests /\ p = b[1] + Window
             \/ Len(b) < MaxRequests /\ t >= p

RespectsRate(g) ==
    \A i \in 1..Len(g) : i + MaxRequests <= Len(g) => g[i + MaxRequests] - g[i] >= Window

KeyInv(t, b, g, p) ==
    /\ Len(b) <= MaxRequests
    /\ RecentGrants(b, g)
    /\ DroppedExpired(t, b, g)
    /\ PromiseIsHeadExpiry(t, b, p)
    /\ RespectsRate(g)

IInv ==
    /\ LimiterTypeOK
    /\ \A k \in Keys : KeyInv(now, bucket[k], grants[k], promise[k])
    /\ \A k \in Keys \ tracked : bucket[k] = <<>> /\ grants[k] = <<>> /\ promise[k] = 0

(***************************************************************************)
(* What the two action properties rest on: the deques are in the order of  *)
(* time, so that the newest request of a key says whether any is live; and *)
(* the deque of a key a check() allowed has room until something is        *)
(* recorded.                                                               *)
(***************************************************************************)
InOrder(t, b) ==
    /\ \A i, j \in 1..Len(b) : i <= j => b[i] <= b[j]
    /\ \A i \in 1..Len(b) : b[i] <= t

Ordered == \A k \in Keys : InOrder(now, bucket[k])

CheckedRoom ==
    decision.op = "check" /\ decision.allowed =>
        decision.key \in Keys /\ Len(bucket[decision.key]) < MaxRequests

(* The tracked keys are finitely many, however many keys there are.        *)
FewTracked == IsFiniteSet(tracked)

-----------------------------------------------------------------------------
(* A nonempty set of numbers has a least one: the CHOOSE in Pruned names   *)
(* an existing position.                                                   *)
LEMMA LeastElement ==
    ASSUME NEW T, T \subseteq Nat, T # {}
    PROVE  \E m \in T : \A n \in T : m <= n
<1>1. PICK m \in T : \A n \in T : ~ (<<n, m>> \in OpToRel(<, Nat))
  BY NatLessThanWellFounded, WFMin, Zenon
<1>2. \A n \in T : ~ (n < m)
  BY <1>1, Zenon DEF OpToRel
<1>3. \A n \in T : m <= n
  BY <1>2, SMT
<1> QED
  BY <1>3

(* Pruning keeps a suffix of the deque, drops only expired timestamps, and *)
(* stops at a live one (_prune_locked).                                    *)
LEMMA PrunedProperties ==
    ASSUME NEW b \in Seq(Times), now \in Times
    PROVE  /\ Pruned(b) \in Seq(Times)
           /\ Len(Pruned(b)) <= Len(b)
           /\ \A j \in 1..Len(Pruned(b)) : Pruned(b)[j] = b[Len(b) - Len(Pruned(b)) + j]
           /\ \A i \in 1..(Len(b) - Len(Pruned(b))) : Expired(b[i])
           /\ Len(Pruned(b)) > 0 => ~ Expired(Pruned(b)[1])
<1> USE LimiterAssumption
<1>1. Len(b) \in Nat /\ \A i \in 1..Len(b) : b[i] \in Times
  BY LenProperties, ElementOfSeq
<1>2. CASE LiveAt(b) = {}
  <2>1. Pruned(b) = <<>>
    BY <1>2 DEF Pruned
  <2>2. <<>> \in Seq(Times) /\ Len(<<>>) = 0
    BY EmptySeq
  <2>3. \A i \in 1..Len(b) : Expired(b[i])
    BY <1>2 DEF LiveAt
  <2> QED
    BY <1>1, <2>1, <2>2, <2>3
<1>3. CASE LiveAt(b) # {}
  <2> DEFINE first == CHOOSE i \in LiveAt(b) : \A j \in LiveAt(b) : i <= j
  <2>1. LiveAt(b) \subseteq Nat
    BY <1>1 DEF LiveAt
  <2>2. first \in LiveAt(b) /\ \A j \in LiveAt(b) : first <= j
    <3>1. \E i \in LiveAt(b) : \A j \in LiveAt(b) : i <= j
      BY <1>3, <2>1, LeastElement
    <3> QED
      BY <3>1
  <2>3. first \in 1..Len(b) /\ ~ Expired(b[first])
    BY <2>2 DEF LiveAt
  <2>4. Pruned(b) = SubSeq(b, first, Len(b))
    BY <1>3 DEF Pruned
  <2> HIDE DEF first
  <2>5. /\ SubSeq(b, first, Len(b)) \in Seq(Times)
        /\ Len(SubSeq(b, first, Len(b))) = IF first <= Len(b) THEN Len(b) - first + 1 ELSE 0
        /\ \A i \in 1..(Len(b) - first + 1) : SubSeq(b, first, Len(b))[i] = b[first + i - 1]
    <3>1. first \in Int /\ Len(b) \in Int /\ \A i \in first..Len(b) : b[i] \in Times
      BY <1>1, <2>3
    <3> QED
      BY <3>1, SubSeqProperties
  <2>6. Len(Pruned(b)) = Len(b) - first + 1
    BY <1>1, <2>3, <2>4, <2>5
  <2>7. \A i \in 1..(first - 1) : Expired(b[i])
    BY <1>1, <2>2, <2>3 DEF LiveAt
  <2>8. \A j \in 1..Len(Pruned(b)) : Pruned(b)[j] = b[Len(b) - Len(Pruned(b)) + j]
    BY <1>1, <2>3, <2>4, <2>5, <2>6
  <2>9. Pruned(b)[1] = b[first]
    BY <1>1, <2>3, <2>4, <2>5, <2>6
  <2> QED
    BY <1>1, <2>3, <2>4, <2>5, <2>6, <2>7, <2>8, <2>9
<1> QED
  BY <1>2, <1>3

-----------------------------------------------------------------------------
(* What one call does to one key keeps the key's invariant.                *)
LEMMA KeyForgotten == ASSUME NEW t \in Times PROVE KeyInv(t, <<>>, <<>>, 0)
  BY EmptySeq, LimiterAssumption
  DEF KeyInv, RecentGrants, DroppedExpired, PromiseIsHeadExpiry, RespectsRate

LEMMA KeyAges ==
    ASSUME NEW t \in Nat, NEW b \in Seq(Times), NEW g \in Seq(Times), NEW p \in Nat,
           KeyInv(t, b, g, p)
    PROVE  KeyInv(t + 1, b, g, p)
<1> USE LimiterAssumption
<1>1. Len(b) \in Nat /\ Len(g) \in Nat
  BY LenProperties
<1>2. DroppedExpired(t + 1, b, g)
  <2> SUFFICES ASSUME NEW i \in 1..(Len(g) - Len(b)) PROVE g[i] <= t + 1 - Window
    BY DEF DroppedExpired
  <2>1. g[i] \in Nat
    BY <1>1, ElementOfSeq DEF Times
  <2>2. g[i] <= t - Window
    BY DEF KeyInv, DroppedExpired
  <2> QED
    BY <2>1, <2>2
<1>3. PromiseIsHeadExpiry(t + 1, b, p)
  BY DEF KeyInv, PromiseIsHeadExpiry
<1> QED
  BY <1>2, <1>3 DEF KeyInv

LEMMA KeyPruned ==
    ASSUME now \in Times, NEW b \in Seq(Times), NEW g \in Seq(Times), NEW p \in Nat,
           KeyInv(now, b, g, p)
    PROVE  KeyInv(now, Pruned(b), g, p)
<1> USE LimiterAssumption
<1> DEFINE left == Pruned(b)
<1>1. /\ left \in Seq(Times)
      /\ Len(left) <= Len(b)
      /\ \A j \in 1..Len(left) : left[j] = b[Len(b) - Len(left) + j]
      /\ \A i \in 1..(Len(b) - Len(left)) : b[i] <= now - Window
  BY PrunedProperties DEF Expired
<1> HIDE DEF left
<1>2. Len(b) \in Nat /\ Len(g) \in Nat /\ Len(left) \in Nat
  BY <1>1, LenProperties
<1>3. /\ Len(b) <= Len(g)
      /\ \A j \in 1..Len(b) : b[j] = g[Len(g) - Len(b) + j]
      /\ Len(b) <= MaxRequests
  BY DEF KeyInv, RecentGrants
<1>4. RecentGrants(left, g)
  <2>1. Len(left) <= Len(g)
    BY <1>1, <1>2, <1>3
  <2>2. ASSUME NEW j \in 1..Len(left) PROVE left[j] = g[Len(g) - Len(left) + j]
    <3>1. left[j] = b[Len(b) - Len(left) + j]
      BY <1>1
    <3>2. Len(b) - Len(left) + j \in 1..Len(b)
      BY <1>1, <1>2
    <3>3. b[Len(b) - Len(left) + j] = g[Len(g) - Len(b) + (Len(b) - Len(left) + j)]
      BY <1>3, <3>2
    <3>4. Len(g) - Len(b) + (Len(b) - Len(left) + j) = Len(g) - Len(left) + j
      BY <1>2
    <3> QED
      BY <3>1, <3>3, <3>4
  <2> QED
    BY <2>1, <2>2 DEF RecentGrants
<1>5. DroppedExpired(now, left, g)
  <2> SUFFICES ASSUME NEW i \in 1..(Len(g) - Len(left)) PROVE g[i] <= now - Window
    BY DEF DroppedExpired
  <2>1. CASE i <= Len(g) - Len(b)
    <3>1. i \in 1..(Len(g) - Len(b))
      BY <1>2, <2>1
    <3> QED
      BY <3>1 DEF KeyInv, DroppedExpired
  <2>2. CASE i > Len(g) - Len(b)
    <3> DEFINE q == i - (Len(g) - Len(b))
    <3>1. q \in 1..(Len(b) - Len(left)) /\ q \in 1..Len(b) /\ Len(g) - Len(b) + q = i
      BY <1>1, <1>2, <1>3, <2>2
    <3>2. b[q] <= now - Window /\ b[q] = g[Len(g) - Len(b) + q]
      BY <1>1, <1>3, <3>1
    <3> QED
      BY <3>1, <3>2
  <2> QED
    BY <1>2, <2>1, <2>2
<1>6. PromiseIsHeadExpiry(now, left, p)
  <2> SUFFICES ASSUME p > 0
               PROVE  \/ Len(left) = MaxRequests /\ p = left[1] + Window
                      \/ Len(left) < MaxRequests /\ now >= p
    BY DEF PromiseIsHeadExpiry
  <2>1. \/ Len(b) = MaxRequests /\ p = b[1] + Window
        \/ Len(b) < MaxRequests /\ now >= p
    BY DEF KeyInv, PromiseIsHeadExpiry
  <2>2. CASE Len(b) < MaxRequests
    BY <1>1, <1>2, <2>1, <2>2
  <2>3. CASE Len(b) = MaxRequests /\ Len(left) = Len(b)
    BY <1>1, <1>2, <2>1, <2>3
  <2>4. CASE Len(b) = MaxRequests /\ Len(left) < Len(b)
    <3>1. b[1] <= now - Window /\ b[1] \in Nat
      BY <1>1, <1>2, <2>4, ElementOfSeq DEF Times
    <3> QED
      BY <1>2, <2>1, <2>4, <3>1 DEF Times
  <2> QED
    BY <1>1, <1>2, <1>3, <2>2, <2>3, <2>4
<1> QED
  BY <1>1, <1>2, <1>3, <1>4, <1>5, <1>6 DEF KeyInv, left

(* The step that keeps the rate: the deque has room, so the grant          *)
(* MaxRequests back is one that pruning dropped.                           *)
LEMMA KeyGranted ==
    ASSUME now \in Times, NEW b \in Seq(Times), NEW g \in Seq(Times), NEW p \in Nat,
           KeyInv(now, b, g, p), Len(b) < MaxRequests
    PROVE  KeyInv(now, Append(b, now), Append(g, now), 0)
<1> USE LimiterAssumption
<1> DEFINE bb == Append(b, now)
           gg == Append(g, now)
<1>1. Len(b) \in Nat /\ Len(g) \in Nat /\ now \in Nat
  BY LenProperties DEF Times
<1>2. /\ Len(bb) = Len(b) + 1 /\ Len(gg) = Len(g) + 1
      /\ bb[Len(b) + 1] = now /\ gg[Len(g) + 1] = now
      /\ \A i \in 1..Len(b) : bb[i] = b[i]
      /\ \A i \in 1..Len(g) : gg[i] = g[i]
  BY AppendProperties
<1> HIDE DEF bb, gg
<1>3. Len(b) <= Len(g) /\ \A j \in 1..Len(b) : b[j] = g[Len(g) - Len(b) + j]
  BY DEF KeyInv, RecentGrants
<1>4. \A i \in 1..(Len(g) - Len(b)) : g[i] <= now - Window
  BY DEF KeyInv, DroppedExpired
<1>5. RecentGrants(bb, gg)
  <2> SUFFICES ASSUME NEW j \in 1..Len(bb) PROVE bb[j] = gg[Len(gg) - Len(bb) + j]
    BY <1>1, <1>2, <1>3 DEF RecentGrants
  <2>1. Len(gg) - Len(bb) + j = Len(g) - Len(b) + j
    BY <1>1, <1>2
  <2>2. CASE j \in 1..Len(b)
    <3>1. Len(g) - Len(b) + j \in 1..Len(g)
      BY <1>1, <1>3, <2>2
    <3> QED
      BY <1>2, <1>3, <2>1, <2>2, <3>1
  <2>3. CASE j = Len(b) + 1
    BY <1>1, <1>2, <2>1, <2>3
  <2> QED
    BY <1>1, <1>2, <2>2, <2>3
<1>6. DroppedExpired(now, bb, gg)
  <2> SUFFICES ASSUME NEW i \in 1..(Len(gg) - Len(bb)) PROVE gg[i] <= now - Window
    BY DEF DroppedExpired
  <2>1. i \in 1..(Len(g) - Len(b)) /\ i \in 1..Len(g)
    BY <1>1, <1>2
  <2> QED
    BY <1>2, <1>4, <2>1
<1>7. RespectsRate(gg)
  <2> SUFFICES ASSUME NEW i \in 1..Len(gg), i + MaxRequests <= Len(gg)
               PROVE  gg[i + MaxRequests] - gg[i] >= Window
    BY DEF RespectsRate
  <2>0. i \in 1..Len(g) /\ i \in Nat /\ gg[i] = g[i] /\ g[i] \in Nat
    BY <1>1, <1>2, ElementOfSeq, SMTT(30) DEF Times
  <2>1. CASE i + MaxRequests <= Len(g)
    <3>1. i + MaxRequests \in 1..Len(g)
      BY <1>1, <2>0, <2>1
    <3>2. g[i + MaxRequests] - g[i] >= Window
      BY <2>0, <2>1 DEF KeyInv, RespectsRate
    <3> QED
      BY <1>2, <2>0, <3>1, <3>2
  <2>2. CASE i + MaxRequests = Len(g) + 1
    <3>1. i \in 1..(Len(g) - Len(b))
      BY <1>1, <2>0, <2>2
    <3>2. g[i] <= now - Window
      BY <1>4, <3>1
    <3> QED
      BY <1>1, <1>2, <2>0, <2>2, <3>2
  <2>3. i + MaxRequests <= Len(g) \/ i + MaxRequests = Len(g) + 1
    BY <1>1, <1>2, <2>0
  <2> QED
    BY <2>1, <2>2, <2>3
<1>8. Len(bb) <= MaxRequests /\ PromiseIsHeadExpiry(now, bb, 0)
  BY <1>1, <1>2 DEF PromiseIsHeadExpiry
<1> QED
  BY <1>5, <1>6, <1>7, <1>8 DEF KeyInv, bb, gg

LEMMA KeyDenied ==
    ASSUME now \in Times, NEW b \in Seq(Times), NEW g \in Seq(Times), NEW p \in Nat,
           KeyInv(now, b, g, p), Len(b) >= MaxRequests
    PROVE  /\ now + RetryAfter(b) \in Nat
           /\ KeyInv(now, b, g, now + RetryAfter(b))
<1> USE LimiterAssumption
<1>1. Len(b) \in Nat /\ Len(b) = MaxRequests
  BY LenProperties DEF KeyInv
<1>2. b[1] \in Nat /\ now \in Nat
  BY <1>1, ElementOfSeq DEF Times
<1>3. now + RetryAfter(b) = b[1] + Window
  BY <1>2 DEF RetryAfter
<1> QED
  BY <1>1, <1>2, <1>3 DEF KeyInv, PromiseIsHeadExpiry

-----------------------------------------------------------------------------
(* acquire(k) on a new key evicts only tracked keys, never k.              *)
LEMMA EvictionsProperties ==
    ASSUME NEW k \in Keys, NEW gone \in Evictions(k)
    PROVE  gone \subseteq tracked /\ k \notin gone
  BY DEF Evictions, Stalest

LEMMA InitInvariant == LimiterInit => IInv
<1> SUFFICES ASSUME LimiterInit PROVE IInv
  OBVIOUS
<1>1. LimiterTypeOK
  BY EmptySeq, LimiterAssumption DEF LimiterInit, LimiterTypeOK, Decisions
<1>2. \A k \in Keys : KeyInv(now, bucket[k], grants[k], promise[k])
  BY KeyForgotten, LimiterAssumption DEF LimiterInit, Times
<1>3. \A k \in Keys : bucket[k] = <<>> /\ grants[k] = <<>> /\ promise[k] = 0
  BY DEF LimiterInit
<1> QED
  BY <1>1, <1>2, <1>3 DEF IInv

LEMMA StateTypes ==
    ASSUME IInv
    PROVE  /\ now \in Times
           /\ bucket \in [Keys -> Seq(Times)]
           /\ grants \in [Keys -> Seq(Times)]
           /\ promise \in [Keys -> Nat]
           /\ \A k \in Keys : /\ KeyInv(now, Pruned(bucket[k]), grants[k], promise[k])
                              /\ Pruned(bucket[k]) \in Seq(Times)
                              /\ Append(Pruned(bucket[k]), now) \in Seq(Times)
                              /\ Append(grants[k], now) \in Seq(Times)
<1>1. /\ now \in Times
      /\ bucket \in [Keys -> Seq(Times)]
      /\ grants \in [Keys -> Seq(Times)]
      /\ promise \in [Keys -> Nat]
  BY DEF IInv, LimiterTypeOK, Times
<1>2. ASSUME NEW k \in Keys
      PROVE  KeyInv(now, Pruned(bucket[k]), grants[k], promise[k])
  <2>1. KeyInv(now, bucket[k], grants[k], promise[k])
    BY DEF IInv
  <2> QED
    BY <1>1, <2>1, KeyPruned
<1>3. ASSUME NEW k \in Keys
      PROVE  /\ Pruned(bucket[k]) \in Seq(Times)
             /\ Append(Pruned(bucket[k]), now) \in Seq(Times)
             /\ Append(grants[k], now) \in Seq(Times)
  <2>1. Pruned(bucket[k]) \in Seq(Times)
    BY <1>1, PrunedProperties
  <2> QED
    BY <1>1, <2>1, AppendProperties
<1> QED
  BY <1>1, <1>2, <1>3

LEMMA TickStep == ASSUME IInv, Tick PROVE IInv'
<1>1. LimiterTypeOK'
  BY LimiterAssumption DEF IInv, Tick, LimiterTypeOK
<1>2. \A k \in Keys : KeyInv(now + 1, bucket[k], grants[k], promise[k])
  <2> TAKE k \in Keys
  <2>1. /\ now \in Nat /\ bucket[k] \in Seq(Times) /\ grants[k] \in Seq(Times)
        /\ promise[k] \in Nat /\ KeyInv(now, bucket[k], grants[k], promise[k])
    BY StateTypes DEF IInv, Times
  <2> QED
    BY <2>1, KeyAges
<1> QED
  BY <1>1, <1>2 DEF IInv, Tick

LEMMA CheckStep == ASSUME IInv, NEW k \in Keys, Check(k) PROVE IInv'
<1> DEFINE left == Pruned(bucket[k])
<1>1. /\ bucket' = [bucket EXCEPT ![k] = left]
      /\ decision' = [op |-> "check", key |-> k, allowed |-> HasRoom(left)]
      /\ UNCHANGED <<now, tracked, grants, promise>>
  BY DEF Check
<1>2. left \in Seq(Times) /\ KeyInv(now, left, grants[k], promise[k])
  BY StateTypes
<1>3. k \notin tracked => left = <<>>
  <2> SUFFICES ASSUME k \notin tracked PROVE left = <<>>
    OBVIOUS
  <2>1. bucket[k] = <<>> /\ Len(bucket[k]) = 0
    BY EmptySeq DEF IInv
  <2> QED
    BY <2>1 DEF Pruned, LiveAt
<1> HIDE DEF left
<1>4. LimiterTypeOK'
  BY <1>1, <1>2, StateTypes DEF IInv, LimiterTypeOK, Decisions, HasRoom, Times
<1>5. \A j \in Keys : bucket'[j] = IF j = k THEN left ELSE bucket[j]
  BY <1>1, StateTypes
<1>6. \A j \in Keys : KeyInv(now, bucket'[j], grants[j], promise[j])
  BY <1>2, <1>5 DEF IInv
<1>7. \A j \in Keys \ tracked : bucket'[j] = <<>>
  BY <1>3, <1>5 DEF IInv
<1> QED
  BY <1>1, <1>4, <1>6, <1>7 DEF IInv

LEMMA GrantStep ==
    ASSUME IInv, NEW k \in Keys, NEW gone \in Evictions(k),
           tracked' = (tracked \cup {k}) \ gone, now' = now,
           Grant(k, Pruned(bucket[k]), gone)
    PROVE  IInv'
<1> DEFINE left == Pruned(bucket[k])
<1>1. left \in Seq(Times) /\ KeyInv(now, left, grants[k], promise[k]) /\ Len(left) < MaxRequests
  BY StateTypes DEF Grant
<1>2. gone \subseteq tracked /\ k \notin gone
  BY EvictionsProperties
<1>3. \A j \in Keys :
        /\ bucket'[j] = IF j = k THEN Append(left, now) ELSE IF j \in gone THEN <<>> ELSE bucket[j]
        /\ grants'[j] = IF j = k THEN Append(grants[k], now) ELSE IF j \in gone THEN <<>> ELSE grants[j]
        /\ promise'[j] = IF j = k \/ j \in gone THEN 0 ELSE promise[j]
  BY <1>2 DEF Grant, Without
<1>4. KeyInv(now, Append(left, now), Append(grants[k], now), 0)
  BY <1>1, StateTypes, KeyGranted
<1>5. LimiterTypeOK'
  <2>1. bucket' \in [Keys -> Seq(Times)]
    BY StateTypes, EmptySeq DEF Grant, Without
  <2>2. grants' \in [Keys -> Seq(Times)]
    <3>1. grants' = [Without(gone, grants, <<>>) EXCEPT ![k] = Append(Without(gone, grants, <<>>)[k], now)]
      BY DEF Grant
    <3>2. Without(gone, grants, <<>>) \in [Keys -> Seq(Times)] /\ Without(gone, grants, <<>>)[k] = grants[k]
      BY <1>2, StateTypes, EmptySeq DEF Without
    <3> QED
      BY <3>1, <3>2, StateTypes
  <2>3. promise' \in [Keys -> Nat] /\ tracked' \in SUBSET Keys /\ decision' \in Decisions
    BY <1>2, StateTypes DEF Grant, Without, IInv, LimiterTypeOK, Decisions
  <2> QED
    BY <2>1, <2>2, <2>3 DEF IInv, LimiterTypeOK, Times
<1>6. ASSUME NEW j \in Keys PROVE KeyInv(now, bucket'[j], grants'[j], promise'[j])
  <2>1. CASE j = k
    BY <1>3, <1>4, <2>1
  <2>2. CASE j # k /\ j \in gone
    BY <1>3, <2>2, StateTypes, KeyForgotten
  <2>3. CASE j # k /\ j \notin gone
    BY <1>3, <2>3 DEF IInv
  <2> QED
    BY <2>1, <2>2, <2>3
<1>7. \A j \in Keys \ tracked' : bucket'[j] = <<>> /\ grants'[j] = <<>> /\ promise'[j] = 0
  BY <1>2, <1>3 DEF IInv
<1> QED
  BY <1>5, <1>6, <1>7 DEF IInv

LEMMA DenyStep ==
    ASSUME IInv, NEW k \in Keys, NEW gone \in Evictions(k),
           tracked' = (tracked \cup {k}) \ gone, now' = now,
           Deny(k, Pruned(bucket[k]), gone)
    PROVE  IInv'
<1> DEFINE left == Pruned(bucket[k])
           back == now + RetryAfter(left)
<1>1. left \in Seq(Times) /\ KeyInv(now, left, grants[k], promise[k]) /\ Len(left) >= MaxRequests
  BY StateTypes DEF Deny
<1>2. gone \subseteq tracked /\ k \notin gone
  BY EvictionsProperties
<1>3. back \in Nat /\ KeyInv(now, left, grants[k], back)
  BY <1>1, StateTypes, KeyDenied
<1>4. \A j \in Keys :
        /\ bucket'[j] = IF j = k THEN left ELSE IF j \in gone THEN <<>> ELSE bucket[j]
        /\ grants'[j] = IF j \in gone THEN <<>> ELSE grants[j]
        /\ promise'[j] = IF j = k THEN back ELSE IF j \in gone THEN 0 ELSE promise[j]
  BY <1>2 DEF Deny, Without
<1>5. LimiterTypeOK'
  <2>1. bucket' \in [Keys -> Seq(Times)] /\ grants' \in [Keys -> Seq(Times)]
    BY <1>1, StateTypes, EmptySeq DEF Deny, Without
  <2>2. promise' \in [Keys -> Nat]
    BY <1>3, StateTypes DEF Deny, Without
  <2>3. tracked' \in SUBSET Keys /\ decision' \in Decisions
    BY <1>2 DEF Deny, IInv, LimiterTypeOK, Decisions
  <2> QED
    BY <2>1, <2>2, <2>3 DEF IInv, LimiterTypeOK, Times
<1> HIDE DEF left, back
<1>6. ASSUME NEW j \in Keys PROVE KeyInv(now, bucket'[j], grants'[j], promise'[j])
  <2>1. CASE j = k
    BY <1>2, <1>3, <1>4, <2>1
  <2>2. CASE j # k /\ j \in gone
    BY <1>4, <2>2, StateTypes, KeyForgotten
  <2>3. CASE j # k /\ j \notin gone
    BY <1>4, <2>3 DEF IInv
  <2> QED
    BY <2>1, <2>2, <2>3
<1>7. \A j \in Keys \ tracked' : bucket'[j] = <<>> /\ grants'[j] = <<>> /\ promise'[j] = 0
  BY <1>2, <1>4 DEF IInv
<1> QED
  BY <1>5, <1>6, <1>7 DEF IInv

LEMMA ResetStep == ASSUME IInv, NEW gone \in SUBSET Keys, Reset(gone) PROVE IInv'
<1>1. \A j \in Keys :
        /\ bucket'[j] = IF j \in gone THEN <<>> ELSE bucket[j]
        /\ grants'[j] = IF j \in gone THEN <<>> ELSE grants[j]
        /\ promise'[j] = IF j \in gone THEN 0 ELSE promise[j]
  BY DEF Reset, Without
<1>2. LimiterTypeOK'
  <2>1. bucket' \in [Keys -> Seq(Times)] /\ grants' \in [Keys -> Seq(Times)]
    BY StateTypes, EmptySeq DEF Reset, Without
  <2>2. promise' \in [Keys -> Nat]
    BY StateTypes DEF Reset, Without
  <2> QED
    BY <2>1, <2>2 DEF Reset, IInv, LimiterTypeOK, Times
<1>3. ASSUME NEW j \in Keys PROVE KeyInv(now, bucket'[j], grants'[j], promise'[j])
  <2>1. CASE j \in gone
    BY <1>1, <2>1, StateTypes, KeyForgotten
  <2>2. CASE j \notin gone
    BY <1>1, <2>2 DEF IInv
  <2> QED
    BY <2>1, <2>2
<1>4. \A j \in Keys \ tracked' : bucket'[j] = <<>> /\ grants'[j] = <<>> /\ promise'[j] = 0
  BY <1>1 DEF IInv, Reset
<1> QED
  BY <1>2, <1>3, <1>4 DEF IInv, Reset

LEMMA NextInvariant == IInv /\ [LimiterNext]_limiterVars => IInv'
<1> SUFFICES ASSUME IInv, [LimiterNext]_limiterVars PROVE IInv'
  OBVIOUS
<1>1. CASE Tick
  BY <1>1, TickStep
<1>2. ASSUME NEW k \in Keys, Check(k) PROVE IInv'
  BY <1>2, CheckStep
<1>3. ASSUME NEW k \in Keys, Acquire(k) PROVE IInv'
  BY <1>3, GrantStep, DenyStep DEF Acquire
<1>4. ASSUME NEW k \in Keys, Reset({k}) PROVE IInv'
  BY <1>4, ResetStep
<1>5. CASE Reset(Keys)
  BY <1>5, ResetStep
<1>6. CASE UNCHANGED limiterVars
  <2>1. LimiterTypeOK'
    BY <1>6 DEF IInv, limiterVars, LimiterTypeOK
  <2> QED
    BY <1>6, <2>1 DEF IInv, limiterVars
<1> QED
  BY <1>1, <1>2, <1>3, <1>4, <1>5, <1>6 DEF LimiterNext

THEOREM InvariantHolds == LimiterSpec => []IInv
<1> QED
  BY InitInvariant, NextInvariant, PTL DEF LimiterSpec

-----------------------------------------------------------------------------
(* Every variable keeps its type.                                          *)
THEOREM TypeCorrect == LimiterSpec => []LimiterTypeOK
<1>1. IInv => LimiterTypeOK
  BY DEF IInv
<1> QED
  BY <1>1, InvariantHolds, PTL

(* For every limit, window, capacity and set of keys, a key's next grant   *)
(* comes no sooner than a window after the one MaxRequests before it       *)
(* (acquire, with prune, eviction, check and reset in any order between).  *)
THEOREM RateIsRespected == LimiterSpec => []WindowRate
<1>1. IInv => WindowRate
  BY DEF IInv, KeyInv, RespectsRate, WindowRate
<1> QED
  BY <1>1, InvariantHolds, PTL

(* The retry_after_seconds of a denial is exact: room from then on, and    *)
(* none before.                                                            *)
THEOREM RetryAfterIsExact == LimiterSpec => []RetryAfterExact
<1>1. ASSUME IInv, NEW k \in Keys, promise[k] > 0
      PROVE  now >= promise[k] <=> Len(Pruned(bucket[k])) < MaxRequests
  <2> USE LimiterAssumption
  <2> DEFINE left == Pruned(bucket[k])
  <2>1. /\ left \in Seq(Times)
        /\ KeyInv(now, left, grants[k], promise[k])
        /\ bucket[k] \in Seq(Times)
        /\ now \in Times
        /\ promise[k] \in Nat
    BY <1>1, StateTypes
  <2>2. Len(left) > 0 => ~ Expired(left[1])
    BY <2>1, PrunedProperties
  <2> HIDE DEF left
  <2>3. Len(left) \in Nat /\ (Len(left) > 0 => left[1] \in Nat)
    BY <2>1, LenProperties, ElementOfSeq DEF Times
  <2>4. \/ Len(left) = MaxRequests /\ promise[k] = left[1] + Window
        \/ Len(left) < MaxRequests /\ now >= promise[k]
    BY <1>1, <2>1 DEF KeyInv, PromiseIsHeadExpiry
  <2>5. Len(left) = MaxRequests /\ promise[k] = left[1] + Window => now < promise[k]
    BY <2>1, <2>2, <2>3 DEF Expired, Times
  <2> QED
    BY <2>1, <2>3, <2>4, <2>5 DEF left, Times
<1>2. IInv => RetryAfterExact
  BY <1>1 DEF RetryAfterExact
<1> QED
  BY <1>2, InvariantHolds, PTL
-----------------------------------------------------------------------------
LEMMA OrderOfNone == ASSUME NEW t \in Times PROVE InOrder(t, <<>>)
  BY EmptySeq DEF InOrder

LEMMA OrderAges ==
    ASSUME NEW t \in Nat, NEW b \in Seq(Times), InOrder(t, b)
    PROVE  InOrder(t + 1, b)
<1>1. Len(b) \in Nat /\ \A i \in 1..Len(b) : b[i] \in Nat
  BY LenProperties, ElementOfSeq, LimiterAssumption DEF Times
<1> QED BY <1>1 DEF InOrder

LEMMA OrderPruned ==
    ASSUME NEW b \in Seq(Times), now \in Times, InOrder(now, b)
    PROVE  InOrder(now, Pruned(b))
<1>1. Len(b) \in Nat
  BY LenProperties
<1>2. PICK c \in Seq(Times) : c = Pruned(b)
  BY PrunedProperties
<1>3. Len(c) \in Nat /\ Len(c) <= Len(b)
  BY <1>2, LenProperties, PrunedProperties
<1>4. PICK m \in Nat : m = Len(b) - Len(c)
  BY <1>1, <1>3
<1>5. \A j \in 1..Len(c) : m + j \in 1..Len(b) /\ c[j] = b[m + j]
  <2> TAKE j \in 1..Len(c)
  <2>1. m + j \in 1..Len(b)
    BY <1>1, <1>3, <1>4
  <2>2. c[j] = b[Len(b) - Len(c) + j]
    BY <1>2, PrunedProperties
  <2> QED BY <1>4, <2>1, <2>2
<1>6. \A i, j \in 1..Len(c) : i <= j => c[i] <= c[j]
  <2> SUFFICES ASSUME NEW i \in 1..Len(c), NEW j \in 1..Len(c), i <= j PROVE c[i] <= c[j]
    OBVIOUS
  <2>1. m + i <= m + j
    BY <1>4
  <2> QED BY <1>5, <2>1 DEF InOrder
<1>7. \A i \in 1..Len(c) : c[i] <= now
  BY <1>5 DEF InOrder
<1> QED BY <1>2, <1>6, <1>7 DEF InOrder

LEMMA OrderAppended ==
    ASSUME NEW t \in Times, NEW b \in Seq(Times), InOrder(t, b)
    PROVE  InOrder(t, Append(b, t))
<1>1. PICK n \in Nat : n = Len(b)
  BY LenProperties
<1>2. PICK c \in Seq(Times) : c = Append(b, t)
  BY AppendProperties
<1>3. Len(c) = n + 1 /\ c[n + 1] = t /\ \A i \in 1..n : c[i] = b[i]
  BY <1>1, <1>2, AppendProperties
<1>4. t \in Nat
  BY LimiterAssumption DEF Times
<1>5. \A i \in 1..n + 1 : i = n + 1 \/ i \in 1..n
  OBVIOUS
<1>6. \A i \in 1..n + 1 : c[i] <= t
  BY <1>1, <1>3, <1>4, <1>5 DEF InOrder
<1>7. \A i, j \in 1..n + 1 : i <= j => c[i] <= c[j]
  <2> SUFFICES ASSUME NEW i \in 1..n + 1, NEW j \in 1..n + 1, i <= j PROVE c[i] <= c[j]
    OBVIOUS
  <2>1. CASE j = n + 1
    BY <1>3, <1>6, <2>1
  <2>2. CASE i \in 1..n /\ j \in 1..n
    BY <1>1, <1>3, <2>2 DEF InOrder
  <2>3. CASE i = n + 1 /\ j \in 1..n
    BY <2>3
  <2> QED BY <1>5, <2>1, <2>2, <2>3
<1> QED BY <1>2, <1>3, <1>6, <1>7 DEF InOrder

(* What one step makes of the deque of one key.                            *)
LEMMA DequeSteps ==
    ASSUME IInv, [LimiterNext]_limiterVars, NEW j \in Keys
    PROVE  \/ now' = now /\ bucket'[j] \in {bucket[j], Pruned(bucket[j]), <<>>}
           \/ now' = now /\ bucket'[j] = Append(Pruned(bucket[j]), now)
           \/ now' = now + 1 /\ bucket'[j] = bucket[j]
<1>1. bucket \in [Keys -> Seq(Times)]
  BY StateTypes
<1>2. CASE Tick
  BY <1>2 DEF Tick
<1>3. ASSUME NEW k \in Keys, Check(k)
      PROVE  now' = now /\ bucket'[j] \in {bucket[j], Pruned(bucket[j]), <<>>}
  <2>1. bucket' = [bucket EXCEPT ![k] = Pruned(bucket[k])] /\ now' = now
    BY <1>3 DEF Check
  <2> QED BY <1>1, <2>1
<1>4. ASSUME NEW k \in Keys, Acquire(k)
      PROVE  /\ now' = now
             /\ \/ bucket'[j] \in {bucket[j], Pruned(bucket[j]), <<>>}
                \/ bucket'[j] = Append(Pruned(bucket[j]), now)
  <2>1. PICK gone \in Evictions(k) :
           /\ now' = now
           /\ \/ Grant(k, Pruned(bucket[k]), gone)
              \/ Deny(k, Pruned(bucket[k]), gone)
    BY <1>4 DEF Acquire
  <2>2. k \notin gone
    BY EvictionsProperties
  <2>3. \/ bucket' = [Without(gone, bucket, <<>>) EXCEPT ![k] = Append(Pruned(bucket[k]), now)]
        \/ bucket' = [Without(gone, bucket, <<>>) EXCEPT ![k] = Pruned(bucket[k])]
    BY <2>1 DEF Grant, Deny
  <2>4. \/ bucket'[j] \in {bucket[j], Pruned(bucket[j]), <<>>}
        \/ bucket'[j] = Append(Pruned(bucket[j]), now)
    BY <2>2, <2>3 DEF Without
  <2> QED BY <2>1, <2>4
<1>5. ASSUME NEW gone \in SUBSET Keys, Reset(gone)
      PROVE  now' = now /\ bucket'[j] \in {bucket[j], Pruned(bucket[j]), <<>>}
  BY <1>5 DEF Reset, Without
<1>6. CASE UNCHANGED limiterVars
  BY <1>6 DEF limiterVars
<1> QED BY <1>2, <1>3, <1>4, <1>5, <1>6 DEF LimiterNext

LEMMA OrderKept == ASSUME IInv, Ordered, [LimiterNext]_limiterVars PROVE Ordered'
<1> SUFFICES ASSUME NEW j \in Keys PROVE InOrder(now', bucket'[j])
  BY DEF Ordered
<1>1. /\ now \in Times /\ now \in Nat /\ bucket[j] \in Seq(Times)
      /\ Pruned(bucket[j]) \in Seq(Times) /\ InOrder(now, bucket[j])
  BY StateTypes, LimiterAssumption DEF Ordered, Times
<1>2. InOrder(now, Pruned(bucket[j]))
  BY <1>1, OrderPruned
<1>3. InOrder(now, <<>>) /\ InOrder(now, Append(Pruned(bucket[j]), now)) /\ InOrder(now + 1, bucket[j])
  BY <1>1, <1>2, OrderOfNone, OrderAppended, OrderAges
<1> QED BY <1>1, <1>2, <1>3, DequeSteps

LEMMA OrderHolds == LimiterSpec => []Ordered
<1>1. LimiterInit => Ordered
  BY OrderOfNone, LimiterAssumption DEF LimiterInit, Ordered, Times
<1>2. IInv /\ Ordered /\ [LimiterNext]_limiterVars => Ordered'
  BY OrderKept
<1> QED BY <1>1, <1>2, InvariantHolds, PTL DEF LimiterSpec

LEMMA RoomKept == ASSUME IInv, CheckedRoom, [LimiterNext]_limiterVars PROVE CheckedRoom'
<1> USE LimiterAssumption
<1>1. CASE decision' = decision /\ bucket' = bucket
  BY <1>1 DEF CheckedRoom
<1>2. ASSUME NEW k \in Keys, Check(k) PROVE CheckedRoom'
  <2>1. /\ bucket' = [bucket EXCEPT ![k] = Pruned(bucket[k])]
        /\ decision' = [op |-> "check", key |-> k, allowed |-> HasRoom(Pruned(bucket[k]))]
    BY <1>2 DEF Check
  <2>2. bucket'[k] = Pruned(bucket[k])
    BY <2>1, StateTypes
  <2>3. decision'.key = k /\ decision'.allowed = HasRoom(Pruned(bucket[k]))
    BY <2>1
  <2> QED BY <2>2, <2>3 DEF CheckedRoom, HasRoom
<1>3. ASSUME NEW k \in Keys, Acquire(k) PROVE CheckedRoom'
  <2>1. decision'.op = "acquire"
    BY <1>3 DEF Acquire, Grant, Deny
  <2> QED BY <2>1 DEF CheckedRoom
<1>4. ASSUME NEW gone \in SUBSET Keys, Reset(gone) PROVE CheckedRoom'
  <2>1. decision' = decision /\ \A j \in Keys : bucket'[j] \in {bucket[j], <<>>}
    BY <1>4 DEF Reset, Without
  <2>2. Len(<<>>) < MaxRequests
    BY EmptySeq
  <2> QED BY <2>1, <2>2 DEF CheckedRoom
<1> QED BY <1>1, <1>2, <1>3, <1>4 DEF LimiterNext, limiterVars, Tick

(* A check() that says yes can be relied on: the next acquire() of the     *)
(* key is granted, however late, if no other request came in between.      *)
THEOREM CheckCanBeReliedOn == LimiterSpec => CheckThenAcquire
<1>1. LimiterInit => CheckedRoom
  BY DEF LimiterInit, CheckedRoom
<1>2. IInv /\ CheckedRoom /\ [LimiterNext]_limiterVars => CheckedRoom'
  BY RoomKept
<1>3. LimiterSpec => []CheckedRoom
  BY <1>1, <1>2, InvariantHolds, PTL DEF LimiterSpec
<1>4. ASSUME IInv, CheckedRoom, [LimiterNext]_limiterVars, decision.op = "check", decision.allowed,
             decision'.op = "acquire", decision'.key = decision.key
      PROVE  decision'.allowed
  <2>1. PICK k \in Keys : Acquire(k)
    <3>1. decision' # decision /\ decision'.op # "check"
      BY <1>4
    <3>2. ~ Tick /\ ~ UNCHANGED limiterVars /\ \A gone : ~ Reset(gone)
      BY <3>1 DEF Tick, limiterVars, Reset
    <3>3. \A k \in Keys : ~ Check(k)
      BY <3>1 DEF Check
    <3> QED BY <1>4, <3>2, <3>3 DEF LimiterNext
  <2>2. PICK gone \in Evictions(k) :
           Grant(k, Pruned(bucket[k]), gone) \/ Deny(k, Pruned(bucket[k]), gone)
    BY <2>1 DEF Acquire
  <2>3. k = decision.key
    BY <1>4, <2>2 DEF Grant, Deny
  <2>4. Len(bucket[k]) < MaxRequests
    BY <1>4, <2>3 DEF CheckedRoom
  <2>5. Len(bucket[k]) \in Nat /\ Len(Pruned(bucket[k])) \in Nat
        /\ Len(Pruned(bucket[k])) <= Len(bucket[k])
    BY <1>4, StateTypes, LenProperties, PrunedProperties
  <2>6. ~ Deny(k, Pruned(bucket[k]), gone)
    BY <2>4, <2>5, LimiterAssumption DEF Deny
  <2> QED BY <2>2, <2>6 DEF Grant
<1>5. IInv /\ CheckedRoom /\ [LimiterNext]_limiterVars =>
        [ (/\ decision.op = "check" /\ decision.allowed
           /\ decision'.op = "acquire" /\ decision'.key = decision.key)
              => decision'.allowed ]_limiterVars
  BY <1>4
<1> QED BY <1>3, <1>5, InvariantHolds, PTL DEF LimiterSpec, CheckThenAcquire

LEMMA TrackedFinite == LimiterSpec => []FewTracked
<1>1. LimiterInit => FewTracked
  BY FS_EmptySet DEF LimiterInit, FewTracked
<1>2. ASSUME FewTracked, [LimiterNext]_limiterVars PROVE FewTracked'
  <2> USE DEF FewTracked
  <2>1. ASSUME NEW k \in Keys, Acquire(k) PROVE IsFiniteSet(tracked')
    <3>1. PICK gone : tracked' = (tracked \cup {k}) \ gone
      BY <2>1 DEF Acquire
    <3>2. IsFiniteSet(tracked \cup {k})
      BY <1>2, FS_AddElement
    <3> QED BY <3>1, <3>2, FS_Subset
  <2>2. ASSUME NEW gone, Reset(gone) PROVE IsFiniteSet(tracked')
    BY <1>2, <2>2, FS_Subset DEF Reset
  <2> QED BY <1>2, <2>1, <2>2 DEF LimiterNext, Tick, Check, limiterVars
<1> QED BY <1>1, <1>2, PTL DEF LimiterSpec

LEMMA BusyHasStalest ==
    ASSUME IInv, Stalest = {} PROVE tracked = Emptied
<1> DEFINE busy == {j \in tracked : bucket[j] # <<>>}
           tails == {Newest(bucket[j]) : j \in busy}
<1>1. ASSUME NEW j \in busy PROVE Newest(bucket[j]) \in Nat
  <2>1. bucket[j] \in Seq(Times) /\ bucket[j] # <<>>
    BY StateTypes DEF IInv, LimiterTypeOK
  <2>2. Len(bucket[j]) \in 1..Len(bucket[j])
    BY <2>1, LenProperties, EmptySeq
  <2> QED BY <2>1, <2>2, ElementOfSeq, LimiterAssumption DEF Newest, Times
<1>2. SUFFICES ASSUME busy # {} PROVE FALSE
  BY DEF Emptied
<1>3. tails \subseteq Nat /\ tails # {}
  BY <1>1, <1>2
<1>4. PICK m \in tails : \A n \in tails : m <= n
  <2> HIDE DEF tails
  <2> QED BY <1>3, LeastElement
<1>5. PICK j \in busy : m = Newest(bucket[j])
  BY <1>4
<1>6. j \in Stalest
  BY <1>4, <1>5 DEF Stalest
<1> QED BY <1>6

(* Who is evicted, for every capacity, window and set of keys: a request   *)
(* in force is lost to another's acquire() only when every key kept has    *)
(* one, too, or was emptied by check(), which _evict_oldest_locked passes  *)
(* over; and only when all of them were emptied the limiter outgrows its   *)
(* capacity.                                                               *)
THEOREM EvictionFollowsTheTails == LimiterSpec => EvictionFollowsTails
<1>1. ASSUME IInv, Ordered, NEW k \in Keys, Acquire(k), NEW j \in tracked \ tracked',
             LiveAt(bucket[j]) # {}, NEW i \in (tracked' \ {k}) \ Emptied
      PROVE  LiveAt(bucket[i]) # {}
  <2>1. PICK gone \in Evictions(k) : tracked' = (tracked \cup {k}) \ gone
    BY <1>1 DEF Acquire
  <2>2. j \in gone /\ i \in tracked /\ tracked \subseteq Keys /\ bucket[i] # <<>>
    BY <1>1, <2>1 DEF IInv, LimiterTypeOK, Emptied
  <2>3. j \in Stalest
    BY <2>2 DEF Evictions
  <2>4. Newest(bucket[j]) <= Newest(bucket[i])
    BY <2>2, <2>3 DEF Stalest
  <2>5. /\ bucket[i] \in Seq(Times) /\ bucket[j] \in Seq(Times) /\ now \in Times
        /\ InOrder(now, bucket[j])
    BY <1>1, <2>2, StateTypes DEF Ordered
  <2>6. Len(bucket[i]) \in 1..Len(bucket[i]) /\ bucket[i][Len(bucket[i])] \in Times
    BY <2>2, <2>5, LenProperties, EmptySeq, ElementOfSeq
  <2>7. PICK p \in 1..Len(bucket[j]) : ~ Expired(bucket[j][p])
    BY <1>1 DEF LiveAt
  <2>8. /\ bucket[j][p] <= Newest(bucket[j]) /\ bucket[j][p] \in Times
        /\ Newest(bucket[j]) \in Times
    <3>1. Len(bucket[j]) \in 1..Len(bucket[j]) /\ p <= Len(bucket[j])
      BY <2>5, <2>7, LenProperties
    <3> QED BY <2>5, <3>1, ElementOfSeq DEF InOrder, Newest
  <2>9. ~ Expired(bucket[i][Len(bucket[i])])
    <3>1. bucket[j][p] <= bucket[i][Len(bucket[i])]
      <4>1. Newest(bucket[i]) \in Times
        BY <2>6 DEF Newest
      <4>2. \A a, b, c \in Times : a <= b /\ b <= c => a <= c
        BY LimiterAssumption DEF Times
      <4> QED BY <2>4, <2>8, <4>1, <4>2 DEF Newest
    <3>2. ~ (bucket[j][p] <= now - Window)
      BY <2>7 DEF Expired
    <3>3. \A a, b \in Times : a <= b /\ ~ (a <= now - Window) => ~ (b <= now - Window)
      BY <2>5, LimiterAssumption DEF Times
    <3> QED BY <2>6, <2>8, <3>1, <3>2, <3>3 DEF Expired
  <2> QED BY <2>6, <2>9 DEF LiveAt
<1>2. ASSUME IInv, IsFiniteSet(tracked), NEW k \in Keys, Acquire(k),
             Cardinality(tracked') > Cardinality(tracked), Cardinality(tracked') > MaxKeys
      PROVE  tracked = Emptied
  <2>1. PICK gone \in Evictions(k) : tracked' = (tracked \cup {k}) \ gone
    BY <1>2 DEF Acquire
  <2>2. Cardinality(tracked) \in Nat /\ MaxKeys \in Nat
    BY <1>2, FS_CardinalityType, LimiterAssumption
  <2>3. k \notin tracked
    <3>1. k \in tracked => tracked' = tracked
      BY <2>1 DEF Evictions
    <3> QED BY <1>2, <2>2, <3>1
  <2>4. IsFiniteSet(tracked \cup {k}) /\ Cardinality(tracked \cup {k}) = Cardinality(tracked) + 1
    BY <1>2, <2>3, FS_AddElement
  <2>5. gone = {}
    <3> SUFFICES ASSUME NEW j \in Stalest, gone = {j} PROVE FALSE
      BY DEF Evictions
    <3>1. tracked' = (tracked \cup {k}) \ {j} /\ j \in tracked \cup {k}
      BY <2>1 DEF Stalest
    <3>2. Cardinality(tracked') = Cardinality(tracked \cup {k}) - 1
      BY <2>4, <3>1, FS_RemoveElement
    <3> QED BY <1>2, <2>2, <2>4, <3>2
  <2>6. Cardinality(tracked) + 1 > MaxKeys
    BY <1>2, <2>1, <2>4, <2>5
  <2>7. Stalest = {}
    BY <2>3, <2>5, <2>6 DEF Evictions
  <2> QED BY <1>2, <2>7, BusyHasStalest
<1>3. ASSUME IInv, Ordered, IsFiniteSet(tracked), [LimiterNext]_limiterVars, NEW k \in Keys, Acquire(k)
      PROVE  /\ \A j \in tracked \ tracked' : LiveAt(bucket[j]) # {} =>
                   \A i \in (tracked' \ {k}) \ Emptied : LiveAt(bucket[i]) # {}
             /\ Cardinality(tracked') > Cardinality(tracked) /\ Cardinality(tracked') > MaxKeys =>
                   tracked = Emptied
  BY <1>1, <1>2, <1>3
<1>4. IInv /\ Ordered /\ FewTracked /\ [LimiterNext]_limiterVars =>
        [\A k \in Keys : Acquire(k) =>
          /\ \A j \in tracked \ tracked' : LiveAt(bucket[j]) # {} =>
               \A i \in (tracked' \ {k}) \ Emptied : LiveAt(bucket[i]) # {}
          /\ Cardinality(tracked') > Cardinality(tracked) /\ Cardinality(tracked') > MaxKeys =>
               tracked = Emptied]_limiterVars
  BY <1>3 DEF FewTracked
<1> QED BY <1>4, OrderHolds, TrackedFinite, InvariantHolds, PTL DEF LimiterSpec, EvictionFollowsTails

-----------------------------------------------------------------------------
(***************************************************************************)
(* The fatigue tracker.                                                    *)
(***************************************************************************)
(***************************************************************************)
(* The inductive invariant ties the moving average to the near-misses: it  *)
(* is zero without any and at most alpha after the first, so that it takes *)
(* a second one to pass the trigger.                                       *)
(***************************************************************************)
Campaign(e, n) ==
    /\ e.hardened => n = 2
    /\ n = 0 => e.ewma = 0
    /\ n = 1 => e.ewma <= Alpha

FatigueIInv == FatigueTypeOK /\ \A p \in SourcePairs : Campaign(entry[p], misses[p])

-----------------------------------------------------------------------------
(* Division rounds down.                                                   *)
LEMMA DivisionBound ==
    ASSUME NEW a \in Nat, NEW b \in Nat, NEW n \in Nat \ {0}, a <= b * n
    PROVE  a \div n \in 0..b
<1> DEFINE q == a \div n
<1>1. q \in Int /\ n * q <= a
  OBVIOUS
<1>2. q >= 0
  OBVIOUS
<1>3. q <= b
  <2> SUFFICES ASSUME q >= b + 1 PROVE FALSE
    BY <1>1
  <2>1. n * q >= n * (b + 1)
    BY <1>1
  <2> QED BY <1>1, <2>1
<1> QED BY <1>1, <1>2, <1>3

LEMMA ExactDivision ==
    ASSUME NEW b \in Nat, NEW n \in Nat \ {0}
    PROVE  (b * n) \div n = b
OBVIOUS

(* The average stays within its scale; a benign scan never raises it.      *)
LEMMA AverageBounds ==
    ASSUME NEW e \in Entries, NEW near \in BOOLEAN
    PROVE  /\ Averaged(e, near) \in 0..Scale
           /\ ~ near => Averaged(e, near) <= e.ewma
           /\ e.ewma = 0 => Averaged(e, near) <= Alpha
           /\ e.ewma = 0 /\ ~ near => Averaged(e, near) = 0
<1> USE FatigueAssumption
<1> DEFINE old == (Scale - Alpha) * e.ewma
<1>1. e.ewma \in 0..Scale /\ Scale - Alpha \in Nat /\ old \in Nat
  BY DEF Entries
<1>2. old <= (Scale - Alpha) * Scale /\ old <= e.ewma * Scale
  <2>1. (Scale - e.ewma) \in Nat /\ (Scale - Alpha) * (Scale - e.ewma) \in Nat
    BY <1>1
  <2>2. Alpha * e.ewma \in Nat
    BY <1>1
  <2> QED BY <1>1, <2>1, <2>2
<1>3. e.ewma = 0 => old = 0
  BY <1>1
<1> HIDE DEF old
<1>4. CASE near
  <2>1. Averaged(e, near) = (Alpha * Scale + old) \div Scale
    BY <1>4 DEF Averaged, old
  <2>2. Alpha * Scale + old \in Nat /\ Alpha * Scale + old <= Scale * Scale
    BY <1>1, <1>2
  <2>3. (Alpha * Scale + old) \div Scale \in 0..Scale
    BY <2>2, DivisionBound
  <2>4. ASSUME old = 0 PROVE (Alpha * Scale + old) \div Scale <= Alpha
    <3>1. Alpha * Scale + old = Alpha * Scale
      BY <2>4
    <3>2. (Alpha * Scale) \div Scale = Alpha
      BY ExactDivision
    <3> QED BY <3>1, <3>2
  <2> QED BY <1>3, <1>4, <2>1, <2>3, <2>4
<1>5. CASE ~ near
  <2>1. Averaged(e, near) = (0 + old) \div Scale
    BY <1>5 DEF Averaged, old
  <2>2. 0 + old = old
    BY <1>1
  <2>3. old \div Scale \in 0..e.ewma
    BY <1>1, <1>2, DivisionBound
  <2>4. Averaged(e, near) \in 0..e.ewma
    BY <2>1, <2>2, <2>3
  <2> QED BY <1>1, <2>4
<1> QED BY <1>4, <1>5

(* One observation keeps the type of the entry and the tie.                *)
LEMMA ObservedCampaign ==
    ASSUME NEW e \in Entries, NEW near \in BOOLEAN, NEW age \in 0..MaxDelay,
           NEW n \in 0..2, Campaign(e, n),
           NEW m, m = IF e.hardened /\ ~ Observed(e, near, age).hardened THEN 0
                      ELSE IF near /\ n < 2 THEN n + 1 ELSE n
    PROVE  Observed(e, near, age) \in Entries /\ m \in 0..2
           /\ Campaign(Observed(e, near, age), m)
<1> USE FatigueAssumption
<1> DEFINE c == Counted(e, near, age)
           r == Restored(c, near, age)
           o == Observed(e, near, age)
<1>1. /\ c \in Entries /\ c.hardened = e.hardened /\ c.ewma = Averaged(e, near)
  <2>1. Averaged(e, near) \in 0..Scale
    BY AverageBounds
  <2>2. age \in 0..MaxAge
    BY DEF MaxAge
  <2>3. c = [ewma |-> Averaged(e, near),
              last |-> IF near THEN age ELSE e.last,
              hardened |-> e.hardened,
              samples |-> IF e.samples < MinSamples THEN e.samples + 1 ELSE e.samples]
    BY DEF Counted
  <2>4. (IF near THEN age ELSE e.last) \in 0..MaxAge
    BY <2>2 DEF Entries
  <2>5. (IF e.samples < MinSamples THEN e.samples + 1 ELSE e.samples) \in 0..MinSamples
    BY DEF Entries
  <2>6. e.hardened \in BOOLEAN
    BY DEF Entries
  <2> QED BY <2>1, <2>3, <2>4, <2>5, <2>6 DEF Entries
<1> HIDE DEF c
<1>2. \/ r = c
      \/ /\ r = [FreshEntry EXCEPT !.last = c.last]
         /\ e.hardened /\ ~ near
  BY <1>1 DEF Restored
<1>3. r \in Entries
  <2>1. c.last \in 0..MaxAge
    BY <1>1 DEF Entries
  <2>2. FreshEntry \in Entries
    BY DEF FreshEntry, Entries, MaxAge
  <2>3. [FreshEntry EXCEPT !.last = c.last] \in Entries
    BY <2>1, <2>2 DEF Entries
  <2> QED BY <1>1, <1>2, <2>3
<1>4. o = Triggered(r)
  BY DEF Observed, c
<1> HIDE DEF r, o
<1>5. \/ o = r
      \/ o = [r EXCEPT !.hardened = TRUE] /\ ~ r.hardened /\ r.ewma > Trigger
  BY <1>4 DEF Triggered
<1>6. o \in Entries /\ o.ewma = r.ewma
  BY <1>3, <1>5 DEF Entries
<1>7. m = IF e.hardened /\ ~ o.hardened THEN 0
          ELSE IF near /\ n < 2 THEN n + 1 ELSE n
  BY DEF o
<1>8. m \in 0..2
  BY <1>7
<1>9. Campaign(o, m)
  <2>1. CASE e.hardened
    <3>1. n = 2
      BY <2>1 DEF Campaign
    <3>2. CASE r = c
      <4>1. o.hardened
        BY <1>1, <1>5, <2>1, <3>2 DEF Entries
      <4> QED BY <1>7, <3>1, <4>1 DEF Campaign
    <3>3. CASE r = [FreshEntry EXCEPT !.last = c.last]
      <4>1. r.ewma = 0 /\ ~ r.hardened
        BY <3>3 DEF FreshEntry
      <4>2. o = r
        BY <1>5, <4>1
      <4> QED BY <1>7, <2>1, <4>1, <4>2 DEF Campaign
    <3> QED BY <1>2, <3>2, <3>3
  <2>2. CASE ~ e.hardened
    <3>1. r = c /\ ~ r.hardened /\ r.ewma = Averaged(e, near)
      BY <1>1, <1>2, <2>2
    <3>2. m = IF near /\ n < 2 THEN n + 1 ELSE n
      BY <1>7, <2>2
    <3>3. m = 0 => r.ewma = 0
      BY <3>1, <3>2, AverageBounds DEF Campaign
    <3>4. m = 1 => r.ewma <= Alpha
      <4>1. ASSUME near, m = 1 PROVE r.ewma <= Alpha
        <5>1. n = 0
          BY <3>2, <4>1
        <5>2. e.ewma = 0
          BY <5>1 DEF Campaign
        <5> QED BY <3>1, <5>2, AverageBounds
      <4>2. CASE ~ near
        <5>1. m = n
          BY <3>2, <4>2
        <5>2. r.ewma <= e.ewma /\ r.ewma \in 0..Scale /\ e.ewma \in 0..Scale
          BY <3>1, <4>2, AverageBounds DEF Entries
        <5> QED BY <5>1, <5>2 DEF Campaign
      <4> QED BY <4>1, <4>2
    <3>5. o.hardened => m = 2
      <4> SUFFICES ASSUME o.hardened PROVE m = 2
        OBVIOUS
      <4>1. r.ewma > Trigger
        BY <1>5, <3>1
      <4>2. m # 0 /\ m # 1
        BY <1>3, <3>3, <3>4, <4>1 DEF Entries
      <4> QED BY <1>8, <4>2
    <3> QED BY <1>6, <3>3, <3>4, <3>5 DEF Campaign
  <2> QED BY <2>1, <2>2
<1> QED BY <1>6, <1>8, <1>9 DEF o

-----------------------------------------------------------------------------
LEMMA FatigueInitInvariant == FatigueInit => FatigueIInv
<1> SUFFICES ASSUME FatigueInit PROVE FatigueIInv
  OBVIOUS
<1> USE FatigueAssumption DEF FatigueInit, FreshEntry, NoScan
<1>1. FatigueTypeOK
  BY DEF FatigueTypeOK, Entries, Scans, MaxAge
<1>2. \A p \in SourcePairs : Campaign(entry[p], misses[p])
  BY DEF Campaign
<1> QED BY <1>1, <1>2 DEF FatigueIInv

(* A step of one scan that leaves the tracker alone.                       *)
LEMMA ScanOnly ==
    ASSUME FatigueIInv, NEW t \in Threads, NEW s \in Scans, scan' = [scan EXCEPT ![t] = s],
           UNCHANGED <<entry, quiet, misses>>
    PROVE  FatigueIInv'
BY DEF FatigueIInv, FatigueTypeOK, Campaign

LEMMA PlanStep ==
    ASSUME FatigueIInv, NEW t \in Threads, NEW p \in SourcePairs, Plan(t, p) PROVE FatigueIInv'
<1>1. EffectiveThreshold(entry[p]) \in -100..100
  BY FatigueAssumption DEF EffectiveThreshold
<1>2. [at |-> "planned", pair |-> p, threshold |-> EffectiveThreshold(entry[p])] \in Scans
  BY <1>1 DEF Scans
<1> QED BY <1>2, ScanOnly DEF Plan

LEMMA StampStep ==
    ASSUME FatigueIInv, NEW t \in Threads, NEW conf \in Confidences, Stamp(t, conf) PROVE FatigueIInv'
<1>1. scan[t] \in Scans /\ scan[t].at = "planned"
  BY DEF FatigueIInv, FatigueTypeOK, Stamp
<1>2. scan[t].pair \in SourcePairs /\ scan[t].threshold \in -100..100
  BY <1>1 DEF Scans
<1>3. [at |-> "stamped", pair |-> scan[t].pair, threshold |-> scan[t].threshold,
       conf |-> conf, age |-> 0] \in Scans
  BY <1>2, FatigueAssumption DEF Scans
<1> QED BY <1>3, ScanOnly DEF Stamp

LEMMA AbandonStep == ASSUME FatigueIInv, NEW t \in Threads, Abandon(t) PROVE FatigueIInv'
<1>1. NoScan \in Scans
  BY DEF NoScan, Scans
<1> QED BY <1>1, ScanOnly DEF Abandon

LEMMA ObserveStep == ASSUME FatigueIInv, NEW t \in Threads, Observe(t) PROVE FatigueIInv'
<1> DEFINE p == scan[t].pair
           near == IsNearMiss(scan[t].conf)
           age == scan[t].age
           after == Observed(entry[p], near, age)
<1>1. scan[t] \in Scans /\ scan[t].at = "stamped"
  BY DEF FatigueIInv, FatigueTypeOK, Observe
<1>2. p \in SourcePairs /\ age \in 0..MaxDelay /\ near \in BOOLEAN
  BY <1>1 DEF Scans, IsNearMiss
<1>3. /\ entry[p] \in Entries /\ misses[p] \in 0..2 /\ quiet[p] \in 0..MaxAge
      /\ Campaign(entry[p], misses[p])
  BY <1>2 DEF FatigueIInv, FatigueTypeOK
<1>4. /\ scan' = [scan EXCEPT ![t] = NoScan]
      /\ entry' = [entry EXCEPT ![p] = after]
      /\ quiet' = [quiet EXCEPT ![p] = IF near /\ age < @ THEN age ELSE @]
      /\ misses' = [misses EXCEPT ![p] = IF entry[p].hardened /\ ~ after.hardened THEN 0
                                         ELSE IF near /\ @ < 2 THEN @ + 1 ELSE @]
  BY Zenon DEF Observe
<1> HIDE DEF p, near, age
<1>5. /\ after \in Entries /\ misses'[p] \in 0..2 /\ Campaign(after, misses'[p])
  <2> DEFINE m == IF entry[p].hardened /\ ~ after.hardened THEN 0
                  ELSE IF near /\ misses[p] < 2 THEN misses[p] + 1 ELSE misses[p]
  <2>1. misses'[p] = m
    BY <1>2, <1>4 DEF FatigueIInv, FatigueTypeOK
  <2> QED BY <1>2, <1>3, <2>1, ObservedCampaign
<1> HIDE DEF after
<1>6. NoScan \in Scans
  BY DEF NoScan, Scans
<1>7. quiet'[p] \in 0..MaxAge
  <2>1. age \in 0..MaxAge
    BY <1>2, FatigueAssumption DEF MaxAge
  <2> QED BY <1>2, <1>3, <1>4, <2>1 DEF FatigueIInv, FatigueTypeOK
<1>8. FatigueTypeOK'
  BY <1>2, <1>4, <1>5, <1>6, <1>7 DEF FatigueIInv, FatigueTypeOK
<1>9. \A q \in SourcePairs : Campaign(entry'[q], misses'[q])
  <2> SUFFICES ASSUME NEW q \in SourcePairs PROVE Campaign(entry'[q], misses'[q])
    OBVIOUS
  <2>1. CASE q = p
    BY <1>2, <1>4, <1>5, <2>1 DEF FatigueIInv, FatigueTypeOK
  <2>2. CASE q # p
    BY <1>4, <2>2 DEF FatigueIInv, FatigueTypeOK
  <2> QED BY <2>1, <2>2
<1> QED BY <1>8, <1>9 DEF FatigueIInv, Campaign

LEMMA FatigueResetStep == ASSUME FatigueIInv, ResetAll PROVE FatigueIInv'
<1> USE FatigueAssumption
<1>1. FreshEntry \in Entries /\ Campaign(FreshEntry, 0) /\ MaxAge \in 0..MaxAge
  BY DEF FreshEntry, Entries, Campaign, MaxAge
<1>2. FatigueTypeOK'
  BY <1>1 DEF FatigueIInv, FatigueTypeOK, ResetAll
<1>3. \A p \in SourcePairs : Campaign(entry'[p], misses'[p])
  BY <1>1 DEF ResetAll
<1> QED BY <1>2, <1>3 DEF FatigueIInv, Campaign

LEMMA FatigueTickStep == ASSUME FatigueIInv, ClockTick PROVE FatigueIInv'
<1> USE FatigueAssumption
<1>1. \A age \in 0..MaxAge : Older(age) \in 0..MaxAge
  BY DEF Older, MaxAge
<1>2. ASSUME NEW p \in SourcePairs
      PROVE  /\ entry'[p] \in Entries /\ entry'[p].ewma = entry[p].ewma
             /\ entry'[p].hardened = entry[p].hardened
  <2>1. entry'[p] = [entry[p] EXCEPT !.last = Older(entry[p].last)]
    BY DEF ClockTick
  <2> QED BY <1>1, <2>1 DEF FatigueIInv, FatigueTypeOK, Entries
<1>3. ASSUME NEW t \in Threads PROVE scan'[t] \in Scans
  <2>1. scan[t] \in Scans
    BY DEF FatigueIInv, FatigueTypeOK
  <2>2. CASE scan[t].at = "stamped"
    <3>1. scan'[t] = [scan[t] EXCEPT !.age = scan[t].age + 1] /\ scan[t].age < MaxDelay
      BY <2>2 DEF ClockTick
    <3> QED BY <2>1, <2>2, <3>1 DEF Scans
  <2>3. CASE scan[t].at # "stamped"
    BY <2>1, <2>3 DEF ClockTick
  <2> QED BY <2>2, <2>3
<1>4. FatigueTypeOK'
  BY <1>1, <1>2, <1>3 DEF FatigueIInv, FatigueTypeOK, ClockTick
<1>5. \A p \in SourcePairs : Campaign(entry'[p], misses'[p])
  BY <1>2 DEF FatigueIInv, ClockTick, Campaign
<1> QED BY <1>4, <1>5 DEF FatigueIInv, Campaign

LEMMA FatigueNextInvariant == FatigueIInv /\ [FatigueNext]_fatigueVars => FatigueIInv'
<1> SUFFICES ASSUME FatigueIInv, [FatigueNext]_fatigueVars PROVE FatigueIInv'
  OBVIOUS
<1>1. ASSUME NEW t \in Threads, NEW p \in SourcePairs, Plan(t, p) PROVE FatigueIInv'
  BY <1>1, PlanStep
<1>2. ASSUME NEW t \in Threads, NEW conf \in Confidences, Stamp(t, conf) PROVE FatigueIInv'
  BY <1>2, StampStep
<1>3. ASSUME NEW t \in Threads, Abandon(t) \/ Observe(t) PROVE FatigueIInv'
  BY <1>3, AbandonStep, ObserveStep
<1>4. CASE ResetAll \/ ClockTick
  BY <1>4, FatigueResetStep, FatigueTickStep
<1>5. CASE UNCHANGED fatigueVars
  BY <1>5 DEF fatigueVars, FatigueIInv, FatigueTypeOK, Campaign
<1> QED BY <1>1, <1>2, <1>3, <1>4, <1>5 DEF FatigueNext

(* The inductive invariant holds in every reachable state.                 *)
THEOREM FatigueInvariantHolds == FatigueSpec => []FatigueIInv
<1> QED BY FatigueInitInvariant, FatigueNextInvariant, PTL DEF FatigueSpec

(* The state of the tracker (tracker.py, observe) stays well typed, the    *)
(* moving average within its scale, however many scans are in flight.      *)
THEOREM FatigueTypeCorrect == FatigueSpec => []FatigueTypeOK
<1>1. FatigueIInv => FatigueTypeOK
  BY DEF FatigueIInv
<1> QED BY <1>1, FatigueInvariantHolds, PTL

(* One near-miss never lowers the threshold of a pair (tracker.py,         *)
(* observe), however many scans are in flight and whatever the cooldown.   *)
THEOREM HardeningTakesCampaign == FatigueSpec => []CampaignNeeded
<1>1. FatigueIInv => CampaignNeeded
  BY DEF FatigueIInv, Campaign, CampaignNeeded
<1> QED BY <1>1, FatigueInvariantHolds, PTL
-----------------------------------------------------------------------------
(***************************************************************************)
(* last_near_miss_ts may go back when stamps are applied out of order, but *)
(* never by more than one wait for the lock: that is what bounds how early *)
(* a pair is restored.                                                     *)
(***************************************************************************)
Lag == \A p \in SourcePairs : entry[p].last - quiet[p] <= MaxDelay

LEMMA ObservedLast ==
    ASSUME NEW e \in Entries, NEW near \in BOOLEAN, NEW age \in 0..MaxDelay
    PROVE  /\ Observed(e, near, age).last = IF near THEN age ELSE e.last
           /\ e.hardened /\ ~ Observed(e, near, age).hardened
                 => ~ near /\ e.last - age >= Cooldown
<1> DEFINE c == Counted(e, near, age)
           r == Restored(c, near, age)
<1>1. c.last = (IF near THEN age ELSE e.last) /\ c.hardened = e.hardened
  BY DEF Counted
<1>2. c = [ewma |-> c.ewma, last |-> c.last, hardened |-> c.hardened, samples |-> c.samples]
  BY DEF Counted
<1> HIDE DEF c
<1>3. /\ r.last = c.last
      /\ c.hardened /\ ~ r.hardened => ~ near /\ c.last - age >= Cooldown
      /\ r = [ewma |-> r.ewma, last |-> r.last, hardened |-> r.hardened, samples |-> r.samples]
  <2>1. CASE c.hardened /\ ~ near /\ c.last - age >= Cooldown
    <3>1. r = [FreshEntry EXCEPT !.last = c.last]
      BY <2>1 DEF Restored
    <3> QED BY <2>1, <3>1 DEF FreshEntry
  <2>2. CASE ~ (c.hardened /\ ~ near /\ c.last - age >= Cooldown)
    <3>1. r = c
      BY <2>2 DEF Restored
    <3> QED BY <1>2, <3>1
  <2> QED BY <2>1, <2>2
<1> HIDE DEF r
<1>4. Observed(e, near, age) = Triggered(r)
  BY DEF Observed, r, c
<1>5. Triggered(r).last = r.last /\ (r.hardened => Triggered(r).hardened)
  <2>1. CASE Triggered(r) = r
    BY <2>1
  <2>2. CASE Triggered(r) = [r EXCEPT !.hardened = TRUE]
    BY <1>3, <2>2
  <2> QED BY <2>1, <2>2 DEF Triggered
<1> QED BY <1>1, <1>3, <1>4, <1>5

(* One observation, on the pair it is about.                               *)
LEMMA ObserveFacts ==
    ASSUME FatigueIInv, NEW t \in Threads, Observe(t)
    PROVE  \E p \in SourcePairs, near \in BOOLEAN, age \in 0..MaxDelay :
              /\ p = scan[t].pair
              /\ entry' = [entry EXCEPT ![p] = Observed(entry[p], near, age)]
              /\ quiet' = [quiet EXCEPT ![p] = IF near /\ age < quiet[p] THEN age ELSE quiet[p]]
<1>1. scan[t] \in Scans /\ scan[t].at = "stamped"
  BY DEF FatigueIInv, FatigueTypeOK, Observe
<1>2. /\ scan[t].pair \in SourcePairs /\ scan[t].age \in 0..MaxDelay
      /\ IsNearMiss(scan[t].conf) \in BOOLEAN
  BY <1>1 DEF Scans, IsNearMiss
<1>3. /\ entry' = [entry EXCEPT ![scan[t].pair] =
                     Observed(entry[scan[t].pair], IsNearMiss(scan[t].conf), scan[t].age)]
      /\ quiet' = [quiet EXCEPT ![scan[t].pair] =
                     IF IsNearMiss(scan[t].conf) /\ scan[t].age < quiet[scan[t].pair]
                     THEN scan[t].age ELSE quiet[scan[t].pair]]
  BY Zenon DEF Observe
<1> QED BY <1>2, <1>3

LEMMA LagStep ==
    ASSUME FatigueIInv, Lag, [FatigueNext]_fatigueVars
    PROVE  Lag'
<1> USE FatigueAssumption
<1>1. \A p \in SourcePairs : entry[p] \in Entries /\ entry[p].last \in 0..MaxAge /\ quiet[p] \in 0..MaxAge
  BY DEF FatigueIInv, FatigueTypeOK, Entries
<1>2. CASE UNCHANGED <<entry, quiet>>
  BY <1>2 DEF Lag
<1>3. ASSUME NEW t \in Threads, Observe(t) PROVE Lag'
  <2>1. PICK p \in SourcePairs, near \in BOOLEAN, age \in 0..MaxDelay :
              /\ p = scan[t].pair
              /\ entry' = [entry EXCEPT ![p] = Observed(entry[p], near, age)]
              /\ quiet' = [quiet EXCEPT ![p] = IF near /\ age < quiet[p] THEN age ELSE quiet[p]]
    BY <1>3, ObserveFacts
  <2>2. \A q \in SourcePairs \ {p} : entry'[q] = entry[q] /\ quiet'[q] = quiet[q]
    BY <2>1 DEF FatigueIInv, FatigueTypeOK
  <2>3. /\ entry'[p] = Observed(entry[p], near, age)
        /\ quiet'[p] = IF near /\ age < quiet[p] THEN age ELSE quiet[p]
    BY <2>1 DEF FatigueIInv, FatigueTypeOK
  <2>4. entry'[p].last = IF near THEN age ELSE entry[p].last
    BY <1>1, <2>3, ObservedLast
  <2>5. entry'[p].last - quiet'[p] <= MaxDelay
    <3>1. entry[p].last - quiet[p] <= MaxDelay
      BY DEF Lag
    <3>2. entry[p].last \in Nat /\ quiet[p] \in Nat /\ age \in 0..MaxDelay
      BY <1>1
    <3> QED BY <2>3, <2>4, <3>1, <3>2
  <2> QED BY <2>2, <2>5 DEF Lag
<1>4. CASE ResetAll
  <2>1. \A p \in SourcePairs : entry'[p].last = MaxAge /\ quiet'[p] = MaxAge
    BY <1>4 DEF ResetAll, FreshEntry
  <2> QED BY <2>1 DEF Lag, MaxAge
<1>5. CASE ClockTick
  <2> SUFFICES ASSUME NEW p \in SourcePairs PROVE entry'[p].last - quiet'[p] <= MaxDelay
    BY DEF Lag
  <2>1. entry'[p] = [entry[p] EXCEPT !.last = Older(entry[p].last)] /\ quiet'[p] = Older(quiet[p])
    BY <1>5 DEF ClockTick
  <2>2. entry'[p].last = Older(entry[p].last)
    BY <1>1, <2>1 DEF Entries
  <2>3. entry[p].last - quiet[p] <= MaxDelay
    BY DEF Lag
  <2>4. \A a, b \in 0..MaxAge : a - b <= MaxDelay => Older(a) - Older(b) <= MaxDelay
    BY DEF Older, MaxAge
  <2> QED BY <1>1, <2>1, <2>2, <2>3, <2>4
<1> QED BY <1>2, <1>3, <1>4, <1>5 DEF FatigueNext, fatigueVars, Plan, Stamp, Abandon

(* A restored pair has had no near-miss for the cooldown, less the time    *)
(* one scan waited for the lock: the clock is read before the lock is      *)
(* taken (tracker.py, observe).                                            *)
THEOREM RestoreComesLate == FatigueSpec => EarlyRestoreBounded
<1> USE FatigueAssumption
<1>1. FatigueInit => Lag
  <2> SUFFICES ASSUME FatigueInit PROVE Lag
    OBVIOUS
  <2>1. \A p \in SourcePairs : entry[p].last = MaxAge /\ quiet[p] = MaxAge
    BY DEF FatigueInit, FreshEntry
  <2> QED BY <2>1 DEF Lag, MaxAge
<1>2. FatigueSpec => []Lag
  <2>1. FatigueIInv /\ Lag /\ [FatigueNext]_fatigueVars => Lag'
    BY LagStep
  <2> QED BY <1>1, <2>1, FatigueInvariantHolds, PTL DEF FatigueSpec
<1>3. ASSUME FatigueIInv, Lag, NEW p \in SourcePairs, NEW t \in Threads, Observe(t),
             entry[p].hardened, ~ entry'[p].hardened
      PROVE  quiet[p] >= Cooldown - MaxDelay
  <2>1. PICK q \in SourcePairs, near \in BOOLEAN, age \in 0..MaxDelay :
           entry' = [entry EXCEPT ![q] = Observed(entry[q], near, age)]
    BY <1>3, ObserveFacts
  <2>2. q = p /\ entry'[p] = Observed(entry[p], near, age)
    BY <1>3, <2>1 DEF FatigueIInv, FatigueTypeOK
  <2>3. /\ entry[p] \in Entries /\ entry[p].last \in 0..MaxAge /\ quiet[p] \in 0..MaxAge
    BY <1>3 DEF FatigueIInv, FatigueTypeOK, Entries
  <2>4. entry[p].last - age >= Cooldown
    BY <1>3, <2>2, <2>3, ObservedLast
  <2>5. entry[p].last - quiet[p] <= MaxDelay
    BY <1>3 DEF Lag
  <2> QED BY <2>3, <2>4, <2>5
<1>4. FatigueIInv /\ Lag /\ [FatigueNext]_fatigueVars =>
        [\A p \in SourcePairs : \A t \in Threads :
          (Observe(t) /\ entry[p].hardened /\ ~ entry'[p].hardened)
              => quiet[p] >= Cooldown - MaxDelay]_fatigueVars
  BY <1>3
<1> QED BY <1>2, <1>4, FatigueInvariantHolds, PTL DEF FatigueSpec, EarlyRestoreBounded
=============================================================================
