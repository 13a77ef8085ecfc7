------------------------ MODULE SlidingWindowLimiter ------------------------
(***************************************************************************)
(* The per-key sliding-window rate limiter of ratelimit/limiter.py.        *)
(*                                                                         *)
(* Every public method runs under the one lock of the limiter and reads    *)
(* the clock inside it, so each method is one action; callers on any       *)
(* number of threads are the interleaving of these actions.  The clock is  *)
(* time.monotonic: it never goes back and may advance between any two      *)
(* calls.  Time is counted in ticks and stops at MaxTime (a model bound).  *)
(* enforce() is acquire() followed by a raise that changes nothing.        *)
(***************************************************************************)
EXTENDS Integers, Sequences, FiniteSets

CONSTANTS
    Keys,          \* the callers' keys (users, sessions, tenants)
    MaxRequests,   \* max_requests
    Window,        \* window_seconds, in ticks
    MaxKeys,       \* max_tracked_keys
    MaxTime,       \* bound on the clock
    NoKey          \* the key of the decision before any call

ASSUME LimiterAssumption ==
    /\ MaxRequests \in Nat \ {0}   \* the constructor raises otherwise
    /\ Window \in Nat \ {0}        \* likewise
    /\ MaxKeys \in Nat
    /\ MaxTime \in Nat
    /\ NoKey \notin Keys

VARIABLES
    now,        \* the monotonic clock
    tracked,    \* the keys of the dict _buckets
    bucket,     \* the deque of each key, <<>> for an untracked one
    decision,   \* the last call, and whether its RateLimitDecision allowed it
    grants,     \* history: when each key was granted, since it was last forgotten
    promise     \* history: when a denied caller of the key was told to come
                \* back, 0 once that is moot

limiterVars == <<now, tracked, bucket, decision, grants, promise>>

Decisions == [op : {"none", "check", "acquire"}, key : Keys \cup {NoKey},
              allowed : BOOLEAN]

LimiterInit ==
    /\ now = 0
    /\ tracked = {}
    /\ bucket = [k \in Keys |-> <<>>]
    /\ decision = [op |-> "none", key |-> NoKey, allowed |-> FALSE]
    /\ grants = [k \in Keys |-> <<>>]
    /\ promise = [k \in Keys |-> 0]

-----------------------------------------------------------------------------
(* _prune_locked: timestamps leave from the left until one is live.        *)

\* A mutant: a request exactly one window old still counts (an off-by-one).
ExpiredStrictly(ts) == ts < now - Window

\* A mutant: a request expires one tick early.
ExpiredEarly(ts) == ts <= now - Window + 1

Expired(ts) == ts <= now - Window

LiveAt(b) == {i \in 1..Len(b) : ~ Expired(b[i])}

Pruned(b) ==
    IF LiveAt(b) = {} THEN <<>>
    ELSE LET first == CHOOSE i \in LiveAt(b) : \A j \in LiveAt(b) : i <= j
         IN  SubSeq(b, first, Len(b))

Newest(b) == b[Len(b)]

\* A mutant: the eviction compares the oldest request of each key, dq[0].
StalestByFirst ==
    LET busy == {j \in tracked : bucket[j] # <<>>}
    IN  {j \in busy : \A i \in busy : bucket[j][1] <= bucket[i][1]}

(***************************************************************************)
(* _evict_oldest_locked: its candidates are the tracked keys whose newest  *)
(* request is oldest; a key with an empty deque is passed over.  Among     *)
(* equals the code takes the first in dict order, the model any.           *)
(***************************************************************************)
Stalest ==
    LET busy == {j \in tracked : bucket[j] # <<>>}
    IN  {j \in busy : \A i \in busy : Newest(bucket[j]) <= Newest(bucket[i])}

(* The sets of keys that acquire(k) may evict: at most one key, and only   *)
(* when k is new and makes one key too many.                               *)
Evictions(k) ==
    IF k \notin tracked /\ Cardinality(tracked) + 1 > MaxKeys /\ Stalest # {}
    THEN {{j} : j \in Stalest}
    ELSE {{}}

Without(gone, f, value) == [j \in Keys |-> IF j \in gone THEN value ELSE f[j]]

-----------------------------------------------------------------------------
Tick ==
    /\ now < MaxTime
    /\ now' = now + 1
    /\ UNCHANGED <<tracked, bucket, decision, grants, promise>>

\* A mutant: check() compares with <=.
HasRoomForOneMore(left) == Len(left) <= MaxRequests

HasRoom(left) == Len(left) < MaxRequests

\* A mutant: retry_after has its sign the wrong way round.
RetryAfterBackwards(left) == left[1] - Window - now

RetryAfter(left) == left[1] + Window - now   \* of a full deque

(***************************************************************************)
(* check(key): an unknown key is allowed and stays unknown; a known one    *)
(* has its deque pruned, and the deque stays in the dict even when empty.  *)
(***************************************************************************)
Check(k) ==
    LET left == Pruned(bucket[k])
    IN  /\ bucket' = [bucket EXCEPT ![k] = left]
        /\ decision' = [op |-> "check", key |-> k, allowed |-> HasRoom(left)]
        /\ UNCHANGED <<now, tracked, grants, promise>>

(* acquire() once the key is tracked and its deque pruned to `left`.       *)
Grant(k, left, gone) ==
    /\ Len(left) < MaxRequests
    /\ bucket' = [Without(gone, bucket, <<>>) EXCEPT ![k] = Append(left, now)]
    /\ grants' = [Without(gone, grants, <<>>) EXCEPT ![k] = Append(@, now)]
    /\ promise' = [Without(gone, promise, 0) EXCEPT ![k] = 0]
    /\ decision' = [op |-> "acquire", key |-> k, allowed |-> TRUE]

Deny(k, left, gone) ==
    /\ Len(left) >= MaxRequests
    /\ bucket' = [Without(gone, bucket, <<>>) EXCEPT ![k] = left]
    /\ grants' = Without(gone, grants, <<>>)
    /\ promise' = [Without(gone, promise, 0) EXCEPT ![k] = now + RetryAfter(left)]
    /\ decision' = [op |-> "acquire", key |-> k, allowed |-> FALSE]

(***************************************************************************)
(* acquire(key): track an unknown key, evicting one when over capacity;    *)
(* prune; then record the request or refuse it.                            *)
(***************************************************************************)
Acquire(k) ==
    \E gone \in Evictions(k) :
        /\ tracked' = (tracked \cup {k}) \ gone
        /\ \/ Grant(k, Pruned(bucket[k]), gone)
           \/ Deny(k, Pruned(bucket[k]), gone)
        /\ UNCHANGED now

(* reset(key) and, with every key, reset().                                *)
Reset(gone) ==
    /\ tracked' = tracked \ gone
    /\ bucket' = Without(gone, bucket, <<>>)
    /\ grants' = Without(gone, grants, <<>>)
    /\ promise' = Without(gone, promise, 0)
    /\ UNCHANGED <<now, decision>>

LimiterNext ==
    \/ Tick
    \/ \E k \in Keys : Check(k) \/ Acquire(k) \/ Reset({k})
    \/ Reset(Keys)

LimiterSpec == LimiterInit /\ [][LimiterNext]_limiterVars

-----------------------------------------------------------------------------
(* The variables have their types.                                         *)
LimiterTypeOK ==
    /\ now \in 0..MaxTime
    /\ tracked \in SUBSET Keys
    /\ bucket \in [Keys -> Seq(0..MaxTime)]
    /\ decision \in Decisions
    /\ grants \in [Keys -> Seq(0..MaxTime)]
    /\ promise \in [Keys -> Nat]

(***************************************************************************)
(* The promise of the sliding window: whatever was pruned, checked or      *)
(* denied in between, a key granted MaxRequests requests gets the next one *)
(* no sooner than one window after the first of them.                      *)
(***************************************************************************)
WindowRate ==
    \A k \in Keys : \A i \in 1..Len(grants[k]) :
        i + MaxRequests <= Len(grants[k])
            => grants[k][i + MaxRequests] - grants[k][i] >= Window

(***************************************************************************)
(* retry_after_seconds is exact: a denied caller that comes back when it   *)
(* was told finds room, and one that comes back earlier does not, as long  *)
(* as nobody else was granted the key or made the limiter forget it.       *)
(***************************************************************************)
RetryAfterExact ==
    \A k \in Keys :
        promise[k] > 0 => (now >= promise[k] <=> Len(Pruned(bucket[k])) < MaxRequests)

(***************************************************************************)
(* A check() that says yes can be relied on: the next acquire() of the     *)
(* key, however late, is granted if no other request came in between.      *)
(***************************************************************************)
CheckThenAcquire ==
    [][ (/\ decision.op = "check" /\ decision.allowed
         /\ decision'.op = "acquire" /\ decision'.key = decision.key)
            => decision'.allowed ]_limiterVars

(***************************************************************************)
(* Eviction resets the limit of its victim.  The code drops "the one with  *)
(* the oldest tail" (limiter.py:93), which is not the one idle longest: an *)
(* idle key that check() has emptied has no tail, stays, and a caller with *)
(* requests in the window may go in its place.  What a host can rely on is *)
(* this.  A caller loses a live request to another's acquire() only when   *)
(* all the others kept have live requests too, or were looked at by        *)
(* check() when they had none left.  And the limiter outgrows              *)
(* max_tracked_keys only when check() has emptied every key in it, so that *)
(* no limit in force depends on the excess.                                *)
(***************************************************************************)
Emptied == {k \in tracked : bucket[k] = <<>>}

EvictionFollowsTails ==
    [][ \A k \in Keys : Acquire(k) =>
          /\ \A j \in tracked \ tracked' : LiveAt(bucket[j]) # {} =>
               \A i \in (tracked' \ {k}) \ Emptied : LiveAt(bucket[i]) # {}
          /\ Cardinality(tracked') > Cardinality(tracked) /\ Cardinality(tracked') > MaxKeys =>
               tracked = Emptied ]_limiterVars

(* tests/ratelimit/test_limiter.py:119, "We should never exceed 3 tracked  *)
(* keys after eviction", where max_tracked_keys is 3.                      *)
TrackedBounded == Cardinality(tracked) <= MaxKeys
=============================================================================
