----------------------------- MODULE ScanHistory -----------------------------
(***************************************************************************)
(* The audit trail: persistence/database.py as engine.py's _log_scan() and *)
(* feedback() use it, and feedback/feedback_store.py's record().           *)
(*                                                                         *)
(* All scans of an engine share one SQLite connection, and with it one     *)
(* open transaction.  connection() holds a lock around the INSERT and its  *)
(* commit; prune_scan_history() does not take it, so its DELETE and commit *)
(* fall between the statements of other threads.  A failed statement in    *)
(* connection() rolls the shared transaction back; a failed DELETE leaves  *)
(* it open, and SQLite's write lock taken.  Feedback is written through a  *)
(* connection of its own, which waits for that lock and then gives up.     *)
(*                                                                         *)
(* The calendar counts half-days.  A row holds the ISO form of its time,   *)
(* with a 'T', and the DELETE compares it, as text, with a cutoff that has *)
(* a blank there: no row of the cutoff's day is smaller, whatever its hour.*)
(***************************************************************************)
EXTENDS Integers

CONSTANTS
    Threads,      \* the threads that scan and give feedback
    MaxScans,     \* bound on the scans, which are numbered as they come
    None,         \* no thread
    Retention,    \* retention_days
    MaxTime       \* bound on the calendar, in half-days

ASSUME HistoryAssumption ==
    /\ MaxScans \in Nat
    /\ None \notin Threads
    /\ Retention \in Nat /\ MaxTime \in Nat

VARIABLES
    strict,     \* strict_mode, fixed when the engine is built
    enabled,    \* history.enabled, likewise
    listed,     \* history: scans of texts on the allowlist or the blocklist
    now,        \* the calendar
    taken,      \* the timestamp of each scan, -1 before it
    rows,       \* scan_history as committed: the scans that have a row
    added,      \* rows inserted by the shared transaction
    removed,    \* rows deleted by it
    writing,    \* whether it holds SQLite's write lock
    lock,       \* the holder of DatabaseManager._lock
    judged,     \* scans that have rows in the feedback table
    pc,         \* what each thread does next, and for which scan
    reported,   \* history: scans whose report was returned
    logged      \* history: scans whose INSERT and commit returned

vars == <<strict, enabled, listed, now, taken, rows, added, removed, writing, lock,
          judged, pc, reported, logged>>

setting == <<strict, enabled, listed>>
txn == <<rows, added, removed, writing>>

Scans == 1..MaxScans
NoScan == 0
Idle == [at |-> "idle", scan |-> NoScan]

Init ==
    /\ strict \in BOOLEAN /\ enabled \in BOOLEAN /\ listed = {}
    /\ now = 0
    /\ taken = [s \in Scans |-> -1]
    /\ rows = {} /\ added = {} /\ removed = {} /\ writing = FALSE
    /\ lock = None
    /\ judged = {}
    /\ pc = [t \in Threads |-> Idle]
    /\ reported = {} /\ logged = {}

-----------------------------------------------------------------------------
(* The shared connection.                                                  *)
Visible == (rows \cup added) \ removed

Committed ==
    /\ rows' = Visible
    /\ added' = {} /\ removed' = {} /\ writing' = FALSE

RolledBack ==
    /\ added' = {} /\ removed' = {} /\ writing' = FALSE
    /\ UNCHANGED rows

Day(time) == time \div 2

\* A mutant: the cutoff is one day late.
OutdatedEarly(s) == Day(taken[s]) <= Day(now) - Retention

(* timestamp < datetime('now', '-N days'), as text.                        *)
Outdated(s) == Day(taken[s]) < Day(now) - Retention

\* A mutant: without PRAGMA foreign_keys nothing refuses the DELETE.
Unreferenced(doomed) == TRUE

(* feedback.scan_id REFERENCES scan_history(id).                           *)
Deletable(doomed) == doomed \cap judged = {}

-----------------------------------------------------------------------------
(* scan() up to the report, whose timestamp is the row's.                  *)
Take(t, s) ==
    /\ pc[t] = Idle
    /\ taken[s] = -1 /\ \A x \in 1..(s - 1) : taken[x] # -1
    /\ taken' = [taken EXCEPT ![s] = now]
    /\ UNCHANGED <<strict, enabled, now, txn, lock, judged, logged>>

(* The detectors have run, and _log_scan has work to do.                   *)
Report(t, s) ==
    /\ Take(t, s) /\ enabled
    /\ pc' = [pc EXCEPT ![t] = [at |-> "insert", scan |-> s]]
    /\ UNCHANGED <<listed, reported>>

(* The report of a text on the allowlist or the blocklist is returned at   *)
(* once; where history is disabled so is any other, for all _log_scan does *)
(* about it.                                                               *)
ReportUnlogged(t, s) ==
    /\ Take(t, s)
    /\ listed' = listed \cup {s} \/ (~ enabled /\ listed' = listed)
    /\ reported' = reported \cup {s}
    /\ UNCHANGED pc

(* _log_scan under the lock: INSERT, then commit.                          *)
Insert(t) ==
    /\ pc[t].at = "insert" /\ lock = None
    /\ lock' = t
    /\ added' = added \cup {pc[t].scan} /\ writing' = TRUE
    /\ pc' = [pc EXCEPT ![t].at = "commit"]
    /\ UNCHANGED <<setting, now, taken, rows, removed, judged, reported, logged>>

Commit(t) ==
    /\ pc[t].at = "commit"
    /\ Committed
    /\ lock' = None
    /\ logged' = logged \cup {pc[t].scan}
    /\ pc' = [pc EXCEPT ![t].at = "prune"]
    /\ UNCHANGED <<setting, now, taken, judged, reported>>

\* A mutant: a strict scan raises with the lock held.
KeepsLock == IF strict THEN lock ELSE None

FreesLock == None

(* The INSERT or its commit fails: roll back, then raise if strict.        *)
LogFail(t) ==
    /\ (pc[t].at = "insert" /\ lock = None) \/ pc[t].at = "commit"
    /\ RolledBack
    /\ lock' = FreesLock
    /\ pc' = [pc EXCEPT ![t] = IF strict THEN Idle ELSE [@ EXCEPT !.at = "prune"]]
    /\ UNCHANGED <<setting, now, taken, judged, reported, logged>>

Return(t) ==
    /\ pc' = [pc EXCEPT ![t] = Idle]
    /\ reported' = reported \cup {pc[t].scan}

\* A mutant: the refused DELETE rolls back, without the lock.
RefusedRollsBack == RolledBack

(* A refused DELETE leaves the transaction it began open.                  *)
Refused == writing' = TRUE /\ UNCHANGED <<rows, added, removed>>

(* prune_scan_history, without the lock; the engine suppresses its errors. *)
Prune(t) ==
    LET doomed == {s \in Visible : Outdated(s)}
    IN  /\ pc[t].at = "prune"
        /\ \/ /\ Deletable(doomed)
              /\ removed' = removed \cup doomed /\ writing' = TRUE
              /\ pc' = [pc EXCEPT ![t].at = "pruned"]
              /\ UNCHANGED <<rows, added, reported>>
           \/ /\ ~ Deletable(doomed)
              /\ Refused
              /\ Return(t)
           \/ /\ Return(t)       \* the statement fails before it begins
              /\ UNCHANGED txn
        /\ UNCHANGED <<setting, now, taken, lock, judged, logged>>

PruneCommit(t) ==
    /\ pc[t].at = "pruned"
    /\ Committed
    /\ Return(t)
    /\ UNCHANGED <<setting, now, taken, lock, judged, logged>>

-----------------------------------------------------------------------------
(* feedback(scan_id) looks the scan up under the lock; found or not, it    *)
(* records the verdict (for the detectors that fired, or "unknown").       *)
LookUp(t, s) ==
    /\ pc[t] = Idle /\ s \in reported /\ lock = None
    /\ pc' = [pc EXCEPT ![t] = [at |-> "record", scan |-> s]]
    /\ UNCHANGED <<setting, now, taken, txn, lock, judged, reported, logged>>

(* FeedbackStore.record, on a connection of its own without foreign keys.  *)
Record(t) ==
    /\ pc[t].at = "record" /\ ~ writing
    /\ judged' = judged \cup {pc[t].scan}
    /\ pc' = [pc EXCEPT ![t] = Idle]
    /\ UNCHANGED <<setting, now, taken, txn, lock, reported, logged>>

(* "database is locked": FeedbackError.                                    *)
RecordFail(t) ==
    /\ pc[t].at = "record" /\ writing
    /\ pc' = [pc EXCEPT ![t] = Idle]
    /\ UNCHANGED <<setting, now, taken, txn, lock, judged, reported, logged>>

(* The process dies; the next one opens the same file.                     *)
Crash ==
    /\ RolledBack
    /\ lock' = None
    /\ pc' = [t \in Threads |-> Idle]
    /\ UNCHANGED <<setting, now, taken, judged, reported, logged>>

Tick ==
    /\ now < MaxTime
    /\ now' = now + 1
    /\ UNCHANGED <<setting, taken, txn, lock, judged, pc, reported, logged>>

Work(t) ==
    \/ Insert(t) \/ Commit(t) \/ LogFail(t) \/ Prune(t) \/ PruneCommit(t)
    \/ Record(t) \/ RecordFail(t)

Next ==
    \/ \E t \in Threads : Work(t) \/ \E s \in Scans : Report(t, s) \/ ReportUnlogged(t, s)
                                                   \/ LookUp(t, s)
    \/ Crash
    \/ Tick

Spec == Init /\ [][Next]_vars

(* A thread that has work goes on with it.                                 *)
FairSpec == Spec /\ \A t \in Threads : WF_vars(Work(t))

-----------------------------------------------------------------------------
PCs == [at : {"idle", "insert", "commit", "prune", "pruned", "record"},
        scan : Scans \cup {NoScan}]

(* The variables have their types; the lock is held from an INSERT to its  *)
(* end, and pending changes come with SQLite's write lock.                 *)
TypeOK ==
    /\ strict \in BOOLEAN /\ enabled \in BOOLEAN /\ listed \subseteq Scans
    /\ now \in 0..MaxTime
    /\ taken \in [Scans -> -1..MaxTime]
    /\ rows \subseteq Scans /\ added \subseteq Scans /\ removed \subseteq Scans
    /\ writing \in BOOLEAN
    /\ lock \in Threads \cup {None}
    /\ judged \subseteq Scans
    /\ pc \in [Threads -> PCs]
    /\ reported \subseteq Scans /\ logged \subseteq Scans
    /\ \A t \in Threads : lock = t <=> pc[t].at = "commit"
    /\ added \cup removed # {} => writing

(***************************************************************************)
(* No hole in the audit trail: a scan whose row was committed keeps it for *)
(* the retention period, whatever other threads roll back, prune or commit *)
(* on the same connection, and through a crash.  In strict mode, and with  *)
(* the history enabled, that is every scan that returned a report but for  *)
(* those of listed texts: what the blocklist blocks, or the allowlist lets *)
(* pass, is in nobody's trail.  That a report has no row means no more.    *)
(***************************************************************************)
Audited(s) == strict /\ enabled /\ s \in reported \ listed

AuditComplete ==
    \A s \in Scans : (s \in logged \/ Audited(s)) =>
        s \in rows \/ now - taken[s] > 2 * Retention

(***************************************************************************)
(* Feedback pins its evidence: once a scan with a row has been judged, no  *)
(* interleaving of a prune with the record() removes the row.              *)
(***************************************************************************)
JudgedRowsStay == [][ judged \cap rows \subseteq rows' ]_vars

(***************************************************************************)
(* Every call returns: neither the lock nor the shared transaction is ever *)
(* waited for in vain, also after errors and in strict mode.               *)
(***************************************************************************)
CallsReturn == \A t \in Threads : pc[t] # Idle ~> pc[t] = Idle
=============================================================================
