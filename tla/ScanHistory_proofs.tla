-------------------------- MODULE ScanHistory_proofs --------------------------
(***************************************************************************)
(* The audit trail has no holes, and feedback pins its row, for every      *)
(* number of threads and scans and every retention period.                 *)
(***************************************************************************)
EXTENDS ScanHistory, TLAPS

Old(s) == now - taken[s] > 2 * Retention

(* What is recorded anywhere was taken at some time before.                *)
RecordsAreTaken ==
    /\ \A s \in rows \cup added \cup removed \cup logged \cup reported : taken[s] \in 0..now
    /\ \A t \in Threads :
          pc[t].at # "idle" => pc[t].scan \in Scans /\ taken[pc[t].scan] \in 0..now

(* What the shared transaction deletes is outdated and not judged.         *)
RemovedAreOld == \A s \in removed : Old(s)
RemovedAreNotJudged == removed \cap judged = {}

(* A thread about to commit has its row in the transaction, unless the     *)
(* commit of a prune, in between, wrote it already.                        *)
CommitHasRow ==
    \A t \in Threads : pc[t].at = "commit" =>
        pc[t].scan \in rows \cup added \/ Old(pc[t].scan)

LoggedAreKept == \A s \in logged : s \in rows \/ Old(s)

StrictReportsAreLogged ==
    strict => /\ enabled => reported \ listed \subseteq logged
              /\ \A t \in Threads : pc[t].at \in {"prune", "pruned"} => pc[t].scan \in logged

(***************************************************************************)
(* The inductive invariant.  AuditComplete says nothing of a commit that   *)
(* is on its way: what makes it good is that the transaction holds the row *)
(* of the thread that holds the lock, that nobody else can roll it back    *)
(* before (which takes the lock), and that what it deletes is old.         *)
(***************************************************************************)
IInv ==
    /\ TypeOK
    /\ RecordsAreTaken
    /\ RemovedAreOld
    /\ RemovedAreNotJudged
    /\ CommitHasRow
    /\ LoggedAreKept
    /\ StrictReportsAreLogged

-----------------------------------------------------------------------------
(* The day of the cutoff is kept whole: what is outdated is older than the *)
(* retention period.                                                       *)
LEMMA OutdatedIsOld ==
    ASSUME NEW s, now \in Nat, taken[s] \in 0..now, Outdated(s)
    PROVE  Old(s)
BY HistoryAssumption DEF Outdated, Day, Old

LEMMA Types ==
    ASSUME TypeOK
    PROVE  /\ pc \in [Threads -> PCs]
           /\ \A t \in Threads : lock = t <=> pc[t].at = "commit"
           /\ now \in Nat /\ strict \in BOOLEAN
BY HistoryAssumption DEF TypeOK

LEMMA InitInvariant == Init => IInv
<1> SUFFICES ASSUME Init PROVE IInv
  OBVIOUS
<1>1. \A t \in Threads : pc[t].at = "idle" /\ pc[t].scan = NoScan
  BY DEF Init, Idle
<1>2. pc \in [Threads -> PCs]
  BY DEF Init, PCs, Idle, NoScan
<1>3. TypeOK
  <2>1. strict \in BOOLEAN /\ now \in 0..MaxTime /\ taken \in [Scans -> -1..MaxTime]
    BY HistoryAssumption DEF Init
  <2>2. \A t \in Threads : lock = t <=> pc[t].at = "commit"
    BY <1>1, HistoryAssumption DEF Init
  <2> QED BY <1>2, <2>1, <2>2 DEF Init, TypeOK
<1>4. /\ RecordsAreTaken /\ RemovedAreOld /\ RemovedAreNotJudged
      /\ CommitHasRow /\ LoggedAreKept /\ StrictReportsAreLogged
  BY <1>1 DEF Init, RecordsAreTaken, RemovedAreOld, RemovedAreNotJudged,
     CommitHasRow,
     LoggedAreKept, StrictReportsAreLogged
<1> QED BY <1>3, <1>4 DEF IInv

(* A new report changes no scan that is recorded anywhere.                 *)
LEMMA ReportStep ==
    ASSUME IInv, NEW t \in Threads, NEW s \in Scans, Report(t, s)
    PROVE  IInv'
<1> USE HistoryAssumption, Types DEF IInv, txn, setting
<1>1. /\ pc' \in [Threads -> PCs] /\ \A u \in Threads \ {t} : pc'[u] = pc[u]
      /\ pc'[t].at = "insert" /\ pc'[t].scan = s
  BY DEF PCs, Report, Idle, NoScan
<1>2. TypeOK'
  <2>1. taken' \in [Scans -> -1..MaxTime] /\ UNCHANGED <<setting, now, txn, lock, judged>>
    BY DEF TypeOK, Report, Take
  <2>2. \A u \in Threads : lock = u <=> pc'[u].at = "commit"
    BY <1>1 DEF TypeOK, Report, Take, Idle
  <2> QED BY <1>1, <2>1, <2>2 DEF TypeOK, Report, Take
<1>3. RecordsAreTaken'
  BY <1>1 DEF RecordsAreTaken, Report, Take, TypeOK
<1>4. RemovedAreOld'
  BY <1>1 DEF RemovedAreOld, Report, Take, TypeOK, RecordsAreTaken, Old
<1>5. RemovedAreNotJudged'
  BY <1>1 DEF RemovedAreNotJudged, Report, Take, TypeOK, RecordsAreTaken
<1>6. CommitHasRow'
  BY <1>1 DEF CommitHasRow, Report, Take, TypeOK, RecordsAreTaken, Old
<1>7. LoggedAreKept'
  BY <1>1 DEF LoggedAreKept, Report, Take, TypeOK, RecordsAreTaken, Old
<1>8. StrictReportsAreLogged'
  BY <1>1 DEF StrictReportsAreLogged, Report, Take, TypeOK, RecordsAreTaken
<1> QED BY <1>2, <1>3, <1>4, <1>5, <1>6, <1>7, <1>8

(* One that is not logged is reported, and listed if it must be.           *)
LEMMA ReportUnloggedStep ==
    ASSUME IInv, NEW t \in Threads, NEW s \in Scans, ReportUnlogged(t, s)
    PROVE  IInv'
<1> USE HistoryAssumption, Types DEF IInv, txn
<1>1. /\ UNCHANGED <<pc, strict, enabled, now, rows, added, removed, writing, lock, judged, logged>>
      /\ taken[s] = -1 /\ taken' = [taken EXCEPT ![s] = now] /\ reported' = reported \cup {s}
      /\ listed' = listed \cup {s} \/ (~ enabled /\ listed' = listed)
  BY DEF ReportUnlogged, Take
<1>2. TypeOK'
  BY <1>1 DEF TypeOK
<1>3. RecordsAreTaken'
  BY <1>1 DEF RecordsAreTaken, TypeOK
<1>4. RemovedAreOld'
  BY <1>1 DEF RemovedAreOld, TypeOK, RecordsAreTaken, Old
<1>5. RemovedAreNotJudged'
  BY <1>1 DEF RemovedAreNotJudged, TypeOK, RecordsAreTaken
<1>6. CommitHasRow'
  BY <1>1 DEF CommitHasRow, TypeOK, RecordsAreTaken, Old
<1>7. LoggedAreKept'
  BY <1>1 DEF LoggedAreKept, TypeOK, RecordsAreTaken, Old
<1>8. StrictReportsAreLogged'
  BY <1>1 DEF StrictReportsAreLogged, TypeOK, RecordsAreTaken
<1> QED BY <1>2, <1>3, <1>4, <1>5, <1>6, <1>7, <1>8

(* The row enters the transaction with the lock.                           *)
LEMMA InsertStep == ASSUME IInv, NEW t \in Threads, Insert(t) PROVE IInv'
<1> USE HistoryAssumption, Types DEF IInv, txn, setting
<1>1. /\ pc' \in [Threads -> PCs] /\ \A u \in Threads \ {t} : pc'[u] = pc[u]
      /\ pc'[t].at = "commit" /\ pc'[t].scan = pc[t].scan
  BY DEF PCs, Insert, Idle, NoScan
<1>2. TypeOK'
  BY <1>1 DEF TypeOK, RecordsAreTaken, Insert
<1>3. RecordsAreTaken'
  BY <1>1 DEF RecordsAreTaken, Insert, TypeOK
<1>4. RemovedAreOld'
  BY <1>1 DEF RemovedAreOld, Insert, TypeOK, RecordsAreTaken, Old
<1>5. RemovedAreNotJudged'
  BY <1>1 DEF RemovedAreNotJudged, Insert, TypeOK, RecordsAreTaken
<1>6. CommitHasRow'
  BY <1>1 DEF CommitHasRow, Insert, TypeOK, RecordsAreTaken, Old
<1>7. LoggedAreKept'
  BY <1>1 DEF LoggedAreKept, Insert, TypeOK, RecordsAreTaken, Old
<1>8. StrictReportsAreLogged'
  BY <1>1 DEF StrictReportsAreLogged, Insert, TypeOK, RecordsAreTaken
<1> QED BY <1>2, <1>3, <1>4, <1>5, <1>6, <1>7, <1>8

(* The transaction may hold the deletes of a prune; they are old.          *)
LEMMA CommitStep == ASSUME IInv, NEW t \in Threads, Commit(t) PROVE IInv'
<1> USE HistoryAssumption, Types DEF IInv, txn, setting
<1>1. /\ pc' \in [Threads -> PCs] /\ \A u \in Threads \ {t} : pc'[u] = pc[u]
      /\ pc'[t].at = "prune" /\ pc'[t].scan = pc[t].scan
  BY DEF PCs, Commit, Idle, NoScan
<1>2. TypeOK'
  BY <1>1 DEF TypeOK, RecordsAreTaken, Commit, Committed, Visible
<1>3. RecordsAreTaken'
  BY <1>1 DEF RecordsAreTaken, Commit, Committed, Visible, TypeOK
<1>4. RemovedAreOld'
  BY <1>1 DEF RemovedAreOld, Commit, Committed, Visible, TypeOK,
     RecordsAreTaken, Old
<1>5. RemovedAreNotJudged'
  BY <1>1 DEF RemovedAreNotJudged, Commit, Committed, Visible, TypeOK,
     RecordsAreTaken
<1>6. CommitHasRow'
  BY <1>1 DEF CommitHasRow, Commit, Committed, Visible, TypeOK,
     RecordsAreTaken, Old, RemovedAreOld
<1>7. LoggedAreKept'
  BY <1>1 DEF LoggedAreKept, Commit, Committed, Visible, TypeOK,
     RecordsAreTaken, Old, RemovedAreOld, CommitHasRow
<1>8. StrictReportsAreLogged'
  BY <1>1 DEF StrictReportsAreLogged, Commit, Committed, Visible, TypeOK,
     RecordsAreTaken
<1> QED BY <1>2, <1>3, <1>4, <1>5, <1>6, <1>7, <1>8

(* A rollback loses no row on its way to a commit: whoever is there holds  *)
(* the lock.                                                               *)
LEMMA LogFailStep == ASSUME IInv, NEW t \in Threads, LogFail(t) PROVE IInv'
<1> USE HistoryAssumption, Types DEF IInv, txn, setting
<1>1. /\ pc' \in [Threads -> PCs] /\ \A u \in Threads \ {t} : pc'[u] = pc[u]
      /\ pc'[t] = Idle \/ (~ strict /\ pc'[t] = [pc[t] EXCEPT !.at = "prune"])
  BY DEF PCs, LogFail, FreesLock, Idle, NoScan
<1>a. /\ pc'[t].at \in {"idle", "prune"}
      /\ pc'[t].at # "idle" => ~ strict /\ pc'[t].scan = pc[t].scan
  BY <1>1 DEF PCs, Idle
<1>2. TypeOK'
  BY <1>1, <1>a DEF TypeOK, RecordsAreTaken, LogFail, RolledBack, FreesLock
<1>3. RecordsAreTaken'
  BY <1>1, <1>a DEF RecordsAreTaken, LogFail, RolledBack, FreesLock, TypeOK
<1>4. RemovedAreOld'
  BY <1>1, <1>a DEF RemovedAreOld, LogFail, RolledBack, FreesLock, TypeOK,
     RecordsAreTaken, Old
<1>5. RemovedAreNotJudged'
  BY <1>1, <1>a DEF RemovedAreNotJudged, LogFail, RolledBack, FreesLock,
     TypeOK, RecordsAreTaken
<1>6. CommitHasRow'
  BY <1>1, <1>a DEF CommitHasRow, LogFail, RolledBack, FreesLock, TypeOK,
     RecordsAreTaken, Old
<1>7. LoggedAreKept'
  BY <1>1, <1>a DEF LoggedAreKept, LogFail, RolledBack, FreesLock, TypeOK,
     RecordsAreTaken, Old
<1>8. StrictReportsAreLogged'
  BY <1>1, <1>a DEF StrictReportsAreLogged, LogFail, RolledBack, FreesLock,
     TypeOK, RecordsAreTaken
<1> QED BY <1>2, <1>3, <1>4, <1>5, <1>6, <1>7, <1>8

(* What the DELETE takes is outdated, and the foreign key keeps it off     *)
(* judged rows.                                                            *)
LEMMA PruneStep == ASSUME IInv, NEW t \in Threads, Prune(t) PROVE IInv'
<1> USE HistoryAssumption, Types DEF IInv, txn, setting
<1>1. /\ pc' \in [Threads -> PCs] /\ \A u \in Threads \ {t} : pc'[u] = pc[u]
      /\ pc'[t] = Idle \/ pc'[t] = [pc[t] EXCEPT !.at = "pruned"]
  BY DEF PCs, Prune, Return, Idle, NoScan
<1>a. /\ pc'[t].at \in {"idle", "pruned"}
      /\ pc'[t].at # "idle" => pc'[t].scan = pc[t].scan
  BY <1>1 DEF PCs, Idle
<1>2. TypeOK'
  BY <1>1, <1>a DEF TypeOK, RecordsAreTaken, Prune, Refused, Return, Visible,
     Deletable
<1>b. \A s \in Scans : Old(s)' <=> Old(s)
  BY DEF Old, Prune
<1>3. RecordsAreTaken'
  BY <1>1, <1>a DEF RecordsAreTaken, Prune, Refused, Return, Visible,
     Deletable, TypeOK
<1>4. RemovedAreOld'
  BY <1>1, <1>a, OutdatedIsOld, <1>b DEF RemovedAreOld, Prune, Refused,
     Return, Visible, Deletable, TypeOK, RecordsAreTaken
<1>5. RemovedAreNotJudged'
  BY <1>1, <1>a DEF RemovedAreNotJudged, Prune, Refused, Return, Visible,
     Deletable, TypeOK, RecordsAreTaken
<1>6. CommitHasRow'
  BY <1>1, <1>a, <1>b DEF CommitHasRow, Prune, Refused, Return, Visible,
     Deletable, TypeOK, RecordsAreTaken
<1>7. LoggedAreKept'
  BY <1>1, <1>a, <1>b DEF LoggedAreKept, Prune, Refused, Return, Visible,
     Deletable, TypeOK, RecordsAreTaken
<1>8. StrictReportsAreLogged'
  BY <1>1, <1>a DEF StrictReportsAreLogged, Prune, Refused, Return, Visible,
     Deletable, TypeOK, RecordsAreTaken
<1> QED BY <1>2, <1>3, <1>4, <1>5, <1>6, <1>7, <1>8

(* A prune's commit may write a row that another thread is about to.       *)
LEMMA PruneCommitStep == ASSUME IInv, NEW t \in Threads, PruneCommit(t) PROVE IInv'
<1> USE HistoryAssumption, Types DEF IInv, txn, setting
<1>1. /\ pc' \in [Threads -> PCs] /\ \A u \in Threads \ {t} : pc'[u] = pc[u]
      /\ pc'[t].at = "idle" /\ pc'[t].scan = NoScan
  BY DEF PCs, PruneCommit, Return, Idle, NoScan
<1>2. TypeOK'
  BY <1>1 DEF TypeOK, RecordsAreTaken, PruneCommit, Committed, Return, Visible
<1>3. RecordsAreTaken'
  BY <1>1 DEF RecordsAreTaken, PruneCommit, Committed, Return, Visible, TypeOK
<1>4. RemovedAreOld'
  BY <1>1 DEF RemovedAreOld, PruneCommit, Committed, Return, Visible, TypeOK,
     RecordsAreTaken, Old
<1>5. RemovedAreNotJudged'
  BY <1>1 DEF RemovedAreNotJudged, PruneCommit, Committed, Return, Visible,
     TypeOK, RecordsAreTaken
<1>6. CommitHasRow'
  BY <1>1 DEF CommitHasRow, PruneCommit, Committed, Return, Visible, TypeOK,
     RecordsAreTaken, Old, RemovedAreOld
<1>7. LoggedAreKept'
  BY <1>1 DEF LoggedAreKept, PruneCommit, Committed, Return, Visible, TypeOK,
     RecordsAreTaken, Old, RemovedAreOld
<1>8. StrictReportsAreLogged'
  BY <1>1 DEF StrictReportsAreLogged, PruneCommit, Committed, Return, Visible,
     TypeOK, RecordsAreTaken
<1> QED BY <1>2, <1>3, <1>4, <1>5, <1>6, <1>7, <1>8

(* The calls of feedback().  A verdict is written only when no DELETE is   *)
(* pending.                                                                *)
LEMMA LookUpStep ==
    ASSUME IInv, NEW t \in Threads, NEW s \in Scans, LookUp(t, s)
    PROVE  IInv'
<1> USE HistoryAssumption, Types DEF IInv, txn, setting
<1>1. /\ pc' \in [Threads -> PCs] /\ \A u \in Threads \ {t} : pc'[u] = pc[u]
      /\ pc'[t].at = "record" /\ pc'[t].scan = s
  BY DEF PCs, LookUp, Idle, NoScan
<1>2. TypeOK'
  BY <1>1 DEF TypeOK, RecordsAreTaken, LookUp
<1>3. RecordsAreTaken'
  BY <1>1 DEF RecordsAreTaken, LookUp, TypeOK
<1>4. RemovedAreOld'
  BY <1>1 DEF RemovedAreOld, LookUp, TypeOK, RecordsAreTaken, Old
<1>5. RemovedAreNotJudged'
  BY <1>1 DEF RemovedAreNotJudged, LookUp, TypeOK, RecordsAreTaken
<1>6. CommitHasRow'
  BY <1>1 DEF CommitHasRow, LookUp, TypeOK, RecordsAreTaken, Old
<1>7. LoggedAreKept'
  BY <1>1 DEF LoggedAreKept, LookUp, TypeOK, RecordsAreTaken, Old
<1>8. StrictReportsAreLogged'
  BY <1>1 DEF StrictReportsAreLogged, LookUp, TypeOK, RecordsAreTaken
<1> QED BY <1>2, <1>3, <1>4, <1>5, <1>6, <1>7, <1>8

LEMMA RecordStep == ASSUME IInv, NEW t \in Threads, Record(t) PROVE IInv'
<1> USE HistoryAssumption, Types DEF IInv, txn, setting
<1>1. /\ pc' \in [Threads -> PCs] /\ \A u \in Threads \ {t} : pc'[u] = pc[u]
      /\ pc'[t].at = "idle" /\ pc'[t].scan = NoScan
  BY DEF PCs, Record, Idle, NoScan
<1>2. TypeOK'
  BY <1>1 DEF TypeOK, RecordsAreTaken, Record
<1>3. RecordsAreTaken'
  BY <1>1 DEF RecordsAreTaken, Record, TypeOK
<1>4. RemovedAreOld'
  BY <1>1 DEF RemovedAreOld, Record, TypeOK, RecordsAreTaken, Old
<1>5. RemovedAreNotJudged'
  BY <1>1 DEF RemovedAreNotJudged, Record, TypeOK, RecordsAreTaken
<1>6. CommitHasRow'
  BY <1>1 DEF CommitHasRow, Record, TypeOK, RecordsAreTaken, Old
<1>7. LoggedAreKept'
  BY <1>1 DEF LoggedAreKept, Record, TypeOK, RecordsAreTaken, Old
<1>8. StrictReportsAreLogged'
  BY <1>1 DEF StrictReportsAreLogged, Record, TypeOK, RecordsAreTaken
<1> QED BY <1>2, <1>3, <1>4, <1>5, <1>6, <1>7, <1>8

LEMMA RecordFailStep == ASSUME IInv, NEW t \in Threads, RecordFail(t) PROVE IInv'
<1> USE HistoryAssumption, Types DEF IInv, txn, setting
<1>1. /\ pc' \in [Threads -> PCs] /\ \A u \in Threads \ {t} : pc'[u] = pc[u]
      /\ pc'[t].at = "idle" /\ pc'[t].scan = NoScan
  BY DEF PCs, RecordFail, Idle, NoScan
<1>2. TypeOK'
  BY <1>1 DEF TypeOK, RecordsAreTaken, RecordFail
<1>3. RecordsAreTaken'
  BY <1>1 DEF RecordsAreTaken, RecordFail, TypeOK
<1>4. RemovedAreOld'
  BY <1>1 DEF RemovedAreOld, RecordFail, TypeOK, RecordsAreTaken, Old
<1>5. RemovedAreNotJudged'
  BY <1>1 DEF RemovedAreNotJudged, RecordFail, TypeOK, RecordsAreTaken
<1>6. CommitHasRow'
  BY <1>1 DEF CommitHasRow, RecordFail, TypeOK, RecordsAreTaken, Old
<1>7. LoggedAreKept'
  BY <1>1 DEF LoggedAreKept, RecordFail, TypeOK, RecordsAreTaken, Old
<1>8. StrictReportsAreLogged'
  BY <1>1 DEF StrictReportsAreLogged, RecordFail, TypeOK, RecordsAreTaken
<1> QED BY <1>2, <1>3, <1>4, <1>5, <1>6, <1>7, <1>8

LEMMA CrashStep == ASSUME IInv, Crash PROVE IInv'
<1> USE HistoryAssumption, Types DEF IInv, txn, setting
<1>1. pc' \in [Threads -> PCs] /\ \A u \in Threads : pc'[u].at = "idle"
  BY DEF Crash, PCs, Idle, NoScan
<1>2. TypeOK'
  BY <1>1 DEF TypeOK, RecordsAreTaken, Crash, RolledBack
<1>3. RecordsAreTaken'
  BY <1>1 DEF RecordsAreTaken, Crash, RolledBack, TypeOK
<1>4. RemovedAreOld'
  BY <1>1 DEF RemovedAreOld, Crash, RolledBack, TypeOK, RecordsAreTaken, Old
<1>5. RemovedAreNotJudged'
  BY <1>1 DEF RemovedAreNotJudged, Crash, RolledBack, TypeOK, RecordsAreTaken
<1>6. CommitHasRow'
  BY <1>1 DEF CommitHasRow, Crash, RolledBack, TypeOK, RecordsAreTaken, Old
<1>7. LoggedAreKept'
  BY <1>1 DEF LoggedAreKept, Crash, RolledBack, TypeOK, RecordsAreTaken, Old
<1>8. StrictReportsAreLogged'
  BY <1>1 DEF StrictReportsAreLogged, Crash, RolledBack, TypeOK, RecordsAreTaken
<1> QED BY <1>2, <1>3, <1>4, <1>5, <1>6, <1>7, <1>8

LEMMA TickStep == ASSUME IInv, Tick PROVE IInv'
<1> USE HistoryAssumption, Types DEF IInv, txn, setting
<1>1. pc' \in [Threads -> PCs] /\ pc' = pc
  BY DEF Tick
<1>2. TypeOK'
  BY <1>1 DEF TypeOK, RecordsAreTaken, Tick
<1>3. RecordsAreTaken'
  BY <1>1 DEF RecordsAreTaken, Tick, TypeOK
<1>4. RemovedAreOld'
  BY <1>1 DEF RemovedAreOld, Tick, TypeOK, RecordsAreTaken, Old
<1>5. RemovedAreNotJudged'
  BY <1>1 DEF RemovedAreNotJudged, Tick, TypeOK, RecordsAreTaken
<1>6. CommitHasRow'
  BY <1>1 DEF CommitHasRow, Tick, TypeOK, RecordsAreTaken, Old
<1>7. LoggedAreKept'
  BY <1>1 DEF LoggedAreKept, Tick, TypeOK, RecordsAreTaken, Old
<1>8. StrictReportsAreLogged'
  BY <1>1 DEF StrictReportsAreLogged, Tick, TypeOK, RecordsAreTaken
<1> QED BY <1>2, <1>3, <1>4, <1>5, <1>6, <1>7, <1>8

LEMMA NextInvariant == IInv /\ [Next]_vars => IInv'
<1> SUFFICES ASSUME IInv, [Next]_vars PROVE IInv'
  OBVIOUS
<1>1. ASSUME NEW t \in Threads, Work(t) PROVE IInv'
  BY <1>1, InsertStep, CommitStep, LogFailStep, PruneStep, PruneCommitStep,
     RecordStep,
     RecordFailStep DEF Work
<1>2. ASSUME NEW t \in Threads, NEW s \in Scans, Report(t, s) PROVE IInv'
  BY <1>2, ReportStep
<1>7. ASSUME NEW t \in Threads, NEW s \in Scans, ReportUnlogged(t, s) PROVE IInv'
  BY <1>7, ReportUnloggedStep
<1>3. ASSUME NEW t \in Threads, NEW s \in Scans, LookUp(t, s) PROVE IInv'
  BY <1>3, LookUpStep
<1>4. CASE Crash
  BY <1>4, CrashStep
<1>5. CASE Tick
  BY <1>5, TickStep
<1>6. CASE UNCHANGED vars
  BY <1>6 DEF vars, IInv, TypeOK, RecordsAreTaken, RemovedAreOld,
     RemovedAreNotJudged,
     CommitHasRow, LoggedAreKept, StrictReportsAreLogged, Old, txn
<1> QED BY <1>1, <1>2, <1>3, <1>4, <1>5, <1>6, <1>7 DEF Next

(* The inductive invariant holds in every reachable state.                 *)
THEOREM InvariantHolds == Spec => []IInv
<1> QED BY InitInvariant, NextInvariant, PTL DEF Spec

(* The types hold; the lock is held exactly from an INSERT to its commit   *)
(* (database.py, connection), and pending changes hold the write lock.     *)
THEOREM TypeCorrect == Spec => []TypeOK
<1>1. IInv => TypeOK
  BY DEF IInv
<1> QED BY <1>1, InvariantHolds, PTL

(* A logged scan keeps its row for the retention period, whatever other    *)
(* threads do on the shared connection; and in strict mode, where history  *)
(* is enabled, a reported scan is a logged one, unless the allowlist or    *)
(* the blocklist answered it: scan() returns that report without a row.    *)
THEOREM AuditIsComplete == Spec => []AuditComplete
<1>1. IInv => AuditComplete
  BY DEF IInv, AuditComplete, LoggedAreKept, StrictReportsAreLogged, Old, TypeOK, Audited
<1> QED BY <1>1, InvariantHolds, PTL

(* No prune removes the row of a scan that was judged, though the verdict  *)
(* is written by another connection that checks no foreign key.            *)
THEOREM JudgedRowsAreKept == Spec => JudgedRowsStay
<1>1. IInv /\ [Next]_vars => [judged \cap rows \subseteq rows']_vars
  BY DEF IInv, RemovedAreNotJudged, Next, Work, vars, txn, Report, ReportUnlogged, Take, Insert,
     Commit, Committed,
     Visible, LogFail, RolledBack, Prune, Refused, PruneCommit, LookUp, Record, RecordFail,
     Crash, Tick
<1> QED BY <1>1, InvariantHolds, PTL DEF Spec, JudgedRowsStay
=============================================================================
