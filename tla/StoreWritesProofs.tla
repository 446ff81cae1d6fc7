--------------------------- MODULE StoreWritesProofs ---------------------------
(***************************************************************************)
(* Theorems about StoreWrites, for any connections and any jobs.           *)
(*                                                                         *)
(* AuditChainIntact, RowsAudited and ProvenanceClosed hold of every        *)
(* behaviour.  They are made inductive by saying the same of the draft, by *)
(* knowing which rows a job has stored at each point of its run (a row is  *)
(* stored and audited once), and that a file precedes the row that cites   *)
(* it.  OutcomesTrue and ScopedWritesAtomic hold until a transaction is    *)
(* left open, of which Steady says what it means.                          *)
(***************************************************************************)
EXTENDS StoreWrites, TLAPS

\* audit_events, as long as every insert follows append_audit_event.
ChainUpTo(audit, n) ==
  /\ DOMAIN audit = 1..n
  /\ \A k \in 1..n :
       audit[k].previous = IF k = 1 THEN Genesis ELSE audit[k - 1].row

\* The number of the last event of a table numbered without gaps.
LEMMA LastSeqOfChain ==
  ASSUME NEW audit, NEW n \in Nat, DOMAIN audit = 1..n
  PROVE  LastSeq(audit) = n
<1>1. CASE n = 0
  BY <1>1 DEF LastSeq
<1>2. CASE n # 0
  <2>1. n \in 1..n /\ \A m \in 1..n : m <= n
    BY <1>2
  <2>2. \A k \in 1..n : (\A m \in 1..n : m <= k) => k = n
    BY <1>2
  <2>3. DOMAIN audit # {}
    BY <2>1
  <2> QED
    BY <2>1, <2>2, <2>3 DEF LastSeq
<1> QED
  BY <1>1, <1>2

\* append_audit_event extends the chain by one event.
LEMMA AppendExtendsChain ==
  ASSUME NEW audit, NEW n \in Nat, ChainUpTo(audit, n), NEW row
  PROVE  /\ ChainUpTo(AppendEvent(audit, row), n + 1)
         /\ AppendEvent(audit, row)[n + 1].row = row
         /\ \A k \in 1..n : AppendEvent(audit, row)[k] = audit[k]
<1> DEFINE appended == AppendEvent(audit, row)
<1>1. LastSeq(audit) = n
  BY LastSeqOfChain DEF ChainUpTo
<1>2. appended = [k \in (1..n) \cup {n + 1} |->
                    IF k = n + 1
                      THEN [row |-> row, previous |-> HeadHash(audit)]
                      ELSE audit[k]]
  BY <1>1 DEF AppendEvent, ChainUpTo
<1>3. (1..n) \cup {n + 1} = 1..(n + 1)
  OBVIOUS
<1>4. /\ DOMAIN appended = 1..(n + 1)
      /\ appended[n + 1] = [row |-> row, previous |-> HeadHash(audit)]
      /\ \A k \in 1..n : appended[k] = audit[k]
  BY <1>2, <1>3
<1>5. HeadHash(audit) = IF n + 1 = 1 THEN Genesis ELSE appended[n].row
  <2>1. CASE n = 0
    BY <2>1, 1..0 = {} DEF HeadHash, ChainUpTo
  <2>2. CASE n # 0
    <3>1. n \in 1..n
      BY <2>2
    <3>2. HeadHash(audit) = audit[n].row
      BY <1>1, <3>1 DEF HeadHash, ChainUpTo
    <3> QED
      BY <3>1, <3>2, <1>4
  <2> QED
    BY <2>1, <2>2
<1>6. ASSUME NEW k \in 1..(n + 1)
      PROVE  appended[k].previous = IF k = 1 THEN Genesis ELSE appended[k - 1].row
  <2>1. CASE k = n + 1
    BY <2>1, <1>4, <1>5
  <2>2. CASE k # n + 1
    <3>1. k \in 1..n
      BY <2>2
    <3>2. k # 1 => k - 1 \in 1..n
      BY <3>1
    <3> QED
      BY <3>1, <3>2, <1>4 DEF ChainUpTo
  <2> QED
    BY <2>1, <2>2
<1> QED
  BY <1>4, <1>6 DEF ChainUpTo

-----------------------------------------------------------------------------
(* What every database the program can see satisfies *)

Audited(d) ==
  \E n \in Nat :
    /\ ChainUpTo(d.audit, n)
    /\ \A k \in 1..n : d.audit[k].row \in d.rows
    /\ \A r \in d.rows : \E k \in 1..n : d.audit[k].row = r
    /\ \A k, m \in 1..n : d.audit[k].row = d.audit[m].row => k = m

\* Storing a new row and its event keeps the rows and the events in step.
LEMMA StoreKeepsAudited ==
  ASSUME NEW d, Audited(d), NEW row, row \notin d.rows
  PROVE  Audited(Store(d, row)) /\ Store(d, row).rows = d.rows \cup {row}
<1>1. PICK n \in Nat :
        /\ ChainUpTo(d.audit, n)
        /\ \A k \in 1..n : d.audit[k].row \in d.rows
        /\ \A r \in d.rows : \E k \in 1..n : d.audit[k].row = r
        /\ \A k, m \in 1..n : d.audit[k].row = d.audit[m].row => k = m
  BY DEF Audited
<1> DEFINE e == Store(d, row)
           a == AppendEvent(d.audit, row)
<1>2. e.rows = d.rows \cup {row} /\ e.audit = a
  BY DEF Store
<1>3. /\ ChainUpTo(a, n + 1)
      /\ a[n + 1].row = row
      /\ \A k \in 1..n : a[k] = d.audit[k]
  BY <1>1, AppendExtendsChain
<1>4. 1..(n + 1) = (1..n) \cup {n + 1}
  OBVIOUS
<1> HIDE DEF e, a
<1>5. \A k \in 1..(n + 1) : a[k].row \in e.rows
  BY <1>1, <1>2, <1>3, <1>4
<1>6. \A r \in e.rows : \E k \in 1..(n + 1) : a[k].row = r
  <2> SUFFICES ASSUME NEW r \in e.rows
               PROVE  \E k \in 1..(n + 1) : a[k].row = r
    OBVIOUS
  <2>1. CASE r = row
    BY <2>1, <1>3, <1>4
  <2>2. CASE r \in d.rows
    <3>1. PICK k \in 1..n : d.audit[k].row = r
      BY <2>2, <1>1
    <3> QED
      BY <3>1, <1>3, <1>4
  <2> QED
    BY <2>1, <2>2, <1>2
<1>7. ASSUME NEW k \in 1..(n + 1), NEW m \in 1..(n + 1), a[k].row = a[m].row
      PROVE  k = m
  <2>1. \A i \in 1..n : a[i].row # row
    BY <1>1, <1>3
  <2>2. CASE k = n + 1 \/ m = n + 1
    BY <2>1, <2>2, <1>3, <1>4, <1>7
  <2>3. CASE k \in 1..n /\ m \in 1..n
    BY <2>3, <1>1, <1>3, <1>7
  <2> QED
    BY <2>2, <2>3, <1>4
<1>8. Audited(e)
  BY <1>2, <1>3, <1>5, <1>6, <1>7 DEF Audited
<1> QED
  BY <1>2, <1>8 DEF e

-----------------------------------------------------------------------------
(* The inductive invariant *)

\* The tables in which the job that c runs has a row by now.
Stored(c) ==
  CASE pc[c] \in {"capture", "artifact"} -> IF inner[c] = "none" THEN {} ELSE {"artifact"}
    [] pc[c] = "batch" -> IF inner[c] = "none" THEN {"artifact"} ELSE {"artifact", "batch"}
    [] pc[c] = "record" ->
         IF inner[c] # "none" THEN Tables
         ELSE IF Kind[job[c]] = "import" THEN {"artifact"} ELSE {"artifact", "batch"}
    [] OTHER -> Tables

\* A running job belongs to one connection.
JobOwned ==
  /\ \A c \in Conns : job[c] # NoJob <=> Running(c)
  /\ \A c \in Conns : Running(c) => status[job[c]] = "running"
  /\ \A c, d \in Conns : Running(c) /\ Running(d) /\ job[c] = job[d] => c = d

\* A scope has been entered only around a row that was inserted, and an import
\* has no batch stage of its own.
ScopeEntered ==
  \A c \in Conns :
    /\ inner[c] # "none" => pc[c] \in Stages
    /\ pc[c] = "batch" => Kind[job[c]] # "import"

\* The file of the artifact that is cited was linked before.
Captured ==
  \A c \in Conns :
    Running(c) /\ pc[c] # "capture" =>
      /\ art[c] \in Jobs
      /\ Digest[art[c]] \in raw
      /\ pc[c] = "artifact" => art[c] = job[c]

\* Which rows a database may hold, given how far the jobs have come.
RowsTimely(d) ==
  \A r \in d.rows :
    /\ status[r.job] # "new"
    /\ \A c \in Conns : Running(c) /\ job[c] = r.job => r.table \in Stored(c)

Provenance(d) ==
  \A r \in d.rows :
    /\ Digest[r.art] \in raw
    /\ Row("artifact", r.art, r.art) \in d.rows
    /\ r.table = "record" => Row("batch", r.job, r.art) \in d.rows

DbInv(d) == d.rows \subseteq Rows /\ Audited(d) /\ RowsTimely(d) /\ Provenance(d)

StoreInv ==
  /\ StateTyped
  /\ JobOwned
  /\ ScopeEntered
  /\ Captured
  /\ DbInv(db)
  /\ DbInv(draft)

LEMMA StoreInvInit == Init => StoreInv
<1> SUFFICES ASSUME Init PROVE StoreInv
  OBVIOUS
<1>1. Audited(EmptyDb)
  <2>1. ChainUpTo(EmptyDb.audit, 0)
    BY 1..0 = {} DEF ChainUpTo, EmptyDb
  <2> QED
    BY <2>1, 1..0 = {}, 0 \in Nat DEF Audited, EmptyDb
<1>2. DbInv(EmptyDb)
  BY <1>1 DEF DbInv, RowsTimely, Provenance, EmptyDb
<1> QED
  BY <1>2, StoreAssumption DEF Init, StoreInv, StateTyped, JobOwned, ScopeEntered,
     Captured, Running, Stages, Tables, Pcs, Locks, Scopes, Rows, EmptyDb

\* Everything in the invariant but the databases.
Control == StateTyped /\ JobOwned /\ ScopeEntered /\ Captured


\* The artifact that a connection finds has its file.
LEMMA DbFiles ==
  ASSUME DbInv(db), DbInv(draft), NEW c \in Conns, NEW i \in Jobs,
         Row("artifact", i, i) \in Visible(c).rows
  PROVE  Digest[i] \in raw
BY DEF DbInv, Provenance, Visible, Row

\* What the transaction operators do to the variables they are about.
TxTyped ==
  /\ db.rows \subseteq Rows /\ draft.rows \subseteq Rows
  /\ lock \in [Conns -> Locks]
  /\ intx \in [Conns -> BOOLEAN]

LEMMA TxStep ==
  ASSUME TxTyped, NEW c \in Conns,
         \/ Commit(c) \/ Rollback(c) \/ UNCHANGED txvars
         \/ Unwind(c, TRUE) \/ Unwind(c, FALSE)
  PROVE  /\ TxTyped'
         /\ db' \in {db, draft} /\ draft' \in {db, draft}
<1> USE DEF TxTyped, Locks, WriteLocks
<1>1. CASE Commit(c)
  BY <1>1 DEF Commit, Visible
<1>2. CASE Rollback(c)
  BY <1>2 DEF Rollback
<1>3. CASE UNCHANGED txvars
  BY <1>3 DEF txvars
<1>4. CASE Unwind(c, TRUE)
  BY <1>2, <1>3, <1>4 DEF Unwind
<1>5. CASE Unwind(c, FALSE)
  BY <1>2, <1>3, <1>5 DEF Unwind
<1> QED
  BY <1>1, <1>2, <1>3, <1>4, <1>5

LEMMA NextStageTyped ==
  ASSUME NEW c \in Conns, pc[c] \in {"capture"} \cup Stages
  PROVE  NextStage(c) \in {"batch", "record", "outer"}
BY DEF NextStage, Stages, Tables

LEMMA FinishStep ==
  ASSUME Control, TxTyped', raw' = raw, NEW c \in Conns, Running(c),
         NEW o \in {"acked", "failed", "lost"}, Finish(c, o)
  PROVE  Control'
<1> USE StoreAssumption DEF Control, TxTyped, Running
<1>1. /\ job[c] \in Jobs
      /\ pc' = [pc EXCEPT ![c] = "idle"]
      /\ job' = [job EXCEPT ![c] = NoJob]
      /\ status' = [status EXCEPT ![job[c]] = o]
  BY DEF StateTyped, JobOwned, Finish
<1>2. StateTyped'
  BY <1>1 DEF StateTyped, Finish, Pcs, Scopes
<1>3. JobOwned'
  BY <1>1 DEF StateTyped, JobOwned
<1>4. ScopeEntered'
  BY <1>1 DEF StateTyped, ScopeEntered, Finish
<1>5. Captured'
  BY <1>1 DEF StateTyped, Captured, Finish
<1> QED
  BY <1>2, <1>3, <1>4, <1>5

LEMMA ControlStep == StoreInv /\ [Next]_vars => Control'
<1> SUFFICES ASSUME StoreInv, [Next]_vars PROVE Control'
  OBVIOUS
<1> USE StoreAssumption
<1>0. Control /\ TxTyped /\ StateTyped /\ JobOwned /\ ScopeEntered /\ Captured
  BY DEF StoreInv, Control, StateTyped, TxTyped
<1>1. ASSUME NEW c \in Conns, NEW j \in Jobs, Start(c, j) PROVE Control'
  <2>1. StateTyped'
    BY <1>0, <1>1 DEF StateTyped, Start, EnterScope, Pcs, Scopes
  <2>2. JobOwned'
    BY <1>0, <1>1 DEF StateTyped, JobOwned, Running, Start
  <2>3. ScopeEntered' /\ Captured'
    BY <1>0, <1>1 DEF StateTyped, ScopeEntered, Captured, Running, Start, Stages,
       Tables
  <2> QED
    BY <2>1, <2>2, <2>3 DEF Control
<1>2. ASSUME NEW c \in Conns, Capture(c) PROVE Control'
  <2> DEFINE p == pc'[c]
  <2>1. /\ pc' = [pc EXCEPT ![c] = p]
        /\ p \in Stages \cup {"outer"}
        /\ pc[c] = "capture"
    BY <1>0, <1>2, NextStageTyped DEF StateTyped, Capture, Stages, Tables
  <2>2. job[c] \in Jobs /\ Running(c)
    BY <1>0, <2>1 DEF StateTyped, JobOwned, Running
  <2>3. /\ art' = [art EXCEPT ![c] = art'[c]]
        /\ art'[c] \in Jobs
        /\ Digest[art'[c]] = Digest[job[c]]
        /\ p = "artifact" => art'[c] = job[c]
    BY <1>0, <1>2, <2>2, NextStageTyped DEF StateTyped, Capture, Stages, Tables
  <2>4. /\ lock' \in [Conns -> Locks]
        /\ UNCHANGED <<db, draft, intx, job, outer, inner, status>>
    BY <1>0, <1>2 DEF StateTyped, Capture, Locks
  <2>5. raw' \subseteq Digests /\ raw \subseteq raw' /\ Digest[art'[c]] \in raw'
    <3>1. CASE raw' = raw \cup {Digest[job[c]]}
      BY <3>1, <1>0, <2>2, <2>3 DEF StateTyped, Digests
    <3>2. CASE \E i \in Jobs : /\ art'[c] = i
                               /\ Row("artifact", i, i) \in Visible(c).rows
                               /\ raw' = raw
      BY <3>2, <1>0, DbFiles DEF StateTyped, StoreInv
    <3> QED
      BY <1>0, <1>2, <3>1, <3>2 DEF StateTyped, Capture
  <2> HIDE DEF p
  <2>6. StateTyped'
    BY <1>0, <2>1, <2>3, <2>4, <2>5 DEF StateTyped, Pcs
  <2>7. JobOwned'
    BY <1>0, <2>1, <2>2, <2>4 DEF StateTyped, JobOwned, Running, Stages, Tables
  <2>8. ScopeEntered'
    <3>1. pc'[c] = "batch" => Kind[job[c]] # "import"
      BY <1>0, <1>2 DEF StateTyped, Capture, NextStage
    <3> QED
      BY <3>1, <1>0, <2>1, <2>4 DEF StateTyped, ScopeEntered, Stages, Tables
  <2>9. Captured'
    BY <1>0, <2>1, <2>3, <2>4, <2>5 DEF StateTyped, Captured, Running
  <2> QED
    BY <2>6, <2>7, <2>8, <2>9 DEF Control
<1>3. ASSUME NEW c \in Conns, Insert(c) PROVE Control'
  <2>1. pc[c] \in Stages /\ job[c] \in Jobs /\ art[c] \in Jobs
    BY <1>0, <1>3 DEF StateTyped, JobOwned, Captured, Running, Insert, Stages,
       Tables
  <2>2. draft'.rows \subseteq Rows
    BY <1>0, <1>3, <2>1 DEF StateTyped, Insert, StageResult, Store, Visible, Rows,
       Row, Stages, Tables
  <2>3. StateTyped'
    BY <1>0, <1>3, <2>2 DEF StateTyped, Insert, EnterScope, Scopes, Locks
  <2>4. JobOwned' /\ ScopeEntered' /\ Captured'
    BY <1>0, <1>3 DEF StateTyped, JobOwned, ScopeEntered, Captured, Running,
       Insert
  <2> QED
    BY <2>3, <2>4 DEF Control
<1>4. ASSUME NEW c \in Conns, LeaveInner(c) PROVE Control'
  <2>1. pc[c] \in Stages /\ Running(c)
    BY <1>0, <1>4 DEF LeaveInner, ScopeEntered, Running, Stages, Tables
  <2>2. TxTyped' /\ raw' = raw
    BY <1>0, <1>4, TxStep DEF LeaveInner
  <2>3. CASE Finish(c, "acked")
    BY <2>3, <1>0, <2>1, <2>2, FinishStep
  <2>4. CASE /\ pc' = [pc EXCEPT ![c] = NextStage(c)]
             /\ inner' = [inner EXCEPT ![c] = "none"]
             /\ UNCHANGED <<job, art, outer, status>>
    <3>1. NextStage(c) \in {"batch", "record", "outer"}
      BY <2>1, NextStageTyped
    <3>2. StateTyped'
      BY <1>0, <2>2, <2>4, <3>1 DEF StateTyped, TxTyped, Pcs, Stages, Tables,
         Scopes
    <3>3. JobOwned'
      BY <1>0, <2>1, <2>4, <3>1 DEF StateTyped, JobOwned, Running
    <3>4. ScopeEntered'
      <4>1. NextStage(c) = "batch" => Kind[job[c]] # "import"
        BY <2>1 DEF NextStage, Stages, Tables
      <4> QED
        BY <1>0, <2>4, <4>1 DEF StateTyped, ScopeEntered
    <3>5. Captured'
      BY <1>0, <2>1, <2>2, <2>4, <3>1 DEF StateTyped, Captured, Running, Stages,
         Tables
    <3> QED
      BY <3>2, <3>3, <3>4, <3>5 DEF Control
  <2> QED
    BY <1>4, <2>3, <2>4 DEF LeaveInner
<1>5. ASSUME NEW c \in Conns, LeaveOuter(c) PROVE Control'
  BY <1>0, <1>5, TxStep, FinishStep DEF LeaveOuter, Running
<1>6. ASSUME NEW c \in Conns, CommitBusy(c) PROVE Control'
  <2>1. Running(c)
    BY <1>0, <1>6 DEF CommitBusy, ScopeEntered, Running, Stages, Tables
  <2>2. TxTyped' /\ raw' = raw
    <3>1. CASE Rollback(c)
      BY <3>1, <1>0, <1>6, TxStep DEF CommitBusy
    <3>2. CASE ~Rollback(c)
      BY <3>2, <1>0, <1>6 DEF CommitBusy, TxTyped, Locks
    <3> QED
      BY <3>1, <3>2
  <2> QED
    BY <1>0, <1>6, <2>1, <2>2, FinishStep DEF CommitBusy
<1>7. ASSUME NEW c \in Conns, Fail(c) PROVE Control'
  BY <1>0, <1>7, TxStep, FinishStep DEF Fail
<1>8. ASSUME NEW c \in Conns, Interrupt(c) PROVE Control'
  BY <1>0, <1>8, TxStep, FinishStep DEF Interrupt
<1>9. ASSUME NEW c \in Conns, Exit(c) PROVE Control'
  <2>1. TxTyped' /\ raw' = raw
    BY <1>0, <1>9, TxStep DEF Exit
  <2>2. CASE Running(c)
    BY <2>2, <1>0, <1>9, <2>1, FinishStep DEF Exit
  <2>3. CASE ~Running(c)
    <3>1. StateTyped'
      BY <1>0, <1>9, <2>1, <2>3 DEF StateTyped, TxTyped, Exit, Pcs
    <3>2. JobOwned' /\ ScopeEntered' /\ Captured'
      BY <1>0, <1>9, <2>1, <2>3 DEF StateTyped, JobOwned, ScopeEntered, Captured,
         Running, Exit, Stages, Tables
    <3> QED
      BY <3>1, <3>2 DEF Control
  <2> QED
    BY <2>2, <2>3
<1>10. ASSUME NEW c \in Conns, StartRead(c) \/ EndRead(c) PROVE Control'
  <2>1. StateTyped'
    BY <1>0, <1>10 DEF StateTyped, StartRead, EndRead, Pcs, Locks
  <2>2. JobOwned' /\ ScopeEntered' /\ Captured'
    BY <1>0, <1>10 DEF StateTyped, JobOwned, ScopeEntered, Captured, Running,
       StartRead, EndRead, Stages, Tables
  <2> QED
    BY <2>1, <2>2 DEF Control
<1>11. ASSUME UNCHANGED vars PROVE Control'
  BY <1>0, <1>11 DEF vars, Control, StateTyped, JobOwned, ScopeEntered, Captured,
     Running
<1> QED
  BY <1>1, <1>2, <1>3, <1>4, <1>5, <1>6, <1>7, <1>8, <1>9, <1>10, <1>11
     DEF Next, Step

-----------------------------------------------------------------------------
(* The databases *)

\* A step that adds no row keeps the databases as they should be if it
\* forgets no file, no finished job, and none of the rows of a running job.
Forward ==
  /\ db' \in {db, draft} /\ draft' \in {db, draft}
  /\ raw \subseteq raw'
  /\ \A j \in Jobs : status[j] # "new" => status'[j] # "new"
  /\ \A c \in Conns : Running(c)' =>
       \/ status[job'[c]] = "new"
       \/ Running(c) /\ job'[c] = job[c] /\ Stored(c) \subseteq Stored(c)'

LEMMA ForwardKeepsDbs ==
  ASSUME StoreInv, Control', Forward
  PROVE  DbInv(db)' /\ DbInv(draft)'
<1>1. \A r \in db.rows \cup draft.rows :
        /\ r.job \in Jobs
        /\ status'[r.job] # "new"
        /\ \A c \in Conns : Running(c)' /\ job'[c] = r.job =>
                              r.table \in Stored(c)'
        /\ Digest[r.art] \in raw'
  BY DEF StoreInv, DbInv, RowsTimely, Provenance, Forward, Rows
<1>2. DbInv(db)'
  <2>1. RowsTimely(db)'
    BY <1>1 DEF RowsTimely, Forward
  <2>2. Provenance(db)'
    BY <1>1 DEF StoreInv, DbInv, Provenance, Forward
  <2> QED
    BY <2>1, <2>2 DEF StoreInv, DbInv, Forward, Audited
<1>3. DbInv(draft)'
  <2>1. RowsTimely(draft)'
    BY <1>1 DEF RowsTimely, Forward
  <2>2. Provenance(draft)'
    BY <1>1 DEF StoreInv, DbInv, Provenance, Forward
  <2> QED
    BY <2>1, <2>2 DEF StoreInv, DbInv, Forward, Audited
<1> QED
  BY <1>2, <1>3

\* A job that ends leaves the other jobs where they were.
LEMMA FinishForward ==
  ASSUME Control, NEW c \in Conns, Running(c),
         NEW o \in {"acked", "failed", "lost"}, Finish(c, o),
         db' \in {db, draft}, draft' \in {db, draft}, raw' = raw
  PROVE  Forward
<1>1. job[c] \in Jobs
  BY DEF Control, StateTyped, JobOwned
<1>2. \A j \in Jobs : status[j] # "new" => status'[j] # "new"
  BY <1>1 DEF Control, StateTyped, Finish
<1>3. \A d \in Conns : Running(d)' =>
        Running(d) /\ job'[d] = job[d] /\ Stored(d)' = Stored(d)
  BY <1>1 DEF Control, StateTyped, Finish, Running, Stored
<1> QED
  BY <1>2, <1>3 DEF Forward

\* The rows that a stage inserts are new, and what they cite is there.
LEMMA InsertKeepsDbs ==
  ASSUME StoreInv, Control', NEW c \in Conns, Insert(c)
  PROVE  DbInv(db)' /\ DbInv(draft)'
<1> DEFINE v == Visible(c)
<1>1. /\ pc[c] \in Stages /\ inner[c] = "none"
      /\ Cited(c) \subseteq v.rows
      /\ draft' = StageResult(c, v)
      /\ UNCHANGED <<db, raw, pc, job, art, outer, status>>
  BY DEF Insert
<1>2. Running(c) /\ job[c] \in Jobs /\ art[c] \in Jobs
      /\ Kind[job[c]] \in Kinds /\ Digest[art[c]] \in raw
  BY <1>1, StoreAssumption DEF StoreInv, StateTyped, JobOwned, Captured, Running,
     Stages, Tables
<1>3. inner'[c] # "none" /\ \A d \in Conns \ {c} : inner'[d] = inner[d]
  BY DEF StoreInv, StateTyped, Insert, EnterScope
<1>4. DbInv(v)
  BY DEF StoreInv, Visible
<1> HIDE DEF v
<1>5. \A d \in Conns : Running(d)' = Running(d) /\ Stored(d) \subseteq Stored(d)'
  BY <1>1, <1>2, <1>3 DEF Running, Stored, Stages, Tables
<1>6. \A d \in Conns : Running(d) /\ job[d] = job[c] => d = c
  BY <1>2 DEF StoreInv, JobOwned
<1>7. DbInv(db)'
  <2>1. DbInv(db) /\ db' = db
    BY <1>1 DEF StoreInv
  <2>2. RowsTimely(db)'
    BY <1>1, <1>5, <2>1 DEF DbInv, RowsTimely
  <2>3. Provenance(db)'
    BY <1>1, <2>1 DEF DbInv, Provenance
  <2> QED
    BY <2>1, <2>2, <2>3 DEF DbInv, Audited
<1>8. status[job[c]] # "new"
  BY <1>2 DEF StoreInv, JobOwned
<1>9. \A r \in v.rows : r.job = job[c] => r.table \in Stored(c)
  BY <1>2, <1>4 DEF DbInv, RowsTimely
<1>10. CASE pc[c] = "record" /\ Kind[job[c]] = "import"
  <2> DEFINE rec == Row("record", job[c], art[c])
             bat == Row("batch", job[c], art[c])
  <2>1. Stored(c) = {"artifact"} /\ Stored(c)' = Tables
    BY <1>1, <1>3, <1>10 DEF Stored
  <2>2. /\ rec \in Rows /\ bat \in Rows /\ rec # bat
        /\ rec.table = "record" /\ rec.job = job[c] /\ rec.art = art[c]
        /\ bat.table = "batch" /\ bat.job = job[c] /\ bat.art = art[c]
    BY <1>2 DEF Rows, Row, Tables
  <2>3. rec \notin v.rows /\ bat \notin v.rows
    BY <1>9, <2>1, <2>2
  <2> DEFINE e == Store(v, rec)
  <2>4. Audited(e) /\ e.rows = v.rows \cup {rec}
    BY <1>4, <2>3, StoreKeepsAudited DEF DbInv
  <2> HIDE DEF e
  <2>5. Audited(Store(e, bat)) /\ Store(e, bat).rows = e.rows \cup {bat}
    BY <2>2, <2>3, <2>4, StoreKeepsAudited
  <2>6. draft' = Store(e, bat)
    BY <1>1, <1>10 DEF StageResult, e
  <2>7. draft'.rows = v.rows \cup {rec, bat}
    BY <2>4, <2>5, <2>6
  <2>8. Row("artifact", art[c], art[c]) \in v.rows
    BY <1>1, <1>10 DEF Cited
  <2>9. RowsTimely(draft)'
    <3> SUFFICES ASSUME NEW r \in draft'.rows
                 PROVE  /\ status'[r.job] # "new"
                        /\ \A d \in Conns : Running(d)' /\ job'[d] = r.job
                                              => r.table \in Stored(d)'
      BY DEF RowsTimely
    <3>1. CASE r \in v.rows
      BY <3>1, <1>1, <1>4, <1>5 DEF DbInv, RowsTimely
    <3>2. CASE r \in {rec, bat}
      BY <3>2, <1>1, <1>5, <1>6, <1>8, <2>1, <2>2 DEF Tables
    <3> QED
      BY <3>1, <3>2, <2>7
  <2>10. Provenance(draft)'
    BY <1>1, <1>2, <1>4, <2>2, <2>7, <2>8 DEF DbInv, Provenance
  <2>11. draft'.rows \subseteq Rows /\ Audited(draft)'
    <3>1. draft'.rows \subseteq Rows
      BY <1>4, <2>2, <2>7 DEF DbInv
    <3>2. Audited(draft')
      BY <2>5, <2>6
    <3> QED
      BY <3>1, <3>2 DEF Audited
  <2> QED
    BY <1>7, <2>9, <2>10, <2>11 DEF DbInv
<1>11. CASE ~(pc[c] = "record" /\ Kind[job[c]] = "import")
  <2> DEFINE row == Row(pc[c], job[c], art[c])
  <2>1. pc[c] \notin Stored(c) /\ pc[c] \in Stored(c)'
    BY <1>1, <1>3, <1>11 DEF Stored, Stages, Tables
  <2>2. /\ row \in Rows
        /\ row.table = pc[c] /\ row.job = job[c] /\ row.art = art[c]
    BY <1>1, <1>2 DEF Rows, Row, Stages
  <2>3. row \notin v.rows
    BY <1>9, <2>1, <2>2
  <2>4. Audited(Store(v, row)) /\ Store(v, row).rows = v.rows \cup {row}
    BY <1>4, <2>3, StoreKeepsAudited DEF DbInv
  <2>5. draft' = Store(v, row)
    BY <1>1, <1>11 DEF StageResult
  <2>6. draft'.rows = v.rows \cup {row}
    BY <2>4, <2>5
  <2>7. Row("artifact", art[c], art[c]) \in draft'.rows
    <3>1. CASE pc[c] = "artifact"
      <4>1. art[c] = job[c]
        BY <3>1, <1>2 DEF StoreInv, Captured
      <4> QED
        BY <3>1, <4>1, <2>6
    <3>2. CASE pc[c] # "artifact"
      BY <3>2, <1>1, <2>6 DEF Cited
    <3> QED
      BY <3>1, <3>2
  <2>8. pc[c] = "record" => Row("batch", job[c], art[c]) \in v.rows
    BY <1>1, <1>11 DEF Cited
  <2>9. RowsTimely(draft)'
    <3> SUFFICES ASSUME NEW r \in draft'.rows
                 PROVE  /\ status'[r.job] # "new"
                        /\ \A d \in Conns : Running(d)' /\ job'[d] = r.job
                                              => r.table \in Stored(d)'
      BY DEF RowsTimely
    <3>1. CASE r \in v.rows
      BY <3>1, <1>1, <1>4, <1>5 DEF DbInv, RowsTimely
    <3>2. CASE r = row
      BY <3>2, <1>1, <1>5, <1>6, <1>8, <2>1, <2>2
    <3> QED
      BY <3>1, <3>2, <2>6
  <2> HIDE DEF row
  <2>10. Provenance(draft)'
    BY <1>1, <1>2, <1>4, <2>2, <2>6, <2>7, <2>8 DEF DbInv, Provenance
  <2>11. draft'.rows \subseteq Rows /\ Audited(draft)'
    <3>1. draft'.rows \subseteq Rows
      BY <1>4, <2>2, <2>6 DEF DbInv
    <3>2. Audited(draft')
      BY <2>4, <2>5
    <3> QED
      BY <3>1, <3>2 DEF Audited
  <2> QED
    BY <1>7, <2>9, <2>10, <2>11 DEF DbInv
<1> QED
  BY <1>10, <1>11

LEMMA StoreInvStep == StoreInv /\ [Next]_vars => StoreInv'
<1> SUFFICES ASSUME StoreInv, [Next]_vars PROVE StoreInv'
  OBVIOUS
<1>1. Control' /\ Control /\ TxTyped
  BY ControlStep DEF Control, StoreInv, StateTyped, TxTyped
<1>2. Forward => StoreInv'
  BY <1>1, ForwardKeepsDbs DEF Control, StoreInv
<1>3. ASSUME NEW c \in Conns, NEW j \in Jobs, Start(c, j) PROVE StoreInv'
  <2>1. \A i \in Jobs : status[i] # "new" => status'[i] # "new"
    BY <1>1, <1>3 DEF Control, StateTyped, Start
  <2>2. ASSUME NEW d \in Conns, Running(d)'
        PROVE  \/ status[job'[d]] = "new"
               \/ Running(d) /\ job'[d] = job[d] /\ Stored(d) \subseteq Stored(d)'
    <3>1. CASE d = c
      BY <3>1, <1>1, <1>3 DEF Control, StateTyped, Start
    <3>2. CASE d # c
      BY <3>2, <2>2, <1>1, <1>3 DEF Control, StateTyped, Start, Running, Stored
    <3> QED
      BY <3>1, <3>2
  <2>3. db' \in {db, draft} /\ draft' \in {db, draft} /\ raw \subseteq raw'
    BY <1>3 DEF Start
  <2> QED
    BY <1>2, <2>1, <2>2, <2>3 DEF Forward
<1>4. ASSUME NEW c \in Conns, Capture(c) PROVE StoreInv'
  <2>1. /\ db' \in {db, draft} /\ draft' \in {db, draft} /\ raw \subseteq raw'
        /\ UNCHANGED <<job, inner, status>>
        /\ pc[c] = "capture" /\ inner[c] = "none"
    BY <1>1, <1>4 DEF Capture, Control, ScopeEntered, Stages, Tables
  <2>2. Running(c) /\ \A d \in Conns \ {c} : pc'[d] = pc[d]
    BY <1>1, <1>4 DEF Capture, Control, StateTyped, Running
  <2>3. \A d \in Conns : Running(d)' => Running(d)
    BY <2>2 DEF Running
  <2>4. Stored(c) = {}
    BY <2>1 DEF Stored
  <2>5. \A d \in Conns \ {c} : Stored(d)' = Stored(d)
    BY <2>1, <2>2 DEF Stored
  <2> QED
    BY <1>2, <2>1, <2>3, <2>4, <2>5 DEF Forward
<1>5. ASSUME NEW c \in Conns, Insert(c) PROVE StoreInv'
  BY <1>1, <1>5, InsertKeepsDbs DEF Control, StoreInv
<1>6. ASSUME NEW c \in Conns, LeaveInner(c) PROVE StoreInv'
  <2>1. /\ db' \in {db, draft} /\ draft' \in {db, draft} /\ raw' = raw
        /\ inner[c] # "none" /\ pc[c] \in Stages /\ Running(c)
    BY <1>1, <1>6, TxStep DEF LeaveInner, Control, ScopeEntered, Running,
       Stages, Tables
  <2>2. CASE Finish(c, "acked")
    BY <2>1, <2>2, <1>1, <1>2, FinishForward
  <2>3. CASE /\ pc' = [pc EXCEPT ![c] = NextStage(c)]
             /\ inner' = [inner EXCEPT ![c] = "none"]
             /\ UNCHANGED <<job, art, outer, status>>
    <3>1. /\ \A d \in Conns \ {c} : pc'[d] = pc[d] /\ inner'[d] = inner[d]
          /\ pc'[c] = NextStage(c) /\ inner'[c] = "none"
      BY <1>1, <2>3 DEF Control, StateTyped
    <3>2. \A d \in Conns : Running(d)' => Running(d)
      BY <2>1, <3>1 DEF Running
    <3>3. Stored(c) \subseteq Stored(c)'
      BY <1>1, <2>1, <2>3, <3>1 DEF Control, ScopeEntered, Stored, NextStage,
         Stages, Tables
    <3>4. \A d \in Conns \ {c} : Stored(d)' = Stored(d)
      BY <2>3, <3>1 DEF Stored
    <3> QED
      BY <1>2, <2>1, <2>3, <3>2, <3>3, <3>4 DEF Forward
  <2> QED
    BY <1>6, <2>2, <2>3 DEF LeaveInner
<1>7. ASSUME NEW c \in Conns, LeaveOuter(c) PROVE StoreInv'
  BY <1>1, <1>2, <1>7, TxStep, FinishForward DEF LeaveOuter, Running
<1>8. ASSUME NEW c \in Conns, CommitBusy(c) PROVE StoreInv'
  <2>1. Running(c)
    BY <1>1, <1>8 DEF CommitBusy, Control, ScopeEntered, Running, Stages,
       Tables
  <2>2. Rollback(c) \/ UNCHANGED <<db, draft>>
    BY <1>8 DEF CommitBusy
  <2>3. db' \in {db, draft} /\ draft' \in {db, draft}
    BY <1>1, <2>2, TxStep
  <2> QED
    BY <1>1, <1>2, <1>8, <2>1, <2>3, FinishForward DEF CommitBusy
<1>9. ASSUME NEW c \in Conns, Fail(c) PROVE StoreInv'
  BY <1>1, <1>2, <1>9, TxStep, FinishForward DEF Fail
<1>10. ASSUME NEW c \in Conns, Interrupt(c) PROVE StoreInv'
  BY <1>1, <1>2, <1>10, TxStep, FinishForward DEF Interrupt
<1>11. ASSUME NEW c \in Conns, Exit(c) PROVE StoreInv'
  <2>1. db' \in {db, draft} /\ draft' \in {db, draft} /\ raw' = raw
    BY <1>1, <1>11, TxStep DEF Exit
  <2>2. CASE Running(c)
    BY <2>1, <2>2, <1>1, <1>2, <1>11, FinishForward DEF Exit
  <2>3. CASE ~Running(c)
    <3>1. /\ \A d \in Conns \ {c} : pc'[d] = pc[d]
          /\ pc'[c] = "idle"
          /\ UNCHANGED <<job, inner, status>>
      BY <1>1, <1>11, <2>3 DEF Exit, Control, StateTyped
    <3>2. \A d \in Conns : Running(d)' => d # c /\ Running(d)
      BY <3>1 DEF Running
    <3>3. \A d \in Conns \ {c} : Stored(d)' = Stored(d)
      BY <3>1 DEF Stored
    <3> QED
      BY <1>2, <2>1, <3>1, <3>2, <3>3 DEF Forward
  <2> QED
    BY <2>2, <2>3
<1>12. ASSUME NEW c \in Conns, StartRead(c) \/ EndRead(c) PROVE StoreInv'
  <2>1. /\ UNCHANGED <<db, draft, raw, job, inner, status>>
        /\ pc[c] \in {"idle", "reading"} /\ pc'[c] \in {"idle", "reading"}
        /\ \A d \in Conns \ {c} : pc'[d] = pc[d]
    BY <1>1, <1>12 DEF StartRead, EndRead, Control, StateTyped
  <2>2. \A d \in Conns : Running(d)' => d # c /\ Running(d)
    BY <2>1 DEF Running
  <2>3. \A d \in Conns \ {c} : Stored(d)' = Stored(d)
    BY <2>1 DEF Stored
  <2> QED
    BY <1>2, <2>1, <2>2, <2>3 DEF Forward
<1>13. ASSUME UNCHANGED vars PROVE StoreInv'
  BY <1>2, <1>13 DEF vars, Forward, Running, Stored
<1> QED
  BY <1>3, <1>4, <1>5, <1>6, <1>7, <1>8, <1>9, <1>10, <1>11, <1>12, <1>13
     DEF Next, Step

-----------------------------------------------------------------------------
(* The theorems *)

\* StoreInv holds in every reachable state: adapters/sqlite.py,
\* adapters/audit.py and the services that write through them.
THEOREM StoreInvariant == Spec => []StoreInv
BY StoreInvInit, StoreInvStep, PTL DEF Spec

\* The state of the connections, the jobs and the store is as declared.
THEOREM StoreTypeOK == Spec => []TypeOK
<1>1. StoreInv => StateTyped
  BY DEF StoreInv
<1>2. Init => stray \in BOOLEAN
  BY DEF Init
<1>3. stray \in BOOLEAN /\ [Next]_vars => (stray \in BOOLEAN)'
  BY DEF Next, vars
<1> QED
  BY <1>1, <1>2, <1>3, StoreInvariant, PTL DEF Spec, TypeOK

LEMMA AuditedChain ==
  ASSUME NEW d, Audited(d)
  PROVE  /\ ChainValid(d.audit)
         /\ \A n \in DOMAIN d.audit : d.audit[n].row \in d.rows
         /\ \A r \in d.rows : \E n \in DOMAIN d.audit : d.audit[n].row = r
         /\ \A m, n \in DOMAIN d.audit :
              d.audit[m].row = d.audit[n].row => m = n
<1>1. PICK n \in Nat :
        /\ ChainUpTo(d.audit, n)
        /\ \A k \in 1..n : d.audit[k].row \in d.rows
        /\ \A r \in d.rows : \E k \in 1..n : d.audit[k].row = r
        /\ \A k, m \in 1..n : d.audit[k].row = d.audit[m].row => k = m
  BY DEF Audited
<1>2. LastSeq(d.audit) = n /\ DOMAIN d.audit = 1..n
  BY <1>1, LastSeqOfChain DEF ChainUpTo
<1> QED
  BY <1>1, <1>2 DEF ChainValid, ChainUpTo

\* However many connections write, fail, die or find the database busy, the
\* committed audit events are one chain without a gap: append_audit_event
\* and verify_audit_chain agree for every store.
THEOREM AuditChainHolds == Spec => []AuditChainIntact
<1>1. StoreInv => AuditChainIntact
  BY AuditedChain DEF StoreInv, DbInv, AuditChainIntact
<1> QED
  BY <1>1, StoreInvariant, PTL

\* Each committed row has exactly one committed audit event and the reverse.
THEOREM RowsAreAudited == Spec => []RowsAudited
<1>1. StoreInv => RowsAudited
  BY AuditedChain DEF StoreInv, DbInv, RowsAudited
<1> QED
  BY <1>1, StoreInvariant, PTL

\* However many connections write and fail, the audit log is one chain and tells
\* exactly the committed rows.
THEOREM AuditIsFaithful == Spec => []AuditFaithful
<1>1. AuditChainIntact /\ RowsAudited => AuditFaithful
  BY DEF AuditFaithful
<1> QED
  BY <1>1, AuditChainHolds, RowsAreAudited, PTL

\* Each committed record can be traced to its batch, its artifact and a file.
THEOREM ProvenanceIsClosed == Spec => []ProvenanceClosed
<1>1. StoreInv => ProvenanceClosed
  BY DEF StoreInv, DbInv, Provenance, ProvenanceClosed
<1> QED
  BY <1>1, StoreInvariant, PTL

-----------------------------------------------------------------------------
(* Until a transaction is left open *)

\* The transactions: the one writer's is open, its connection is running a job, and
\* what the draft has beyond the database belongs to that job.
Transactions ==
  /\ \A c \in Conns : lock[c] # "pending" /\ (lock[c] = "reserved" => intx[c])
  /\ \A c, d \in Conns : lock[c] = "reserved" /\ lock[d] = "reserved" => c = d
  /\ \A c \in Conns : ~Running(c) => ~intx[c] /\ outer[c] = "none"
  /\ db.rows \subseteq draft.rows
  /\ \A r \in draft.rows \ db.rows : \E c \in Conns : lock[c] = "reserved" /\ job[c] = r.job

\* The scopes that the services mean to open: a ledger job opens one around each
\* row, the others open the outer one, which the import's commits before its end.
Scoped(c) ==
  /\ Kind[job[c]] = "ledger" =>
       outer[c] = "none" /\ pc[c] # "outer" /\ inner[c] # "joined" /\ (intx[c] <=> inner[c] # "none")
  /\ Kind[job[c]] # "ledger" =>
       outer[c] = "owner" /\ inner[c] # "owner" /\ (intx[c] <=> Kind[job[c]] = "scoped" \/ pc[c] # "outer")
  /\ inner[c] # "none" => (inner[c] = "with" <=> UnderWith(c))

\* Whether a database has the record of job j.
Held(d, j) == \E a \in Jobs : Row("record", j, a) \in d.rows

\* What the database and the connection's view of it have of the job under way.
Progress(c) ==
  /\ \A r \in db.rows : r.job = job[c] =>
       \/ Kind[job[c]] = "ledger" /\ r.table # "record"
       \/ Kind[job[c]] = "import" /\ pc[c] = "outer"
  /\ pc[c] = "outer" \/ (pc[c] = "record" /\ inner[c] # "none") =>
       Held(Visible(c), job[c])

\* What has become of a job that is over.
Outcome(j) ==
  /\ status[j] = "acked" => RecordStored(j)
  /\ status[j] = "failed" => ~RecordStored(j)
  /\ Kind[j] # "ledger" /\ status[j] \in {"failed", "lost"} =>
       \A r \in db.rows : r.job = j => RecordStored(j)

Steady ==
  /\ Transactions
  /\ \A c \in Conns : Running(c) => Scoped(c) /\ Progress(c)
  /\ \A j \in Jobs : Outcome(j)

\* What a step of c does to the database and the locks: it commits rows of its own
\* job only, and takes nothing from what the others see.
Effect(c) ==
  /\ db.rows \subseteq db'.rows
  /\ \A r \in db'.rows \ db.rows : r.job = job[c]
  /\ \A d \in Conns \ {c} : /\ lock'[d] = lock[d] /\ intx'[d] = intx[d]
                            /\ Visible(d).rows \subseteq Visible(d)'.rows
  /\ lock'[c] # "pending"
  /\ lock'[c] = "reserved" => intx'[c] /\ \A d \in Conns \ {c} : lock[d] # "reserved"
  /\ db'.rows \subseteq draft'.rows
  /\ \A r \in draft'.rows \ db'.rows : \E d \in Conns : lock'[d] = "reserved" /\ job[d] = r.job

LEMMA TxEffect ==
  ASSUME StoreInv, Transactions, NEW c \in Conns,
         Commit(c) \/ Rollback(c) \/ UNCHANGED txvars
  PROVE  Effect(c)
<1> USE DEF Transactions, WriteLocks
<1>0. lock \in [Conns -> Locks] /\ intx \in [Conns -> BOOLEAN]
  BY DEF StoreInv, StateTyped
<1>1. CASE Commit(c)
  <2>1. /\ \A d \in Conns \ {c} : lock[d] = "none" /\ lock'[d] = "none" /\ intx'[d] = intx[d]
        /\ lock'[c] = "none" /\ db' = Visible(c) /\ draft' = Visible(c)
    BY <1>0, <1>1 DEF Commit, MayCommit
  <2>2. /\ db.rows \subseteq db'.rows /\ \A r \in db'.rows \ db.rows : r.job = job[c]
    BY <2>1 DEF Visible
  <2>3. \A d \in Conns \ {c} : Visible(d) = db /\ Visible(d)' = db'
    BY <2>1 DEF Visible
  <2> QED
    BY <2>1, <2>2, <2>3 DEF Effect
<1>2. CASE Rollback(c)
  <2>1. /\ \A d \in Conns \ {c} : lock'[d] = lock[d] /\ intx'[d] = intx[d]
        /\ lock'[c] = "none" /\ db' = db
        /\ draft' = IF lock[c] \in WriteLocks THEN db ELSE draft
    BY <1>0, <1>2 DEF Rollback
  <2>2. CASE lock[c] = "reserved"
    <3>1. draft' = db /\ \A d \in Conns \ {c} : lock[d] # "reserved" /\ lock[d] # "pending"
      BY <2>1, <2>2
    <3>2. \A d \in Conns \ {c} : Visible(d) = db /\ Visible(d)' = db
      BY <2>1, <3>1 DEF Visible
    <3> QED
      BY <2>1, <3>1, <3>2 DEF Effect
  <2>3. CASE lock[c] # "reserved"
    <3>1. draft' = draft
      BY <2>1, <2>3
    <3>2. \A d \in Conns \ {c} : Visible(d)' = Visible(d)
      BY <2>1, <3>1 DEF Visible
    <3>3. \A r \in draft'.rows \ db'.rows : \E d \in Conns : lock'[d] = "reserved" /\ job[d] = r.job
      BY <2>1, <2>3, <3>1
    <3> QED
      BY <2>1, <3>1, <3>2, <3>3 DEF Effect
  <2> QED
    BY <2>2, <2>3
<1>3. CASE UNCHANGED txvars
  <2>1. \A d \in Conns : Visible(d)' = Visible(d)
    BY <1>3 DEF txvars, Visible
  <2> QED
    BY <1>3, <2>1 DEF txvars, Effect
<1> QED
  BY <1>1, <1>2, <1>3

\* It is enough to look at the connection that steps and at its job.
LEMMA SteadyStep ==
  ASSUME StoreInv, Steady, NEW c \in Conns, Effect(c),
         \A d \in Conns \ {c} :
           pc'[d] = pc[d] /\ job'[d] = job[d] /\ inner'[d] = inner[d] /\ outer'[d] = outer[d],
         \A j \in Jobs \ {job[c], job'[c]} : status'[j] = status[j],
         lock'[c] = "reserved" => job'[c] = job[c],
         ~Running(c)' => ~intx'[c] /\ outer'[c] = "none",
         Running(c)' => Scoped(c)' /\ Progress(c)',
         \A j \in Jobs \cap {job[c], job'[c]} : Outcome(j)'
  PROVE  Steady'
<1>1. Transactions'
  <2>1. \A d \in Conns : lock'[d] # "pending" /\ (lock'[d] = "reserved" => intx'[d])
    BY DEF Steady, Transactions, Effect
  <2>2. \A d, e \in Conns : lock'[d] = "reserved" /\ lock'[e] = "reserved" => d = e
    BY DEF Steady, Transactions, Effect
  <2>3. \A d \in Conns : ~Running(d)' => ~intx'[d] /\ outer'[d] = "none"
    BY DEF Steady, Transactions, Effect, Running
  <2>4. \A r \in draft'.rows \ db'.rows : \E d \in Conns : lock'[d] = "reserved" /\ job'[d] = r.job
    BY DEF Effect
  <2> QED
    BY <2>1, <2>2, <2>3, <2>4 DEF Transactions, Effect
<1>2. ASSUME NEW d \in Conns \ {c}, Running(d)' PROVE Scoped(d)' /\ Progress(d)'
  <2>1. Running(d) /\ Scoped(d) /\ Progress(d) /\ UnderWith(d)' = UnderWith(d)
    BY <1>2 DEF Steady, Running, UnderWith
  <2>2. job[d] # job[c]
    BY <2>1 DEF StoreInv, JobOwned
  <2>3. Scoped(d)'
    BY <2>1 DEF Scoped, Effect
  <2>4. \A r \in db'.rows : r.job = job[d] => r \in db.rows
    BY <2>2 DEF Effect
  <2>5. Visible(d).rows \subseteq Visible(d)'.rows
    BY DEF Effect
  <2>6. Progress(d)'
    <3>1. \A r \in db'.rows : r.job = job'[d] =>
            \/ Kind[job'[d]] = "ledger" /\ r.table # "record"
            \/ Kind[job'[d]] = "import" /\ pc'[d] = "outer"
      BY <2>1, <2>4 DEF Progress
    <3>2. pc'[d] = "outer" \/ (pc'[d] = "record" /\ inner'[d] # "none") =>
            Held(Visible(d)', job'[d])
      BY <2>1, <2>5 DEF Progress, Held
    <3> QED
      BY <3>1, <3>2 DEF Progress, Held
  <2> QED
    BY <2>3, <2>6
<1>3. ASSUME NEW j \in Jobs \ {job[c], job'[c]} PROVE Outcome(j)'
  <2>1. \A r \in db'.rows : r.job = j => r \in db.rows
    BY <1>3 DEF Effect
  <2>2. \A a \in Jobs : Row("record", j, a).job = j
    BY DEF Row
  <2>3. RecordStored(j)' <=> RecordStored(j)
    BY <2>1, <2>2 DEF RecordStored, Effect
  <2>4. status'[j] = status[j] /\ Outcome(j)
    BY <1>3 DEF Steady
  <2> QED
    BY <2>1, <2>3, <2>4 DEF Outcome
<1> QED
  BY <1>1, <1>2, <1>3 DEF Steady

\* A job ends: what is left to show is what its caller was told.
LEMMA SteadyFinish ==
  ASSUME StoreInv, Steady, NEW c \in Conns, Running(c), NEW j \in Jobs, job[c] = j,
         Commit(c) \/ Rollback(c) \/ UNCHANGED txvars, ~intx'[c],
         NEW o \in {"acked", "failed", "lost"}, Finish(c, o),
         o = "acked" => Held(db', j),
         o = "failed" => ~Held(db', j),
         Kind[j] # "ledger" /\ o \in {"failed", "lost"} =>
           \A r \in db'.rows : r.job = j => Held(db', j)
  PROVE  Steady'
<1> USE StoreAssumption
<1>1. StateTyped
  BY DEF StoreInv
<1>2. /\ pc'[c] = "idle" /\ job'[c] = NoJob /\ outer'[c] = "none" /\ status'[j] = o
      /\ \A d \in Conns \ {c} :
           pc'[d] = pc[d] /\ job'[d] = job[d] /\ inner'[d] = inner[d] /\ outer'[d] = outer[d]
      /\ \A i \in Jobs \ {job[c], job'[c]} : status'[i] = status[i]
  BY <1>1 DEF Finish, StateTyped
<1>3. Effect(c)
  BY TxEffect DEF Steady
<1>4. lock'[c] # "reserved" /\ ~Running(c)'
  BY <1>2, <1>3 DEF Effect, Running
<1>5. Outcome(j)'
  <2>1. Held(db', j) <=> RecordStored(j)'
    BY DEF Held, RecordStored
  <2> QED
    BY <1>2, <2>1 DEF Outcome
<1>6. \A i \in Jobs \cap {job[c], job'[c]} : Outcome(i)'
  BY <1>2, <1>5
<1> QED
  BY <1>2, <1>3, <1>4, <1>6, SteadyStep

\* Before its last commit a job has nothing in the database that it must not leave.
LEMMA Unfinished ==
  ASSUME StoreInv, Steady, NEW c \in Conns, Running(c), NEW j \in Jobs, job[c] = j
  PROVE  /\ ~(Kind[j] = "import" /\ pc[c] = "outer") => ~Held(db, j)
         /\ Kind[j] # "ledger" => \A r \in db.rows : r.job = j => Held(db, j)
<1>1. Scoped(c) /\ Progress(c)
  BY DEF Steady
<1>2. \A a \in Jobs : Row("record", j, a).job = j /\ Row("record", j, a).table = "record"
  BY DEF Row
<1>3. ASSUME ~(Kind[j] = "import" /\ pc[c] = "outer") PROVE ~Held(db, j)
  BY <1>1, <1>2, <1>3 DEF Progress, Held
<1>4. ASSUME Kind[j] # "ledger", NEW r \in db.rows, r.job = j PROVE Held(db, j)
  <2>1. Kind[j] = "import" /\ pc[c] = "outer"
    BY <1>1, <1>4 DEF Progress
  <2>2. ~intx[c]
    BY <1>1, <2>1 DEF Scoped
  <2>3. Visible(c) = db
    BY <2>2 DEF Steady, Transactions, Visible, WriteLocks
  <2> QED
    BY <1>1, <2>1, <2>3 DEF Progress
<1> QED
  BY <1>3, <1>4

\* A job ends without a commit.
LEMMA SteadyAbort ==
  ASSUME StoreInv, Steady, NEW c \in Conns, Running(c),
         Rollback(c) \/ UNCHANGED txvars, ~intx'[c],
         NEW o \in {"failed", "lost"}, Finish(c, o),
         o = "failed" => ~(Kind[job[c]] = "import" /\ pc[c] = "outer")
  PROVE  Steady'
<1>1. PICK j \in Jobs : job[c] = j
  BY DEF StoreInv, StateTyped, JobOwned
<1>2. db' = db
  BY DEF Rollback, txvars
<1>3. /\ o = "failed" => ~Held(db', j)
      /\ Kind[j] # "ledger" => \A r \in db'.rows : r.job = j => Held(db', j)
  BY <1>1, <1>2, Unfinished
<1> QED
  BY <1>1, <1>3, SteadyFinish

\* The actions that end a job without a commit.
LEMMA SteadyUnwound ==
  ASSUME StoreInv, Steady, NEW c \in Conns, pc'[c] = "idle" => ~intx'[c],
         CommitBusy(c) \/ Fail(c) \/ Interrupt(c) \/ (Exit(c) /\ Running(c))
  PROVE  Steady'
<1> USE DEF Running
<1>1. Running(c)
  BY DEF StoreInv, ScopeEntered, CommitBusy, Fail, Interrupt, Stages, Tables
<1>2. Scoped(c) /\ (Kind[job[c]] = "import" => Kind[job[c]] # "ledger")
  BY <1>1 DEF Steady
<1>3. \A o : Finish(c, o) => ~intx'[c]
  BY DEF Finish, StoreInv, StateTyped
<1>4. CASE CommitBusy(c)
  <2>1. Finish(c, "failed") /\ ~intx'[c]
    BY <1>3, <1>4 DEF CommitBusy
  <2>2. ~(Kind[job[c]] = "import" /\ pc[c] = "outer")
    BY <1>1, <1>2, <1>4 DEF CommitBusy, Scoped, StoreInv, ScopeEntered, Stages, Tables
  <2>3. CASE Rollback(c)
    BY <1>1, <2>1, <2>2, <2>3, SteadyAbort
  <2>4. CASE ~Rollback(c)
    <3>1. intx' = intx /\ (inner[c] = "owner" \/ (pc[c] = "outer" /\ intx[c]))
      BY <1>4, <2>4 DEF CommitBusy
    <3>2. intx[c]
      BY <1>2, <3>1 DEF Scoped, StoreInv, ScopeEntered, Stages, Tables
    <3> QED
      BY <2>1, <3>1, <3>2
  <2> QED
    BY <2>3, <2>4
<1>5. CASE Fail(c)
  <2>1. (Rollback(c) \/ UNCHANGED txvars) /\ Finish(c, "failed") /\ pc[c] # "outer"
    BY <1>5 DEF Fail, Unwind
  <2> QED
    BY <1>1, <1>3, <2>1, SteadyAbort
<1>6. CASE Interrupt(c)
  <2>1. (Rollback(c) \/ UNCHANGED txvars) /\ Finish(c, "lost")
    BY <1>6 DEF Interrupt, Unwind
  <2> QED
    BY <1>1, <1>3, <2>1, SteadyAbort
<1>7. CASE Exit(c) /\ Running(c)
  <2>1. Rollback(c) /\ Finish(c, "lost")
    BY <1>7 DEF Exit
  <2> QED
    BY <1>1, <1>3, <2>1, SteadyAbort
<1> QED
  BY <1>4, <1>5, <1>6, <1>7

\* The service enters its scope.
LEMMA SteadyStart ==
  ASSUME StoreInv, Steady, NEW c \in Conns, NEW i \in Jobs, Start(c, i)
  PROVE  Steady'
<1> USE StoreAssumption
<1>1. StateTyped /\ ~Running(c) /\ job[c] = NoJob /\ inner[c] = "none"
      /\ ~intx[c] /\ outer[c] = "none" /\ lock[c] # "reserved"
  BY DEF StoreInv, JobOwned, ScopeEntered, Steady, Transactions, Start, Running, Stages, Tables
<1>2. /\ pc'[c] = "capture" /\ job'[c] = i /\ inner'[c] = "none" /\ status'[i] = "running"
      /\ \A d \in Conns \ {c} :
           pc'[d] = pc[d] /\ job'[d] = job[d] /\ inner'[d] = inner[d] /\ outer'[d] = outer[d]
      /\ \A j \in Jobs \ {job[c], job'[c]} : status'[j] = status[j]
      /\ UNCHANGED <<db, draft, lock>> /\ \A d \in Conns \ {c} : intx'[d] = intx[d]
  BY <1>1 DEF Start, StateTyped
<1>3. /\ Kind[i] = "ledger" => outer'[c] = "none" /\ ~intx'[c]
      /\ Kind[i] # "ledger" => outer'[c] = "owner" /\ intx'[c]
  BY <1>1 DEF Start, StateTyped, EnterScope
<1>4. Effect(c)
  <2>1. \A d \in Conns : Visible(d)' = Visible(d)
    BY <1>2 DEF Visible
  <2>2. lock'[c] # "pending" /\ lock'[c] # "reserved"
    BY <1>1, <1>2 DEF Steady, Transactions
  <2> QED
    BY <1>2, <2>1, <2>2 DEF Effect, Steady, Transactions
<1>5. Running(c)'
  BY <1>2 DEF Running
<1>6. Scoped(c)'
  <2>1. ~UnderWith(c)'
    BY <1>2 DEF UnderWith
  <2> QED
    BY <1>2, <1>3, <2>1 DEF Scoped
<1>7. Progress(c)'
  <2>1. \A r \in db.rows : r.job # i
    BY DEF StoreInv, DbInv, RowsTimely, Start
  <2> QED
    BY <1>2, <2>1 DEF Progress
<1>8. Outcome(i)'
  BY <1>2 DEF Outcome
<1>9. \A j \in Jobs \cap {job[c], job'[c]} : Outcome(j)'
  BY <1>1, <1>2, <1>8
<1>10. lock'[c] # "reserved"
  BY <1>1, <1>2
<1> QED
  BY <1>2, <1>4, <1>5, <1>6, <1>7, <1>9, <1>10, SteadyStep

\* The artifact is looked for.
LEMMA SteadyCapture ==
  ASSUME StoreInv, Steady, NEW c \in Conns, Capture(c)
  PROVE  Steady'
<1> USE StoreAssumption
<1>1. StateTyped /\ Running(c) /\ pc[c] = "capture" /\ inner[c] = "none"
  BY DEF StoreInv, ScopeEntered, Capture, Running, Stages, Tables
<1>2. /\ \A d \in Conns \ {c} : pc'[d] = pc[d] /\ lock'[d] = lock[d]
      /\ UNCHANGED <<db, draft, intx, job, outer, inner, status>>
      /\ lock'[c] = lock[c] \/ (lock[c] = "none" /\ lock'[c] = "shared")
  BY <1>1 DEF Capture, StateTyped
<1>3. pc'[c] \in {"artifact", "batch", "record"}
  BY <1>1 DEF Capture, StateTyped, NextStage
<1>4. Effect(c)
  <2>1. \A d \in Conns : Visible(d)' = Visible(d)
    BY <1>2 DEF Visible, WriteLocks
  <2>2. \A d \in Conns : lock'[d] = "reserved" <=> lock[d] = "reserved"
    BY <1>2
  <2>3. lock'[c] # "pending"
    BY <1>2 DEF Steady, Transactions
  <2>4. lock'[c] = "reserved" => intx'[c] /\ \A d \in Conns \ {c} : lock[d] # "reserved"
    BY <1>2, <2>2 DEF Steady, Transactions
  <2> QED
    BY <1>2, <2>1, <2>2, <2>3, <2>4 DEF Effect, Steady, Transactions
<1>5. Scoped(c) /\ Progress(c)
  BY <1>1 DEF Steady
<1>6. Scoped(c)'
  BY <1>1, <1>2, <1>3, <1>5 DEF Scoped
<1>7. Progress(c)'
  BY <1>1, <1>2, <1>3, <1>5 DEF Progress
<1>8. Running(c)' /\ \A j \in Jobs : status'[j] = status[j]
  BY <1>2, <1>3 DEF Running
<1>9. \A j \in Jobs \cap {job[c], job'[c]} : Outcome(j)'
  BY <1>2 DEF Outcome, RecordStored, Steady
<1> QED
  BY <1>2, <1>4, <1>6, <1>7, <1>8, <1>9, SteadyStep

\* The one writer inserts rows of its own job.
LEMMA SteadyInsert ==
  ASSUME StoreInv, Steady, NEW c \in Conns, Insert(c)
  PROVE  Steady'
<1> USE StoreAssumption
<1>1. /\ StateTyped /\ Running(c) /\ pc[c] \in Stages /\ inner[c] = "none"
      /\ job[c] \in Jobs /\ art[c] \in Jobs
  BY DEF StoreInv, JobOwned, Captured, StateTyped, Insert, Running, Stages, Tables
<1>2. Scoped(c) /\ Progress(c) /\ Transactions
  BY <1>1 DEF Steady
<1>3. /\ UNCHANGED <<db, pc, job, outer, status>>
      /\ \A d \in Conns \ {c} :
           lock'[d] = lock[d] /\ intx'[d] = intx[d] /\ inner'[d] = inner[d]
      /\ lock'[c] = "reserved" /\ intx'[c]
      /\ inner'[c] = IF UnderWith(c) THEN "with" ELSE EnterScope(c)
  BY <1>1, <1>2 DEF Insert, StateTyped, Transactions
<1>4. \A d \in Conns \ {c} : lock[d] # "reserved" /\ lock[d] # "pending"
  BY DEF Insert, MayWrite, WriteLocks
<1>5. /\ Visible(c).rows \subseteq draft'.rows
      /\ \A r \in draft'.rows \ Visible(c).rows : r.job = job[c]
      /\ pc[c] = "record" => Row("record", job[c], art[c]) \in draft'.rows
  <2>1. draft' = StageResult(c, Visible(c))
    BY DEF Insert
  <2>2. /\ draft'.rows \subseteq Visible(c).rows \cup
             {Row(t, job[c], art[c]) : t \in {"record", "batch", pc[c]}}
        /\ Visible(c).rows \subseteq draft'.rows
        /\ pc[c] = "record" => Row("record", job[c], art[c]) \in draft'.rows
    BY <2>1 DEF StageResult, Store
  <2>3. \A t : Row(t, job[c], art[c]).job = job[c]
    BY DEF Row
  <2> QED
    BY <2>2, <2>3
<1>6. db.rows \subseteq Visible(c).rows /\ \A r \in Visible(c).rows \ db.rows : r.job = job[c]
  BY <1>2, <1>4 DEF Transactions, Visible, WriteLocks
<1>7. Effect(c)
  <2>1. \A d \in Conns \ {c} : Visible(d) = db /\ Visible(d)' = db'
    BY <1>3, <1>4 DEF Visible, WriteLocks
  <2>2. db'.rows \subseteq draft'.rows
    BY <1>3, <1>5, <1>6
  <2>3. \A r \in draft'.rows \ db'.rows : r.job = job[c]
    BY <1>3, <1>5, <1>6
  <2> QED
    BY <1>3, <1>4, <2>1, <2>2, <2>3 DEF Effect
<1>8. UnderWith(c)' = UnderWith(c)
  BY <1>3 DEF UnderWith
<1>9. Scoped(c)'
  <2>1. pc[c] # "outer" /\ inner'[c] # "none"
    BY <1>1, <1>3 DEF EnterScope, Stages, Tables
  <2>2. inner'[c] = "with" <=> UnderWith(c)'
    BY <1>3, <1>8 DEF EnterScope
  <2>3. Kind[job[c]] = "ledger" => inner'[c] # "joined"
    BY <1>1, <1>2, <1>3 DEF Scoped, EnterScope
  <2>4. Kind[job[c]] # "ledger" => inner'[c] # "owner"
    BY <1>1, <1>2, <1>3, <2>1 DEF Scoped, EnterScope
  <2> QED
    BY <1>2, <1>3, <2>1, <2>2, <2>3, <2>4 DEF Scoped
<1>10. Progress(c)'
  <2>1. Visible(c)' = draft'
    BY <1>3 DEF Visible, WriteLocks
  <2>2. pc[c] = "record" => Held(Visible(c)', job[c])
    BY <1>1, <1>5, <2>1 DEF Held
  <2> QED
    BY <1>1, <1>2, <1>3, <2>2 DEF Progress, Stages, Tables
<1>11. Running(c)'
  BY <1>1, <1>3 DEF Running
<1>12. \A j \in Jobs \cap {job[c], job'[c]} : Outcome(j)'
  BY <1>3 DEF Outcome, RecordStored, Steady
<1> QED
  BY <1>3, <1>7, <1>9, <1>10, <1>11, <1>12, SteadyStep

\* The innermost scope ends: a row is committed, or left to the scope around it.
LEMMA SteadyLeaveInner ==
  ASSUME StoreInv, Steady, NEW c \in Conns, LeaveInner(c),
         pc'[c] = "idle" => ~intx'[c]
  PROVE  Steady'
<1> USE StoreAssumption
<1>1. PICK j \in Jobs : job[c] = j /\ Running(c) /\ pc[c] \in Stages
  BY DEF StoreInv, StateTyped, JobOwned, ScopeEntered, LeaveInner, Running, Stages, Tables
<1>2. /\ StateTyped /\ Scoped(c) /\ Progress(c) /\ Transactions /\ inner[c] # "none"
      /\ DbInv(Visible(c))
  BY <1>1 DEF Steady, StoreInv, LeaveInner, Visible
<1>3. Effect(c) /\ (Commit(c) \/ UNCHANGED txvars)
  BY TxEffect DEF Steady, LeaveInner
<1>4. CASE NextStage(c) = "outer" /\ outer[c] = "none"
  <2>1. pc[c] = "record"
    BY <1>1, <1>4 DEF NextStage, Stages, Tables
  <2>2. Finish(c, "acked")
    BY <1>4 DEF LeaveInner
  <2>3. ~intx'[c]
    BY <1>2, <2>2 DEF Finish, StateTyped
  <2>4. inner[c] # "joined"
    BY <1>1, <1>2, <1>4 DEF Scoped
  <2>5. Commit(c) /\ Held(Visible(c), j)
    BY <1>1, <1>2, <2>1, <2>4 DEF LeaveInner, Progress
  <2>6. Held(db', j)
    BY <2>5 DEF Commit
  <2> QED
    BY <1>1, <2>2, <2>3, <2>5, <2>6, SteadyFinish
<1>5. CASE NextStage(c) # "outer" \/ outer[c] # "none"
  <2>1. /\ pc'[c] = NextStage(c) /\ inner'[c] = "none"
        /\ \A d \in Conns \ {c} : pc'[d] = pc[d] /\ inner'[d] = inner[d]
        /\ UNCHANGED <<job, outer, status>>
    BY <1>2, <1>5 DEF LeaveInner, StateTyped
  <2>2. NextStage(c) = IF pc[c] = "record" THEN "outer"
                       ELSE IF pc[c] = "artifact" /\ Kind[j] # "import" THEN "batch"
                       ELSE "record"
    BY <1>1 DEF NextStage, Stages, Tables
  <2>3. Running(c)' /\ pc[c] # "outer" /\ pc[c] # "capture"
    BY <1>1, <2>1, <2>2 DEF Running, Stages, Tables
  <2>4. lock'[c] = "reserved" => job'[c] = job[c]
    BY <2>1
  <2>5. CASE inner[c] = "joined"
    <3>1. UNCHANGED txvars /\ Kind[j] # "ledger"
      BY <1>1, <1>2, <2>5 DEF LeaveInner, Commit, Scoped
    <3>2. /\ intx'[c] = intx[c] /\ db' = db /\ Visible(c)' = Visible(c)
      BY <3>1 DEF txvars, Visible
    <3>3. pc[c] = "record" => Kind[j] = "scoped" /\ Held(Visible(c), j)
      BY <1>1, <1>2, <2>5, <3>1 DEF Scoped, UnderWith, Progress
    <3>4. Scoped(c)'
      BY <1>1, <1>2, <2>1, <2>2, <2>3, <3>1, <3>2, <3>3 DEF Scoped, Kinds
    <3>5. Progress(c)'
      BY <1>1, <1>2, <2>1, <2>2, <2>3, <3>1, <3>2, <3>3 DEF Progress, Held
    <3>6. Outcome(j)'
      BY <2>1, <3>2 DEF Steady, Outcome, RecordStored
    <3> QED
      BY <1>1, <1>3, <2>1, <2>3, <2>4, <3>4, <3>5, <3>6, SteadyStep
  <2>6. CASE inner[c] # "joined"
    <3>1. Commit(c)
      BY <2>6 DEF LeaveInner
    <3>2. ~intx'[c] /\ db' = Visible(c) /\ Visible(c)' = db'
      BY <1>2, <3>1 DEF Commit, StateTyped, Visible, WriteLocks
    <3>3. CASE Kind[j] = "ledger"
      <4>1. pc[c] # "record" /\ pc'[c] \in {"batch", "record"}
        BY <1>1, <1>2, <1>5, <2>1, <2>2, <2>3, <3>3 DEF Scoped
      <4>2. \A r \in db'.rows : r.job = j => r.table \in Stored(c)
        BY <1>1, <1>2, <3>2 DEF DbInv, RowsTimely
      <4>3. \A r \in db'.rows : r.job = j => r.table # "record"
        BY <1>1, <1>2, <4>1, <4>2 DEF Stored, Stages, Tables
      <4>4. Scoped(c)'
        BY <1>1, <1>2, <2>1, <3>2, <3>3, <4>1 DEF Scoped
      <4>5. Progress(c)'
        BY <1>1, <2>1, <3>3, <4>1, <4>3 DEF Progress
      <4>6. Outcome(j)'
        BY <1>1, <2>1 DEF StoreInv, JobOwned, Outcome
      <4> QED
        BY <1>1, <1>3, <2>1, <2>3, <2>4, <4>4, <4>5, <4>6, SteadyStep
    <3>4. CASE Kind[j] # "ledger"
      <4>1. Kind[j] = "import" /\ pc[c] = "record" /\ outer[c] = "owner"
        BY <1>1, <1>2, <2>6, <3>4 DEF Scoped, UnderWith, Scopes, StateTyped, Kinds
      <4>2. pc'[c] = "outer" /\ Held(db', j)
        BY <1>1, <1>2, <2>1, <2>2, <3>2, <4>1 DEF Progress
      <4>3. Scoped(c)'
        BY <1>1, <2>1, <3>2, <4>1, <4>2 DEF Scoped
      <4>4. Progress(c)'
        BY <1>1, <2>1, <3>2, <4>1, <4>2 DEF Progress, Held
      <4>5. Outcome(j)'
        BY <1>1, <2>1 DEF StoreInv, JobOwned, Outcome
      <4> QED
        BY <1>1, <1>3, <2>1, <2>3, <2>4, <4>3, <4>4, <4>5, SteadyStep
    <3> QED
      BY <3>3, <3>4
  <2> QED
    BY <2>5, <2>6
<1> QED
  BY <1>4, <1>5

\* The scope around the job ends, and with it the job.
LEMMA SteadyLeaveOuter ==
  ASSUME StoreInv, Steady, NEW c \in Conns, LeaveOuter(c),
         pc'[c] = "idle" => ~intx'[c]
  PROVE  Steady'
<1>1. PICK j \in Jobs : job[c] = j /\ Running(c) /\ pc[c] = "outer"
  BY DEF StoreInv, StateTyped, JobOwned, LeaveOuter, Running
<1>2. Scoped(c) /\ Held(Visible(c), j)
  BY <1>1 DEF Steady, Progress
<1>3. Finish(c, "acked") /\ ~intx'[c]
  BY DEF LeaveOuter, Finish, StoreInv, StateTyped
<1>4. CASE Commit(c)
  <2>1. Held(db', j)
    BY <1>2, <1>4 DEF Commit
  <2> QED
    BY <1>1, <1>3, <1>4, <2>1, SteadyFinish
<1>5. CASE UNCHANGED txvars /\ ~intx[c]
  <2>1. Visible(c) = db /\ db' = db
    BY <1>5 DEF Steady, Transactions, Visible, WriteLocks, txvars
  <2>2. Held(db', j)
    BY <1>2, <2>1
  <2> QED
    BY <1>1, <1>3, <1>5, <2>2, SteadyFinish
<1>6. outer[c] # "joined"
  BY <1>2 DEF Scoped
<1> QED
  BY <1>4, <1>5, <1>6 DEF LeaveOuter

\* The steps of a connection that runs no job.
LEMMA SteadyAside ==
  ASSUME StoreInv, Steady, NEW c \in Conns, ~Running(c),
         StartRead(c) \/ EndRead(c) \/ Exit(c)
  PROVE  Steady'
<1> USE StoreAssumption
<1>1. /\ StateTyped /\ Transactions /\ job[c] = NoJob
      /\ ~intx[c] /\ outer[c] = "none" /\ lock[c] # "reserved" /\ lock[c] # "pending"
  BY DEF StoreInv, JobOwned, Steady, Transactions
<1>2. /\ pc'[c] \in {"idle", "reading"}
      /\ \A d \in Conns \ {c} : pc'[d] = pc[d] /\ lock'[d] = lock[d] /\ intx'[d] = intx[d]
      /\ lock'[c] \in {"none", "shared"} /\ ~intx'[c]
      /\ UNCHANGED <<db, draft, job, outer, inner, status>>
  BY <1>1 DEF StateTyped, StartRead, EndRead, Exit, Rollback, WriteLocks
<1>3. Effect(c)
  <2>1. \A d \in Conns \ {c} : Visible(d)' = Visible(d)
    BY <1>2 DEF Visible
  <2>2. \A d \in Conns : lock[d] = "reserved" => lock'[d] = "reserved"
    BY <1>1, <1>2
  <2> QED
    BY <1>1, <1>2, <2>1, <2>2 DEF Effect, Transactions
<1>4. ~Running(c)' /\ outer'[c] = "none" /\ lock'[c] # "reserved"
  BY <1>1, <1>2 DEF Running
<1>5. \A j \in Jobs \cap {job[c], job'[c]} : Outcome(j)'
  BY <1>1, <1>2
<1> QED
  BY <1>2, <1>3, <1>4, <1>5, SteadyStep

\* As long as no transaction has been left open, each step keeps Steady.
LEMMA SteadyInvStep ==
  StoreInv /\ (~stray => Steady) /\ [Next]_vars => (~stray => Steady)'
<1> SUFFICES ASSUME StoreInv, ~stray => Steady, [Next]_vars, ~stray' PROVE Steady'
  OBVIOUS
<1>1. CASE UNCHANGED vars
  BY <1>1 DEF vars, Steady, Transactions, Scoped, UnderWith, Progress, Visible, Held,
     Outcome, RecordStored, Running
<1>2. ASSUME NEW c \in Conns, Step(c), stray' = (stray \/ LeftOpen') PROVE Steady'
  <2>1. Steady /\ (pc'[c] = "idle" => ~intx'[c])
    BY <1>2 DEF LeftOpen
  <2>2. CASE Running(c)
    <3>1. ~(StartRead(c) \/ EndRead(c)) /\ \A j \in Jobs : ~Start(c, j)
      BY <2>2 DEF Running, StartRead, EndRead, Start
    <3> QED
      BY <1>2, <2>1, <2>2, <3>1, SteadyCapture, SteadyInsert, SteadyLeaveInner,
         SteadyLeaveOuter, SteadyUnwound DEF Step
  <2>3. CASE ~Running(c)
    BY <1>2, <2>1, <2>3, SteadyStart, SteadyCapture, SteadyInsert, SteadyLeaveInner,
       SteadyLeaveOuter, SteadyUnwound, SteadyAside DEF Step
  <2> QED
    BY <2>2, <2>3
<1> QED
  BY <1>1, <1>2 DEF Next

\* In the beginning there is no transaction and no job.
LEMMA SteadyInit == Init => Steady
BY DEF Init, Steady, Transactions, Running, Outcome, EmptyDb

\* Until a refused commit or an interrupt leaves a transaction open, no connection
\* has one without a job, and each job's rows are where its caller is told they are:
\* write_transaction(), "with self.db" and the services of application/.
THEOREM SteadyUntilLeftOpen == Spec => [](~stray => Steady)
<1>1. Init => (~stray => Steady)
  BY SteadyInit
<1> QED
  BY <1>1, StoreInvariant, SteadyInvStep, PTL DEF Spec

\* Until then what a caller was told of its write is true of the database for ever,
\* for any number of connections and jobs.
THEOREM OutcomesAreTrue == Spec => []OutcomesTrue
<1>1. (~stray => Steady) => OutcomesTrue
  BY DEF Steady, Outcome, OutcomesTrue
<1> QED
  BY <1>1, SteadyUntilLeftOpen, PTL

\* Until then a write that is scoped as a whole is all or nothing, whoever fails,
\* dies or finds the database busy.
THEOREM ScopedWritesAreAtomic == Spec => []ScopedWritesAtomic
<1>1. (~stray => Steady) => ScopedWritesAtomic
  BY DEF Steady, Outcome, ScopedWritesAtomic, Debris
<1> QED
  BY <1>1, SteadyUntilLeftOpen, PTL

=============================================================================
