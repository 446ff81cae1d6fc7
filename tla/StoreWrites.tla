----------------------------- MODULE StoreWrites -----------------------------
(***************************************************************************)
(* How a canonical write reaches the database of a CLAUSULA_HOME           *)
(* (clausula/adapters/sqlite.py, adapters/audit.py and the services of     *)
(* application/ that call them).                                           *)
(*                                                                         *)
(* Every write stores an artifact (the bytes it came from), an import      *)
(* batch that cites the artifact and a record that cites the batch, and    *)
(* appends one audit event per row.  The services wrap the three stores in *)
(* transaction scopes in three ways, the KIND of a job:                    *)
(*   ledger   no outer scope: artifact, batch and record each commit       *)
(*   scoped   write_transaction() around all three                         *)
(*   import   write_transaction() around the artifact and add_import(),    *)
(*            which stores batch and records under "with self.db"          *)
(* The two scopes differ: write_transaction() joins a transaction that is  *)
(* already open and then neither commits nor rolls back; "with self.db"    *)
(* always ends the transaction of the connection, whoever opened it.       *)
(*                                                                         *)
(* Connections belong to different processes (daemon, CLI, SDK) and follow *)
(* the locking of SQLite in its default rollback-journal mode: any number  *)
(* of SHARED locks, one RESERVED lock for the first statement that writes, *)
(* and a COMMIT that needs all other locks gone or fails with "database is *)
(* locked", leaving the transaction open and its lock PENDING.             *)
(***************************************************************************)
EXTENDS Naturals

CONSTANTS Conns,        \* database connections, one per process
          Jobs,         \* the writes requested, each at most once
          Kind,         \* Kind[j]: how the service scopes job j
          Digest,       \* Digest[j]: the content hash of j's artifact
          NoJob, Genesis,
          Interactive   \* can KeyboardInterrupt reach a job (an SDK session)?

Kinds == {"ledger", "scoped", "import"}

ASSUME StoreAssumption ==
  /\ Kind \in [Jobs -> Kinds]
  /\ NoJob \notin Jobs
  /\ Interactive \in BOOLEAN

Digests == {Digest[j] : j \in Jobs}
Tables == {"artifact", "batch", "record"}

\* A row of job job, citing the artifact that job art captured.
Rows == [table : Tables, job : Jobs, art : Jobs]
Row(t, j, a) == [table |-> t, job |-> j, art |-> a]
ASSUME GenesisAssumption == Genesis \notin Rows

VARIABLES
  db,      \* the committed database: its rows and its audit_events table
  draft,   \* what the connection with uncommitted writes sees
  raw,     \* digests of the files under home/raw
  lock,    \* the SQLite lock of each connection
  intx,    \* sqlite3's in_transaction of each connection
  pc,      \* where each connection is in its job
  job,     \* the job each connection is running
  art,     \* the artifact that job cites
  outer,   \* how it entered the scope around the job
  inner,   \* how it entered the scope of the row it has just inserted
  status,  \* what the caller of each job knows
  stray    \* history: has a job ever ended and left its transaction open?

txvars == <<db, draft, lock, intx>>
vars == <<db, draft, raw, lock, intx, pc, job, art, outer, inner, status,
          stray>>

Stages == Tables
Pcs == Stages \cup {"idle", "reading", "capture", "outer"}
Locks == {"none", "shared", "reserved", "pending"}
WriteLocks == {"reserved", "pending"}
Scopes == {"none", "joined", "owner", "with"}

-----------------------------------------------------------------------------
(* audit_events, a table with primary key sequence *)

LastSeq(audit) ==
  IF DOMAIN audit = {}
    THEN 0
    ELSE CHOOSE n \in DOMAIN audit : \A m \in DOMAIN audit : m <= n

\* The hash of the last event; the hash covers the object of the event, and
\* two events of one store have different objects, so the row stands for it.
HeadHash(audit) ==
  IF DOMAIN audit = {} THEN Genesis ELSE audit[LastSeq(audit)].row

\* append_audit_event.
AppendEvent(audit, row) ==
  [n \in DOMAIN audit \cup {LastSeq(audit) + 1} |->
     IF n = LastSeq(audit) + 1
       THEN [row |-> row, previous |-> HeadHash(audit)]
       ELSE audit[n]]

\* verify_audit_chain.
ChainValid(audit) ==
  /\ DOMAIN audit = 1..LastSeq(audit)
  /\ \A n \in DOMAIN audit :
       audit[n].previous = IF n = 1 THEN Genesis ELSE audit[n - 1].row

EmptyDb == [rows |-> {}, audit |-> [n \in {} |-> Genesis]]

\* Mutant: the previous hash is read outside of the transaction that writes.
StoreStaleHead(d, row) ==
  [rows |-> d.rows \cup {row},
   audit |-> [n \in DOMAIN d.audit \cup {LastSeq(d.audit) + 1} |->
                IF n = LastSeq(d.audit) + 1
                  THEN [row |-> row, previous |-> HeadHash(db.audit)]
                  ELSE d.audit[n]]]

Store(d, row) ==
  [rows |-> d.rows \cup {row}, audit |-> AppendEvent(d.audit, row)]

-----------------------------------------------------------------------------
(* Transactions and locks of the connections *)

Visible(c) == IF lock[c] \in WriteLocks THEN draft ELSE db

\* A new SHARED lock is refused while another connection waits to commit.
MayRead(c) == \A d \in Conns \ {c} : lock[d] # "pending"
MayWrite(c) == \A d \in Conns \ {c} : lock[d] \notin WriteLocks
MayCommit(c) == \A d \in Conns \ {c} : lock[d] = "none"

Commit(c) ==
  /\ MayCommit(c)
  /\ db' = Visible(c)
  /\ draft' = Visible(c)
  /\ lock' = [lock EXCEPT ![c] = "none"]
  /\ intx' = [intx EXCEPT ![c] = FALSE]

Rollback(c) ==
  /\ draft' = IF lock[c] \in WriteLocks THEN db ELSE draft
  /\ lock' = [lock EXCEPT ![c] = "none"]
  /\ intx' = [intx EXCEPT ![c] = FALSE]
  /\ UNCHANGED db

\* write_transaction() joins the transaction that is open, if one is.
EnterScope(c) == IF intx[c] THEN "joined" ELSE "owner"

-----------------------------------------------------------------------------
Init ==
  /\ db = EmptyDb
  /\ draft = EmptyDb
  /\ raw = {}
  /\ lock = [c \in Conns |-> "none"]
  /\ intx = [c \in Conns |-> FALSE]
  /\ pc = [c \in Conns |-> "idle"]
  /\ job = [c \in Conns |-> NoJob]
  /\ art = [c \in Conns |-> NoJob]
  /\ outer = [c \in Conns |-> "none"]
  /\ inner = [c \in Conns |-> "none"]
  /\ status = [j \in Jobs |-> "new"]
  /\ stray = FALSE

Running(c) == pc[c] \notin {"idle", "reading"}

NextStage(c) ==
  CASE pc[c] \in {"capture", "artifact"} ->
         IF Kind[job[c]] = "import" THEN "record" ELSE "batch"
    [] pc[c] = "batch" -> "record"
    [] pc[c] = "record" -> "outer"

\* The record of a ledger write and the whole of add_import() are stored under
\* "with self.db", everything else under write_transaction().
UnderWith(c) == pc[c] = "record" /\ Kind[job[c]] # "scoped"

\* The job is over and its caller told so.
Finish(c, outcome) ==
  /\ status' = [status EXCEPT ![job[c]] = outcome]
  /\ pc' = [pc EXCEPT ![c] = "idle"]
  /\ job' = [job EXCEPT ![c] = NoJob]
  /\ art' = [art EXCEPT ![c] = NoJob]
  /\ outer' = [outer EXCEPT ![c] = "none"]
  /\ inner' = [inner EXCEPT ![c] = "none"]

\* Mutant: no service scopes its job.
StartUnscoped(c, j) ==
  /\ pc[c] = "idle"
  /\ status[j] = "new"
  /\ status' = [status EXCEPT ![j] = "running"]
  /\ job' = [job EXCEPT ![c] = j]
  /\ pc' = [pc EXCEPT ![c] = "capture"]
  /\ UNCHANGED <<db, draft, raw, lock, intx, art, outer, inner>>

\* The service enters its outer scope, if it has one: BEGIN, deferred.
Start(c, j) ==
  /\ pc[c] = "idle"
  /\ status[j] = "new"
  /\ status' = [status EXCEPT ![j] = "running"]
  /\ job' = [job EXCEPT ![c] = j]
  /\ pc' = [pc EXCEPT ![c] = "capture"]
  /\ \/ /\ Kind[j] = "ledger"
        /\ UNCHANGED <<outer, intx>>
     \/ /\ Kind[j] # "ledger"
        /\ outer' = [outer EXCEPT ![c] = EnterScope(c)]
        /\ intx' = [intx EXCEPT ![c] = TRUE]
  /\ UNCHANGED <<db, draft, raw, lock, art, inner>>

\* Mutant: the file is left to be written after the rows.
CaptureUnlinked(c) ==
  /\ pc[c] = "capture"
  /\ MayRead(c)
  /\ lock' = [lock EXCEPT ![c] = IF intx[c] /\ @ = "none" THEN "shared" ELSE @]
  /\ art' = [art EXCEPT ![c] = job[c]]
  /\ pc' = [pc EXCEPT ![c] = "artifact"]
  /\ UNCHANGED <<db, draft, raw, intx, job, outer, inner, status>>

\* artifact(), virtual_artifact() before their own scope: an artifact with the
\* same content is cited again; otherwise the bytes are linked into raw/ first.
Capture(c) ==
  /\ pc[c] = "capture"
  /\ MayRead(c)
  /\ lock' = [lock EXCEPT ![c] = IF intx[c] /\ @ = "none" THEN "shared" ELSE @]
  /\ LET known == {i \in Jobs : /\ Digest[i] = Digest[job[c]]
                                /\ Row("artifact", i, i) \in Visible(c).rows}
     IN \/ /\ known # {}
           /\ \E i \in known : art' = [art EXCEPT ![c] = i]
           /\ pc' = [pc EXCEPT ![c] = NextStage(c)]
           /\ UNCHANGED raw
        \/ /\ known = {}
           /\ art' = [art EXCEPT ![c] = job[c]]
           /\ raw' = raw \cup {Digest[job[c]]}
           /\ pc' = [pc EXCEPT ![c] = "artifact"]
  /\ UNCHANGED <<db, draft, intx, job, outer, inner, status>>

\* The rows that a row of the current stage must cite: foreign keys, and the
\* provenance checks of import_batch() and _insert_transaction().
Cited(c) ==
  IF pc[c] = "artifact" THEN {}
  ELSE {Row("artifact", art[c], art[c])} \cup
       (IF pc[c] = "record" /\ Kind[job[c]] # "import"
          THEN {Row("batch", job[c], art[c])} ELSE {})

\* What the stage adds to the database d, rows and audit events together.
StageResult(c, d) ==
  IF pc[c] = "record" /\ Kind[job[c]] = "import"
    THEN Store(Store(d, Row("record", job[c], art[c])),
               Row("batch", job[c], art[c]))
    ELSE Store(d, Row(pc[c], job[c], art[c]))

\* The body of the innermost scope runs.
Insert(c) ==
  /\ pc[c] \in Stages
  /\ inner[c] = "none"
  /\ MayWrite(c)
  /\ Cited(c) \subseteq Visible(c).rows
  /\ draft' = StageResult(c, Visible(c))
  /\ lock' = [lock EXCEPT ![c] = IF @ = "pending" THEN @ ELSE "reserved"]
  /\ inner' = [inner EXCEPT ![c] = IF UnderWith(c) THEN "with"
                                                   ELSE EnterScope(c)]
  /\ intx' = [intx EXCEPT ![c] = TRUE]
  /\ UNCHANGED <<db, raw, pc, job, art, outer, status>>

\* The innermost scope ends normally; after the last stage of a ledger job so
\* does the job.
LeaveInner(c) ==
  /\ inner[c] # "none"
  /\ \/ inner[c] = "joined" /\ UNCHANGED txvars
     \/ inner[c] # "joined" /\ Commit(c)
  /\ \/ /\ NextStage(c) = "outer" /\ outer[c] = "none"
        /\ Finish(c, "acked")
     \/ /\ NextStage(c) # "outer" \/ outer[c] # "none"
        /\ pc' = [pc EXCEPT ![c] = NextStage(c)]
        /\ inner' = [inner EXCEPT ![c] = "none"]
        /\ UNCHANGED <<job, art, outer, status>>
  /\ UNCHANGED raw

\* The outer write_transaction() ends normally.  After add_import() the
\* transaction is over already and commit() does nothing.
LeaveOuter(c) ==
  /\ pc[c] = "outer"
  /\ \/ outer[c] = "owner" /\ intx[c] /\ Commit(c)
     \/ (outer[c] = "joined" \/ ~intx[c]) /\ UNCHANGED txvars
  /\ Finish(c, "acked")
  /\ UNCHANGED raw

\* Mutant: a busy database is taken for a success.
CommitBusySwallowed(c) ==
  /\ ~MayCommit(c)
  /\ \/ inner[c] # "none"
     \/ pc[c] = "outer" /\ outer[c] = "owner" /\ intx[c]
  /\ Rollback(c)
  /\ Finish(c, "acked")
  /\ UNCHANGED raw

\* A commit finds another connection reading or writing: OperationalError.
\* "with self.db" rolls back; write_transaction() commits outside of its try
\* block, so the transaction stays open and its writes pending.
CommitBusy(c) ==
  /\ ~MayCommit(c)
  /\ \/ /\ inner[c] = "with"
        /\ Rollback(c)
     \/ /\ \/ inner[c] = "owner"
           \/ pc[c] = "outer" /\ outer[c] = "owner" /\ intx[c]
        /\ lock' = [lock EXCEPT ![c] = IF @ \in WriteLocks THEN "pending" ELSE @]
        /\ UNCHANGED <<db, draft, intx>>
  /\ Finish(c, "failed")
  /\ UNCHANGED raw

\* An exception reaches the body of the job; entered tells whether the "with"
\* scope of the current stage had been entered when it was raised, and
\* outerRollsBack whether a write_transaction() that began the transaction
\* rolls back on it.  A write_transaction() that joined never does.
Unwind(c, outerRollsBack) ==
  \E entered \in BOOLEAN :
    IF \/ inner[c] = "with"
       \/ entered /\ UnderWith(c)
       \/ outerRollsBack /\ (inner[c] = "owner" \/ outer[c] = "owner")
      THEN Rollback(c)
      ELSE UNCHANGED txvars

\* A validation error, a missing citation, a lock that could not be had.
Fail(c) ==
  /\ Running(c)
  /\ pc[c] # "outer"
  /\ Unwind(c, TRUE)
  /\ Finish(c, "failed")
  /\ UNCHANGED raw

\* KeyboardInterrupt is not an Exception: write_transaction() lets it pass,
\* and whoever pressed the key is not told what became of the write.
Interrupt(c) ==
  /\ Interactive
  /\ Running(c)
  /\ Unwind(c, FALSE)
  /\ Finish(c, "lost")
  /\ UNCHANGED raw

\* The process is killed, or exits after close(): SQLite rolls back.
Exit(c) ==
  /\ Rollback(c)
  /\ \/ Running(c) /\ Finish(c, "lost")
     \/ /\ ~Running(c)
        /\ pc' = [pc EXCEPT ![c] = "idle"]
        /\ UNCHANGED <<job, art, outer, inner, status>>
  /\ UNCHANGED raw

\* A long read outside a transaction, e.g. the artifact scan of a backup.
StartRead(c) ==
  /\ pc[c] = "idle"
  /\ ~intx[c]
  /\ MayRead(c)
  /\ pc' = [pc EXCEPT ![c] = "reading"]
  /\ lock' = [lock EXCEPT ![c] = "shared"]
  /\ UNCHANGED <<db, draft, raw, intx, job, art, outer, inner, status>>

EndRead(c) ==
  /\ pc[c] = "reading"
  /\ pc' = [pc EXCEPT ![c] = "idle"]
  /\ lock' = [lock EXCEPT ![c] = "none"]
  /\ UNCHANGED <<db, draft, raw, intx, job, art, outer, inner, status>>

Step(c) ==
  \/ \E j \in Jobs : Start(c, j)
  \/ Capture(c) \/ Insert(c) \/ LeaveInner(c) \/ LeaveOuter(c)
  \/ CommitBusy(c) \/ Fail(c) \/ Interrupt(c) \/ Exit(c)
  \/ StartRead(c) \/ EndRead(c)

LeftOpen == \E c \in Conns : pc[c] = "idle" /\ intx[c]

Next == (\E c \in Conns : Step(c)) /\ stray' = (stray \/ LeftOpen')

Spec == Init /\ [][Next]_vars

-----------------------------------------------------------------------------
(* Properties *)

StateTyped ==
  /\ db.rows \subseteq Rows /\ draft.rows \subseteq Rows
  /\ raw \subseteq Digests
  /\ lock \in [Conns -> Locks]
  /\ intx \in [Conns -> BOOLEAN]
  /\ pc \in [Conns -> Pcs]
  /\ job \in [Conns -> Jobs \cup {NoJob}]
  /\ art \in [Conns -> Jobs \cup {NoJob}]
  /\ outer \in [Conns -> Scopes \ {"with"}]
  /\ inner \in [Conns -> Scopes]
  /\ status \in [Jobs -> {"new", "running", "acked", "failed", "lost"}]

TypeOK == StateTyped /\ stray \in BOOLEAN

\* ADR 0002: the audit events form one chain.  Whatever connections write,
\* fail, die or find the database busy, the committed events are numbered
\* without a gap and each one carries the hash of the one before.
AuditChainIntact == ChainValid(db.audit)

\* "Canonical writes append an audit event in the same database transaction":
\* the committed rows and the committed audit events tell the same story.
RowsAudited ==
  /\ \A n \in DOMAIN db.audit : db.audit[n].row \in db.rows
  /\ \A r \in db.rows : \E n \in DOMAIN db.audit : db.audit[n].row = r
  /\ \A m, n \in DOMAIN db.audit : db.audit[m].row = db.audit[n].row => m = n

\* The audit log of append_audit_event() can be trusted: it is one chain without a
\* gap, whichever connections append to it, and has one event for each row.
AuditFaithful == AuditChainIntact /\ RowsAudited

\* Every committed record can be traced to the bytes it came from: its batch,
\* the artifact of both, and a file under raw/ with the artifact's digest.
ProvenanceClosed ==
  \A r \in db.rows :
    /\ Digest[r.art] \in raw
    /\ Row("artifact", r.art, r.art) \in db.rows
    /\ r.table = "record" => Row("batch", r.job, r.art) \in db.rows

RecordStored(j) == \E a \in Jobs : Row("record", j, a) \in db.rows

\* write_transaction(): a write that was reported as stored is in the
\* database, and stays there.  The code does not guarantee it: see OutcomesTrue.
AckedWritesDurable == \A j \in Jobs : status[j] = "acked" => RecordStored(j)

\* As long as no refused commit or interrupt has left a transaction open, what
\* a caller is told of a write is true of the database for ever: a write that
\* was reported as stored is there, a write reported as failed never shows up.
OutcomesTrue ==
  ~stray =>
    \A j \in Jobs : /\ status[j] = "acked" => RecordStored(j)
                    /\ status[j] = "failed" => ~RecordStored(j)

\* The rows of a job without its record.
Debris(j) == {r \in db.rows : r.job = j /\ ~RecordStored(j)}

\* Under the same condition a write that is scoped as a whole is all or
\* nothing: if it failed, or its process died, its artifact and its batch are
\* not left behind either.
ScopedWritesAtomic ==
  ~stray =>
    \A j \in Jobs :
      Kind[j] # "ledger" /\ status[j] \in {"failed", "lost"} => Debris(j) = {}

=============================================================================
