------------------------------ MODULE CsvImport ------------------------------
(***************************************************************************)
(* The reconciled CSV import (clausula/application/ledger_reconciled.py,   *)
(* ledger_import.py and store_import_identity.py).                         *)
(*                                                                         *)
(* An import parses the file at a path, reconciles the rows with what is   *)
(* booked under the same external ids of the account, and then, in one     *)
(* transaction, reconciles again, captures the file as an artifact and     *)
(* books the new rows.  The file is read four times and may be replaced    *)
(* between any two of them; other processes import at the same time.       *)
(*                                                                         *)
(* An artifact is found by the digest of its bytes, so it is named by the  *)
(* content: a set of rows.  A transaction remembers the semantics it was   *)
(* booked with: the economics of its row and the time it is effective at,  *)
(* which for a row without a date is the time of the parse.                *)
(***************************************************************************)
EXTENDS Naturals, FiniteSets

CONSTANTS Conns,      \* processes that import, one connection each
          Jobs,       \* the imports requested
          Account,    \* Account[j]: the account j imports into
          Contents,   \* what the file may contain: sets of rows
          Legacy,     \* imports made before external ids were account-scoped
          LegacyTxs,  \* what those may have booked
          NoJob,
          MaxClock    \* bound: how often the clock ticks

\* A row has an external id, economics and, if it is dated, a date.
ASSUME ImportAssumption ==
  /\ NoJob \notin Jobs
  /\ Legacy \cap Jobs = {}
  /\ MaxClock \in Nat
  \* parse_csv_content rejects a file with the same id twice
  /\ \A f \in Contents : \A r, s \in f : r.ext = s.ext => r = s
  /\ \A f \in Contents : \A r \in f : r.dated \in BOOLEAN /\ r.date \in Nat
  \* what was booked then is what a row of its file says
  /\ \A t \in LegacyTxs :
       /\ t.job \in Legacy /\ t.art \in Contents
       /\ \E r \in t.art : /\ r.ext = t.ext
                           /\ r.economics = t.semantic.economics
                           /\ r.dated => r.date = t.semantic.effective

VARIABLES
  path,      \* the content of the file now
  clock,
  txs,       \* committed transactions
  edges,     \* committed imported_rows: the row of an artifact, and its booking
  draftTxs,  \* the same as seen by the connection that holds RESERVED
  draftEdges,
  lock,      \* the SQLite lock of each connection
  pc, job,
  art,       \* the content that each connection has captured
  plan,      \* plan[j]: the content that j parsed, and when
  status     \* what the caller of each job knows

db == <<txs, edges>>
draft == <<draftTxs, draftEdges>>
vars == <<path, clock, txs, edges, draftTxs, draftEdges, lock, pc, job, art,
          plan, status>>

NoPlan == [rows |-> {}, at |-> 0]

-----------------------------------------------------------------------------
(* Identity and semantics *)

\* _parsed_semantic: a row without a date is effective when it was parsed.
Semantic(row, at) ==
  [economics |-> row.economics,
   effective |-> IF row.dated THEN row.date ELSE at]

\* imported_external_transactions.
Candidates(booked, account, ext) ==
  {e.tx : e \in {d \in booked : d.account = account /\ d.ext = ext}}

\* Mutant: the time of the ingest is part of the identity.
ClassifyAllTimes(booked, account, row, at, bytes) ==
  LET known == Candidates(booked, account, row.ext)
  IN CASE known = {} -> "new"
       [] \A t \in known : t.semantic = Semantic(row, at) /\ t.known = at ->
            "duplicate_exact"
       [] OTHER -> "external_id_conflict"

\* reconcile_csv_plan and _classify_import_identity.
Classify(booked, account, row, at, bytes) ==
  LET known == Candidates(booked, account, row.ext)
  IN CASE known = {} -> "new"
       [] known # {} /\ \A t \in known : t.semantic = Semantic(row, at) ->
            "duplicate_exact"
       [] OTHER -> "external_id_conflict"

Class(booked, j, row) ==
  Classify(booked, Account[j], row, plan[j].at, plan[j].rows)

Reconciled(booked, j) ==
  \A row \in plan[j].rows : Class(booked, j, row) # "external_id_conflict"

Booking(j, row, bytes) ==
  [job |-> j, ext |-> row.ext, semantic |-> Semantic(row, plan[j].at),
   known |-> plan[j].at, art |-> bytes]
Edge(j, row, bytes, tx) ==
  [account |-> Account[j], art |-> bytes, ext |-> row.ext, tx |-> tx]

NewRows(booked, j) == {r \in plan[j].rows : Class(booked, j, r) = "new"}

NewBookings(booked, j, bytes) == {Booking(j, r, bytes) : r \in NewRows(booked, j)}

\* Mutant: only new rows leave an edge.
EdgesOfNewRows(booked, j, bytes) ==
  {Edge(j, r, bytes, Booking(j, r, bytes)) : r \in NewRows(booked, j)}

\* The edges of add_import(): one for every row, unless this artifact has one.
NewEdges(booked, j, bytes) ==
  {Edge(j, r, bytes,
        IF Class(booked, j, r) = "new"
          THEN Booking(j, r, bytes)
          ELSE CHOOSE t \in Candidates(booked, Account[j], r.ext) : TRUE) :
     r \in {s \in plan[j].rows :
              ~\E e \in booked : /\ e.account = Account[j]
                                 /\ e.art = bytes
                                 /\ e.ext = s.ext}}

\* UNIQUE(account_id, external_id); the column is NULL in legacy rows.
Unique(booked, j, bytes) ==
  \A t \in NewBookings(booked, j, bytes), u \in txs :
    u.job \notin Legacy /\ Account[u.job] = Account[j] => t.ext # u.ext

-----------------------------------------------------------------------------
(* Locks of SQLite, as in StoreWrites *)

MayWrite(c) == \A d \in Conns \ {c} : lock[d] # "reserved"
MayCommit(c) == \A d \in Conns \ {c} : lock[d] = "none"

Init ==
  /\ path \in Contents
  /\ clock = 0
  /\ txs \in SUBSET LegacyTxs
  /\ edges = {[account |-> Account[t.job], art |-> t.art, ext |-> t.ext,
               tx |-> t] : t \in txs}
  /\ draftTxs = txs
  /\ draftEdges = edges
  /\ lock = [c \in Conns |-> "none"]
  /\ pc = [c \in Conns |-> "idle"]
  /\ job = [c \in Conns |-> NoJob]
  /\ art = [c \in Conns |-> {}]
  /\ plan = [j \in Jobs |-> NoPlan]
  /\ status = [j \in Jobs |-> "new"]

\* The user, or the broker's export, replaces the file.
Replace(content) ==
  /\ content # path
  /\ path' = content
  /\ UNCHANGED <<clock, db, draft, lock, pc, job, art, plan, status>>

Tick ==
  /\ clock < MaxClock
  /\ clock' = clock + 1
  /\ UNCHANGED <<path, db, draft, lock, pc, job, art, plan, status>>

\* The import is over; only a verdict about the file is remembered.
Finish(c, outcome) ==
  /\ status' = [status EXCEPT ![job[c]] = outcome]
  /\ plan' = IF outcome = "failed" THEN [plan EXCEPT ![job[c]] = NoPlan] ELSE plan
  /\ pc' = [pc EXCEPT ![c] = "idle"]
  /\ job' = [job EXCEPT ![c] = NoJob]
  /\ lock' = [lock EXCEPT ![c] = "none"]
  /\ art' = [art EXCEPT ![c] = {}]

\* A step that only checks something: the import goes on or is refused.
Check(c, holds, next, refusal) ==
  /\ \/ /\ holds
        /\ pc' = [pc EXCEPT ![c] = next]
        /\ UNCHANGED <<job, art, plan, status>>
     \/ /\ ~holds
        /\ Finish(c, refusal)
  /\ UNCHANGED <<path, clock, db, draft>>

\* parse_csv_import.
Parse(c, j) ==
  /\ pc[c] = "idle"
  /\ status[j] = "new"
  /\ status' = [status EXCEPT ![j] = "running"]
  /\ job' = [job EXCEPT ![c] = j]
  /\ plan' = [plan EXCEPT ![j] = [rows |-> path, at |-> clock]]
  /\ pc' = [pc EXCEPT ![c] = "parsed"]
  /\ UNCHANGED <<path, clock, db, draft, lock, art>>

FileIsParsed(c) == path = plan[job[c]].rows

\* The first reconciliation, outside of any transaction.
Preview(c) ==
  /\ pc[c] = "parsed"
  /\ Check(c, Reconciled(edges, job[c]), "previewed", "conflict")
  /\ UNCHANGED lock

\* "source changed after reconciliation and before import"
Recheck(c) ==
  /\ pc[c] = "previewed"
  /\ Check(c, FileIsParsed(c), "rechecked", "failed")
  /\ UNCHANGED lock

\* BEGIN, and the second reconciliation: its SELECT takes the SHARED lock.
Begin(c) ==
  /\ pc[c] = "rechecked"
  /\ Check(c, Reconciled(edges, job[c]), "inside", "conflict")
  /\ lock' = [lock EXCEPT ![c] = IF Reconciled(edges, job[c]) THEN "shared"
                                                              ELSE "none"]

\* "source changed while reconciled import was being committed"
RecheckInside(c) ==
  /\ pc[c] = "inside"
  /\ Check(c, FileIsParsed(c), "checked", "failed")
  /\ lock' = [lock EXCEPT ![c] = IF FileIsParsed(c) THEN @ ELSE "none"]

\* Mutant: the digest of what was captured is not compared with the plan's.
CaptureUnchecked(c) ==
  /\ pc[c] = "checked"
  /\ art' = [art EXCEPT ![c] = path]
  /\ pc' = [pc EXCEPT ![c] = "captured"]
  /\ UNCHANGED <<path, clock, db, draft, lock, job, plan, status>>

\* artifact(): the bytes are read once more and must be those of the plan.
Capture(c) ==
  /\ pc[c] = "checked"
  /\ \/ /\ FileIsParsed(c)
        /\ art' = [art EXCEPT ![c] = path]
        /\ pc' = [pc EXCEPT ![c] = "captured"]
        /\ UNCHANGED <<lock, job, plan, status>>
     \/ /\ ~FileIsParsed(c)
        /\ Finish(c, "failed")
  /\ UNCHANGED <<path, clock, db, draft>>

\* _resolve_instruments and add_import(): every row is classified once more,
\* the new ones are booked and every row gets its edge.
AddImport(c) ==
  LET j == job[c]
  IN /\ pc[c] = "captured"
     /\ MayWrite(c)
     /\ Reconciled(edges, j)
     /\ Unique(edges, j, art[c])
     /\ lock' = [lock EXCEPT ![c] = "reserved"]
     /\ draftTxs' = txs \cup NewBookings(edges, j, art[c])
     /\ draftEdges' = edges \cup NewEdges(edges, j, art[c])
     /\ pc' = [pc EXCEPT ![c] = "booked"]
     /\ UNCHANGED <<path, clock, db, job, art, plan, status>>

\* The "with" scope of add_import() ends, and with it the transaction.
Commit(c) ==
  /\ pc[c] = "booked"
  /\ MayCommit(c)
  /\ txs' = draftTxs
  /\ edges' = draftEdges
  /\ Finish(c, "acked")
  /\ UNCHANGED <<path, clock, draft>>

\* A database that is busy, a disk that is full, an instrument that cannot be
\* resolved: the exception rolls back.  A kill does the same.
Abort(c) ==
  /\ pc[c] # "idle"
  /\ Finish(c, "failed")
  /\ IF lock[c] = "reserved"
       THEN draftTxs' = txs /\ draftEdges' = edges
       ELSE UNCHANGED draft
  /\ UNCHANGED <<path, clock, db>>

Next ==
  \/ \E content \in Contents : Replace(content)
  \/ Tick
  \/ \E c \in Conns :
       \/ \E j \in Jobs : Parse(c, j)
       \/ Preview(c) \/ Recheck(c) \/ Begin(c) \/ RecheckInside(c)
       \/ Capture(c) \/ AddImport(c) \/ Commit(c)
       \/ Abort(c)

Spec == Init /\ [][Next]_vars

-----------------------------------------------------------------------------
(* Properties *)

\* The bytes that an edge points to say what the ledger books: there is a row
\* of that id, with the economics of the booking and, if dated, its date.
\* The file is replaced at any time, and only the digest checks prevent that
\* the rows of one version are booked with the bytes of another.
SourceFaithful ==
  \A e \in edges :
    \E r \in e.art :
      /\ r.ext = e.ext
      /\ r.economics = e.tx.semantic.economics
      /\ r.dated => r.date = e.tx.semantic.effective

\* An external event is booked once per account, whatever artifacts report it
\* and whichever processes import them; also if the booking is a legacy one
\* that UNIQUE(account_id, external_id) does not cover.
BookedOnce ==
  \A t, u \in txs :
    t.job \notin Legacy /\ Account[t.job] = Account[u.job] /\ t.ext = u.ext
      => t = u

\* An import is stored as a whole or not at all: if it was reported as stored, each
\* row of the file has an edge from its bytes to a booking with its semantics, and
\* if it was not, the ledger has no booking of it.
ImportComplete ==
  \A j \in Jobs :
    IF status[j] = "acked"
      THEN \A r \in plan[j].rows : \E e \in edges :
             /\ e.account = Account[j] /\ e.art = plan[j].rows /\ e.ext = r.ext
             /\ e.tx.semantic.economics = r.economics
      ELSE \A t \in txs : t.job # j

\* What is acknowledged is booked exactly once: nothing twice and nothing by half,
\* however often exports that overlap are imported.
BookedExactly == BookedOnce /\ ImportComplete

\* Row-level idempotence: no dated rows are accepted for an account by one import
\* and refused as contradicting the ledger by another of the same bytes.  A row
\* without a date is effective when it is parsed, so the second import of its
\* bytes contradicts the first.
SameBytesSameVerdict ==
  \A i, j \in Jobs :
    /\ status[i] = "acked" /\ status[j] = "conflict"
    /\ Account[i] = Account[j]
    /\ \A r \in plan[i].rows : r.dated
    => plan[i].rows # plan[j].rows
=============================================================================
