---------------------------- MODULE Observations ----------------------------
(***************************************************************************)
(* Writes that first look whether they were made already: imports of       *)
(* market datasets (clausula/application/market.py, market_provider.py and *)
(* Store.add_market_dataset), which look outside of the transaction, and   *)
(* attention events (application/attention.py, Store.add_attention_event), *)
(* which look again inside of it.                                          *)
(*                                                                         *)
(* Processes have connections of their own.  A transaction takes a shared  *)
(* lock with its first read, the reserved one with its first write, and    *)
(* commits when nobody else has a shared one; who cannot get a lock gives  *)
(* up with "database is locked" and may be called again.  A COMMIT that is *)
(* refused leaves the transaction of write_transaction() open, with a      *)
(* pending lock, and the next calls of the process are part of it, until a *)
(* "with self.db" commits it or rolls it back or the process ends.         *)
(***************************************************************************)
EXTENDS Integers, FiniteSets, Sequences

CONSTANTS Processes,
          Labels,    \* dataset_name and version
          Contents,  \* contents of a file or of a provider's answer: sets of rows
          Changes,   \* material changes, by fingerprint
          Calls      \* bound on the calls

ASSUME ObservationsAssumption == Calls \in Nat

VARIABLES
  file,      \* content of the file that is imported
  raw,       \* captured artifacts
  datasets,  \* committed: [label, via, content, source]
  events,    \* committed attention events, in order
  lock,      \* "none", "shared", "reserved" or "pending", of each connection
  draft,     \* what the connection that writes sees of raw and events
  left,      \* ghost: processes that ever left a transaction open
  pc,        \* of each process
  job,       \* the call that a process makes
  calls      \* calls made

observed == <<file, raw, datasets, events, lock, draft, left, pc, job, calls>>

NoJob == [kind |-> "none"]

Import(label, via, content) ==
  [kind |-> "import", label |-> label, via |-> via, source |-> {}, content |-> content,
   answer |-> "none"]
Evaluate(change) == [kind |-> "evaluate", change |-> change, answer |-> "none"]

Empty == [raw |-> {}, events |-> <<>>]

\* A home with the datasets that were imported before, and a file.
ObservationsStart(imported, files) ==
  /\ file \in files
  /\ raw = {d.source : d \in imported}
  /\ datasets = imported
  /\ events = <<>>
  /\ lock = [p \in Processes |-> "none"]
  /\ draft = Empty
  /\ left = {}
  /\ pc = [p \in Processes |-> "idle"]
  /\ job = [p \in Processes |-> NoJob]
  /\ calls = 0

-----------------------------------------------------------------------------
(* Connections *)

Goto(p, l) == pc' = [pc EXCEPT ![p] = l]

Writes(p) == lock[p] \in {"reserved", "pending"}

\* The transaction that an earlier call left open, which write_transaction() joins.
Joins(p) == lock[p] = "pending"

Sees(p) == IF Writes(p) THEN draft ELSE [raw |-> raw, events |-> events]

MayRead(p) == \A q \in Processes \ {p} : lock[q] # "pending"
MayWrite(p) == \A q \in Processes \ {p} : ~Writes(q)
MayCommit(p) == \A q \in Processes \ {p} : lock[q] = "none"

\* The transaction of the connection is over, whoever began it ...
Over(p) ==
  /\ lock' = [lock EXCEPT ![p] = "none"]
  /\ draft' = IF Writes(p) THEN Empty ELSE draft

\* ... or the one that write_transaction() began: one that it joined stays open.
Leave(p) == IF Joins(p) THEN UNCHANGED <<lock, draft>> ELSE Over(p)

Committed(seen) == raw' = seen.raw /\ events' = seen.events

Answer(p, a) ==
  /\ job' = [job EXCEPT ![p].answer = a]
  /\ Goto(p, "idle")

\* COMMIT finds a reader: write_transaction() calls it outside of its try block, so
\* that nothing is rolled back.
Refused(p, seen) ==
  /\ ~MayCommit(p)
  /\ lock' = [lock EXCEPT ![p] = "pending"]
  /\ draft' = seen
  /\ left' = left \cup {p}
  /\ Answer(p, "failed")

\* "database is locked", a constraint, or any other failure of a call: its own
\* transaction is rolled back, one that it joined only by a "with self.db".
Fail(p) ==
  /\ pc[p] # "idle"
  /\ Answer(p, "failed")
  /\ Leave(p) \/ (pc[p] = "insert" /\ Over(p))
  /\ UNCHANGED <<file, raw, datasets, events, left, calls>>

\* The process is killed or closes its connection: what was left open is rolled back.
Exit(p) ==
  /\ Joins(p)
  /\ \/ pc[p] # "idle" /\ Answer(p, "failed")
     \/ pc[p] = "idle" /\ UNCHANGED <<pc, job>>
  /\ Over(p)
  /\ UNCHANGED <<file, raw, datasets, events, left, calls>>

\* Another service of the process writes under "with self.db" (Store.create_account),
\* which commits what was left open too.
Elsewhere(p) ==
  /\ pc[p] = "idle"
  /\ Joins(p) /\ MayCommit(p)
  /\ Committed(Sees(p))
  /\ Over(p)
  /\ UNCHANGED <<file, datasets, left, pc, job, calls>>

\* The program that writes the file.
Replace ==
  /\ \E c \in Contents \ {file} : file' = c
  /\ UNCHANGED <<raw, datasets, events, lock, draft, left, pc, job, calls>>

Call(p, j, first) ==
  /\ pc[p] = "idle"
  /\ calls < Calls
  /\ calls' = calls + 1
  /\ job' = [job EXCEPT ![p] = j]
  /\ Goto(p, first)
  /\ UNCHANGED <<file, raw, datasets, events, lock, draft, left>>

-----------------------------------------------------------------------------
(* Imports of market data *)

\* import_prices_csv(), import_fx_csv().
CallImport(p) == \E l \in Labels : Call(p, Import(l, "csv", {}), "capture")

\* import_snapshot(): what the provider answered comes in one piece.
CallSnapshot(p) ==
  \E l \in Labels, c \in Contents : Call(p, Import(l, "snapshot", c), "capture")

Bytes(p) == IF job[p].via = "csv" THEN file ELSE job[p].content

\* The artifact that keeps the bytes under their digest is cited.
Cite(p) ==
  /\ job' = [job EXCEPT ![p].source = Bytes(p)]
  /\ Goto(p, IF job[p].via = "csv" THEN "parse" ELSE "look")
  /\ UNCHANGED left

\* repository.artifact(), virtual_artifact(): an artifact that is there is cited; a
\* snapshot may have its bytes in common with one of another provider, and has its
\* own then.
Capture(p) ==
  /\ pc[p] = "capture"
  /\ MayRead(p)
  /\ \/ /\ Bytes(p) \in Sees(p).raw
        /\ Cite(p)
        /\ UNCHANGED <<raw, lock, draft>>
     \/ /\ Bytes(p) \in Sees(p).raw => job[p].via = "snapshot"
        /\ MayWrite(p)
        /\ \E seen \in {[Sees(p) EXCEPT !.raw = @ \cup {Bytes(p)}]} :
             \/ Joins(p) /\ draft' = seen /\ Cite(p) /\ UNCHANGED <<raw, lock>>
             \/ ~Joins(p) /\ MayCommit(p) /\ raw' = seen.raw /\ Cite(p) /\ UNCHANGED <<lock, draft>>
             \/ ~Joins(p) /\ Refused(p, seen) /\ UNCHANGED raw
  /\ UNCHANGED <<file, datasets, events, calls>>

\* The path is opened again to be parsed.
Parse(p) ==
  /\ pc[p] = "parse"
  /\ job' = [job EXCEPT ![p].content = file]
  /\ Goto(p, "look")
  /\ UNCHANGED <<file, raw, datasets, events, lock, draft, left, calls>>

\* The rows name an instrument that is not there yet.  It is stored by a transaction of
\* its own or one that is open; nothing here reads instruments, but COMMIT may be refused.
Register(p) ==
  /\ pc[p] = "look"
  /\ ~Joins(p) /\ MayWrite(p)
  /\ Refused(p, Sees(p))
  /\ UNCHANGED <<file, raw, datasets, events, calls>>

\* The rows with their manifest, which names the adapter and the digest of the source.
Dataset(p) ==
  [label |-> job[p].label, via |-> job[p].via, content |-> job[p].content,
   source |-> job[p].source]

Versions(label) == {d \in datasets : d.label = label}

\* add_market_dataset(): the version that exists is answered if its manifest is the same.
LookUp(p) ==
  /\ pc[p] = "look"
  /\ MayRead(p)
  /\ \/ /\ Versions(job[p].label) = {}
        /\ Goto(p, "insert")
        /\ UNCHANGED job
     \/ \E d \in Versions(job[p].label) :
          Answer(p, IF d = Dataset(p) THEN "stored" ELSE "conflict")
  /\ UNCHANGED <<file, raw, datasets, events, lock, draft, left, calls>>

\* Mutant: no UNIQUE (dataset_name, version).
InsertAnyway(p) ==
  /\ pc[p] = "insert"
  /\ MayCommit(p)
  /\ job[p].source \in Sees(p).raw
  /\ datasets' = datasets \cup {Dataset(p)}
  /\ Committed(Sees(p))
  /\ Answer(p, "stored")
  /\ Over(p)
  /\ UNCHANGED <<file, left, calls>>

\* The batch, the dataset, its rows and the event under "with self.db", which commits
\* what was left open too.  Constraints refuse a version that was added meanwhile, and
\* an artifact that is not there.
Insert(p) ==
  /\ pc[p] = "insert"
  /\ MayCommit(p)
  /\ Versions(job[p].label) = {}
  /\ job[p].source \in Sees(p).raw
  /\ datasets' = datasets \cup {Dataset(p)}
  /\ Committed(Sees(p))
  /\ Answer(p, "stored")
  /\ Over(p)
  /\ UNCHANGED <<file, left, calls>>

-----------------------------------------------------------------------------
(* Attention events *)

CallEvaluate(p) == \E c \in Changes : Call(p, Evaluate(c), "check")

IsIn(c, log) == \E i \in DOMAIN log : log[i] = c

Known(p) == IsIn(job[p].change, Sees(p).events)

\* AttentionService.evaluate(), and the same look-up at the start of
\* add_attention_event().
Check(p) ==
  /\ pc[p] = "check"
  /\ MayRead(p)
  /\ \/ Known(p) /\ Answer(p, "stored")
     \/ ~Known(p) /\ Goto(p, "recheck") /\ UNCHANGED job
  /\ UNCHANGED <<file, raw, datasets, events, lock, draft, left, calls>>

\* Mutant: what was found before the transaction is not looked at again.
RecheckUnlocked(p) ==
  /\ pc[p] = "recheck"
  /\ Goto(p, "append")
  /\ UNCHANGED <<file, raw, datasets, events, lock, draft, left, job, calls>>

\* In the transaction: the read takes the shared lock.
Recheck(p) ==
  /\ pc[p] = "recheck"
  /\ MayRead(p)
  /\ \/ Known(p) /\ Answer(p, "stored") /\ UNCHANGED lock
     \/ /\ ~Known(p)
        /\ lock' = [lock EXCEPT ![p] = IF Joins(p) THEN @ ELSE "shared"]
        /\ Goto(p, "append")
        /\ UNCHANGED job
  /\ UNCHANGED <<file, raw, datasets, events, draft, left, calls>>

AppendEvent(p) ==
  /\ pc[p] = "append"
  /\ MayWrite(p)
  /\ draft' = [Sees(p) EXCEPT !.events = Append(@, job[p].change)]
  /\ lock' = [lock EXCEPT ![p] = IF Joins(p) THEN @ ELSE "reserved"]
  /\ Goto(p, "commit")
  /\ UNCHANGED <<file, raw, datasets, events, left, job, calls>>

\* The end of write_transaction(), and the event read once more.
Commit(p) ==
  /\ pc[p] = "commit"
  /\ \/ /\ Joins(p)
        /\ Answer(p, "stored")
        /\ UNCHANGED <<raw, events, lock, draft, left>>
     \/ /\ ~Joins(p) /\ MayCommit(p)
        /\ Committed(draft)
        /\ \E a \in {"stored", "failed"} : Answer(p, a)
        /\ Over(p)
        /\ UNCHANGED left
     \/ /\ ~Joins(p) /\ Refused(p, draft)
        /\ UNCHANGED <<raw, events>>
  /\ UNCHANGED <<file, datasets, calls>>

ImportStep(p) ==
  \/ CallImport(p) \/ CallSnapshot(p) \/ Capture(p) \/ Parse(p)
  \/ Register(p) \/ LookUp(p) \/ Insert(p)

AttentionStep(p) ==
  CallEvaluate(p) \/ Check(p) \/ Recheck(p) \/ AppendEvent(p) \/ Commit(p)

Step(p) == ImportStep(p) \/ AttentionStep(p) \/ Fail(p) \/ Exit(p) \/ Elsewhere(p)

\* The component by itself, from an empty home.
ObservationsInit == ObservationsStart({}, Contents)

ObservationsNext == Replace \/ \E p \in Processes : Step(p)

ObservationsSpec == ObservationsInit /\ [][ObservationsNext]_observed

-----------------------------------------------------------------------------
(* Properties *)

\* A version of a dataset is one content, whichever imports overlap, and an import
\* that was answered has its rows stored, under its version and with their source kept.
DatasetsTruthful ==
  /\ \A d, e \in datasets : d.label = e.label => d = e
  /\ \A d \in datasets : d.source \in raw
  /\ \A p \in Processes :
       job[p].kind = "import" /\ job[p].answer = "stored" => Dataset(p) \in datasets

\* A material change is one event, however often and by however many processes it is
\* found, and whatever refused COMMITs left open; and it is an event when an evaluation
\* was answered by a process that never left a transaction open.
MaterialChangeOnce ==
  /\ \A i, j \in DOMAIN events : events[i] = events[j] => i = j
  /\ \A p \in Processes \ left :
       job[p].kind = "evaluate" /\ job[p].answer = "stored" => IsIn(job[p].change, events)
=============================================================================
