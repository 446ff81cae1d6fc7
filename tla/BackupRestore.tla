---------------------------- MODULE BackupRestore ----------------------------
(***************************************************************************)
(* Backup bundles (adapters/backup.py, Store.backup_bundle and             *)
(* Store.restore_bundle in adapters/sqlite.py) next to the capture of      *)
(* artifacts (Store.artifact), and the older copies of the database alone  *)
(* (Store.backup, Store.restore).                                          *)
(*                                                                         *)
(* A home keeps two things that have to agree: the database, whose         *)
(* artifact rows cite digests, and the files raw/<digest>.  The database   *)
(* is copied in one go, by SQLite's backup in either direction.  Files are *)
(* captured in one go too, by a hard link, but a restore writes them in    *)
(* place, one by one, after the database.                                  *)
(***************************************************************************)
EXTENDS Naturals, Sequences

CONSTANTS
  Procs,         \* processes with the home open
  Digests,       \* contents of artifacts
  Paths,         \* where bundles are kept
  Foreign,       \* bundles of other homes that may lie there at first
  Saved,         \* copies of other homes' databases, without their artifacts
  None,          \* no bundle
  Torn,          \* a bundle whose writing was cut short
  MaxLog         \* bound on the audit log

Databases == [cites: SUBSET Digests, log: Seq({"restore"} \cup Digests)]
Bundles   == [db: Databases, files: SUBSET Digests]

ASSUME BackupAssumption ==
  /\ Foreign \subseteq Bundles
  /\ Saved \subseteq Databases /\ None \notin Databases
  /\ None \notin Bundles /\ Torn \notin Bundles /\ None # Torn
  /\ "restore" \notin Digests

VARIABLES
  db,      \* the digests its artifact rows cite, and its audit events
  raw,     \* the file raw/<digest>
  bundle,  \* what lies at a path
  copy,    \* the copy of this home's database, without its artifacts
  origin,  \* ghost: the log of what last replaced the database
  pc,      \* what each process is doing
  draft,   \* the bundle it makes or restores
  path,    \* where that is
  item,    \* the artifact it captures or writes
  crowded, \* history: has a process ever done anything during a restore?
  killed,  \* history: has a process ever died in the middle of something?
  bare     \* history: was another home's database restored without its artifacts?

home  == <<db, raw, origin>>
procs == <<pc, draft, path, item>>
vars  == <<home, bundle, copy, procs, crowded, killed, bare>>

Restoring == {"replace", "write", "writing", "event"}

EmptyDb == [cites |-> {}, log |-> <<>>]
NoDraft == [db |-> EmptyDb, files |-> {}]

\* What verify_backup_bundle accepts.
Verifies(b) == b \in Bundles /\ b.db.cites \subseteq b.files

Init ==
  /\ db = EmptyDb
  /\ raw = [d \in Digests |-> "absent"]
  /\ bundle \in [Paths -> {b \in Foreign : Verifies(b)} \cup {None}]
  /\ origin = <<>>
  /\ pc = [p \in Procs |-> "idle"]
  /\ draft = [p \in Procs |-> NoDraft]
  /\ path \in [Procs -> Paths]
  /\ item \in [Procs -> Digests]
  /\ copy = None
  /\ crowded = FALSE /\ killed = FALSE /\ bare = FALSE

Goto(p, label) == pc' = [pc EXCEPT ![p] = label]

\* The process is done with what it was making or restoring.
Return(p) ==
  /\ Goto(p, "idle")
  /\ draft' = [draft EXCEPT ![p] = NoDraft]

\* The bound is looked at when something starts that adds to the log.
Room(d) == Len(d.log) < MaxLog

-----------------------------------------------------------------------------
(* Capturing an artifact *)

\* Nothing is done for a digest that a row cites.  Otherwise the content is
\* copied aside and linked into place, unless there is a file of that name.
Capture(p) ==
  /\ pc[p] = "idle" /\ Room(db)
  /\ \E d \in Digests \ db.cites :
       /\ raw' = [raw EXCEPT ![d] = IF @ = "absent" THEN "whole" ELSE @]
       /\ item' = [item EXCEPT ![p] = d]
  /\ Goto(p, "cite")
  /\ UNCHANGED <<db, origin, bundle, draft, path>>

\* The row and its audit event.
Cite(p) ==
  /\ pc[p] = "cite"
  /\ db' = [cites |-> db.cites \cup {item[p]}, log |-> Append(db.log, item[p])]
  /\ Goto(p, "idle")
  /\ UNCHANGED <<raw, origin, bundle, draft, path, item>>

-----------------------------------------------------------------------------
(* Making a bundle *)

\* The database is copied to a temporary file.
Snapshot(p) ==
  /\ pc[p] = "idle"
  /\ \E b \in Paths : path' = [path EXCEPT ![p] = b]
  /\ draft' = [draft EXCEPT ![p] = [db |-> db, files |-> {}]]
  /\ Goto(p, "collect")
  /\ UNCHANGED <<home, bundle, item>>

\* Mutant: Collect that reads the files before the database is copied.
CollectFirst(p) ==
  /\ pc[p] = "collect"
  /\ draft' = [draft EXCEPT ![p].files = draft[p].db.cites, ![p].db = db]
  /\ bundle' = [bundle EXCEPT ![path[p]] = Torn]
  /\ Goto(p, "zip")
  /\ UNCHANGED <<home, path, item>>

\* The files that the rows of the live database cite, not those of the copy;
\* one that is missing or does not have its digest ends the backup.
Collect(p) ==
  /\ pc[p] = "collect"
  /\ \/ /\ \A d \in db.cites : raw[d] = "whole"
        /\ draft' = [draft EXCEPT ![p].files = db.cites]
        /\ bundle' = [bundle EXCEPT ![path[p]] = Torn]
        /\ Goto(p, "zip")
     \/ /\ \E d \in db.cites : raw[d] # "whole"
        /\ Return(p)
        /\ UNCHANGED bundle
  /\ UNCHANGED <<home, path, item>>

\* The archive is written over whatever was at its path.
Zip(p) ==
  /\ pc[p] = "zip"
  /\ bundle' = [bundle EXCEPT ![path[p]] = draft[p]]
  /\ Return(p)
  /\ UNCHANGED <<home, path, item>>

\* Store.backup: the database alone, by SQLite.  Bound: once.
CopyDatabase(p) ==
  /\ pc[p] = "idle" /\ copy = None
  /\ copy' = db
  /\ UNCHANGED <<home, bundle, procs>>

-----------------------------------------------------------------------------
(* Restoring one *)

\* Verifies the bundle and refuses one that a local file contradicts; nothing
\* is changed until both are done.
Accept(p) ==
  /\ pc[p] = "idle"
  /\ \E b \in Paths :
       /\ Verifies(bundle[b]) /\ Room(bundle[b].db)
       /\ \A d \in bundle[b].files : raw[d] # "torn"
       /\ draft' = [draft EXCEPT ![p] = bundle[b]]
       /\ path' = [path EXCEPT ![p] = b]
  /\ Goto(p, "replace")
  /\ UNCHANGED <<home, bundle, item>>

\* Store.restore takes a database alone; no artifacts come with it, and nobody
\* looks whether those that it cites are there.
AcceptDatabase(p) ==
  /\ pc[p] = "idle"
  /\ \E d \in Saved \cup ({copy} \ {None}) :
       /\ Room(d)
       /\ draft' = [draft EXCEPT ![p] = [db |-> d, files |-> {}]]
       /\ bare' = (bare \/ d # copy)
  /\ Goto(p, "replace")
  /\ UNCHANGED <<home, bundle, copy, path, item>>

\* SQLite's backup over the live connection.
Replace(p) ==
  /\ pc[p] = "replace"
  /\ db' = draft[p].db
  /\ origin' = draft[p].db.log
  /\ Goto(p, "write")
  /\ UNCHANGED <<raw, bundle, draft, path, item>>

\* target.write_bytes opens the file for writing ...
WriteFile(p) ==
  /\ pc[p] = "write"
  /\ \E d \in draft[p].files :
       /\ raw[d] = "absent"
       /\ raw' = [raw EXCEPT ![d] = "torn"]
       /\ item' = [item EXCEPT ![p] = d]
  /\ Goto(p, "writing")
  /\ UNCHANGED <<db, origin, bundle, draft, path>>

\* ... and has written it.
FileWritten(p) ==
  /\ pc[p] = "writing"
  /\ raw' = [raw EXCEPT ![item[p]] = "whole"]
  /\ Goto(p, "write")
  /\ UNCHANGED <<db, origin, bundle, draft, path, item>>

\* Mutant: WritesDone after the first file.
WritesDoneEarly(p) ==
  /\ pc[p] = "write"
  /\ draft[p].files = {} \/ \E d \in draft[p].files : raw[d] # "absent"
  /\ Goto(p, "event")
  /\ UNCHANGED <<home, bundle, draft, path, item>>

\* Every file of the bundle has a name under raw/.
WritesDone(p) ==
  /\ pc[p] = "write"
  /\ \A d \in draft[p].files : raw[d] # "absent"
  /\ Goto(p, "event")
  /\ UNCHANGED <<home, bundle, draft, path, item>>

\* Mutant: LogRestore without the event.
LogNothing(p) ==
  /\ pc[p] = "event"
  /\ Return(p)
  /\ UNCHANGED <<home, bundle, path, item>>

\* The schema is migrated and the restore is written to the audit log.
LogRestore(p) ==
  /\ pc[p] = "event"
  /\ db' = [db EXCEPT !.log = Append(@, "restore")]
  /\ Return(p)
  /\ UNCHANGED <<raw, origin, bundle, path, item>>

\* A process is killed, or its disk fills up.
Kill(p) ==
  /\ pc[p] # "idle"
  /\ Return(p)
  /\ UNCHANGED <<home, bundle, path, item>>

BundleStep(p) ==
  \/ Capture(p) \/ Cite(p)
  \/ Snapshot(p) \/ Collect(p) \/ Zip(p)
  \/ Accept(p) \/ Replace(p) \/ WriteFile(p) \/ FileWritten(p) \/ WritesDone(p) \/ LogRestore(p)

Step(p) ==
  \/ BundleStep(p) /\ UNCHANGED <<copy, bare>>
  \/ CopyDatabase(p) /\ UNCHANGED bare
  \/ AcceptDatabase(p)

Crowd == \E p, q \in Procs : p # q /\ pc[p] \in Restoring /\ pc[q] # "idle"

Next ==
  /\ \/ /\ \E p \in Procs : Step(p)
        /\ UNCHANGED killed
     \/ /\ \E p \in Procs : Kill(p)
        /\ killed' = TRUE
        /\ UNCHANGED <<copy, bare>>
  /\ crowded' = (crowded \/ Crowd')

Spec == Init /\ [][Next]_vars

-----------------------------------------------------------------------------
(* Properties *)

TypeOK ==
  /\ db \in Databases
  /\ raw \in [Digests -> {"absent", "torn", "whole"}]
  /\ bundle \in [Paths -> Bundles \cup {None, Torn}]
  /\ origin \in Seq({"restore"} \cup Digests)
  /\ pc \in [Procs -> Restoring \cup {"idle", "cite", "collect", "zip"}]
  /\ draft \in [Procs -> Bundles]
  /\ path \in [Procs -> Paths]
  /\ item \in [Procs -> Digests]
  /\ copy \in Databases \cup {None}
  /\ crowded \in BOOLEAN /\ killed \in BOOLEAN /\ bare \in BOOLEAN

\* A bundle that is finished passes verification, as long as restores had the
\* home for themselves: it has every artifact its database cites, although
\* other processes capture artifacts while it is made, and die.
BundlesVerify ==
  ~crowded => \A b \in Paths : bundle[b] \notin {None, Torn} => Verifies(bundle[b])

\* Under the same condition, when the restore of a bundle comes to its audit
\* event, every artifact the database cites is in place, whatever restores that
\* were killed, or had no artifacts with them, left behind.
RestoredIsWhole ==
  ~crowded =>
    \A p \in Procs : pc[p] = "event" /\ Verifies(draft[p]) =>
                        \A d \in db.cites : raw[d] = "whole"

\* A file that has its content keeps it.
RawKept == [][\A d \in Digests : raw[d] = "whole" => raw'[d] = "whole"]_raw

\* No restore is under way, none was disturbed and none cut short.
Quiet == ~crowded /\ ~killed /\ \A p \in Procs : pc[p] \notin Restoring

\* ADR 0001, "every transaction references an existing immutable source
\* artifact": outside of a restore every artifact that is cited is there, also
\* after the home's own database was restored without its artifacts.
ProvenanceWhole == Quiet /\ ~bare => \A d \in db.cites : raw[d] = "whole"

\* The database and its artifacts fit: at the end of a restore, whatever killed
\* ones left behind, and at all other times if none was disturbed or killed.
HomeWhole == RestoredIsWhole /\ ProvenanceWhole

\* ADR 0002, "restore appends a new local system.restore event": outside of a
\* restore a database that came from a bundle or a copy says so, right after
\* the events that came with it.
RestoreAudited ==
  Quiet /\ origin # <<>> =>
    /\ Len(db.log) > Len(origin)
    /\ \A i \in 1..Len(origin) : db.log[i] = origin[i]
    /\ db.log[Len(origin) + 1] = "restore"
=============================================================================
