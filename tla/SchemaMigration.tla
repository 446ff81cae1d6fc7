--------------------------- MODULE SchemaMigration ---------------------------
(***************************************************************************)
(* Opening the database of a home: Store.__init__ runs migrate()           *)
(* (adapters/migrations.py) on every start of the daemon, the CLI or the   *)
(* MCP adapter, and so does a restore.                                     *)
(*                                                                         *)
(* Each migration runs under "with connection", but sqlite3 only opens a   *)
(* transaction before an INSERT: every DDL statement commits by itself,    *)
(* and only the row of the migration ledger and PRAGMA user_version commit *)
(* together.  The baseline is idempotent, a migration is not.              *)
(***************************************************************************)
EXTENDS Naturals

CONSTANTS
  Openers,       \* processes that open the home
  Supports,    \* Supports[p]: LATEST_SCHEMA_VERSION of the program p runs
  Contracts,   \* what may stand for a migration: its name and the checksum of its SQL
  Contract,    \* Contract[p][v]: what stands for migration v in the program p runs
  Statements,  \* the number of DDL statements of a migration
  Found        \* the versions the database may have at first; 0 is no database

ASSUME MigrationAssumption ==
  /\ Supports \in [Openers -> Nat \ {0}]
  /\ \A p \in Openers : Contract[p] \in [1..Supports[p] -> Contracts]
  /\ Statements \in Nat \ {0}
  /\ Found \subseteq Nat

VARIABLES
  version,  \* PRAGMA user_version
  base,     \* have all statements of a baseline run?  It only creates what is missing
  applied,  \* the DDL statements in the schema: migration, contract and number
  ledger,   \* the rows of schema_migrations: migration and contract
  stage,    \* where each process is in migrate()
  at,       \* its variable current, or the migration it is applying
  stmt,     \* the statement of that migration it runs next
  overlapped,  \* history: have two processes ever had the home open at once?
  died      \* history: has a process ever been killed in migrate()?

schema     == <<version, base, applied, ledger>>
opening    == <<stage, at, stmt>>
schemaVars == <<schema, opening, overlapped, died>>

\* The versions that have a row.
Recorded == {row[1] : row \in ledger}

Starting == {"baseline", "stamp", "meta", "check", "migrate"}

-----------------------------------------------------------------------------

\* What a program with these migrations leaves behind.  Version 1 may be from
\* before the migration ledger.
LeftBy(was) ==
  /\ applied = {<<v, was[v], s>> : v \in 2..version, s \in 1..Statements}
  /\ \/ ledger = {<<v, was[v]>> : v \in 1..version}
     \/ version = 1 /\ ledger = {}

\* A database of an earlier program, of this build or another, or none.
MigrationInit ==
  /\ version \in Found
  /\ base = (version > 0)
  /\ \E was \in [1..version -> Contracts] : LeftBy(was)
  /\ stage = [p \in Openers |-> "idle"]
  /\ at = [p \in Openers |-> 0]
  /\ stmt = [p \in Openers |-> 1]
  /\ overlapped = FALSE /\ died = FALSE

Advance(p, label) == stage' = [stage EXCEPT ![p] = label]

\* Mutant: Start that bootstraps whatever the version is.
StartAlwaysBaseline(p) ==
  /\ stage[p] = "idle"
  /\ at' = [at EXCEPT ![p] = 0]
  /\ Advance(p, IF version > Supports[p] THEN "failed" ELSE "baseline")
  /\ UNCHANGED <<schema, stmt>>

\* Reads user_version and refuses a version the program does not know.
Start(p) ==
  /\ stage[p] = "idle"
  /\ at' = [at EXCEPT ![p] = version]
  /\ Advance(p, IF version > Supports[p] THEN "failed"
             ELSE IF version <= 1 THEN "baseline" ELSE "meta")
  /\ UNCHANGED <<schema, stmt>>

\* apply_baseline: CREATE ... IF NOT EXISTS and INSERT OR IGNORE throughout, so
\* a run that is cut short is as good as none.
Baseline(p) ==
  /\ stage[p] = "baseline"
  /\ base' = TRUE
  /\ Advance(p, IF at[p] = 0 THEN "stamp" ELSE "meta")
  /\ UNCHANGED <<version, applied, ledger, at, stmt>>

\* PRAGMA user_version = 1, whatever the version has become meanwhile.
Stamp(p) ==
  /\ stage[p] = "stamp"
  /\ version' = 1
  /\ at' = [at EXCEPT ![p] = 1]
  /\ Advance(p, "meta")
  /\ UNCHANGED <<base, applied, ledger, stmt>>

\* Creates the migration ledger if there is none and records the baseline, unless
\* it has a row already.
Meta(p) ==
  /\ stage[p] = "meta"
  /\ ledger' = IF 1 \in Recorded THEN ledger ELSE ledger \cup {<<1, Contract[p][1]>>}
  /\ Advance(p, "check")
  /\ UNCHANGED <<version, base, applied, at, stmt>>

\* Mutant: Proceed that forgets the last migration.
ProceedShort(p, v) ==
  /\ Advance(p, IF v + 1 < Supports[p] THEN "migrate" ELSE "open")
  /\ at' = [at EXCEPT ![p] = v + 1]
  /\ stmt' = [stmt EXCEPT ![p] = 1]

\* On to the migration after version v, or done.
Proceed(p, v) ==
  /\ Advance(p, IF v < Supports[p] THEN "migrate" ELSE "open")
  /\ at' = [at EXCEPT ![p] = v + 1]
  /\ stmt' = [stmt EXCEPT ![p] = 1]

\* The migrations the program knows.
Expected(p) == {<<v, Contract[p][v]>> : v \in 1..Supports[p]}

\* Mutant: Check that looks at the versions alone.
CheckVersions(p) ==
  /\ stage[p] = "check"
  /\ \/ Recorded \subseteq 1..Supports[p] /\ Proceed(p, at[p])
     \/ ~(Recorded \subseteq 1..Supports[p]) /\ Advance(p, "failed") /\ UNCHANGED <<at, stmt>>
  /\ UNCHANGED schema

\* Compares every row of the ledger with them, its name and checksum too.
Check(p) ==
  /\ stage[p] = "check"
  /\ \/ ledger \subseteq Expected(p) /\ Proceed(p, at[p])
     \/ ~(ledger \subseteq Expected(p)) /\ Advance(p, "failed") /\ UNCHANGED <<at, stmt>>
  /\ UNCHANGED schema

\* The statement that p runs next.
Current(p) == <<at[p], Contract[p][at[p]], stmt[p]>>

\* What other builds have put into the schema.
FromOthers(p) == {x \in applied : <<x[1], x[2]>> \notin Expected(p)}

\* One statement of a migration.  It raises if what it creates exists, which it
\* may do by a statement of another build as well.
Statement(p) ==
  /\ stage[p] = "migrate" /\ stmt[p] <= Statements
  /\ \/ /\ Current(p) \notin applied
        /\ applied' = applied \cup {Current(p)}
        /\ stmt' = [stmt EXCEPT ![p] = @ + 1]
        /\ UNCHANGED stage
     \/ /\ Current(p) \in applied \/ FromOthers(p) # {}
        /\ Advance(p, "failed")
        /\ UNCHANGED <<applied, stmt>>
  /\ UNCHANGED <<version, base, ledger, at>>

\* Mutant: Seal before the statements of the migration.
SealEarly(p) ==
  /\ stage[p] = "migrate" /\ at[p] \notin Recorded
  /\ ledger' = ledger \cup {<<at[p], Contract[p][at[p]]>>}
  /\ version' = at[p]
  /\ Proceed(p, at[p])
  /\ UNCHANGED <<base, applied>>

\* The INSERT of the ledger row opens a transaction that PRAGMA user_version
\* joins; the version is the primary key of the ledger.
Seal(p) ==
  /\ stage[p] = "migrate" /\ stmt[p] > Statements
  /\ \/ /\ at[p] \notin Recorded
        /\ ledger' = ledger \cup {<<at[p], Contract[p][at[p]]>>}
        /\ version' = at[p]
        /\ Proceed(p, at[p])
     \/ /\ at[p] \in Recorded
        /\ Advance(p, "failed")
        /\ UNCHANGED <<version, ledger, at, stmt>>
  /\ UNCHANGED <<base, applied>>

\* "database is locked": another process keeps its write transaction open for
\* longer than the busy timeout.
Busy(p) ==
  /\ stage[p] \in Starting \ {"check"}
  /\ \E q \in Openers \ {p} : stage[q] = "open"
  /\ Advance(p, "failed")
  /\ UNCHANGED <<schema, at, stmt>>

\* The store is closed, or the process ends after the exception.
Exit(p) ==
  /\ stage[p] \in {"open", "failed"}
  /\ Advance(p, "idle")
  /\ UNCHANGED <<schema, at, stmt>>

Die(p) ==
  /\ stage[p] \in Starting
  /\ Advance(p, "idle")
  /\ UNCHANGED <<schema, at, stmt>>

Migrate(p) == Start(p) \/ Baseline(p) \/ Stamp(p) \/ Meta(p) \/ Check(p) \/ Statement(p) \/ Seal(p)

Overlap == \E p, q \in Openers : p # q /\ stage[p] # "idle" /\ stage[q] # "idle"

MigrationNext ==
  /\ \/ /\ \E p \in Openers : Migrate(p) \/ Busy(p) \/ Exit(p)
        /\ UNCHANGED died
     \/ /\ \E p \in Openers : Die(p)
        /\ died' = TRUE
  /\ overlapped' = (overlapped \/ Overlap')

MigrationSpec == MigrationInit /\ [][MigrationNext]_schemaVars

-----------------------------------------------------------------------------
(* Properties *)

MigrationTypeOK ==
  /\ version \in Nat
  /\ base \in BOOLEAN
  /\ applied \subseteq Nat \X Contracts \X (1..Statements)
  /\ ledger \subseteq Nat \X Contracts
  /\ stage \in [Openers -> Starting \cup {"idle", "open", "failed"}]
  /\ at \in [Openers -> Nat]
  /\ stmt \in [Openers -> 1..(Statements + 1)]
  /\ overlapped \in BOOLEAN /\ died \in BOOLEAN

\* A migration has a row only when every statement of it, as its build has them,
\* is in the schema, and the version counts only migrations that have one, whoever
\* is killed or races.
RecordedMeansApplied ==
  /\ \A row \in ledger, s \in 1..Statements : row[1] >= 2 => <<row[1], row[2], s>> \in applied
  /\ 2..version \subseteq Recorded

\* A store that was opened finds the tables of the baseline and of all migrations
\* of its program, the latter as its own build has them, even when another process, perhaps of another build, started at the same
\* time or was killed half way.
OpenComplete ==
  \A p \in Openers : stage[p] = "open" =>
    /\ base
    /\ \A v \in 2..Supports[p], s \in 1..Statements : <<v, Contract[p][v], s>> \in applied

\* The version and the ledger say the same, whoever was killed, as long as no
\* two processes opened the home at the same time.
VersionMatchesLedger == ~overlapped /\ version >= 2 => Recorded = 1..version

\* What the home says of itself is true: what it records, in either place, is
\* applied, whoever races or is killed, and the two places agree without races.
RecordTruthful == RecordedMeansApplied /\ VersionMatchesLedger

\* The database is not for this program: it is newer, or another build applied a
\* migration that the program knows otherwise.
NotFor(p) ==
  \/ version > Supports[p]
  \/ \E row \in ledger : row[1] \in 1..Supports[p] /\ row[2] # Contract[p][row[1]]

\* If moreover nobody was killed in the middle of a migration, a start fails
\* only on a database that is not for its program.
StartsSucceed ==
  ~overlapped /\ ~died =>
    \A p \in Openers : stage[p] = "failed" => NotFor(p)

\* "forward-only migrations": under the same condition as VersionMatchesLedger
\* the version never goes back.
ForwardOnly == [][~overlapped' => version' >= version]_version
=============================================================================
