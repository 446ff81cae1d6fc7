# Verification of Clausula

TLA+ modules, TLC runs and TLAPS proofs about Clausula, a local-first ledger
for portfolios, research and decisions (`src/clausula`). Each definition is
translated from the source. `PROJECT.json` maps definitions to source lines, and
lists the runs, the mutants, the hazards and the theorems.

Contents: 1. the system, 2. modules, 3. runs and bounds, 4. fairness, 5. proofs,
6. only model-checked, 7. where code and documents disagree, 8. not modelled,
9. plan.

## 1. The system

One directory, the *home*, holds everything: `clausula.db` (SQLite in
rollback-journal mode), `raw/` (artifacts, one file per SHA-256 digest),
`daemon.lock` and `daemon-auth.json`. The daemon, the command line, the SDK and
the MCP adapter open it, and only the daemon takes the lease.

| component | state | operations | what makes it correct |
|---|---|---|---|
| Daemon and lease (`api/daemon.py`) | lock file, flock, manifest | start, acquire, serve, stop, die | one owner; a dead daemon locks nothing; the manifest is the server's |
| Store (`adapters/sqlite.py`, `adapters/audit.py`, `store_import_identity.py`) | rows, audit chain, `raw/` | artifact, import batch, record in transaction scopes | one chain; each row audited and traceable; what a caller is told is true |
| Schema migrations (`adapters/migrations.py`) | `user_version`, ledger, tables | baseline, migrations, refusal of newer schemas | what is recorded is applied; an open store is complete |
| Backup and restore (`adapters/backup.py`) | bundles beside the home | capture, bundle, verify, restore | a finished bundle verifies; a restored home is whole and says so |
| CSV import (`application/ledger_import.py`, `ledger_reconciled.py`) | external ids, edges from artifact rows to bookings | parse, reconcile, capture, book | booked once, whole, and as the captured bytes say |
| HTTP interface and confirmation (`api/http.py`, `api/auth.py`) | challenges, invocations in the audit log | issue, invoke, confirm, dry run | one call per challenge; effects are permitted; records are true |
| Capability registry (`capabilities/`) | a static catalogue | preflight, execute | permission, confirmation and schemas before and after the handler |
| MCP adapter (`adapters/mcp.py`) | none | calls of an agent under a profile, without the daemon's lock and without challenges | only permitted calls have effects, and those that ran are recorded |
| Plugins (`plugins/`) | a subprocess, two pipes, a thread | invoke, answer, time out, kill | success means a whole run; an invocation is answered |
| Ledger (`application/ledger.py`, `domain/ledger.py`) | append-only transactions and legs | record, correct, reconcile | positions and cash are sums of visible legs |
| Lot accounting (`analytics/lot_accounting.py`, `cost_basis.py`) | none, derived | two replays; plans of transfers | holdings explained by lots; no money lost; lots closed by the method |
| Versioned records (`application/policy.py`, `accounting.py`, `execution.py`, `equity_monitor.py`, `recommendation.py`) | versions of policies, accounting policies, execution contracts and equity cases; transitions | read where it stands, append what follows | numbering, identity, lifecycle, stable answers about the past |
| Policy evaluation (`analytics/policy.py`) | none | evaluate rules, simulate trades | the verdict on a simulated state is the one on the booked state |
| Market data (`application/market*.py`) | dataset versions, observations | import, select as of a date | a version is one content; no observation is used before it was known |
| Portfolios, valuation (`application/portfolio*.py`, `analytics/`) | memberships | value, performance | fast and plain valuation agree; money paid in is no return |
| Planning (`application/planning.py`, `analytics/planning.py`) | plans | compare scenarios, recommend one | the simulation of a scenario is what booking it gives |
| Decisions, research, recommendations | documents, theses, decisions, reviews | create, revise, review | links point to what existed |
| Rebuild (`application/rebuild*.py`) | an empty target home, a mapping of ids | replay every envelope, compare the homes | "consistent" is true; a home that was written whole is rebuilt |
| Attention (`application/attention.py`, `store.py`) | events by fingerprint | evaluate | one event per material change |
| Cockpit, benchmark, market intelligence, workspace, CLI | none | read, render | they change nothing |

The parts meet at few places. Every service writes through the store's
transaction scopes; the daemon's request threads share one store connection
under `registry_lock`; other processes meet the daemon only at SQLite's locks and at
files; the plugin host, the HTTP interface and the MCP adapter call the registry; lot
accounting and valuation read what the ledger appended, as of two dates; a rebuild
reads the envelopes of every service and calls the services again.

Hard behaviours, with the lines in PROJECT.json under `hazards`: an flock that
belongs to an inode and not to a path; commits that are refused and leave a
transaction open; nested scopes of two kinds; reads before a transaction and
writes in it; kills between two files or two statements; a file that changes
while it is imported; a clock read before a lock; an effect recorded in a
later transaction; pipes with two ends; facts backdated behind derived ones; a replay
that draws new ids; two implementations of one read.

## 2. Modules

| module | models | composed with |
|---|---|---|
| `SingleWriter` | abstract: one writer of a home, never a direct hand-over | implemented by `DaemonLease` |
| `DaemonLease` | `main()` of the daemon and `DaemonLease.acquire/release` | |
| `StoreWrites` | artifact, batch, record and audit event of three kinds of jobs over SQLite's locks | |
| `CsvImport` | the reconciled import over the same locks | |
| `Confirmation` | challenges and invocations of request threads, and calls of agents | |
| `PluginRunner` | a run of a plugin: worker, reading thread, waiting caller | |
| `SchemaMigration` | `migrate()` of several processes, statement by statement | |
| `BackupRestore` | captures, bundles and restores, file by file, and copies of the database alone | |
| `LedgerLots` | facts of the ledger and both replays into lots | |
| `VersionedRecords` | policies, records of the audit log (accounting policies, contracts, cases), recommendations: read, then append | |
| `HomeRecords` | what a home stores and answers: operators only | used by `Rebuild` and `PortfolioReads` |
| `SortedSets` | a finite set in the order of a relation: an operator only | used by `PortfolioReads` |
| `Rebuild` | a home that is written, with crashes, then rebuilt and compared | over `HomeRecords` |
| `PortfolioReads` | both readers of ledger, prices, rates, memberships; performance: operators only | over `HomeRecords` |
| `PlanScenarios` | rules, simulation, choice of a scenario: operators only | over `PortfolioReads` |
| `Observations` | imports of datasets and attention events over SQLite's locks | |
| `Valuation` | a home with bookings, memberships and datasets, whose reads are compared | composes `PlanScenarios` and `Observations` |
| `MC...` | values of the constants for TLC | |
| `SetLemmas` | lemmas on sorted sets, induction over finite sets, sums, and folds and their runs | used by `LedgerProofs`, `RebuildProofs` and `ValuationProofs` |
| `StoreWritesProofs` | theorems | about `StoreWrites` |
| `HomeProofs` | theorems | about `DaemonLease`, `Confirmation`, `PluginRunner`, `SchemaMigration` and `BackupRestore` |
| `LedgerProofs` | theorems | about `CsvImport` and `LedgerLots` |
| `MoneyProofs` | theorems | about the money of `LedgerLots`, over `LedgerProofs` |
| `VersionedRecordsProofs` | theorems | about `VersionedRecords` |
| `RebuildProofs` | theorems | about `Rebuild` |
| `ValuationProofs` | theorems | about `Valuation`, the readers and `Observations` |

Two components that never meet but are in one module of theorems have names of their own for
their states, actions and specifications (`LeaseSpec`, `ConfirmationSpec`, `PluginSpec`,
`MigrationSpec`, `LedgerSpec`; `phase`, `progress` and `stage` for program counters).

State and actions. Program counters (`pc`, `progress`, `phase`, `stage`) name the line between two steps that
other processes can see in between; what happens under one lock, or in one
statement of SQLite, is one action. A crash resets the process and drops
what the kernel or SQLite drops (flocks, uncommitted writes). Comments in
the modules name the function of each action.

- `DaemonLease`: `fd`, `linked` and `holder` are file descriptors, the inode that
  the path names and flocks; `release()` is `Unlock` and `Release`, for it
  unlocks before it unlinks. `raced` remembers that a start has overlapped
  the end of a release.
- `StoreWrites`: `db` is committed and `draft` is what the writing connection sees;
  `outer` and `inner` are the scopes a job has entered. A "with" scope
  commits whoever opened the transaction; a joined `write_transaction()` does
  nothing. `stray` remembers a job that ended and left its transaction open.
- `CsvImport`: an artifact is its content, a set of rows, as it is found by its
  digest. The file may be replaced before each of the four times it is read.
- `Confirmation`: `lock` is `registry_lock`, `live` the challenges, `records` the
  audit trail. Handlers may do nothing, fail, or have their effect and then fail. An agent's
  call takes no lock; one that its profile does not permit leaves no record (`TurnAway`).
- `PluginRunner`: `stdout` and `stdin` are the lines in the pipes, `handled` the set
  of ids answered, of which there is only one. What the plugin prints of its own is remembered
  (`printed`) by what the reading thread does with it: noise that is not JSON fails the run, a
  JSON value that is no object ends the thread, an object that is no message is ignored, and a
  line that was not finished takes the next request with it. A full pipe stops the worker (`Block`).
- `SchemaMigration`: DDL commits by itself, the ledger row and the version commit
  together. A row of the ledger has a version and a contract, which stands for name and
  checksum; programs may have different contracts for one version. `overlapped` and `died`
  remember what happened to the home.
- `BackupRestore`: files are absent, torn or whole; `copy` is the home's own database as
  `Store.backup()` copied it. `crowded` and `killed` remember that a restore was not alone, or
  that a process died in the middle, `bare` that another home's database was put in place
  without its artifacts.
- `LedgerLots`: a fact has the day it takes effect and the day it is known.
  Nothing but facts is state: the replays are folds over the facts visible at two
  cutoffs. `book` is the way a ledger is kept, chosen at first.
- `VersionedRecords`: a call reads and holds (`want`) what it will append.
  A version is known from when the call read the clock, or from when its caller says
  (`claimed`). `overlapped` and `setback` remember overlapping calls and clocks set back. `kind`
  says which of the three records the audit log has; it does not change.
- `Rebuild`: `log` is the import batches, `home` the rows, `target` the rows of the
  rebuilt home with ids of its own, drawn in ascending or descending `order`. A row is the
  event that was stored, so the same operators serve both homes. `book` is the use that is
  made of the home: operations that meet, dates, prices.
- `Valuation`: facts only, no derived state; `use` chooses what is booked and asked. The
  row by row readers and the sweeping ones are two operators each over the same facts.
- `Observations`: `job` is what a process is doing and was answered; the locks are
  SQLite's, and who cannot get one fails and may call again. `draft` is what the connection
  that writes sees. A refused COMMIT of `write_transaction()` leaves the transaction open, with
  a pending lock: the next calls of the process join it (`Joins`), until a "with self.db" commits
  it or the process ends. `left` remembers the process. An interrupt, which leaves one open as
  well, is in `StoreWrites` only.

History variables take the place of assumptions: a property that needs one says
`~overlapped => ...`, so the same run shows that it holds without the event and
goes on behind it for the properties that do not need it.

## 3. Runs and bounds

| run | states | what it shows |
|---|---|---|
| `lease` | 161 000 | three daemons, four inodes: flocks and owners correspond, the home has one owner and its manifest until a start overlaps a release, the lease implements `SingleWriter` until then, a shutdown always frees the home |
| `store_writes` | 292 000 | four jobs of three kinds on two connections, with refused commits, kills and interrupts: the audit log is one chain and says what the rows are, provenance is closed; outcomes are true and scoped writes atomic until a transaction was left open |
| `store_lost_ack` | violation | a write reported as stored is not |
| `csv_import` | 348 000 | three imports by two processes over legacy bookings: bookings say what the captured bytes say, once, wholly or not at all, with the same verdict for the same dated bytes |
| `confirmation` | 1 583 000 | of four possible requests and three challenges two of each, three calls of an agent, two ticks, restarts: one call per challenge, effects authorised, records truthful, challenges kept |
| `plugin_runner` | 2 700 | up to three invocations, each kind of output of the plugin's own once: success is whole, the first invocation is answered unless such output, or a result that JSON cannot carry, prevents it |
| `schema_migration` | 127 000 | three processes of three programs, an older one and two whose last migrations differ, two statements a migration: recorded means applied, open means complete; the ledger matches the version until two overlap; until one was killed a start fails only if the database is newer or another build's |
| `backup_restore` | 1 553 000 | three processes, two artifacts, a foreign bundle, a foreign database and the home's own copy: bundles verify, the home is whole, restores are audited |
| `ledger_lots` | 163 000 | four facts in each of five books (transfers, splits and unlinked moves; backdated trades and shorts under three methods; actions with allocations under two; cash for whole positions without an allocation; backdated trades before transfers and splits): positions explained, money accounted, replays agree and never refuse, methods kept, no hindsight |
| `versioned_records` | 319 000 | two processes, a policy, an audited record of each kind, a recommendation: numbering of policies always; identity, lifecycle and answers while calls do not overlap and the clock goes forward, answers while moreover no caller says that a new version was known before |
| `rebuild` | 624 000 | seven uses of a home, up to five batches each: a report of consistency is true of everything the home can be asked; a home that was written whole is rebuilt; such a rebuild is not reported as inconsistent |
| `valuation` | 135 000 | four uses: at all cutoffs the fast readers answer what the plain ones do; the return of a period at steady prices is the flows it misses; the simulation of a scenario is what booking it gives; imports and evaluations that overlap, also over what a refused COMMIT left open, store one content and one event |

Why the bounds are enough. A race on the lease needs one that releases, one
that holds the old inode and one that makes a new one: three daemons, and an
inode more than those open. A lost write needs a reader and a writer: two
connections; two imports of one file add the artifact that is there already.
A legacy conflict needs two legacy bookings of one id, and a third import sees
what two left. A challenge is contended for by two requests; the other pairs differ in
principal, call or protection. Expiry needs the tick after the TTL. A
migration is cut short between its first and second statement; two builds meet in the last
migration, before, in the middle of and after the ones they share. What a plugin prints acts
on the reader by its kind, not by its number. One time to claim, in the past or not according to the
clock, is before and after the times that are asked for. A restore is
disturbed by one other process, and an artifact is cited by the one database and
absent from the other with two digests. The database is copied once: a second copy
replaces the first. Agents' calls are one of each kind: permitted, in need of a
confirmation, not permitted. Lots need a partial close, a close of
several, and one beyond what is held: four facts with these quantities. An order
of versions is confused by three.

A rebuild depends on what an envelope refers to and when it was written. Each book of
`MCRebuild` has the operations that refer to one another (portfolios with crashes; ledger
and decisions; policies, plans and reviews; plans over bookings; research with
transactions; corrections and actions; plans over prices) and as many batches as its longest
chain of references needs; rows of different books are not compared with one another. The
uses of `MCValuation` are flows at steady prices, prices that move and conflict, plans,
and calls that overlap, at two cutoffs on each of two days, so that every order of
"takes effect", "becomes known" and "is asked" occurs. A domestic and a foreign
instrument and an inverse rate make conversions that need not be exact: `Scale`
keeps them in integers. `ScenarioIsBooking` speaks of plans whose items are all priced and whose
actions leave an amount of cash in whole units (`Quoted`), as a booking has integers where the
code has decimals; the action of a scenario has the value of its quantity at the portfolio's
price, which the code leaves to its caller.

`Explored` in `MCBackupRestore` and `MCVersionedRecords` is a constraint: behind a flag that
frees all properties of a part nothing is explored there. In `MCBackupRestore` it also takes a
kill, another home's database and the home's own copy one at a time, and in
`MCVersionedRecords` the audited record without the others, since no action reads one
record to write another, and claims and answers apart from what frees the answers of their
promise. `Relevant` is a VIEW: it leaves out what no process will read again, the path and the item of one that is at neither. `InOrder` books in the order of
knowledge, as a set of facts does not depend on the order. `FirstInA1` and the
SYMMETRY sets use that processes and accounts only differ by name; no run with
symmetry checks liveness. Deadlock is not checked where the environment is
finite and ends: jobs that are all done (`store_writes` goes on, a refused job
may be retried by nobody), requests that are used up, a full history.

`ledger_lots` chooses its inputs so that the promise is one the code makes: basis
allocations are the true ones, `known_at` is today, a history has one split,
whose ratio divides the position and each lot of every replay that is read (`Divides`: quantities are
integers here and decimals in the code), a cash settlement is of a positive holding with
a basis. Transfers are replayed under FIFO only, since the plan of a transfer takes
FIFO lots and the replay of an account under another method may refuse them.
A row or a caller may also give an earlier `known_at`, which rewrites what was
known; `NoHindsight` speaks of facts that become known when they are recorded.
By `NoHindsight` the properties need to look only at what is known today. Properties that compare two
derivations of a ledger speak of one where nothing is backdated before a split, a transfer or
an action that is recorded (`NothingBackdatedBeforeDerived`): the program works these out from
what it knows then, and never again (section 7). Backdated trades without them are in
two of the books.

Every property of a passing run has a mutant, an operator written beside the one it
stands for, that breaks it within the bounds.

## 4. Fairness

Two runs have liveness properties. `DaemonLease!LeaseFairSpec`: weak fairness, for each process, of
the steps that cannot wait for anybody (an acquisition that does not
block, removing the manifest, releasing). It does not assume that a daemon is
ever asked to stop, nor that a kill does not come. `PluginRunner!PluginFairSpec`: the
reading thread runs, and a worker that has an answer reads it. The plugin may
loop for ever, and nothing is assumed of the timeout: `FirstAnswered` holds
without its help.

The handlers of capabilities have no bound in the code, so no liveness is claimed of
`Confirmation`, and SQLite's lock waits are failures, so none of `StoreWrites`.

## 5. Proofs

For every number of processes, jobs, requests, digests, migrations and records, as far as
the assumptions named in the modules go:

- `HomeProofs`, the lease. `LeaseInv` adds to `LeaseBacked` that a process has a file open
  exactly where its counter says so. `QuietSingleOwner` needs more: until a
  race the path names the inode of the owner, a release has nobody
  beside it, and a published manifest is the owner's (`OneInode`, `ReleaseAlone`,
  `PublishedManifest`). From it follows `QuietImplementsSingleWriter`, step by step:
  acquiring is `TakeOver`, unlocking and dying are `GiveUp`, the rest stutters.
  Confirmation: `ConfInv`, the lock is held by the one request between its
  preflight and its end, a nonce that let a call through is not live (`Grant`), and the trail
  has what the counter says (`Trail`), for requests and agents alike. All four properties
  of the run. Plugins: `PluginInv` says that a request under way, in either pipe or with the
  thread, is the worker's last one, for which it waits (`Wire`), that a result is the last line
  of a worker that succeeded (`Result`), and that what the plugin printed of its own is still in the
  pipe or has failed the run or ended the thread (`Heard`), for any number of invocations; so a
  success was not preceded by more than objects that are no messages: `SuccessesAreWhole`.
- `StoreWritesProofs`. `StoreInv`: counters, locks and transaction states agree;
  of `db` and of `draft` the chain is valid, rows and events correspond and
  provenance is closed (`DbInv`). One lemma per stage shows `DbInv` of the draft;
  a commit copies it. `AuditIsFaithful`, `ProvenanceIsClosed`. `Steady` behind `~stray`: a
  transaction belongs to a job under way (`Transactions`), its scopes are those the service
  means to open (`Scoped`), and before its last commit a job has nothing in the database
  that it may have to take back (`Progress`); so what its caller is told is true when it
  is told, and no other job's commit changes it (`Effect`). A refused commit that would break
  it leaves the transaction open, which is what `stray` records. `OutcomesAreTrue`,
  `ScopedWritesAreAtomic`.
- `LedgerProofs`, imports. `CsvInv` says of a process between two steps what its plan is
  worth (`Running`, `Drafted`): the draft of the one that has the lock is the committed
  ledger and the rows it has booked so far, each with its edge. `Ledger` says of what is
  committed that an edge leads from every captured row to a booking that says the same,
  and that no two bookings share an external id unless they are legacy. A row is booked only if no
  booking agrees with it and none contradicts it (`RowsReconciled`, `RowContradicts`), and is
  looked at under the lock. `SourceIsFaithful`, `BookedExactlyOnce`, `VerdictOfBytes`.
  Lots: `HistoryInv`, that no fact is known from later than today; a new one is known from
  today, so an earlier cutoff does not let it in, and those that it lets in stay in their
  total order (`EarlierIsTotal`, `PastStays`). What is visible as of a date and a past knowledge is the
  same sequence for ever: `HistoryIsKept`.
- `LedgerProofs`, replays. A replay is a fold of a step over facts, and what it makes is shown on
  its run, the function that gives what each prefix of the history makes (`LotsRun`, `ReplayLotsRuns`). Every step keeps lots and
  pieces typed. What takes from lots takes quantity from one lot after the other in the order of
  the method, and no more than is asked: nothing behind a lot that is still open is touched,
  and what leaves the lots is what the pieces hold. A trade alone gives `LotsCloseInMethodOrder`.
  The others need `LedgerInv`: `BookInv` types the facts of a book, and `FactsFit` says that
  each fact is what the past of its account made of it, as that is visible today: the quantity of a split
  is what the holding then changes by, and its ratio divides the lots; the parts of a transfer are
  the oldest lots that there were, with their basis. No later fact changes that past, as
  it comes behind it or is not visible in it, unless it is backdated before it
  (`BeforeStays`, `PrefixIsBefore`: up to such a fact every later history is the same). So step by step the lots hold what the
  position does (`LotsExplainHoldings`, with transfers, actions and shorts); the oldest lots and
  the planned ones are the same, and both replays do the same (`FifosAgree`); and as there was
  enough when a transfer was planned, there is enough each time it is replayed
  (`HistoriesReplay`). The last is behind `WithoutActions`: the plan of a transfer comes from the
  FIFO replay, which does not know what a spin-off takes from the basis of its parent, and the
  accounting replay then refuses it (section 7). What does not go below zero
  is replayed without shorts either way (`ShortsMakeNoDifference`). Without actions the lots have different
  numbers (`LotsAreNumberedOnce`), which is what the code sorts them by.
- `MoneyProofs`. What the open lots and the results of a side are worth together (`Funds`) changes with each step
  by what its fact pays or receives in that account (`StepAccounts`, one lemma per kind of fact: `Funded`),
  so what a report has is the sum over its history (`RunAccounts`), and the sum over accounts
  and facts may be taken in either order (`SumsSwap`): what a transfer takes from one account it brings to the
  other, and all else is booked in one (`FactPays`). That a lot which is empty is worth nothing (`Emptied`)
  is kept by every step, so what is counted of open lots is all there is. `MoneyIsKept` has three conditions.
  Basis allocations: without one, cash closes every long lot of its currency, and leaves no result
  if these are not known to have cost anything. Nothing backdated before what was worked out without it: an allocation is
  of the basis that was there. And prices that divide (`WholePrices`) if there are
  shorts: a trade that closes a side and opens the other shares its value between them, which is exact for
  the `Decimal` of the code and leaves a remainder in integers.
- `HomeProofs`, migrations. `AppliedInv`: what each process believes is applied,
  is, and nothing is ever taken away: `OpenedIsComplete` for any overlap. `UnracedInv`
  behind `~overlapped`: at most one process is not idle, and its variables are the
  database's: `RecordIsTruthful`, `VersionGrows`. Behind `~died` too, `FreshInv`, that the
  schema has the statements of the rows it records and those of the one migration
  under way, by the build that is at it, and that this build knows all the rows, so that no statement can
  find its object there already: `StartsDoSucceed`.
  Backups: `RawIsKept`; `AloneInv` behind `~crowded`, that what is
  collected covers what is cited: `MadeBundlesVerify`; that what is still to be written is
  what is absent: `RestoreEndsWhole`. Behind no kill either, `QuietInv`, that the origin of
  the database is at the head of its log: `QuietRestoreAudited`; and behind no
  foreign database, `CitedInv`, that the artifacts of the database, of the copy and of the
  restore that is under way are in place or still to be written: `HomeIsWhole`.
- `RebuildProofs`. `RebuildInv`: a row of the home is what the service kept of its envelope
  (`HomeInv`); a row of the target is the same envelope with the ids that the rebuild drew,
  kept as the service keeps it on the day of the rebuild (`TargetInv`, with `New`, `Renamed` and
  `Kept`, so that the order of the replay and what was replayed in between do not matter);
  a verdict is about these homes (`VerdictInv`). A report of consistency then means
  that what the comparison skips is equal as well: `VerdictsAreTruthful`, for any
  sequence of writes, of any accounts and files.
  The other way round is a simulation. `HistoryInv` says that each row was made by its service
  of its batch, in the home of the rows `Before` it, where everything that it names is
  (`Grounded`), and that a plan says what its policy came to then. A row has a `Twin` in the ids
  of the target. A home of twins has the same members, balances and counts, the newest version is
  the twin of the newest one, and plans compare the same (`MembersOfTwins`, `BalanceOfTwins`,
  `VersionTwins`, `ComparisonOfTwins`), so what a service accepted it accepts again
  (`AcceptedAgain`, one case per service) and stores the twin (`StoredTwin`). Hence `CleanInv`: where every
  envelope has its row and all is supported, the target is the set of the twins of the rows
  replayed so far, and nothing was refused. At the end the image of every row means what its
  twin does (`ImageIsTwin`): `CleanRebuildsAreWhole`; without theses and contradictions
  it is its twin, and each comparison of the report holds: `CleanRebuildsAreConsistent`.
- `ValuationProofs`. `LedgerInv`: the ledger is finite, its transactions are numbered and are
  made of times and amounts. In such a state the two readers agree, `ReadersAgree`: the visible
  transactions have the lowest positions in the order of the stream, so the cursor stops
  after exactly these (`SweptAreVisible`); the query for all items gives each its own rows
  (`QuotesOfItems`) and an account's needs are among them; the flows of a day are sums
  over sets that differ in transactions without an external leg. `SteadyInv`: at
  steady prices every transaction is worth what it brings from outside. The table of amounts by item
  and by transaction adds up both ways, so a total is the sum of what the visible
  transactions bring (`SteadyTotal`), and a period brings those of its last day and those
  that are missed (`PeriodBrings`): `ReturnsAreNotFlows`.
  `ObservationsInv`: an import keeps its source from the capture on
  (`Calling`); from the second look for a fingerprint to the commit a process has a lock,
  so what it found cannot have changed (`Holds`), and what is drafted is the committed log and what was
  appended to it, whoever's call left it there (`Drafted`, `Exclusive`): events are unique whatever
  is left open. What was answered is committed for who never left anything open (`Told`). Of
  datasets, whose look is outside of the transaction, only the table keeps a version unique.
  `DatasetsAreTruthful`, `ChangesAreEventsOnce`.
  A valuation adds up lines, and a scenario changes its fields one action after the other, so both
  are brought to one form: `Composed` of what each group of items is worth (all of them, those
  of an asset type, of a currency, a single one). A complete valuation is composed of what its accounts have
  (`CompleteIsComposed`); an action moves its value between two groups and takes the fee from
  one (`TradeIsComposed`), so on the run of the simulation the groups are worth what they were and
  what the actions so far bring and take (`SimulationIsComposed`). The booking adds to one account
  legs that are worth just that (`BookingIsWorth`, `WorthWithBooking`) and leaves no gap
  (`NoGapsBooked`). Ranks are ordered, and those of different keys totally (`RanksAreOrdered`), so the recommended
  scenario has the least: `ScenariosAreBookings`, behind `ContentInv`, that prices are positive and
  finitely many.
- `SetLemmas`. What a sorted set has at which position; induction over the subsets of
  a finite set; that a fold over a sequence has a run, whose last state is its value (`FoldRuns`); what `MapThenSumSet` gives for unions, images, parts, sums and tables (`IsSum`
  is the function that it chooses).
- `VersionedRecordsProofs`. `NumberingInv` holds always, as the number is looked
  at again under the lock. `IdentityInv`, `LifecycleInv` and `AnswerInv` hold behind the flags,
  for accounting policies, contracts and cases at once (`AuditedRow` is what any of them appends):
  a call alone holds what follows the latest; transitions are in the order of
  their times, so that the latest by time is the last; a version still held
  becomes known after the last question, or its caller claims another time, and if that is not later
  `Rewritten` frees the answer.

A flag only ever goes up (`FlagsStay` and its like), so a step to a state
without it comes from a state without it, where the invariant can be used.

Assumptions beyond those on numbers: accounts, currencies and instruments are finite sets,
a later time is not of an earlier day (`ReadsAssumption`), and a kind of use is made of
times and integers, its dataset versions differ, prices and rates are positive, the scenarios of a plan
have different keys, and if it is called steady all its rows and legs
are at the same prices (`IsUse`, `IsContent`, `IsPlan`, `IsSteady`). TLC evaluates them for the instances of section 3.

Induction over data is done with sets and functions: `SubsetInduction` and `WFMin` take the set of
what has the property, and a sum is the function that `MapThenSumSet` chooses.

## 6. Only model-checked

Liveness (`ShutdownFreesHome`, `FirstAnswered`): no ENABLED or fairness in the
prover. `MoneyAccounted` where there is no basis allocation or something was backdated before
an action, split or transfer: the books of the run have both.
`AlwaysReplays` where there are corporate actions, for the reason given above: the books of the
run have no transfers beside actions.

## 7. Where code and documents disagree

With a run (see `findings`): a lost acknowledged write (`adapters/sqlite.py:315`).

Met while modelling. Where a condition or a history variable is named in parentheses, the
property in question excepts the case by it:

- `api/daemon.py:86`: a release unlocks and closes the lock file before it unlinks it, so
  a daemon that locked the same inode in between loses the name and a third one owns the
  home beside it (`DaemonLease!OneOwner` holds only until `raced`); line 22 and `SECURITY.md:7`
  speak of one writer.
- `analytics/lot_accounting.py:265`: a cash settlement that gives no basis
  allocations closes lots of every instrument of the account (`LedgerLots` gives the true ones);
  `docs/adr/0003`, line 26.
- `application/ledger.py:447`: a manual ledger write commits artifact, batch and
  row one by one, and a failure leaves the first ones (`ScopedWritesAtomic`
  excepts the kind "ledger"); `LOCAL_ACCEPTANCE.md:46` speaks of transactional
  rollback.
- `application/ledger_import.py:228`: a CSV row without a date has the time of the parse as
  its date, so the same bytes are refused the next time (`SameBytesSameVerdict`
  looks at dated rows); `m1-m2-gap-audit.md:12` lists row-level idempotence.
- `api/http.py:292`: an exception that is not caught leaves the invocation
  unrecorded (`RecordsTruthful` speaks of answered calls);
  `IMPLEMENTATION_PLAN.md:328` wants all invocations audited.
- `plugins/worker.py:17`, `plugins/runner.py:98`: each invocation has the same id, and the second
  is executed and never answered (`FirstAnswered`); `runner.py:57` says each is.
- `plugins/runner.py:138`: a plugin that prints a JSON value that is no object ends the reading
  thread, and its invocations are not answered any more; one that prints an object of another
  type is reported as a success (`printed`, in both properties). Standard error is read only after
  the worker has ended (line 153), so a worker that fills its pipe runs into the timeout.
- `adapters/sqlite.py:314`: a refused COMMIT leaves the transaction open, and an evaluation that is
  repeated on the connection finds its own uncommitted event and answers that it is stored
  (`MaterialChangeOnce` excepts the answers of such processes, `left`).
- `application/policy.py:145`, `application/accounting.py:136`, `application/execution.py:193`,
  `application/equity_monitor.py:267`: `known_at` is the caller's, and one in the past changes
  what was answered for the time since (`Rewritten` in `AnswersKept`).
- `analytics/cost_basis.py:125`, `analytics/lot_accounting.py:107`: after a trade is backdated
  before a recorded transfer, one replay takes the lots that the transfer names and the other
  those that FIFO gives now, and they disagree (`NothingBackdatedBeforeDerived`); splits and actions
  are not worked out again either.
- `application/ledger.py:869`: a split books a quantity, so a buy that was effective before it
  and becomes known after it is multiplied in the lots and not in the position (the
  book of transfers is not backdated).
- `analytics/lot_accounting.py:618`: an unlinked transfer out makes the
  accounting replay raise; ADR 0003, line 16, says it is flagged (`AlwaysReplays` is about histories
  without one).
- `analytics/lot_accounting.py:499`: the sequence number of a corporate action's lot is used
  again, so LIFO may close the older of two (`ClosedInMethodOrder` says nothing of two lots
  of one number).
- `analytics/cost_basis.py:267`: the plan of a transfer comes from the FIFO replay, which leaves the basis
  of the parent of a spin-off as it was, so the accounting replay, which reduces it, refuses the transfer's
  carried basis (`AlwaysReplays` is proved `WithoutActions`).
- `adapters/migrations.py:930` and `:897`: a migration killed half way cannot be
  taken up again, and two processes may both apply one (`died`, `overlapped`).
- `adapters/backup.py:287`, `adapters/sqlite.py:361`: a restore killed half
  way leaves citations without files, or no event (`killed`); ADR 0001, line 18, and
  ADR 0002, line 14, promise both.
- `application/accounting.py:60`, `application/execution.py:141`: two processes may give an
  account two accounting policies, or a portfolio two execution contracts, and its
  valuation or evaluation raises from then on (`overlapped`). Contracts and cases also
  write artifact, batch and event in separate transactions.
- `adapters/sqlite.py:2180`: the status of a recommendation is the latest by wall
  clock, so a clock set back reopens it (`setback`).
- `adapters/sqlite.py:386`: `Store.restore()` takes a database without artifacts: another
  home's leaves citations without files, and later backups fail (`bare`).
- `adapters/mcp.py:158`: an agent's call that its profile does not permit raises before the
  `try` and is not recorded (`TurnAway`), unlike the same refusal over HTTP.
- `application/rebuild.py`: any home with a thesis is reported as inconsistent, as the
  revisions of a thesis are compared with their ids; so may one with a contradiction, whose
  claims are stored in the order of their ids (`NoFalseAlarm` excepts both).
- The same, `Supported`: envelopes of corporate actions, of links to decisions or transactions
  and of provider snapshots cannot be replayed; a file that was imported into two
  accounts, or rows without dates, may make every rebuild abort.
- `application/ledger.py`, `application/portfolio.py`: the envelope is stored before the
  row, and a late check or a crash leaves an envelope that a rebuild replays (`Whole`).
- `application/market.py`: the file is captured and then opened again to be parsed, so rows
  need not be those of the artifact, and a rebuild then aborts (`captured = rows` in `Supported`).
- `analytics/performance.py`: only flows of the day on which a period ends are taken out
  of its return; others, and those that become known late, count as return
  (`FlowsAreNotReturns` says exactly which). Flows are added up across currencies, and
  an account that joins, or a transfer, counts as return.
- `application/ledger_fast.py`: `state()` without `as_of` takes the present as cutoff, the
  reader it replaces none; `Valuation` always gives one.
- `analytics/policy.py`: the simulation pays in cash of all currencies, so cash of the base
  currency may go below zero; new cash for a valuation that is incomplete raises.
- `application/research_queries.py`: a search as of a date finds theses by a title that
  was not known then. `application/decision.py`: a decision may cite a plan of a later date.

## 8. Not modelled

Every component in PROJECT.json under `components` has its reason. The catalogue of capabilities
(`capabilities/core.py`) is a table, and `cli.py` the parsing of arguments. Of the rebuild, accounts,
accounting policies and source records; of contracts, their constraints; of research, the search. Rendering, argument
parsing, manifests of plugins, sandbox profiles and the wording of errors have no
state. Providers of market data are network I/O. SQLite, the kernel's
flock and pipes are external and modelled from their documented behaviour as
the code uses it. A plugin that prints messages of the protocol by itself is
not modelled. Security of the sandbox and of tokens is not a subject.

## 9. Plan

Done, in this order: lease, store, import, confirmation, plugins, lots, migrations,
backup, versioned records; rebuild over the records of a home; the readers of ledger,
market and portfolios, performance, policies and plans; datasets and attention events;
agents; copies of the database; execution contracts and equity cases. Proofs of
all their safety properties.

Left:

1. An abstract journal (rows and events appended atomically) that `StoreWrites` and
   `CsvImport` implement.
2. Observed positions and their reconciliation; symbol changes and actions with several
   targets in `LedgerLots`.
3. Constraints of execution contracts, as operators beside `PlanScenarios`.
4. The intake of research sources, as jobs over the store.
5. Proofs of `MoneyAccounted` without basis allocations and of `AlwaysReplays` with actions
   other than spin-offs.
