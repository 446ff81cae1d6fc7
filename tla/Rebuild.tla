------------------------------- MODULE Rebuild -------------------------------
(***************************************************************************)
(* The clean rebuild (clausula/application/rebuild.py): the import batches *)
(* of a home are replayed, in the order they were recorded, by the same    *)
(* services into an empty home, where every row gets a new id; then the    *)
(* two homes are compared and the report says whether they are consistent. *)
(*                                                                         *)
(* A write stores its envelope and its rows.  The services of portfolios   *)
(* and of the ledger do so in transactions of their own: a crash between   *)
(* them, or a check that fails after the envelope is stored, leaves an     *)
(* envelope without a row.                                                 *)
(***************************************************************************)
EXTENDS HomeRecords

CONSTANTS Books,    \* kinds of use: the operations (and crashes), the dates that are asked for
                    \* (effective_at, as_of), the prices that files give, and a bound
                    \* on the batches
          Today     \* the time of the rebuild, after all batches

ASSUME RebuildAssumption ==
  /\ Today \in 1..End
  /\ \A b \in Books : b.batches \in 1..(Today - 1) /\ b.dates \subseteq 1..End

VARIABLES
  book,      \* the use that is made of this home
  log,       \* the import batches, in the order of created_at
  home,      \* the rows of the source
  pc,        \* "open", "replay", "compare", "done" or "aborted"
  order,     \* whether the ids drawn for the target ascend (1) or descend (-1)
  at,        \* the batches replayed
  target,    \* the rows of the target
  mapping,   \* source id -> target id
  seen,      \* the (account, file) pairs replayed
  warnings,  \* the batches that were not replayed
  verdict

source == <<book, log, home>>
report == <<order, at, target, mapping, seen, warnings, verdict>>
vars == <<book, log, home, pc, order, at, target, mapping, seen, warnings, verdict>>

\* A batch is recorded at its place in the log; the rebuild takes place after all.
Now == Len(log) + 1

Times == {1, Now}

Event(op, refs, eff, known, val) ==
  [op |-> op, id |-> Now, refs |-> refs, eff |-> eff, known |-> known,
   rec |-> Now, val |-> val]

Init ==
  /\ book \in Books
  /\ log = <<>>
  /\ home = {}
  /\ pc = "open"
  /\ order = 1
  /\ at = 0
  /\ target = {}
  /\ mapping = <<>>
  /\ seen = {}
  /\ warnings = {}
  /\ verdict = "none"

-----------------------------------------------------------------------------
(* The source *)

Writable(op) == pc = "open" /\ op \in book.ops /\ Len(log) < book.batches

\* What the envelope says: the number that the version got included.
Envelope(e) == IF e.op \in VersionOps THEN Stored(home, e, Now) ELSE e

Write(e) ==
  /\ Writable(e.op)
  /\ Accepts(home, e, Now)
  /\ log' = Append(log, Envelope(e))
  /\ home' = home \cup {Stored(home, e, Now)}
  /\ UNCHANGED <<book, pc, report>>

\* The envelope is stored and the row is not.
HalfWrite(e) ==
  /\ Writable(e.op)
  /\ log' = Append(log, e)
  /\ UNCHANGED <<book, home, pc, report>>

CreatePortfolio == Write(Event("portfolio.create", NoRefs, Now, Now, <<>>))

Membership(p, a, action, eff, known) ==
  Event("portfolio.set_membership", [portfolio |-> p], eff, known,
        [account |-> a, action |-> action])

SetMembership ==
  \E p \in Ids(home, "portfolio.create"), a \in Accounts, action \in {"add", "remove"},
     eff \in book.dates, known \in Times :
    Write(Membership(p, a, action, eff, known))

\* The process dies after import_batch() and before add_portfolio() or
\* add_portfolio_membership().
CrashInPortfolio ==
  /\ "crash" \in book.ops
  /\ \/ HalfWrite(Event("portfolio.create", NoRefs, Now, Now, <<>>))
     \/ \E p \in Ids(home, "portfolio.create"), a \in Accounts, eff \in book.dates :
          /\ CanSetMembership(home, Membership(p, a, "add", eff, Now))
          /\ HalfWrite(Membership(p, a, "add", eff, Now))

CreatePolicy ==
  \E p \in Ids(home, "portfolio.create"), eff \in book.dates :
    Write(Event("policy.create", [portfolio |-> p], eff, Now,
                [rules |-> "first", number |-> 0]))

AddVersion ==
  \E p \in Ids(home, "policy.create"), eff \in book.dates, known \in Times :
    Write(Event("policy.add_version", [policy |-> p], eff, known,
                [rules |-> "other", number |-> 0]))

CreatePlan ==
  \E p \in Ids(home, "policy.create"), eff \in book.dates, known \in Times :
    \E v \in {Newest(s) : s \in {InForce(home, p, eff, known)} \ {{}}} :
      Write(Event("planning.create", [policy |-> p, version |-> v.id], eff, known,
                  Comparison(home, p, v.id, eff, known)))

CreateDecision ==
  \E p \in Ids(home, "portfolio.create"), eff \in book.dates :
    \/ Write(Event("decision.create", [portfolio |-> p], eff, Now, <<>>))
    \/ \E v \in {r \in home : r.op \in VersionOps} :
         Write(Event("decision.create", [portfolio |-> p, version |-> v.id], eff, Now, <<>>))
    \/ \E l \in Ids(home, "planning.create") :
         Write(Event("decision.create", [portfolio |-> p, plan |-> l], eff, Now, <<>>))

LinkPolicy ==
  \E d \in Ids(home, "decision.create"), v \in {r \in home : r.op \in VersionOps} :
    Write(Event("decision.link_policy", [decision |-> d, version |-> v.id], Now, Now, <<>>))

LinkTransaction ==
  \E d \in Ids(home, "decision.create"), t \in {r \in home : r.op \in LedgerOps} :
    Write(Event("decision.link_transaction", [decision |-> d, tx |-> t.id], Now, Now, <<>>))

\* review() and link_evidence(), whose evidence is not looked up.
Review ==
  \E d \in Ids(home, "decision.create") :
    Write(Event("decision.review", [decision |-> d], Now, Now, <<>>))

ImportCsv ==
  \E a \in Accounts, f \in Files :
    LET e == Event("ledger.import_csv", NoRefs, Now, Now,
                   [account |-> a, file |-> f, amount |-> f.amount])
    IN /\ Writable(e.op)
       /\ log' = Append(log, e)
       /\ home' = home \cup (IF Imported(home, a, f) = {} THEN {Stored(home, e, Now)} ELSE {})
       /\ UNCHANGED <<book, pc, report>>

Correction(a, refs, known) ==
  Event("ledger.record_correction", refs, Now, known, [account |-> a, amount |-> 2])

\* The caller may say that it becomes known later than now: that is refused by
\* Transaction, when the envelope is stored, as is a transaction of another account.
RecordCorrection ==
  \E a \in Accounts, known \in Times \cup {Now + 1},
     refs \in {NoRefs} \cup {[tx |-> t.id] : t \in {r \in home : r.op \in LedgerOps}} :
    \/ Write(Correction(a, refs, known))
    \/ /\ CanCorrectEarly(home, Correction(a, refs, known))
       /\ ~CanCorrect(home, Correction(a, refs, known), Now)
       /\ HalfWrite(Correction(a, refs, known))

\* record_corporate_action(): the rebuild has no replay of it.
RecordCorporateAction ==
  \E a \in Accounts :
    LET e == Event("ledger.record_corporate_action", NoRefs, Now, Now,
                   [account |-> a, amount |-> 1])
    IN /\ Writable(e.op)
       /\ log' = Append(log, e)
       /\ home' = home \cup {e}
       /\ UNCHANGED <<book, pc, report>>

\* import_prices_csv(), import_fx_csv(): the file is captured, and opened again to be
\* parsed, so the rows may be those of a later file than the one that is kept.
ImportMarket ==
  \E captured, rows \in book.prices :
    Write(Event("market.import_csv", NoRefs, 1, 1,
                [version |-> captured, captured |-> captured, rows |-> rows]))

\* import_snapshot() of a provider.
ImportSnapshot ==
  \E rows \in book.prices :
    Write(Event("market.import_snapshot", NoRefs, 1, 1,
                [version |-> rows, captured |-> rows, rows |-> rows]))

IngestText ==
  \E known \in Times : Write(Event("research.ingest_text", NoRefs, known, known, <<>>))

\* Claims, and evidence, which is written and replayed alike.
CreateClaim ==
  \E d \in Ids(home, "research.ingest_text"), known \in Times :
    Write(Event("research.create_claim", [document |-> d], known, known, <<>>))

CreateContradiction ==
  \E a, b \in Ids(home, "research.create_claim") :
    Write(Event("research.create_contradiction", [a |-> a, b |-> b], Now, Now, <<>>))

CreateThesis ==
  \E known \in Times : Write(Event("research.create_thesis", NoRefs, known, known, [number |-> 1]))

ReviseThesis ==
  \E t \in Ids(home, "research.create_thesis"), known \in Times :
    Write(Event("research.revise_thesis", [thesis |-> t], known, known, [number |-> 0]))

LinkResearch ==
  \E f, t \in {r \in home : r.op \in NodeOps \cup LedgerOps \cup {"decision.create"}} :
    f # t /\ Write(Event("research.link", [from |-> f.id, to |-> t.id], Now, Now, <<>>))

-----------------------------------------------------------------------------
(* The rebuild *)

Batch == log[at + 1]

\* LedgerRebuilder.rebuild() with the accounts created.  Ids are random: the new
\* ones may be in any order, of which two are told apart.
Start(o) ==
  /\ pc = "open"
  /\ log # <<>>
  /\ pc' = "replay"
  /\ order' = o
  /\ UNCHANGED <<source, at, target, mapping, seen, warnings, verdict>>

NewId == 2 * End + order * Batch.id

Keep == UNCHANGED <<source, pc, order, verdict>>
Advance == at' = at + 1

Skip == Advance /\ Keep /\ UNCHANGED <<target, mapping, seen, warnings>>

Warn == Advance /\ warnings' = warnings \cup {Batch.id} /\ Keep /\ UNCHANGED <<target, mapping, seen>>

\* RebuildError is not caught: the target is left as it is.
Abort ==
  /\ pc' = "aborted"
  /\ UNCHANGED <<source, order, at, target, mapping, seen, warnings, verdict>>

\* The accounts that have rows of the file, whichever batch they came with.
AccountIds(file) ==
  {r.val.account : r \in {s \in Of(home, "ledger.import_csv") : s.val.file = file}}

Replaying == pc = "replay" /\ at < Len(log)

Remember(e) ==
  mapping' = [i \in DOMAIN mapping \cup {e.id} |-> IF i = e.id THEN NewId ELSE mapping[i]]

ReplayCsv ==
  /\ Replaying
  /\ Batch.op = "ledger.import_csv"
  /\ LET pair == <<Batch.val.account, Batch.val.file>>
         row == Stored(target, [Batch EXCEPT !.id = NewId], Today)
     IN \/ AccountIds(Batch.val.file) = {} /\ Skip
        \/ Cardinality(AccountIds(Batch.val.file)) > 1 /\ Abort
        \/ Cardinality(AccountIds(Batch.val.file)) = 1 /\ pair \in seen /\ Skip
        \/ /\ Cardinality(AccountIds(Batch.val.file)) = 1
           /\ pair \notin seen
           /\ Advance
           /\ seen' = seen \cup {pair}
           /\ target' = target \cup {row}
           /\ Remember(Batch)
           /\ Keep
           /\ UNCHANGED warnings

\* The artifact is imported again and must give the manifest of the dataset, which has
\* its rows.
ReplayMarket ==
  /\ Replaying
  /\ Batch.op = "market.import_csv"
  /\ \/ /\ Batch.val.captured = Batch.val.rows
        /\ target' = target \cup {Stored(target, [Batch EXCEPT !.id = NewId], Today)}
        /\ Remember(Batch)
        /\ Advance /\ Keep /\ UNCHANGED <<seen, warnings>>
     \/ Batch.val.captured # Batch.val.rows /\ Abort

\* A link of research is mapped with the ids of research only, and keeps the id of
\* the source where there is none.
ResearchMapping(i) ==
  IF i \in DOMAIN mapping /\ Row(home, i).op \in NodeOps THEN mapping[i] ELSE i

Mappable(e) ==
  e.op = "research.link" \/ \A k \in DOMAIN e.refs : e.refs[k] \in DOMAIN mapping

\* Mutant: the times are those of the rebuild.
MappedToday(e) ==
  [e EXCEPT !.id = NewId,
            !.known = IF e.op = "portfolio.set_membership" THEN e.rec ELSE e.known,
            !.refs = [k \in DOMAIN e.refs |->
                        IF e.op = "research.link"
                          THEN ResearchMapping(e.refs[k]) ELSE mapping[e.refs[k]]]]

\* The event in the terms of the target.
Mapped(e) ==
  [e EXCEPT !.id = NewId,
            !.refs = [k \in DOMAIN e.refs |->
                        IF e.op = "research.link"
                          THEN ResearchMapping(e.refs[k]) ELSE mapping[e.refs[k]]]]

\* The rebuild's own checks, after the service has done its work: a version has the
\* number that it had,
VersionUnchanged(e, row) == e.op \in VersionOps => row.val.number = e.val.number

\* and a plan compares the same and rests on the image of its version.
PlanUnchanged(e, row) ==
  e.op = "planning.create" =>
    \E v \in {Newest(InForce(target, row.refs.policy, e.eff, e.known))} :
      /\ Comparison(target, row.refs.policy, v.id, e.eff, e.known) = e.val
      /\ row.refs.version = v.id

Unchanged(e, row) == VersionUnchanged(e, row) /\ PlanUnchanged(e, row)

\* Mutant: the ids of decisions are not remembered.
ReplayForgetful(e) ==
  /\ target' = target \cup {Stored(target, Mapped(e), Today)}
  /\ IF e.op = "decision.create" THEN UNCHANGED mapping ELSE Remember(e)

Replay(e) ==
  /\ target' = target \cup {Stored(target, Mapped(e), Today)}
  /\ Remember(e)

\* A provider's answer is an envelope of an unknown format.
Replayable(e) ==
  /\ e.op \notin {"ledger.record_corporate_action", "market.import_snapshot"}
  /\ Mappable(e)
  /\ Accepts(target, Mapped(e), Today)

ReplayEvent ==
  /\ Replaying
  /\ Batch.op \notin {"ledger.import_csv", "market.import_csv"}
  /\ \/ /\ Replayable(Batch)
        /\ Unchanged(Batch, Stored(target, Mapped(Batch), Today))
        /\ Replay(Batch)
        /\ Advance /\ Keep /\ UNCHANGED <<seen, warnings>>
     \/ /\ Replayable(Batch)
        /\ ~Unchanged(Batch, Stored(target, Mapped(Batch), Today))
        /\ Abort
     \/ ~Replayable(Batch) /\ Warn

-----------------------------------------------------------------------------
(* The comparison *)

\* A row of the source in the terms of the target.
Image(r) ==
  [r EXCEPT !.id = mapping[r.id],
            !.refs = [k \in DOMAIN r.refs |->
                        IF r.refs[k] \in DOMAIN mapping THEN mapping[r.refs[k]] ELSE r.refs[k]]]
Known(r) == r.id \in DOMAIN mapping
Mirrored(r) == Known(r) /\ Image(r) \in target

\* The rows of the operations, as they are compared: without their ids.
Contents(rows) == {[r EXCEPT !.id = 0] : r \in rows}
SameContents(ops) ==
  LET rows == {r \in home : r.op \in ops}
  IN /\ \A r \in rows : Known(r)
     /\ Contents({Image(r) : r \in rows}) = Contents({r \in target : r.op \in ops})

AccountsMatch == \A a \in Accounts : Balance(home, a, Today, Today) = Balance(target, a, Today, Today)

PortfoliosMatch ==
  \A p \in Ids(home, "portfolio.create") :
    /\ p \in DOMAIN mapping
    /\ Members(target, mapping[p], End, End) = Members(home, p, End, End)

PoliciesMatch ==
  \A p \in Ids(home, "policy.create") :
    /\ p \in DOMAIN mapping
    /\ \A v \in VersionsOf(home, p) : Known(v)
    /\ VersionsOf(target, mapping[p]) = {Image(v) : v \in VersionsOf(home, p)}

\* Mutant: a plan is compared with the ids of the source.
PlansMatchUnmapped == \A l \in Of(home, "planning.create") : l \in target

PlansMatch == \A l \in Of(home, "planning.create") : Mirrored(l)

LinksOf(h, d) == {r \in h : r.op \in LinkOps /\ r.refs.decision = d}

DecisionsMatch ==
  \A d \in Of(home, "decision.create") :
    /\ Mirrored(d)
    /\ \A r \in LinksOf(home, d.id) : Known(r)
    /\ Contents(LinksOf(target, mapping[d.id]))
         = Contents({Image(r) : r \in LinksOf(home, d.id)})

\* The revisions of a thesis are compared with their ids, which never agree.
ResearchMatch ==
  /\ \A d \in Of(home, "research.ingest_text") : Mirrored(d)
  /\ SameContents({"research.create_claim"})
  /\ SameContents({"research.create_contradiction"})
  /\ SameContents({"research.link"})
  /\ {r \in home \cup target : r.op \in ThesisOps} = {}

Consistent ==
  /\ AccountsMatch
  /\ PortfoliosMatch
  /\ PoliciesMatch
  /\ PlansMatch
  /\ DecisionsMatch
  /\ ResearchMatch
  /\ warnings = {}

Compare ==
  /\ pc = "replay"
  /\ at = Len(log)
  /\ pc' = "done"
  /\ verdict' = IF Consistent THEN "consistent" ELSE "inconsistent"
  /\ UNCHANGED <<source, order, at, target, mapping, seen, warnings>>

Next ==
  \/ CreatePortfolio \/ SetMembership \/ CrashInPortfolio
  \/ CreatePolicy \/ AddVersion \/ CreatePlan
  \/ CreateDecision \/ LinkPolicy \/ LinkTransaction \/ Review
  \/ ImportCsv \/ RecordCorrection \/ RecordCorporateAction
  \/ ImportMarket \/ ImportSnapshot
  \/ IngestText \/ CreateClaim \/ CreateContradiction
  \/ CreateThesis \/ ReviseThesis \/ LinkResearch
  \/ \E o \in {1, -1} : Start(o)
  \/ ReplayCsv \/ ReplayMarket \/ ReplayEvent \/ Compare

Spec == Init /\ [][Next]_vars

-----------------------------------------------------------------------------
(* Properties *)

\* Every batch has its row: nothing was cut short.
Whole ==
  \A i \in DOMAIN log :
    log[i].op = "ledger.import_csv" \/ \E r \in home : r.id = log[i].id

\* What the rebuild does not promise to replay: rows without times of their own,
\* corporate actions, answers of providers, a file that two accounts imported, prices
\* of another file than the one that was kept, and links from research to what is not
\* research.
Supported ==
  /\ \A r \in home :
       /\ r.op \notin {"ledger.record_corporate_action", "market.import_snapshot"}
       /\ r.op = "market.import_csv" => r.val.captured = r.val.rows
       /\ r.op = "ledger.import_csv" =>
            r.val.file.dated /\ Cardinality(AccountIds(r.val.file)) = 1
       /\ r.op = "research.link" =>
            {Row(home, r.refs.from).op, Row(home, r.refs.to).op} \subseteq NodeOps

\* What a row says.  A contradiction holds between two claims, in whichever order
\* they are stored; a transaction or a price is recorded when its home stores it.
Meaning(r) ==
  CASE r.op = "research.create_contradiction" ->
         [r EXCEPT !.refs = {r.refs.a, r.refs.b}]
    [] r.op \in LedgerOps \cup MarketOps -> [r EXCEPT !.rec = 0]
    [] OTHER -> r

\* The target is the source under the mapping of ids, with all of its history.
SameHome ==
  /\ \A r \in home : Known(r)
  /\ {Meaning(Image(r)) : r \in home} = {Meaning(r) : r \in target}

\* A report that says "consistent" is right about everything that the home can be
\* asked, at any time and as known at any time, although it compares memberships
\* and balances only as they are in the end: unless an envelope has no row, or a
\* file gives no times.
VerdictTruthful ==
  /\ verdict = "consistent"
  /\ Whole
  /\ \A r \in Of(home, "ledger.import_csv") : r.val.file.dated
  => SameHome

\* A home whose every write was completed, and that uses only what the rebuild
\* replays, is rebuilt: no batch is refused where its turn comes, nothing aborts,
\* and the target is the source with all of its history.
CleanRebuildWhole ==
  Whole /\ Supported =>
    /\ pc # "aborted"
    /\ warnings = {}
    /\ pc = "done" => SameHome

\* Such a rebuild is reported as consistent, if there is no thesis (whose revisions
\* are compared with their ids) and no contradiction (whose claims are stored in
\* the order of their ids, which the mapping does not preserve).
NoFalseAlarm ==
  /\ pc = "done"
  /\ Whole /\ Supported
  /\ ~\E r \in home : r.op \in ThesisOps \cup {"research.create_contradiction"}
  => verdict = "consistent"
=============================================================================
