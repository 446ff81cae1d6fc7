----------------------------- MODULE HomeRecords -----------------------------
(***************************************************************************)
(* The records of one home and the services that write them: portfolios    *)
(* and memberships, policies and their versions, plans, decisions with     *)
(* their links and reviews, research, and ledger transactions              *)
(* (clausula/application/portfolio.py, policy.py, planning.py, decision.py, *)
(* research*.py, ledger.py and the tables of adapters/sqlite.py).          *)
(*                                                                         *)
(* A write is described by its event: what the immutable envelope of the   *)
(* import batch says.  A row of the home is the event as it was stored, so *)
(* a home is a set of events.  refs names the rows that an event refers    *)
(* to; eff, known and rec are effective_at, known_at and recorded_at; val  *)
(* is the rest.  The module has no variables: the same operators serve the *)
(* home that is written and the home that is rebuilt from its envelopes.   *)
(***************************************************************************)
EXTENDS Integers, FiniteSets, FiniteSetsExt, Sequences

CONSTANTS Accounts,
          Files,    \* files of one row: [dated, eff, amount]
          End       \* a time after everything: 9999-12-31

ASSUME RecordsAssumption ==
  /\ IsFiniteSet(Accounts)
  /\ End \in Nat
  /\ \A f \in Files : f.dated \in BOOLEAN /\ f.eff \in 1..End /\ f.amount \in Int

NoRefs == <<>>

LedgerOps == {"ledger.import_csv", "ledger.record_correction",
              "ledger.record_corporate_action"}
VersionOps == {"policy.create", "policy.add_version"}
MarketOps == {"market.import_csv", "market.import_snapshot"}
LinkOps == {"decision.link_policy", "decision.link_transaction", "decision.review"}
ThesisOps == {"research.create_thesis", "research.revise_thesis"}
NodeOps == {"research.ingest_text", "research.create_claim", "research.create_thesis"}

Of(h, op) == {r \in h : r.op = op}
Ids(h, op) == {r.id : r \in Of(h, op)}
Row(h, id) == CHOOSE r \in h : r.id = id

-----------------------------------------------------------------------------
(* What the home answers *)

\* ORDER BY effective_at DESC, known_at DESC, recorded_at DESC.
Supersedes(r, s) ==
  \/ r.eff > s.eff
  \/ r.eff = s.eff /\ r.known > s.known
  \/ r.eff = s.eff /\ r.known = s.known /\ r.rec > s.rec

Newest(rows) == CHOOSE r \in rows : \A s \in rows \ {r} : Supersedes(r, s)

Visible(rows, eff, known) == {r \in rows : r.eff <= eff /\ r.known <= known}

MembershipOf(h, portfolio, account) ==
  {r \in Of(h, "portfolio.set_membership") :
     r.refs.portfolio = portfolio /\ r.val.account = account}

\* portfolio_accounts().
Members(h, portfolio, eff, known) ==
  {a \in Accounts :
     \E r \in {Newest(s) :
                 s \in {Visible(MembershipOf(h, portfolio, a), eff, known)} \ {{}}} :
       r.val.action = "add"}

PolicyOf(version) ==
  IF version.op = "policy.create" THEN version.id ELSE version.refs.policy

VersionsOf(h, policy) ==
  {r \in h : r.op \in VersionOps /\ PolicyOf(r) = policy}

PortfolioOf(h, policy) == Row(h, policy).refs.portfolio

\* The versions that policy_version_at() chooses from; it takes the newest.
InForce(h, policy, eff, known) == Visible(VersionsOf(h, policy), eff, known)

\* LedgerService.state(), for one currency.
Balance(h, account, eff, known) ==
  MapThenSumSet(LAMBDA r : r.val.amount,
    Visible({r \in h : r.op \in LedgerOps /\ r.val.account = account}, eff, known))

\* What a plan is made of: the rules in force, the cash of the portfolio and the prices
\* that its positions are valued at.
Comparison(h, policy, version, eff, known) ==
  [rules |-> Row(h, version).val.rules,
   total |-> MapThenSumSet(LAMBDA a : Balance(h, a, eff, known),
               Members(h, PortfolioOf(h, policy), eff, known)),
   prices |-> {r.val.rows : r \in Visible({s \in h : s.op \in MarketOps}, eff, known)}]

-----------------------------------------------------------------------------
(* What each service accepts: its checks, and those of the tables *)

CanSetMembership(h, e) ==
  /\ e.known <= e.rec
  /\ e.refs.portfolio \in Ids(h, "portfolio.create")
  /\ (e.val.action = "add")
       # (e.val.account \in Members(h, e.refs.portfolio, e.eff, e.known))

CanCreatePolicy(h, e) ==
  e.known <= e.rec /\ e.refs.portfolio \in Ids(h, "portfolio.create")

CanAddVersion(h, e) ==
  e.known <= e.rec /\ e.refs.policy \in Ids(h, "policy.create")

CanCreatePlan(h, e) ==
  /\ e.refs.policy \in Ids(h, "policy.create")
  /\ InForce(h, e.refs.policy, e.eff, e.known) # {}

\* A decision names at most a policy version and a plan of its portfolio, and
\* the version must have been in force and known.
CanCreateDecision(h, e) ==
  /\ e.refs.portfolio \in Ids(h, "portfolio.create")
  /\ "version" \in DOMAIN e.refs =>
       \E v \in h : /\ v.op \in VersionOps
                    /\ v.id = e.refs.version
                    /\ PortfolioOf(h, PolicyOf(v)) = e.refs.portfolio
                    /\ v.eff <= e.eff
                    /\ v.known <= e.known
  /\ "plan" \in DOMAIN e.refs =>
       \E p \in Of(h, "planning.create") :
         /\ p.id = e.refs.plan
         /\ PortfolioOf(h, p.refs.policy) = e.refs.portfolio

CanLinkPolicy(h, e) ==
  \E d \in Of(h, "decision.create"), v \in h :
    /\ d.id = e.refs.decision
    /\ v.op \in VersionOps /\ v.id = e.refs.version
    /\ PortfolioOf(h, PolicyOf(v)) = d.refs.portfolio

CanLinkTransaction(h, e) ==
  \E d \in Of(h, "decision.create"), t \in h :
    /\ d.id = e.refs.decision
    /\ t.op \in LedgerOps /\ t.id = e.refs.tx
    /\ t.val.account \in Members(h, d.refs.portfolio, t.eff, t.known)

CanReview(h, e) == e.refs.decision \in Ids(h, "decision.create")

\* The checks of record_correction() before the envelope is stored: none of those
\* that depend on other rows or on the clock.
CanCorrectEarly(h, e) == e.val.account \in Accounts

\* Those of Transaction and of _insert_transaction(), after it is stored.
CanCorrect(h, e, now) ==
  /\ CanCorrectEarly(h, e)
  /\ e.known <= now
  /\ "tx" \in DOMAIN e.refs =>
       \E t \in h : /\ t.op \in LedgerOps
                    /\ t.id = e.refs.tx
                    /\ t.val.account = e.val.account

CanIngest(h, e) == e.known <= e.rec

CanCreateClaim(h, e) ==
  e.known <= e.rec /\ e.refs.document \in Ids(h, "research.ingest_text")

CanCreateContradiction(h, e) ==
  /\ e.known <= e.rec
  /\ {e.refs.a, e.refs.b} \subseteq Ids(h, "research.create_claim")
  /\ e.refs.a # e.refs.b

CanReviseThesis(h, e) ==
  e.known <= e.rec /\ e.refs.thesis \in Ids(h, "research.create_thesis")

\* _research_node_exists(): decisions and transactions are nodes as well.
CanLinkResearch(h, e) ==
  /\ e.known <= e.rec
  /\ {e.refs.from, e.refs.to} \subseteq
       {r.id : r \in {s \in h : s.op \in NodeOps \cup LedgerOps \cup {"decision.create"}}}

\* add_market_dataset(): a version that exists is answered, or it conflicts.
CanImportMarket(h, e) == \A r \in h : r.op \in MarketOps => r.val.version # e.val.version

\* The service of an event, at time now.
Accepts(h, e, now) ==
  CASE e.op = "portfolio.create" -> TRUE
    [] e.op = "portfolio.set_membership" -> CanSetMembership(h, e)
    [] e.op = "policy.create" -> CanCreatePolicy(h, e)
    [] e.op = "policy.add_version" -> CanAddVersion(h, e)
    [] e.op = "planning.create" -> CanCreatePlan(h, e)
    [] e.op = "decision.create" -> CanCreateDecision(h, e)
    [] e.op = "decision.link_policy" -> CanLinkPolicy(h, e)
    [] e.op = "decision.link_transaction" -> CanLinkTransaction(h, e)
    [] e.op = "decision.review" -> CanReview(h, e)
    [] e.op = "ledger.record_correction" -> CanCorrect(h, e, now)
    [] e.op \in {"research.ingest_text", "research.create_thesis"} -> CanIngest(h, e)
    [] e.op = "research.create_claim" -> CanCreateClaim(h, e)
    [] e.op = "research.create_contradiction" -> CanCreateContradiction(h, e)
    [] e.op = "research.revise_thesis" -> CanReviseThesis(h, e)
    [] e.op = "research.link" -> CanLinkResearch(h, e)
    [] e.op \in MarketOps -> CanImportMarket(h, e)

-----------------------------------------------------------------------------
(* What is stored *)

\* A contradiction is stored with its smaller claim first, a row of a file with
\* the time of the import where the file gives none; transactions and prices are
\* recorded when they are stored in this home; versions and revisions are numbered.
Stored(h, e, now) ==
  CASE e.op = "research.create_contradiction" ->
         [e EXCEPT !.refs = [a |-> Min({e.refs.a, e.refs.b}),
                             b |-> Max({e.refs.a, e.refs.b})]]
    [] e.op = "ledger.import_csv" ->
         [e EXCEPT !.eff = IF e.val.file.dated THEN e.val.file.eff ELSE now,
                   !.known = IF e.val.file.dated THEN e.val.file.eff ELSE now,
                   !.rec = now]
    [] e.op \in MarketOps \cup {"ledger.record_correction"} -> [e EXCEPT !.rec = now]
    [] e.op \in VersionOps ->
         [e EXCEPT !.val.number = Cardinality(VersionsOf(h, PolicyOf(e))) + 1]
    [] e.op = "research.revise_thesis" ->
         [e EXCEPT !.val.number =
            Cardinality({r \in Of(h, e.op) : r.refs.thesis = e.refs.thesis}) + 2]
    [] OTHER -> e

\* add_import(): a row of the file that the account has is not booked again.
Imported(h, account, file) ==
  {r \in Of(h, "ledger.import_csv") : r.val.account = account /\ r.val.file = file}
=============================================================================
