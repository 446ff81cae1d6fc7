--------------------------- MODULE VersionedRecords ---------------------------
(***************************************************************************)
(* Three records that grow by appending, each in two steps: a call reads   *)
(* where the record stands, and appends what follows in a transaction      *)
(* later.                                                                  *)
(*   - The versions of an investment policy (application/policy.py), whose *)
(*     number is looked at again inside of the transaction; revisions of a *)
(*     thesis take the same steps.                                         *)
(*   - The accounting policy of an account (application/accounting.py),    *)
(*     the execution contract of a portfolio (application/execution.py)    *)
(*     and an equity case (application/equity_monitor.py), whose versions  *)
(*     live in the audit log only.  A home has one of the three here: they *)
(*     never read one another.                                             *)
(*   - The lifecycle of a recommendation (application/recommendation.py),  *)
(*     whose status is the transition with the latest wall clock time.     *)
(***************************************************************************)
EXTENDS Naturals, Sequences

CONSTANTS
  Procs,     \* processes, or requests, that work on the home
  Terms,     \* what a version says: a lot method, the constraints of a contract
  Dates,     \* dates from which a version may be in force
  Claims,    \* times that a caller may name as those a version was known at
  MaxClock,  \* bound on the clock
  MaxRows,   \* bound on what is recorded before a call starts
  None       \* no process

ASSUME RecordsAssumption ==
  /\ None \notin Procs
  /\ Dates \subseteq Nat /\ 0 \in Dates /\ Claims \subseteq Nat
  /\ MaxClock \in Nat /\ MaxRows \in Nat

VARIABLES
  versions,     \* rows of policy_versions
  kind,         \* which of the three records in the audit log it is
  audited,      \* its versions, events of the log
  transitions,  \* rows of recommendation_transitions
  clock,
  writer,       \* the process that has the write lock
  pc,           \* what each process is appending
  want,         \* and what it has made of what it read
  answer,       \* ghost: the last question about what is in force, its answer, and
                \* how many versions there were
  overlapped,   \* ghost: whether a call started while another was under way
  setback       \* ghost: whether the wall clock was ever set back

records == <<versions, audited, transitions>>
ghosts == <<overlapped, setback>>
vars == <<kind, records, clock, writer, pc, want, answer, ghosts>>

Statuses == {"draft", "reviewed", "accepted", "rejected", "expired"}

TRANSITIONS ==
  [s \in Statuses |-> CASE s = "draft"    -> {"reviewed", "rejected", "expired"}
                        [] s = "reviewed" -> {"accepted", "rejected", "expired"}
                        [] OTHER          -> {}]

\* From when a version is known, and whether its caller said so.
Knowledge == [at : Nat, claimed : BOOLEAN]

PolicyVersion == [number : Nat, from : Nat, known : Knowledge]

\* The random identity of an audited record: the time it was created at.
AuditedVersion ==
  [identity : Nat, number : Nat, from : Nat, known : Knowledge, terms : Terms, inherits : BOOLEAN]

Kinds == {"accounting", "contract", "case"}

Transition == [status : Statuses, at : Nat]

Init ==
  /\ versions = <<[number |-> 1, from |-> 0, known |-> [at |-> 0, claimed |-> FALSE]]>>
  /\ kind \in Kinds
  /\ audited = <<>>
  /\ transitions = <<>>
  /\ clock = 0
  /\ writer = None
  /\ pc = [p \in Procs |-> "idle"]
  /\ want = [p \in Procs |-> "draft"]
  /\ answer = <<>>
  /\ overlapped = FALSE
  /\ setback = FALSE

\* A call starts.
Begin(p) ==
  /\ pc[p] = "idle"
  /\ overlapped' = (overlapped \/ \E q \in Procs : pc[q] # "idle")
  /\ UNCHANGED setback

\* Reads of the clock differ: no two fall into one microsecond.
Now == clock < MaxClock /\ clock' = clock + 1

Room == Len(versions) + Len(audited) + Len(transitions) < MaxRows

Propose(p, label, row) ==
  /\ Room
  /\ pc' = [pc EXCEPT ![p] = label]
  /\ want' = [want EXCEPT ![p] = row]
  /\ UNCHANGED <<records, writer, answer>>

-----------------------------------------------------------------------------
(* What is in force *)

Numbers(rows) == {rows[i].number : i \in DOMAIN rows}

\* SELECT coalesce(max(version_number), 0) + 1
NextNumber(rows) == CHOOSE n \in 1..(Len(rows) + 1) :
  n \notin Numbers(rows) /\ \A m \in Numbers(rows) : m < n

\* Later knowledge wins over earlier for the same date, and a higher number for
\* the same knowledge.
Precedes(v, w) ==
  \/ v.from < w.from
  \/ v.from = w.from /\ v.known.at < w.known.at
  \/ v.from = w.from /\ v.known.at = w.known.at /\ v.number < w.number

\* PolicyVersionAt that forgets the knowledge cutoff.
PolicyVersionKnownLater(rows, from, known) ==
  LET visible == {rows[i] : i \in {j \in DOMAIN rows : rows[j].from <= from}}
  IN  {v \in visible : \A w \in visible : w = v \/ Precedes(w, v)}

\* The version in force at a date as far as it was known, as a set of at most one;
\* the projections of audited records choose theirs in the same order.
PolicyVersionAt(rows, from, known) ==
  LET visible == {rows[i] : i \in {j \in DOMAIN rows : rows[j].from <= from /\ rows[j].known.at <= known}}
  IN  {v \in visible : \A w \in visible : w = v \/ Precedes(w, v)}

\* The status of a recommendation: ORDER BY transitioned_at DESC LIMIT 1.
Status ==
  LET latest == {i \in DOMAIN transitions : \A j \in DOMAIN transitions : transitions[j].at <= transitions[i].at}
  IN  IF transitions = <<>> THEN "draft" ELSE transitions[CHOOSE i \in latest : TRUE].status

-----------------------------------------------------------------------------
(* Reading *)

\* known_at or recorded_at or now(): each of the two is taken from the caller, and
\* may be a time in the past.
KnownAt == {[at |-> clock + 1, claimed |-> FALSE]} \cup {[at |-> t, claimed |-> TRUE] : t \in Claims}

\* PolicyService.add_version: the next number.
ReadPolicy(p) ==
  /\ Begin(p) /\ Now
  /\ \E from \in Dates, known \in KnownAt :
       Propose(p, "policy", [number |-> NextNumber(versions), from |-> from, known |-> known])

\* A first version: only where there is none.
ReadForFirst(p) ==
  /\ Begin(p) /\ Now
  /\ audited = <<>>
  /\ \E from \in Dates, known \in KnownAt, t \in Terms :
       Propose(p, "audited", [identity |-> clock + 1, number |-> 1, from |-> from, known |-> known,
                              terms |-> t, inherits |-> FALSE])

\* AccountingService.create_policy looks for the account, ExecutionService.create
\* for the portfolio, EquityCaseService.create for the instrument, portfolio and name.
CreatePolicy(p)   == kind = "accounting" /\ ReadForFirst(p)
CreateContract(p) == kind = "contract" /\ ReadForFirst(p)
CreateCase(p)     == kind = "case" /\ ReadForFirst(p)

\* The row that follows version i, whose terms are given or those of version j.
Following(i, j, from, known, t, inherits) ==
  [identity |-> audited[i].identity,
   number   |-> audited[i].number + 1,
   from     |-> from,
   known    |-> known,
   terms    |-> IF inherits THEN audited[j].terms ELSE t,
   inherits |-> inherits]

\* ReadForNext that inherits from the first version.
ReadForNextFirst(p, inheriting) ==
  /\ Begin(p) /\ Now
  /\ audited # <<>>
  /\ \E inherits \in inheriting, from \in Dates, known \in KnownAt, t \in Terms :
       Propose(p, "audited", Following(Len(audited), 1, from, known, t, inherits))

\* A later version follows the latest by number of its identity.
ReadForNext(p, inheriting) ==
  /\ Begin(p) /\ Now
  /\ \E i \in DOMAIN audited :
       /\ \A j \in DOMAIN audited :
            audited[j].identity = audited[i].identity => audited[j].number <= audited[i].number
       /\ \E inherits \in inheriting, from \in Dates, known \in KnownAt, t \in Terms :
            Propose(p, "audited", Following(i, i, from, known, t, inherits))

\* A new version of an accounting policy or a case keeps what is not given; a
\* contract is given as a whole.
AddAccounting(p) == kind = "accounting" /\ ReadForNext(p, BOOLEAN)
AddContract(p)   == kind = "contract" /\ ReadForNext(p, {FALSE})
AddCase(p)       == kind = "case" /\ ReadForNext(p, BOOLEAN)

\* RecommendationService.transition checks the target against the status.
ReadStatus(p) ==
  /\ Begin(p)
  /\ \E target \in TRANSITIONS[Status] : Propose(p, "transition", target)
  /\ UNCHANGED clock

Rows(of) == IF of = "policy" THEN versions ELSE audited

\* An account, a portfolio or a case has one audited record.
SameIdentity == \A i, j \in DOMAIN audited : audited[i].identity = audited[j].identity

\* A question about what is in force at a date, with what is known so far.  Where
\* an account or a portfolio has two audited records it is refused; two cases would
\* each be asked for by their own identity, which is left out.
Ask(p) ==
  /\ Begin(p)
  /\ \E of \in {"policy", "audited"}, from \in Dates, known \in 0..clock :
       /\ of = "audited" => SameIdentity
       /\ answer' = <<of, from, known, PolicyVersionAt(Rows(of), from, known), Len(Rows(of))>>
  /\ UNCHANGED <<records, clock, writer, pc, want>>

-----------------------------------------------------------------------------
(* Appending *)

\* transition_recommendation takes the time for its INSERT.
Stamp(p) ==
  /\ pc[p] = "transition"
  /\ Now
  /\ \A i \in DOMAIN transitions : transitions[i].at # clock'
  /\ pc' = [pc EXCEPT ![p] = "stamped"]
  /\ want' = [want EXCEPT ![p] = [status |-> want[p], at |-> clock']]
  /\ UNCHANGED <<records, writer, answer>>

\* The first INSERT of the transaction takes the write lock.
Lock(p) ==
  /\ pc[p] \in {"policy", "audited", "stamped"} /\ writer = None
  /\ writer' = p
  /\ UNCHANGED <<records, clock, pc, want, answer>>

Done(p) ==
  /\ pc' = [pc EXCEPT ![p] = "idle"]
  /\ writer' = None
  /\ want' = [want EXCEPT ![p] = "draft"]
  /\ UNCHANGED answer

\* AppendVersion that trusts the number it was given.
AppendVersionUnchecked(p) ==
  /\ writer = p /\ pc[p] = "policy"
  /\ versions' = Append(versions, want[p])
  /\ Done(p)
  /\ UNCHANGED <<audited, transitions, clock>>

\* add_policy_version looks at the number again and raises if it has moved on.
AppendVersion(p) ==
  /\ writer = p /\ pc[p] = "policy"
  /\ versions' = IF want[p].number = NextNumber(versions) THEN Append(versions, want[p]) ELSE versions
  /\ Done(p)
  /\ UNCHANGED <<audited, transitions, clock>>

\* The projections append the event as it is.
AppendAudited(p) ==
  /\ writer = p /\ pc[p] = "audited"
  /\ audited' = Append(audited, want[p])
  /\ Done(p)
  /\ UNCHANGED <<versions, transitions, clock>>

\* AccountingPolicyProjection.add_version, ExecutionRepositoryProjection.
\* add_execution_contract_version and EquityCaseProjection.add_version.
AppendAccounting(p) == kind = "accounting" /\ AppendAudited(p)
AppendContract(p)   == kind = "contract" /\ AppendAudited(p)
AppendCase(p)       == kind = "case" /\ AppendAudited(p)

\* AppendTransition with the row as old as the recommendation.
AppendTransitionUndated(p) ==
  /\ writer = p /\ pc[p] = "stamped"
  /\ transitions' = Append(transitions, [want[p] EXCEPT !.at = 0])
  /\ Done(p)
  /\ UNCHANGED <<versions, audited, clock>>

\* transition_recommendation inserts the row, and does not look at the status again.
AppendTransition(p) ==
  /\ writer = p /\ pc[p] = "stamped"
  /\ transitions' = Append(transitions, want[p])
  /\ Done(p)
  /\ UNCHANGED <<versions, audited, clock>>

\* The call fails, or its process is killed: the transaction is rolled back.
Abort(p) ==
  /\ pc[p] # "idle"
  /\ pc' = [pc EXCEPT ![p] = "idle"]
  /\ writer' = IF writer = p THEN None ELSE writer
  /\ want' = [want EXCEPT ![p] = "draft"]
  /\ UNCHANGED <<records, clock, answer>>

\* The system sets the wall clock back; once is the bound.
SetBack ==
  /\ ~setback
  /\ \E t \in 0..clock : t # clock /\ clock' = t
  /\ setback' = TRUE
  /\ UNCHANGED <<records, writer, pc, want, answer, overlapped>>

Read(p) ==
  \/ ReadPolicy(p) \/ ReadStatus(p) \/ Ask(p)
  \/ CreatePolicy(p) \/ CreateContract(p) \/ CreateCase(p)
  \/ AddAccounting(p) \/ AddContract(p) \/ AddCase(p)

Write(p) ==
  /\ \/ Stamp(p) \/ Lock(p) \/ Abort(p)
     \/ AppendVersion(p) \/ AppendTransition(p)
     \/ AppendAccounting(p) \/ AppendContract(p) \/ AppendCase(p)
  /\ UNCHANGED ghosts

Next ==
  /\ SetBack \/ \E p \in Procs : Read(p) \/ Write(p)
  /\ UNCHANGED kind

Spec == Init /\ [][Next]_vars

-----------------------------------------------------------------------------
(* Properties *)

\* The versions of an investment policy are numbered without gaps or repeats in
\* the order in which they became facts, although calls overlap.
VersionsSequential == \A i \in DOMAIN versions : versions[i].number = i

\* Asking again for the same date and knowledge gives the same answer.
SameAnswer ==
  answer # <<>> => PolicyVersionAt(Rows(answer[1]), answer[2], answer[3]) = answer[4]

\* A version recorded since the question that its caller says was known by then.
Rewritten ==
  /\ answer # <<>>
  /\ \E i \in (answer[5] + 1)..Len(Rows(answer[1])) :
       LET known == Rows(answer[1])[i].known IN known.claimed /\ known.at <= answer[3]

\* A version in force was in force all along, whatever was recorded since, as long
\* as no two calls overlap and the clock is not set back (known_at is the time at
\* which a call read the clock, before its transaction) and no caller claims that a
\* new version had been known.
AnswersKept == ~overlapped /\ ~setback /\ ~Rewritten => SameAnswer

\* A version that leaves its terms open has those of the version before it.
LatestInherited ==
  \A i \in DOMAIN audited :
    /\ audited[i].number = i
    /\ audited[i].inherits => i > 1 /\ audited[i].terms = audited[i - 1].terms

\* As long as no two calls overlap, whatever the clock does, an account has one
\* accounting policy, a portfolio one execution contract and a name one case (with
\* two, every valuation or evaluation raises), and their versions continue one another.
OneIdentity == ~overlapped => SameIdentity /\ LatestInherited

\* A version is identified by its number: always for investment policies, which
\* number in the transaction, and without overlap for what the audit log keeps.
NumbersIdentify == VersionsSequential /\ OneIdentity

\* Every transition is one that the lifecycle allows after the one before it, and
\* an accepted, rejected or expired recommendation stays so.
InLifecycle ==
  \A i \in DOMAIN transitions :
    transitions[i].status \in TRANSITIONS[IF i = 1 THEN "draft" ELSE transitions[i - 1].status]

\* As long as no two calls overlap and the clock is not set back, a recommendation
\* goes through its lifecycle, although its status is read off the latest time.
LifecycleLegal == ~overlapped /\ ~setback => InLifecycle
=============================================================================
