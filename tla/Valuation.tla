----------------------------- MODULE Valuation -----------------------------
(***************************************************************************)
(* A home whose ledger, memberships and market data are written, and what   *)
(* is read from it at any moment: valuations, performance and plans.       *)
(***************************************************************************)
EXTENDS PlanScenarios, Observations

CONSTANTS Uses,       \* kinds of use, see below
          Portfolio,  \* the id of the portfolio
          Horizon     \* the last time that is written or asked for

Times == 1..Horizon

\* A use is [datasets: what was imported before, calls: whether more is, legs: what
\* transactions are made of, times: their <<effective_at, known_at>>, bookings: a
\* bound on them, joins: the times of memberships, actions: a bound on them, cutoffs:
\* the sets of dates that are asked for, knowledge: the known_as_of, steady: whether
\* prices never change and trades are at those prices, worth: these prices, plans: rules
\* and scenarios].

\* What amounts of items are worth.
Worth(amounts, worth, items) == MapThenSumSet(LAMBDA x : amounts[x] * worth[x], items)

\* All rows say the same worth of one of an item, in the base currency, and what comes
\* in from outside is what the legs are worth.
IsSteady(u) ==
  /\ ~u.calls
  /\ u.worth \in [Currencies \cup Instruments -> Int]
  /\ u.worth[Base] = Scale
  /\ \A r \in RowsOf(u.datasets) :
       /\ \A i \in Instruments : r.item = i => r.value * u.worth[CurrencyOf[i]] = u.worth[i]
       /\ \A c \in Currencies : /\ r.item = <<c, Base>> => r.value * Scale = u.worth[c]
                                /\ r.item = <<Base, c>> => Scale \div r.value = u.worth[c]
  /\ \A legs \in u.legs :
       Worth(legs.cash, u.worth, Currencies) + Worth(legs.pos, u.worth, Instruments)
         = -(Scale * External(legs))

\* Prices and rates are positive.
IsContent(rows) == IsFiniteSet(rows) /\ \A r \in rows : r.value \in Nat \ {0}

Scenarios ==
  [key : Int, cash : Int, actions : Seq([instrument : Instruments, quantity : Int, fee : Int])]

\* The keys of the scenarios of a plan are unique.
IsPlan(plan) ==
  /\ IsFiniteSet(plan.scenarios) /\ IsFiniteSet(plan.rules)
  /\ \A s \in plan.scenarios :
       s \in Scenarios /\ \A t \in plan.scenarios : s.key = t.key => s = t

IsUse(u) ==
  /\ \A legs \in u.legs : /\ {legs.cash, legs.external} \subseteq [Currencies -> Int]
                         /\ legs.pos \in [Instruments -> Int]
  /\ u.times \subseteq Times \X Times
  /\ u.cutoffs \subseteq SUBSET Times
  /\ u.knowledge \subseteq {PointInTime} \cup Times
  /\ \A d, e \in u.datasets : d.label = e.label => d = e
  /\ IsContent(RowsOf(u.datasets))
  /\ \A plan \in u.plans : IsPlan(plan)
  /\ u.steady \in BOOLEAN /\ (u.steady => IsSteady(u))

ASSUME ValuationAssumption ==
  /\ Horizon \in 1..End
  /\ \A u \in Uses : IsUse(u)
  /\ \A rows \in Contents : IsContent(rows)

VARIABLES use, ledger, home

vars == <<use, ledger, home, file, raw, datasets, events, lock, draft, left, pc, job, calls>>

Init ==
  /\ use \in Uses
  /\ ledger = {}
  /\ home = {[op |-> "portfolio.create", id |-> Portfolio, refs |-> NoRefs, eff |-> 1,
              known |-> 1, rec |-> 1, val |-> <<>>]}
  /\ ObservationsStart(use.datasets, IF use.calls THEN Contents ELSE {{}})

\* Imports, deposits, trades, transfers and corrections are all transactions with legs.
Book ==
  /\ Cardinality(ledger) < use.bookings
  /\ \E a \in Accounts, legs \in use.legs, t \in use.times :
       ledger' = ledger \cup
         {[id |-> Cardinality(ledger) + 1, account |-> a, eff |-> t[1], known |-> t[2],
           cash |-> legs.cash, pos |-> legs.pos, external |-> legs.external]}
  /\ UNCHANGED <<use, home, observed>>

SetMembership ==
  /\ Cardinality(home) <= use.actions
  /\ \E a \in Accounts, action \in {"add", "remove"}, t \in use.joins :
       LET e == [op |-> "portfolio.set_membership", id |-> Portfolio + Cardinality(home),
                 refs |-> [portfolio |-> Portfolio], eff |-> t[1], known |-> t[2],
                 rec |-> Horizon + Cardinality(home),
                 val |-> [account |-> a, action |-> action]]
       IN CanSetMembership(home, e) /\ home' = home \cup {e}
  /\ UNCHANGED <<use, ledger, observed>>

Observe ==
  /\ use.calls
  /\ ObservationsNext
  /\ UNCHANGED <<use, ledger, home>>

Next == Book \/ SetMembership \/ Observe

Spec == Init /\ [][Next]_vars

-----------------------------------------------------------------------------
(* Properties *)

\* All datasets, or the version that the caller selects.
Selections == {datasets} \cup {Versions(d.label) : d \in datasets}

\* The reads that replace the baseline answer what it answers, whatever the cutoffs
\* and the knowledge: the same valuations, the same flows, the same conflicts.
FastAgrees ==
  \A cutoffs \in use.cutoffs, k \in use.knowledge, d \in Selections :
    FastPoints(home, Portfolio, ledger, d, cutoffs, k)
      = PlainPoints(home, Portfolio, ledger, d, cutoffs, k)

Visibly(t, c, k) == t.eff <= c /\ t.known <= KnownAt(k, c)

\* External flows that the period brings and that are not of the day it ends.
Missed(accounts, c, d, k) ==
  {t \in ledger : /\ t.account \in accounts
                  /\ Visibly(t, d, k) /\ ~Visibly(t, c, k)
                  /\ DayOf[t.eff] # DayOf[d]}

\* While prices stand still, the return of a period is nothing but the flows that are
\* not of the day it ends: money that is paid in or out that day is no return, whatever
\* is traded, booked late or known late.
FlowsAreNotReturns ==
  use.steady =>
    \A cutoffs \in use.cutoffs, k \in use.knowledge :
      \A p, q \in PlainPoints(home, Portfolio, ledger, datasets, cutoffs, k) :
        /\ p.at < q.at
        /\ At(home, Portfolio, p.at, k) = At(home, Portfolio, q.at, k)
        /\ Linkable(p.point, q.point)
        => Gain(p.point, q.point)
             = Scale * MapThenSumSet(LAMBDA t : -External(t),
                         Missed(At(home, Portfolio, q.at, k), p.at, q.at, k))

UnitValues(i, cutoff) ==
  UnitValue(i, Quotes(datasets, {i} \cup ({Base} \X Currencies) \cup (Currencies \X {Base}),
                      cutoff, cutoff))

\* A scenario gives quantities; the caller of the simulation gives their value.
Priced(scenario, cutoff) ==
  [scenario EXCEPT !.actions =
     [n \in DOMAIN scenario.actions |->
        [instrument |-> scenario.actions[n].instrument, fee |-> scenario.actions[n].fee,
         delta |-> scenario.actions[n].quantity
                     * Max(UnitValues(scenario.actions[n].instrument, cutoff))]]]

Traded(scenario, i) ==
  MapThenSumSet(LAMBDA n : IF scenario.actions[n].instrument = i THEN scenario.actions[n].quantity ELSE 0,
                DOMAIN scenario.actions)

\* What is left of the new cash of a scenario when its actions are paid.
Change(scenario, cutoff) ==
  LET actions == Priced(scenario, cutoff).actions
  IN  scenario.cash - MapThenSumSet(LAMBDA n : actions[n].delta + actions[n].fee, DOMAIN actions)

\* The transaction that the scenario is, in an account.
Booking(scenario, a, cutoff) ==
  [id |-> Cardinality(ledger) + 1, account |-> a, eff |-> cutoff, known |-> cutoff,
   cash |-> [c \in Currencies |-> IF c = Base THEN Change(scenario, cutoff) \div Scale ELSE 0],
   pos |-> [i \in Instruments |-> Traded(scenario, i)],
   external |-> [c \in Currencies |-> 0]]

AccountsAt(cutoff) == At(home, Portfolio, cutoff, PointInTime)

\* The portfolio with the scenario booked, in an account that has what it sells.
Booked(scenario, cutoff) ==
  UNION {PlainValuation(ledger \cup {Booking(scenario, a, cutoff)}, datasets,
                        AccountsAt(cutoff), cutoff, cutoff) :
           a \in {b \in AccountsAt(cutoff) : \A i \in Instruments :
                    State(ledger, b, cutoff, cutoff).pos[i] + Traded(scenario, i) >= 0}}

\* All prices are known, and what is paid is in whole units, as amounts are integers.
Quoted(plan, cutoff) ==
  \A s \in plan.scenarios :
    /\ \A n \in DOMAIN s.actions : UnitValues(s.actions[n].instrument, cutoff) # {}
    /\ Change(s, cutoff) % Scale = 0

Simulations(plan, cutoff, valuation) ==
  UNION {{[scenario |-> s, valuation |-> w] : w \in Simulated(valuation, Priced(s, cutoff))} :
           s \in plan.scenarios}

\* The simulation of a scenario is what the portfolio is worth, and how it is made up,
\* once the scenario is booked; and if booking one of a plan's scenarios satisfies the
\* policy, booking the recommended one does.
ScenarioIsBooking ==
  \A plan \in use.plans, cutoff \in UNION use.cutoffs :
    Quoted(plan, cutoff) =>
      \A v \in PlainValuation(ledger, datasets, AccountsAt(cutoff), cutoff, cutoff) :
        \A sims \in {Simulations(plan, cutoff, v)} :
          /\ \A s \in sims : Booked(s.scenario, cutoff) \subseteq {s.valuation}
          /\ /\ Cardinality(sims) = Cardinality(plan.scenarios)
             /\ \E s \in sims : \E w \in Booked(s.scenario, cutoff) :
                  Evaluation(w, plan.rules) = "compliant"
             => \A w \in Booked(Recommended(sims, plan.rules).scenario, cutoff) :
                  Evaluation(w, plan.rules) = "compliant"
=============================================================================
