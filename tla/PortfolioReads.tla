--------------------------- MODULE PortfolioReads ---------------------------
(***************************************************************************)
(* What a portfolio is worth, at a time and as known at a time, and what it *)
(* returned between times (clausula/application/portfolio.py,              *)
(* analytics/portfolio.py, analytics/performance.py).  The code has every  *)
(* read twice: row by row in the baseline services, and in one sweep over  *)
(* all cutoffs, accounts and instruments in portfolio_fast.py,             *)
(* ledger_fast.py and store.py, which are patched in for the baseline.     *)
(*                                                                         *)
(* A transaction has its legs summed up: cash and external by currency,    *)
(* pos by instrument.  A row of a dataset is a quote of an item, which is  *)
(* an instrument or a pair of currencies.  Amounts in the base currency    *)
(* are in units of 1 / Scale, so that a rate may divide them.              *)
(***************************************************************************)
EXTENDS HomeRecords, SequencesExt, SortedSets

CONSTANTS Instruments, Currencies, Base, Scale,
          CurrencyOf,  \* of an instrument
          AssetOf,     \* asset type of an instrument
          DayOf        \* of a time

ASSUME ReadsAssumption ==
  /\ IsFiniteSet(Currencies) /\ IsFiniteSet(Instruments)
  /\ Currencies \cap Instruments = {}
  /\ Base \in Currencies
  /\ Scale \in Nat \ {0}
  /\ CurrencyOf \in [Instruments -> Currencies]
  /\ DayOf \in [1..End -> Nat]
  /\ \A s, t \in 1..End : s <= t => DayOf[s] <= DayOf[t]

AssetTypes == {AssetOf[i] : i \in Instruments} \cup {"cash"}

\* known_as_of that is not given is each point's own time.
PointInTime == 0
KnownAt(k, cutoff) == IF k = PointInTime THEN cutoff ELSE k

SumBy(keys, part(_, _), set) == [k \in keys |-> MapThenSumSet(LAMBDA x : part(x, k), set)]
Cash(t, c) == t.cash[c]
Pos(t, i) == t.pos[i]
External(t) == MapThenSumSet(LAMBDA c : t.external[c], Currencies)

-----------------------------------------------------------------------------
(* The ledger, row by row *)

Transactions(l, a, eff, known) == Visible({t \in l : t.account = a}, eff, known)

StateOf(ts) == [cash |-> SumBy(Currencies, Cash, ts), pos |-> SumBy(Instruments, Pos, ts)]

State(l, a, eff, known) == StateOf(Transactions(l, a, eff, known))

\* Mutant: flows of the day that are not known yet are counted.
ExternalFlowUnknown(l, a, day, through, known) ==
  MapThenSumSet(LAMBDA t : -External(t),
    {t \in Transactions(l, a, through, End) : DayOf[t.eff] = day})

\* external_flows() of a day.  Amounts are added whatever their currency is.
ExternalFlow(l, a, day, through, known) ==
  MapThenSumSet(LAMBDA t : -External(t),
    {t \in Transactions(l, a, through, known) : DayOf[t.eff] = day})

-----------------------------------------------------------------------------
(* The ledger, in one sweep: a stream sorted by the time at which each     *)
(* transaction becomes visible, and a cursor that goes on from cutoff to   *)
(* cutoff and stops at the first that is not visible yet.                  *)

LatestOf(cutoffs) == Max(cutoffs)

StreamOf(l, a, cutoffs, k) ==
  Transactions(l, a, LatestOf(cutoffs), KnownAt(k, LatestOf(cutoffs)))

Activation(t, k) == IF k = PointInTime THEN Max({t.eff, t.known}) ELSE t.eff

\* Mutant: the stream stays in the order of the query.
IndexedByDate(ts, k) ==
  LET Before(t, u) ==
        \/ t.eff < u.eff
        \/ t.eff = u.eff /\ (t.known < u.known \/ (t.known = u.known /\ t.id < u.id))
  IN  Sorted(ts, {p \in ts \X ts : Before(p[1], p[2])})

Sooner(t, u, k) ==
  \/ Activation(t, k) < Activation(u, k)
  \/ Activation(t, k) = Activation(u, k) /\ t.id < u.id

Indexed(ts, k) == Sorted(ts, {p \in ts \X ts : Sooner(p[1], p[2], k)})

\* The transactions before the cursor when it stops for a cutoff.
Swept(stream, k, cutoff) ==
  {stream[i] : i \in {n \in DOMAIN stream :
                        \A m \in 1..n : Activation(stream[m], k) <= cutoff}}

\* states(): what is applied at each cutoff.
Sweep(l, a, cutoffs, k) ==
  LET stream == Indexed(StreamOf(l, a, cutoffs, k), k)
  IN {[account |-> a, at |-> c, applied |-> Swept(stream, k, c)] : c \in cutoffs}

\* external_flows_for_cutoffs(): the amounts of the days, each cutoff with its own knowledge.
SweepFlows(l, a, cutoffs, k) ==
  LET stream == {t \in StreamOf(l, a, cutoffs, k) : External(t) # 0}
  IN {[account |-> a, at |-> c,
       flow |-> MapThenSumSet(LAMBDA t : -External(t),
                  {t \in stream : /\ DayOf[t.eff] = DayOf[c]
                                  /\ t.eff <= c /\ t.known <= KnownAt(k, c)})] : c \in cutoffs}

-----------------------------------------------------------------------------
(* Market data: the newest rows for an item.  None is a gap and several    *)
(* values are a conflict, which only the choice of a dataset ends.         *)

RowsOf(datasets) == UNION {d.content : d \in datasets}

Accepted(datasets, items, eff, known) ==
  {r \in RowsOf(datasets) :
     r.item \in items /\ r.accepted /\ r.observed <= eff /\ r.known <= known}

Newer(rows) == {r \in rows : \A s \in rows : s.observed <= r.observed}

Values(rows, item) == {r.value : r \in {s \in rows : s.item = item}}

\* market_price() and market_fx_rate() of each item.
Quotes(datasets, items, eff, known) ==
  UNION {Newer(Accepted(datasets, {i}, eff, known)) : i \in items}

\* market_prices_many() and market_fx_rates_many(): one query, then by item.
QuotesMany(datasets, items, eff, known) ==
  LET rows == Accepted(datasets, items, eff, known)
  IN {r \in rows : \A s \in rows : s.item = r.item => s.observed <= r.observed}

Conflict(rows) == \E r, s \in rows : r.item = s.item /\ r.value # s.value

Held(state) == {i \in Instruments : state.pos[i] # 0}

\* What is looked up for the states of accounts: the instruments that they hold, and
\* both pairs of each currency that is not the base.
Needed(states) ==
  LET held == UNION {Held(s) : s \in states}
      currencies == {c \in Currencies : \E s \in states : s.cash[c] # 0}
                      \cup {CurrencyOf[i] : i \in held}
      foreign == currencies \ {Base}
  IN held \cup (foreign \X {Base}) \cup ({Base} \X foreign)

\* _fx_factor(): the rate, else the inverse of the opposite one, if there is one.
Factor(currency, rows) ==
  IF currency = Base THEN {Scale}
  ELSE IF Values(rows, <<currency, Base>>) # {}
    THEN {r * Scale : r \in Values(rows, <<currency, Base>>)}
    ELSE {Scale \div r : r \in Values(rows, <<Base, currency>>)}

\* The value of one of an instrument, if it has a price and a rate.
UnitValue(i, rows) ==
  {p * f : p \in Values(rows, i), f \in Factor(CurrencyOf[i], rows)}

-----------------------------------------------------------------------------
(* Valuation *)

\* value_portfolio() of one account: the lines of cash and of positions, and the gaps,
\* which are amounts without a rate, and positions that are short, or without a price.
Lines(a, state, rows) ==
  {[account |-> a, item |-> c, asset |-> "cash", currency |-> c,
    value |-> state.cash[c] * Max(Factor(c, rows))] :
     c \in {d \in Currencies : state.cash[d] # 0 /\ Factor(d, rows) # {}}}
  \cup
  {[account |-> a, item |-> i, asset |-> AssetOf[i], currency |-> CurrencyOf[i],
    value |-> state.pos[i] * Max(UnitValue(i, rows))] :
     i \in {j \in Instruments : state.pos[j] > 0 /\ UnitValue(j, rows) # {}}}

Gaps(state, rows) ==
  {c \in Currencies : state.cash[c] # 0 /\ Factor(c, rows) = {}}
  \cup {i \in Held(state) : state.pos[i] < 0 \/ UnitValue(i, rows) = {}}

Sum(lines) == MapThenSumSet(LAMBDA x : x.value, lines)

\* aggregate_accounts().  What is nowhere in the result has the value 0.
Aggregate(lines, complete) ==
  [complete |-> complete,
   total |-> Sum(lines),
   allocation |-> [t \in AssetTypes |-> Sum({x \in lines : x.asset = t})],
   exposure |-> [c \in Currencies |-> Sum({x \in lines : x.currency = c})],
   concentration |-> [i \in Instruments |-> Sum({x \in lines : x.item = i})]]

\* A result is the set of what is returned: nothing when a conflict is raised.
Raised == {}

\* Each account with the state and the rows that were read for it.
ValueOf(reads) ==
  IF \E r \in reads : Conflict(r.rows) THEN Raised
  ELSE {Aggregate(UNION {Lines(r.account, r.state, r.rows) : r \in reads},
                  \A r \in reads : Gaps(r.state, r.rows) = {})}

\* PortfolioService._valuation() of each account.
PlainValuation(l, datasets, accounts, eff, known) ==
  ValueOf({[account |-> s.account, state |-> s.state,
            rows |-> Quotes(datasets, Needed({s.state}), eff, known)] :
             s \in {[account |-> a, state |-> State(l, a, eff, known)] : a \in accounts}})

\* _market_inputs() and _value_states(): the rows are read once, for all accounts.
FastValuation(states, datasets, eff, known) ==
  LET rows == QuotesMany(datasets, Needed({s.state : s \in states}), eff, known)
  IN ValueOf({[account |-> s.account, state |-> s.state, rows |-> rows] : s \in states})

-----------------------------------------------------------------------------
(* Performance: the points at the cutoffs *)

Point(cutoff, valuation, flow) ==
  [day |-> DayOf[cutoff], flow |-> flow * Scale, valuation |-> valuation]

\* The portfolio's accounts, at a cutoff.
At(h, portfolio, cutoff, k) == Members(h, portfolio, cutoff, KnownAt(k, cutoff))

PlainPoint(h, portfolio, l, datasets, cutoff, k) ==
  LET known == KnownAt(k, cutoff)
      accounts == At(h, portfolio, cutoff, k)
      flow == MapThenSumSet(LAMBDA a : ExternalFlow(l, a, DayOf[cutoff], cutoff, known), accounts)
  IN {Point(cutoff, v, flow) : v \in PlainValuation(l, datasets, accounts, cutoff, known)}

FastPoints(h, portfolio, l, datasets, cutoffs, k) ==
  LET all == UNION {At(h, portfolio, c, k) : c \in cutoffs}
      sweeps == UNION {Sweep(l, a, cutoffs, k) : a \in all}
      flows == UNION {SweepFlows(l, a, cutoffs, k) : a \in all}
      of(set, c) == {x \in set : x.at = c /\ x.account \in At(h, portfolio, c, k)}
  IN UNION {{[at |-> c, point |-> Point(c, v, MapThenSumSet(LAMBDA f : f.flow, of(flows, c)))] :
               v \in FastValuation({[account |-> s.account, state |-> StateOf(s.applied)] :
                                      s \in of(sweeps, c)}, datasets, c, KnownAt(k, c))} :
               c \in cutoffs}

PlainPoints(h, portfolio, l, datasets, cutoffs, k) ==
  UNION {{[at |-> c, point |-> p] : p \in PlainPoint(h, portfolio, l, datasets, c, k)} :
           c \in cutoffs}

\* What performance_summary() links: complete valuations of different days, none of
\* which is negative; it divides by the opening value.
Linkable(p, q) ==
  /\ p.valuation.complete /\ q.valuation.complete
  /\ p.valuation.total > 0 /\ q.valuation.total >= 0
  /\ p.day # q.day

\* The return of the period times its opening value.
Gain(p, q) == q.valuation.total - q.flow - p.valuation.total
=============================================================================
