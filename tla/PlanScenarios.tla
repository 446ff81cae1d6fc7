--------------------------- MODULE PlanScenarios ---------------------------
(***************************************************************************)
(* The rules of a policy against a valuation, the simulation of trades on   *)
(* a valuation, and the comparison of the scenarios of a plan              *)
(* (clausula/analytics/policy.py, analytics/planning.py).  The simulation  *)
(* changes the totals of a valuation, never the ledger.                    *)
(*                                                                         *)
(* A rule bounds the weight, or for min_cash_amount the amount, of its     *)
(* subject, in percent, by lower and upper.  A scenario is [key, cash,     *)
(* actions], an action [instrument, delta, fee]: delta is the value in the *)
(* base currency, positive to buy, and fee stands for fee and tax.         *)
(***************************************************************************)
EXTENDS PortfolioReads

\* value / total within the bounds; a weight is 0 where the total is.
WeightWithin(value, total, lower, upper) ==
  IF total = 0 THEN lower <= 0 /\ 0 <= upper
  ELSE LET sign == IF total > 0 THEN 1 ELSE -1
       IN /\ lower * total * sign <= 100 * value * sign
          /\ 100 * value * sign <= upper * total * sign

Largest(valuation) ==
  Max({0} \cup {valuation.concentration[i] : i \in Instruments})

\* _evaluate_rule() of a complete valuation.
Complies(valuation, rule) ==
  CASE rule.type \in {"allocation_band", "max_asset_type_weight", "min_cash_weight"} ->
         WeightWithin(valuation.allocation[rule.subject], valuation.total, rule.lower, rule.upper)
    [] rule.type = "min_cash_amount" -> rule.lower * Scale <= valuation.allocation["cash"]
    [] rule.type = "max_currency_weight" ->
         WeightWithin(valuation.exposure[rule.subject], valuation.total, rule.lower, rule.upper)
    [] rule.type = "max_single_instrument_weight" ->
         WeightWithin(Largest(valuation), valuation.total, rule.lower, rule.upper)

Violations(valuation, rules) == {r \in rules : ~Complies(valuation, r)}

\* evaluate_policy().
Evaluation(valuation, rules) ==
  IF ~valuation.complete THEN "unavailable"
  ELSE IF Violations(valuation, rules) # {} THEN "violation" ELSE "compliant"

-----------------------------------------------------------------------------
(* Simulation *)

Add(f, k, x) == [f EXCEPT ![k] = @ + x]

\* _with_new_cash().
WithNewCash(valuation, cash) ==
  [valuation EXCEPT !.total = @ + cash,
                    !.allocation = Add(@, "cash", cash),
                    !.exposure = Add(@, Base, cash)]

\* One action of simulate_base_currency_trades().
CanTrade(valuation, a) ==
  /\ valuation.complete
  /\ valuation.concentration[a.instrument] + a.delta >= 0
  /\ valuation.allocation["cash"] - a.delta - a.fee >= 0

\* Mutant: the fee does not leave the base currency.
TradeFeeless(valuation, a) ==
  [valuation EXCEPT
     !.total = @ - a.fee,
     !.allocation = Add(Add(@, AssetOf[a.instrument], a.delta), "cash", -a.delta - a.fee),
     !.exposure = Add(Add(@, CurrencyOf[a.instrument], a.delta), Base, -a.delta),
     !.concentration = Add(@, a.instrument, a.delta)]

Trade(valuation, a) ==
  [valuation EXCEPT
     !.total = @ - a.fee,
     !.allocation = Add(Add(@, AssetOf[a.instrument], a.delta), "cash", -a.delta - a.fee),
     !.exposure = Add(Add(@, CurrencyOf[a.instrument], a.delta), Base, -a.delta - a.fee),
     !.concentration = Add(@, a.instrument, a.delta)]

\* The actions one after the other; a refused one ends the comparison with an error.
Acted(results, a) == {Trade(v, a) : v \in {w \in results : CanTrade(w, a)}}

Simulation(valuation, actions) == FoldLeft(Acted, {valuation}, actions)

Simulated(valuation, scenario) ==
  IF valuation.complete
    THEN Simulation(WithNewCash(valuation, scenario.cash), scenario.actions)
    ELSE Raised

-----------------------------------------------------------------------------
(* compare_plan_scenarios() *)

Fees(scenario) == MapThenSumSet(LAMBDA n : scenario.actions[n].fee, DOMAIN scenario.actions)

\* The rank of a scenario with its simulated valuation: the lowest is recommended.
Rank(scenario, valuation, rules) ==
  LET failed == Violations(valuation, rules)
  IN <<IF failed = {} THEN 0 ELSE 1,
       Cardinality({r \in failed : r.hard}), Cardinality(failed), Fees(scenario), scenario.key>>

Before(r, s) ==
  \E i \in DOMAIN r : r[i] < s[i] /\ \A j \in 1..(i - 1) : r[j] = s[j]

\* The scenarios are given with their simulations, all of which were possible.
Recommended(simulations, rules) ==
  CHOOSE s \in simulations :
    \A o \in simulations \ {s} : Before(Rank(s.scenario, s.valuation, rules),
                                        Rank(o.scenario, o.valuation, rules))
=============================================================================
