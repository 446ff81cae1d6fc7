---------------------------- MODULE MCValuation ----------------------------
(***************************************************************************)
(* Two accounts, a domestic share and a foreign bond, four times on two    *)
(* days, and the uses of a home that meet in the reads.                    *)
(***************************************************************************)
EXTENDS Valuation, TLC

CONSTANTS a1, a2, p1, p2, c1, c2, share, bond

MCCurrencyOf == (share :> "USD") @@ (bond :> "EUR")
MCAssetOf == (share :> "stock") @@ (bond :> "bond")

\* Two times a day.
MCDayOf == [t \in 1..End |-> (t + 1) \div 2]

Quote(item, observedAt, known, value) ==
  [item |-> item, observed |-> observedAt, known |-> known, value |-> value, accepted |-> TRUE]

Steady == {Quote(share, 1, 1, 3), Quote(bond, 1, 1, 2), Quote(<<"USD", "EUR">>, 1, 1, 2)}
\* What one of each is worth there, in units of 1 / Scale.
MCWorth == ("USD" :> 2) @@ ("EUR" :> 1) @@ (share :> 6) @@ (bond :> 2)

Moving == {Quote(share, 1, 1, 3), Quote(share, 3, 4, 5), Quote(bond, 2, 2, 2),
           Quote(<<"EUR", "USD">>, 2, 3, 2)}
Other == {Quote(share, 3, 3, 4), [Quote(bond, 1, 1, 4) EXCEPT !.accepted = FALSE],
          Quote(<<"USD", "EUR">>, 1, 1, 2)}

MCContents == {Steady, Moving}

ImportOf(label, content) == [label |-> label, via |-> "csv", content |-> content, source |-> content]

Legs(usd, eur, shares, bonds, paidIn) ==
  [cash |-> [USD |-> usd, EUR |-> eur], pos |-> (share :> shares) @@ (bond :> bonds),
   external |-> [USD |-> -paidIn, EUR |-> 0]]

Deposit == Legs(8, 0, 0, 0, 8)
Withdraw == Legs(-2, 0, 0, 0, -2)
Buy == Legs(-6, 0, 2, 0, 0)
BuyAway == Legs(-2, 0, 0, 2, 0)
BuyEuros == Legs(-2, 4, 0, 0, 0)

Rule(type, subject, lower, upper, hard) ==
  [type |-> type, subject |-> subject, lower |-> lower, upper |-> upper, hard |-> hard]
Act(instrument, quantity, fee) == [instrument |-> instrument, quantity |-> quantity, fee |-> fee]
Scenario(key, cash, actions) == [key |-> key, cash |-> cash, actions |-> actions]

MCPlans ==
  {[rules |-> {Rule("min_cash_weight", "cash", 30, 100, TRUE),
               Rule("max_currency_weight", "EUR", 0, 40, FALSE),
               Rule("max_single_instrument_weight", "", 0, 50, FALSE)},
    scenarios |-> {Scenario(1, 0, <<>>),
                   Scenario(2, 0, <<Act(share, 1, 2)>>),
                   Scenario(3, 4, <<Act(bond, 2, 0), Act(share, 1, 0)>>)}],
   [rules |-> {Rule("allocation_band", "stock", 20, 60, TRUE),
               Rule("min_cash_amount", "cash", 5, 0, FALSE)},
    scenarios |-> {Scenario(1, 8, <<>>),
                   Scenario(2, 0, <<Act(share, -1, 2), Act(bond, 2, 2)>>)}]}

All == {1, 2, 3, 4}

Use(data, legs, times, bookings, joins, cutoffs, steady, plans) ==
  [datasets |-> data, calls |-> FALSE, legs |-> legs, times |-> times,
   bookings |-> bookings, joins |-> joins, actions |-> 2, cutoffs |-> cutoffs,
   knowledge |-> {PointInTime, 3}, steady |-> steady, worth |-> MCWorth,
   plans |-> plans]

MCUses ==
  { \* Flows and trades at steady prices, booked and known late.
    Use({ImportOf("v1", Steady)}, {Deposit, Withdraw, Buy},
        {<<1, 1>>, <<2, 3>>, <<3, 4>>}, 3, {<<1, 1>>}, {All}, TRUE, {}),
    \* Prices that move and conflict.
    Use({ImportOf("v1", Moving), ImportOf("v2", Other)}, {Deposit, Buy, BuyAway},
        {<<1, 1>>, <<1, 4>>, <<3, 2>>}, 2, {<<1, 1>>, <<3, 3>>}, {All}, FALSE, {}),
    \* Plans.
    Use({ImportOf("v1", Moving)}, {Deposit, Buy, BuyAway, BuyEuros},
        {<<1, 1>>, <<3, 3>>}, 3, {<<1, 1>>}, {{2, 4}}, FALSE, MCPlans),
    \* Overlapping imports and evaluations.
    [Use({}, {}, {}, 0, {}, {}, FALSE, {}) EXCEPT !.calls = TRUE, !.knowledge = {}] }

\* Bookings in the order in which they became known, after the memberships, which
\* nothing in them depends on.
InOrder ==
  /\ home # home' => ledger = {}
  /\ \A t \in ledger, u \in ledger' \ ledger :
       t.known < u.known \/ (t.known = u.known /\ t.eff <= u.eff)

Symmetry ==
  Permutations(Accounts) \cup Permutations(Processes) \cup Permutations(Changes)
=============================================================================
