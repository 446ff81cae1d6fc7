------------------------------ MODULE LedgerLots ------------------------------
(***************************************************************************)
(* The append-only ledger of positions and its two replays into tax lots:  *)
(* LedgerService.cost_basis (analytics/cost_basis.py, FIFO without shorts) *)
(* and AccountingPolicyService.cost_basis (analytics/lot_accounting.py,    *)
(* FIFO, LIFO or HIFO, shorts if the policy allows them).                  *)
(*                                                                         *)
(* A transaction is a fact: it has the day it takes effect and the day it  *)
(* is known.  Nothing is ever changed; what the program reports is derived *)
(* from the facts visible at a pair of cutoffs.  Quantities and values are *)
(* integers; \div stands for the rounding of Decimal, which loses nothing  *)
(* either, since what a lot keeps is what is left of it.                   *)
(***************************************************************************)
EXTENDS Integers, Sequences, SequencesExt, FiniteSetsExt, SortedSets

CONSTANTS
  Unknown,       \* the value of a lot whose basis is not known
  Buys,          \* the <<quantity, value>> of buys, fees included
  Moves,         \* the quantities of transfers without a linked record
  Ratios,        \* the <<numerator, denominator>> of splits
  Books,         \* the ways a ledger is kept
  MaxFacts       \* bound on the history

\* A way of keeping a ledger: its accounts and instruments, all in one currency;
\* the kinds of facts that are recorded; the <<quantity, value>> of sells; the lot
\* methods of the accounting policies and whether they allow shorts; whether
\* every action comes with a basis allocation, and whether a fact may take effect
\* before it is known; and the last day of the history.
IsBook(b) ==
  /\ IsFiniteSet(b.accounts)
  /\ b.kinds \subseteq {"buy", "sell", "split", "transfer", "move", "merger", "spin_off", "cash_in_lieu"}
  /\ \A t \in b.sells : t[1] \in Nat \ {0} /\ t[2] \in Nat
  /\ b.methods \subseteq {"fifo", "lifo", "hifo"}
  /\ {b.short, b.allocated, b.backdated} \subseteq BOOLEAN
  /\ b.days \in Nat \ {0}

ASSUME LedgerAssumption ==
  /\ Unknown \notin Int
  /\ \A b \in Books : IsBook(b)
  /\ \A t \in Buys : t[1] \in Nat \ {0} /\ t[2] \in Nat
  /\ Moves \subseteq Int \ {0}
  /\ \A r \in Ratios : r[1] \in Nat \ {0} /\ r[2] \in Nat \ {0}
  /\ MaxFacts \in Nat

VARIABLES
  facts,   \* transactions with their metadata, in the order they were recorded
  today,   \* the clock
  book     \* how this ledger is kept

ledgerVars == <<facts, today, book>>

-----------------------------------------------------------------------------
(* Facts *)

\* qty is the position leg of inst in acc, gets the one of dst in to.  A
\* security transfer is one fact for its two linked transactions.  parts are
\* the carried lots of a transfer or the basis allocation of an action.
Fact(kind, acc, inst, qty, value, eff) ==
  [kind |-> kind, acc |-> acc, inst |-> inst, qty |-> qty, value |-> value,
   to |-> acc, dst |-> inst, gets |-> 0, ratio |-> <<1, 1>>, parts |-> <<>>,
   eff |-> eff, known |-> today]

\* Facts of one day are in the order they became known.
Earlier(i, j) == facts[i].eff < facts[j].eff \/ (facts[i].eff = facts[j].eff /\ i < j)

\* Store.transactions without the known_at filter.
VisibleIgnoringKnown(acc, asOf, known) ==
  LET seen == {i \in DOMAIN facts : acc \in {facts[i].acc, facts[i].to} /\ facts[i].eff <= asOf}
  IN  Sorted(seen, {p \in seen \X seen : Earlier(p[1], p[2])})

\* The transactions of an account effective by asOf and known by known, in
\* effective order.
Visible(acc, asOf, known) ==
  LET seen == {i \in DOMAIN facts : /\ acc \in {facts[i].acc, facts[i].to}
                                    /\ facts[i].eff <= asOf
                                    /\ facts[i].known <= known}
  IN  Sorted(seen, {p \in seen \X seen : Earlier(p[1], p[2])})

Delta(fact, acc, inst) ==
  (IF fact.acc = acc /\ fact.inst = inst THEN fact.qty ELSE 0)
    + (IF fact.to = acc /\ fact.dst = inst THEN fact.gets ELSE 0)

\* LedgerService.state: the quantity held after the facts of a history.
Held(history, acc, inst) ==
  MapThenSumSet(LAMBDA n : Delta(facts[history[n]], acc, inst), DOMAIN history)

-----------------------------------------------------------------------------
(* Lots *)

Lot(inst, src, side, qty, val, seq) ==
  [inst |-> inst, src |-> src, side |-> side, qty |-> qty, val |-> val, seq |-> seq]

Known(val) == IF val = Unknown THEN 0 ELSE val

\* What some lots, or pieces of lots, hold and what they are known to have cost.
QuantityOf(lots, some) == MapThenSumSet(LAMBDA j : lots[j].qty, some)
ValueOf(lots, some)    == MapThenSumSet(LAMBDA j : Known(lots[j].val), some)

Open(lots, inst, side) == {j \in DOMAIN lots : lots[j].inst = inst /\ lots[j].side = side /\ lots[j].qty > 0}

\* The unit value of lot x is above that of lot y; an unknown one is below all.
Dearer(x, y) ==
  x.val # Unknown /\ (y.val = Unknown \/ x.val * y.qty > y.val * x.qty)

\* Which of two lots has the better sort key under a method.
Ahead(lots, method, j, k) ==
  \/ method = "fifo" /\ lots[j].seq < lots[k].seq
  \/ method = "lifo" /\ lots[j].seq > lots[k].seq
  \/ method = "hifo" /\ \/ Dearer(lots[j], lots[k])
                        \/ ~Dearer(lots[k], lots[j]) /\ lots[j].seq < lots[k].seq

\* LIFO that sorts like FIFO.
PrefersOldest(lots, method, j, k) ==
  LET by == IF method = "lifo" THEN "fifo" ELSE method
  IN  Ahead(lots, by, j, k) \/ (~Ahead(lots, by, k, j) /\ j < k)

\* Which of two lots is closed first: Python's sort is stable, reversed or
\* not, so lots with equal keys stay in the order they were opened.
Prefers(lots, method, j, k) ==
  Ahead(lots, method, j, k) \/ (~Ahead(lots, method, k, j) /\ j < k)

InOrder(lots, chosen, method) ==
  Sorted(chosen, {p \in chosen \X chosen : Prefers(lots, method, p[1], p[2])})

Ordered(lots, inst, side, method) == InOrder(lots, Open(lots, inst, side), method)

\* Takes quantity n out of the lots in the given order: each gives its share of
\* its value, a lot that is closed all that is left of it.
TakeOne(t, j) ==
  LET lot  == t.lots[j]
      used == IF lot.qty <= t.left THEN lot.qty ELSE t.left
      part == IF lot.val = Unknown \/ used = lot.qty THEN lot.val ELSE (lot.val * used) \div lot.qty
  IN  IF t.left = 0 THEN t
      ELSE [lots   |-> [t.lots EXCEPT ![j] = [lot EXCEPT !.qty = @ - used,
                                                         !.val = IF @ = Unknown THEN Unknown ELSE @ - part]],
            pieces |-> Append(t.pieces, [src |-> lot.src, qty |-> used, val |-> part]),
            left   |-> t.left - used]

Take(lots, order, n) == FoldLeft(TakeOne, [lots |-> lots, pieces |-> <<>>, left |-> n], order)

PieceValue(pieces) == ValueOf(pieces, DOMAIN pieces)
AllKnown(pieces) == \A p \in DOMAIN pieces : pieces[p].val # Unknown

\* A row of the realized results: what was opened and what closed it.
Row(side, qty, pieces, close) == [side |-> side, qty |-> qty, open |-> PieceValue(pieces), close |-> close]

EmptyReplay == [lots |-> <<>>, realized |-> <<>>, seq |-> 0, ok |-> TRUE]
Raise(r)    == [r EXCEPT !.ok = FALSE]

Opened(r, inst, src, side, qty, val) ==
  [r EXCEPT !.lots = Append(@, Lot(inst, src, side, qty, val, r.seq + 1)), !.seq = @ + 1]

OpposedSide(side) == IF side = "long" THEN "short" ELSE "long"

\* The lots taken by a trade are closed, the rest of it opens a lot.  The value is
\* divided by quantity.
Traded(r, i, side, n, taken) ==
  LET value  == facts[i].value
      closed == n - taken.left
      after  == [r EXCEPT !.lots = taken.lots,
                          !.realized = IF closed = 0 THEN @
                                       ELSE Append(@, Row(OpposedSide(side), closed, taken.pieces,
                                                          (value * closed) \div n))]
  IN  IF taken.left = 0 THEN after
      ELSE Opened(after, facts[i].inst, i, side, taken.left, (value * taken.left) \div n)

\* A buy closes shorts and opens a long lot with the rest; a sell closes longs
\* and opens a short one.
Trade(r, i, side, method) ==
  LET n == IF facts[i].qty > 0 THEN facts[i].qty ELSE -facts[i].qty
  IN  Traded(r, i, side, n, Take(r.lots, Ordered(r.lots, facts[i].inst, OpposedSide(side), method), n))

Total(lots, inst, side) ==
  QuantityOf(lots, {j \in DOMAIN lots : lots[j].inst = inst /\ lots[j].side = side})

Covered(r, i) == Total(r.lots, facts[i].inst, "long") >= -facts[i].qty

\* A split multiplies the quantity of every lot, short ones too.  (SubSeq makes a
\* sequence of a function that TLC would keep as an expression.)
Scaled(lots, inst, ratio) ==
  LET Times(lot) == IF lot.inst # inst THEN lot
                    ELSE [lot EXCEPT !.qty = (@ * ratio[1]) \div ratio[2]]
  IN  SubSeq([j \in DOMAIN lots |-> Times(lots[j])], 1, Len(lots))

\* The receiving side of a security transfer opens the carried lots.
ReceiveLots(r, fact) ==
  LET Carried(n) == Lot(fact.inst, fact.parts[n].src, "long", fact.parts[n].qty, fact.parts[n].val, r.seq + n)
  IN  [r EXCEPT !.lots = @ \o [n \in DOMAIN fact.parts |-> Carried(n)], !.seq = @ + Len(fact.parts)]

\* What is left after lots were given away: they must be known, complete and of
\* the basis that the facts carry.
Given(r, taken, basis) ==
  IF taken.left = 0 /\ AllKnown(taken.pieces) /\ PieceValue(taken.pieces) = basis
  THEN [r EXCEPT !.lots = taken.lots] ELSE Raise(r)

\* The lots of an instrument that a transaction opened, oldest first.
OrderedFrom(lots, inst, src) ==
  InOrder(lots, {j \in Open(lots, inst, "long") : lots[j].src = src}, "fifo")

\* The giving side of a transfer: the accounting replay takes the recorded
\* lots, found by the transaction that opened them.
GiveOne(t, inst, p) ==
  IF t.ok THEN Given(t, Take(t.lots, OrderedFrom(t.lots, inst, p.src), p.qty), p.val) ELSE t

GiveLots(r, fact) == FoldLeft(LAMBDA t, p : GiveOne(t, fact.inst, p), r, fact.parts)

-----------------------------------------------------------------------------
(* Generalized corporate actions *)

\* The sequence number of the new lot is not given back to the replay: the
\* next lot gets the same one.
ActionLot(r, i, val) ==
  [r EXCEPT !.lots = Append(@, Lot(facts[i].dst, i, "long", facts[i].gets, val, r.seq + 1))]

\* _reduce_spin_off_parent_basis: takes value, not quantity, out of the oldest
\* lots of the parent.
ReduceOne(t, j) ==
  LET part == IF t.lots[j].val <= t.left THEN t.lots[j].val ELSE t.left
  IN  IF t.left = 0 THEN t
      ELSE IF t.lots[j].val = Unknown THEN [t EXCEPT !.known = FALSE]
      ELSE [t EXCEPT !.lots[j].val = @ - part, !.left = @ - part]

ReducedBasis(lots, inst, value) ==
  FoldLeft(ReduceOne, [lots |-> lots, left |-> value, known |-> TRUE], Ordered(lots, inst, "long", "fifo"))

SpinOff(r, i) ==
  LET carried       == facts[i].parts[1].carried
      Done(reduced) == IF ~reduced.known \/ reduced.left # 0 THEN Raise(r)
                       ELSE ActionLot([r EXCEPT !.lots = reduced.lots], i, carried)
  IN  Done(ReducedBasis(r.lots, facts[i].inst, carried))

\* Exchanged that expects the basis of the new lot, not the one of the source.
ExchangedExpectingCarried(r, i, part, taken) ==
  IF taken.left # 0 \/ PieceValue(taken.pieces) # part.carried THEN Raise(r)
  ELSE ActionLot([r EXCEPT !.lots = taken.lots], i, part.carried)

\* Exchanged that leaves the whole basis with the new lot.
ExchangedKeepingBasis(r, i, part, taken) ==
  LET after == [r EXCEPT !.lots = taken.lots,
                         !.realized = IF facts[i].value = 0 THEN @
                                      ELSE Append(@, Row("long", part.qty, <<>>, facts[i].value))]
  IN  IF taken.left # 0 \/ ~AllKnown(taken.pieces) THEN Raise(r)
      ELSE IF facts[i].gets = 0 THEN after ELSE ActionLot(after, i, part.val)

\* The allocated lots of the source are consumed; the basis the allocation does
\* not carry over is what the cash closes.
Exchanged(r, i, part, taken) ==
  LET toCash == part.val - part.carried
      after  == [r EXCEPT !.lots = taken.lots,
                          !.realized = IF toCash = 0 THEN @
                                       ELSE Append(@, [side |-> "long", qty |-> part.qty,
                                                       open |-> toCash, close |-> facts[i].value])]
  IN  IF \/ taken.left # 0 \/ ~AllKnown(taken.pieces) \/ PieceValue(taken.pieces) # part.val
         \/ toCash < 0 \/ (toCash = 0 /\ facts[i].value > 0)
      THEN Raise(r)
      ELSE IF facts[i].gets = 0 THEN after ELSE ActionLot(after, i, part.carried)

Exchange(r, i) ==
  LET part == facts[i].parts[1]
  IN  Exchanged(r, i, part, Take(r.lots, Ordered(r.lots, facts[i].inst, "long", "fifo"), part.qty))

\* An action without a basis allocation: its cash closes every long lot of the
\* currency, of whatever instrument; anything else leaves the lots alone.
SettleInCash(r, i) ==
  LET closed == {j \in DOMAIN r.lots : r.lots[j].side = "long" /\ r.lots[j].qty > 0}
      total  == QuantityOf(r.lots, closed)
      basis  == ValueOf(r.lots, closed)
      Kept(j) == IF j \in closed THEN [r.lots[j] EXCEPT !.qty = 0, !.val = 0] ELSE r.lots[j]
      kept   == SubSeq([j \in DOMAIN r.lots |-> Kept(j)], 1, Len(r.lots))
  IN  IF facts[i].value = 0 \/ basis = 0 THEN r
      ELSE [r EXCEPT !.realized = Append(@, [side |-> "long", qty |-> total, open |-> basis, close |-> facts[i].value]),
                     !.lots = kept]

ApplyAction(r, i) ==
  CASE facts[i].parts = <<>>         -> SettleInCash(r, i)
    [] facts[i].parts # <<>> /\ facts[i].kind = "spin_off" -> SpinOff(r, i)
    [] facts[i].parts # <<>> /\ facts[i].kind # "spin_off" -> Exchange(r, i)

-----------------------------------------------------------------------------
(* The replays *)

\* What a fact makes of the lots of an account under an accounting policy.
LotStep(acc, method, short, r, i) ==
  LET fact == facts[i]
  IN  CASE fact.kind \in {"buy", "sell"} ->
             IF fact.kind = "sell" /\ ~Covered(r, i) /\ ~short THEN Raise(r)
             ELSE Trade(r, i, IF fact.kind = "buy" THEN "long" ELSE "short", method)
        [] fact.kind = "split" -> [r EXCEPT !.lots = Scaled(r.lots, fact.inst, fact.ratio)]
        [] fact.kind = "transfer" -> IF fact.acc = acc THEN GiveLots(r, fact) ELSE ReceiveLots(r, fact)
        [] fact.kind = "move" ->
             IF fact.qty < 0 THEN Raise(r) ELSE Opened(r, fact.inst, i, "long", fact.qty, Unknown)
        [] OTHER -> ApplyAction(r, i)

\* analytics/lot_accounting.py: replay_lots.
ReplayLots(acc, history, method, short) ==
  LET Step(r, i) == IF r.ok THEN LotStep(acc, method, short, r, i) ELSE r
  IN  FoldLeft(Step, EmptyReplay, history)

\* A position leg the FIFO replay knows nothing more about.
PlainLeg(r, i, inst, qty) ==
  LET Without(taken) == IF taken.left # 0 THEN Raise(r) ELSE [r EXCEPT !.lots = taken.lots]
  IN  CASE qty > 0 -> Opened(r, inst, i, "long", qty, Unknown)
        [] qty = 0 -> r
        [] OTHER   -> Without(Take(r.lots, Ordered(r.lots, inst, "long", "fifo"), -qty))

\* The legs of a fact, one after the other.
PlainLegs(r, i, fact) ==
  LET first == PlainLeg(r, i, fact.inst, fact.qty)
  IN  IF first.ok THEN PlainLeg(first, i, fact.dst, fact.gets) ELSE first

\* The giving side that keeps its lots.
GiveOldestKeeping(r, fact) == r

\* The giving side of a transfer in the FIFO replay: the oldest lots must have
\* the carried basis.
GiveOldest(r, fact) ==
  Given(r, Take(r.lots, Ordered(r.lots, fact.inst, "long", "fifo"), -fact.qty), PieceValue(fact.parts))

\* What a fact makes of the lots in the FIFO replay: it has no shorts, and the
\* legs of an action it does not know are plain legs.
FifoStep(acc, r, i) ==
  LET fact == facts[i]
  IN  CASE fact.kind = "buy" -> Opened(r, fact.inst, i, "long", fact.qty, fact.value)
        [] fact.kind = "sell" -> IF Covered(r, i) THEN Trade(r, i, "short", "fifo") ELSE Raise(r)
        [] fact.kind = "split" -> [r EXCEPT !.lots = Scaled(r.lots, fact.inst, fact.ratio)]
        [] fact.kind = "transfer" -> IF fact.acc = acc THEN GiveOldest(r, fact) ELSE ReceiveLots(r, fact)
        [] OTHER -> PlainLegs(r, i, fact)

\* analytics/cost_basis.py: replay_fifo.
ReplayFifo(acc, history) ==
  LET Step(r, i) == IF r.ok THEN FifoStep(acc, r, i) ELSE r
  IN  FoldLeft(Step, EmptyReplay, history)

-----------------------------------------------------------------------------
(* Recording *)

LedgerInit == facts = <<>> /\ today = 1 /\ book \in Books

\* Facts of a kind are recorded in this ledger, and there is room (bound).
Room(kind) == kind \in book.kinds /\ Len(facts) < MaxFacts

Record(fact) ==
  /\ facts' = Append(facts, fact)
  /\ UNCHANGED <<today, book>>

\* The days a fact that is recorded today may take effect.
EffectiveDays == IF book.backdated THEN 1..today ELSE {today}

\* What recording looks at: the past as it is known today.
Past(acc, eff) == Visible(acc, eff, today)

\* An imported or manual buy or sell; the ledger does not ask what is held.
Buy(acc, inst, eff)  == Room("buy") /\ \E t \in Buys : Record(Fact("buy", acc, inst, t[1], t[2], eff))
Sell(acc, inst, eff) == Room("sell") /\ \E t \in book.sells : Record(Fact("sell", acc, inst, -t[1], t[2], eff))

\* A transfer_in or transfer_out row of a broker, without a linked record.
Move(acc, inst, eff) == Room("move") /\ \E n \in Moves : Record(Fact("move", acc, inst, n, 0, eff))

\* A split that multiplies lots and books the new quantity instead of the change.
SplitByTotal(acc, inst, eff, ratio) ==
  [Fact("split", acc, inst, (Held(Past(acc, eff), acc, inst) * ratio[1]) \div ratio[2], 0, eff)
   EXCEPT !.ratio = ratio]

\* The quantity is what the position changes by, as it is known today.
SplitBy(acc, inst, eff, ratio) ==
  [Fact("split", acc, inst,
        (Held(Past(acc, eff), acc, inst) * (ratio[1] - ratio[2])) \div ratio[2], 0, eff)
   EXCEPT !.ratio = ratio]

\* A ratio divides the position and, whichever method closed the others, each lot
\* it is made of: quantities are integers (bound).  The FIFO report is always one
\* of those that are read.
Divides(ratio, acc, inst, eff) ==
  /\ (Held(Past(acc, eff), acc, inst) * ratio[1]) % ratio[2] = 0
  /\ \A method \in book.methods \cup {"fifo"} :
       \E lots \in {ReplayLots(acc, Past(acc, eff), method, book.short).lots} :
         \A j \in DOMAIN lots : lots[j].inst = inst => (lots[j].qty * ratio[1]) % ratio[2] = 0

\* record_split.  One split a history (bound).
Split(acc, inst, eff) ==
  Room("split") /\ \E ratio \in Ratios :
    /\ Held(Past(acc, eff), acc, inst) # 0
    /\ Divides(ratio, acc, inst, eff)
    /\ \A i \in DOMAIN facts : facts[i].kind # "split"
    /\ Record(SplitBy(acc, inst, eff, ratio))

\* The lots a transfer takes: the oldest of the FIFO report.
TransferPlan(acc, inst, n, eff) ==
  LET Oldest(r) == Take(r.lots, Ordered(r.lots, inst, "long", "fifo"), n)
      Plan(r)   == [Oldest(r) EXCEPT !.left = IF r.ok THEN @ ELSE n]
  IN  Plan(ReplayFifo(acc, Past(acc, eff)))

\* record_security_transfer: refused when the FIFO report raises, has too
\* little or does not know the basis.
Transfer(acc, to, inst, eff) ==
  /\ Room("transfer") /\ acc # to
  /\ \E n \in {t[1] : t \in book.sells} : \E plan \in {TransferPlan(acc, inst, n, eff)} :
       /\ plan.left = 0 /\ AllKnown(plan.pieces)
       /\ Record([Fact("transfer", acc, inst, -n, 0, eff)
                  EXCEPT !.to = to, !.gets = n, !.parts = plan.pieces])

\* The basis of a position in the FIFO report of the policy.
TrueBasis(acc, inst, eff) ==
  LET Of(lots, held) == PieceValue(Take(lots, Ordered(lots, inst, "long", "fifo"), held).pieces)
  IN  Of(ReplayLots(acc, Past(acc, eff), "fifo", book.short).lots, Held(Past(acc, eff), acc, inst))

\* What a user allocates: the whole position with its basis.
Allocation(held, basis, carried) == <<[qty |-> held, val |-> basis, carried |-> carried]>>

\* A generalized action that gives qty of inst for gets of dst and cash.
Action(kind, acc, inst, dst, qty, gets, cash, eff, parts) ==
  Record([Fact(kind, acc, inst, qty, cash, eff) EXCEPT !.dst = dst, !.gets = gets, !.parts = parts])

\* record_corporate_action for a merger: the whole source position is exchanged
\* for the new security and, if part of the basis is not carried over, cash.
Merger(acc, inst, dst, eff, held, basis) ==
  /\ Room("merger") /\ inst # dst /\ held >= 0
  /\ \E toCash \in {0, 2} :
       /\ toCash <= basis
       /\ Action("merger", acc, inst, dst, -held, 2, IF toCash = 0 THEN 0 ELSE 3, eff,
                 Allocation(held, basis, basis - toCash))

\* A spin-off books the new security only; part of the basis goes with it.
SpinOffOf(acc, inst, dst, eff, held, basis) ==
  /\ Room("spin_off") /\ inst # dst /\ held >= 0
  /\ \E carried \in {0, 2} :
       /\ carried <= basis
       /\ Action("spin_off", acc, inst, dst, 0, 2, 0, eff, Allocation(held, basis, carried))

\* Cash for the whole position; without a basis allocation or with one that
\* carries nothing over.
CashInLieu(acc, inst, eff, held, basis) ==
  /\ Room("cash_in_lieu") /\ held > 0 /\ basis > 0
  /\ Action("cash_in_lieu", acc, inst, inst, -held, 0, 4, eff,
            IF book.allocated THEN Allocation(held, basis, 0) ELSE <<>>)

Actions == {"merger", "spin_off", "cash_in_lieu"}

\* The action a user records for the position that is held.
ActOn(acc, inst, eff) ==
  /\ Actions \cap book.kinds # {}
  /\ \E held \in {Held(Past(acc, eff), acc, inst)}, basis \in {TrueBasis(acc, inst, eff)} :
       \/ \E dst \in book.instruments : \/ Merger(acc, inst, dst, eff, held, basis)
                                        \/ SpinOffOf(acc, inst, dst, eff, held, basis)
       \/ CashInLieu(acc, inst, eff, held, basis)

NextDay == today < book.days /\ today' = today + 1 /\ UNCHANGED <<facts, book>>

RecordIn(acc, inst, eff) ==
  \/ Buy(acc, inst, eff) \/ Sell(acc, inst, eff) \/ Move(acc, inst, eff) \/ Split(acc, inst, eff)
  \/ \E to \in book.accounts : Transfer(acc, to, inst, eff)
  \/ ActOn(acc, inst, eff)

LedgerNext ==
  \/ \E acc \in book.accounts, inst \in book.instruments, eff \in EffectiveDays : RecordIn(acc, inst, eff)
  \/ NextDay

LedgerSpec == LedgerInit /\ [][LedgerNext]_ledgerVars

-----------------------------------------------------------------------------
(* Properties *)

\* The replay of an account at a pair of cutoffs.
Report(acc, asOf, known, method) == ReplayLots(acc, Visible(acc, asOf, known), method, book.short)

\* What the open lots of a side are known to have cost or brought in.
Basis(lots, side) == ValueOf(lots, {j \in DOMAIN lots : lots[j].side = side /\ lots[j].qty > 0})

\* What the results of a side were opened for, and those of the other were closed for.
Results(rows, side) ==
  MapThenSumSet(LAMBDA n : IF rows[n].side = side THEN rows[n].open ELSE rows[n].close, DOMAIN rows)

\* What was paid, on the long side, or received, on the short one, as a report has it.
Money(report, side) == Basis(report.lots, side) + Results(report.realized, side)

\* The facts that pay, on the long side, or receive money, on the short one.
Paying(side) == IF side = "long" THEN {"buy"} ELSE {"sell", "merger", "cash_in_lieu"}

\* The properties look at the ledger as it is known today: by NoHindsight, what is
\* reported for an earlier knowledge was looked at when that was today.

\* A split, transfer or action is worked out from the history known when it is
\* recorded.  A fact that is backdated before one changes what it should have
\* been, and the program does not work it out again: the properties that compare
\* two derivations of a ledger are about ledgers where this did not happen.
Derived == {"split", "transfer"} \cup Actions

NothingBackdatedBeforeDerived ==
  \A i, j \in DOMAIN facts : i < j /\ facts[i].kind \in Derived => facts[i].eff <= facts[j].eff

\* Every holding is explained by open lots: at all cutoffs and under every
\* method the net quantity of the open lots is the position state() reports.  (The
\* cash of an action without an allocation closes lots of every instrument.)
HoldingsExplained ==
  book.allocated /\ NothingBackdatedBeforeDerived =>
  \A acc \in book.accounts, asOf \in 1..today, method \in book.methods :
    LET history == Visible(acc, asOf, today)
        report  == ReplayLots(acc, history, method, book.short)
    IN  report.ok => \A inst \in book.instruments :
          Total(report.lots, inst, "long") - Total(report.lots, inst, "short") = Held(history, acc, inst)

\* No money appears or disappears on its way through lots, transfers, splits
\* and actions: over all accounts, what was paid is the basis of open lots, of
\* closed lots or the cost of covering; what was received opened a short that
\* is open or closed, or closed a long.
MoneyAccounted ==
  \A method \in book.methods :
    LET report == [acc \in book.accounts |-> Report(acc, today, today, method)]
        Booked(side) ==
          MapThenSumSet(LAMBDA i : IF facts[i].kind \in Paying(side) THEN facts[i].value ELSE 0, DOMAIN facts)
    IN  (\A acc \in book.accounts : report[acc].ok) =>
          \A side \in {"long", "short"} :
            Booked(side) = MapThenSumSet(LAMBDA acc : Money(report[acc], side), book.accounts)

\* The two FIFO implementations agree lot by lot and result by result, whenever
\* both of them succeed and no action is on the way, which only one of them knows.
FifoAgrees ==
  NothingBackdatedBeforeDerived =>
  \A acc \in book.accounts, asOf \in 1..today :
    LET history == Visible(acc, asOf, today)
        fifo    == ReplayFifo(acc, history)
        lots    == ReplayLots(acc, history, "fifo", FALSE)
    IN  /\ fifo.ok /\ lots.ok
        /\ \A n \in DOMAIN history : facts[history[n]].kind \notin Actions
        => fifo = lots

\* A history that never goes below zero can be replayed by both
\* implementations, transfers and their carried basis included.  (What leaves
\* by a transfer without a linked record the accounting replay refuses.)
AlwaysReplays ==
  NothingBackdatedBeforeDerived =>
  \A acc \in book.accounts, asOf \in 1..today :
    LET history == Visible(acc, asOf, today)
    IN  /\ \A n \in 1..Len(history), inst \in book.instruments : Held(SubSeq(history, 1, n), acc, inst) >= 0
        /\ \A n \in DOMAIN history : facts[history[n]].kind = "move" => facts[history[n]].qty > 0
        => ReplayFifo(acc, history).ok /\ ReplayLots(acc, history, "fifo", FALSE).ok

\* A trade never closes a lot while it passes over one the method prefers: an
\* older one under FIFO, a newer one under LIFO, a dearer one under HIFO.  The
\* lot of an action shares its number with the next one: LIFO cannot tell which of
\* the two is newer.
ClosedInMethodOrder ==
  \A acc \in book.accounts, method \in book.methods :
    LET history == Visible(acc, today, today)
        after   == ReplayLots(acc, history, method, book.short).lots
        before  == ReplayLots(acc, Front(history), method, book.short).lots
        Better(k, j) == CASE method = "fifo" -> k < j
                          [] method = "lifo" -> k > j /\ before[k].seq # before[j].seq
                          [] method = "hifo" -> Dearer(before[k], before[j])
    IN  /\ history # <<>>
        /\ facts[Last(history)].kind \in {"buy", "sell"}
        /\ ReplayLots(acc, history, method, book.short).ok
        => \A j, k \in DOMAIN before :
             /\ before[j].inst = before[k].inst /\ before[j].side = before[k].side
             /\ after[j].qty < before[j].qty /\ after[k].qty > 0
             => ~Better(k, j)

\* The facts, in order, that everything reported at a pair of cutoffs is made of.
Seen(acc, asOf, known) ==
  [n \in 1..Len(Visible(acc, asOf, known)) |-> facts[Visible(acc, asOf, known)[n]]]

\* What is reported with a knowledge cutoff in the past never changes, whatever
\* is recorded or backdated later: the transactions it is made of are the same.
NoHindsight ==
  [][\A acc \in book.accounts, asOf \in 1..book.days, known \in 1..(today - 1) :
       Seen(acc, asOf, known)' = Seen(acc, asOf, known)]_ledgerVars
=============================================================================
