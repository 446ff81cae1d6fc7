---------------------------- MODULE ValuationProofs ----------------------------
(***************************************************************************)
(* Proofs about Valuation, for any accounts, currencies, uses and calls.   *)
(*                                                                         *)
(* The readers agree (FastAgrees) in any state whose ledger is finite and  *)
(* whose transactions are numbered (LedgerInv).  The cursor over an        *)
(* account's stream stops after exactly the visible transactions, since    *)
(* they have the lowest positions in its order; the query for many items   *)
(* gives each of them its own rows, and what an account needs is among     *)
(* what all need; the flows by day are sums over sets that differ in       *)
(* transactions without an external leg only.                              *)
(*                                                                         *)
(* While prices stand still (IsSteady), what an account has is worth what  *)
(* its transactions bring from outside: each transaction is balanced at    *)
(* these prices (SteadyInv), and the table of amounts by item and          *)
(* transaction adds up both ways.  So a total is the sum over the visible  *)
(* transactions, and those of a later point are the earlier ones, those of *)
(* its day and those that FlowsAreNotReturns speaks of.                    *)
(*                                                                         *)
(* A simulation and a valuation are both composed of what groups of items  *)
(* are worth (Composed).  Each action of a scenario moves worth between    *)
(* groups, and the booking brings an account legs of the same worth, so    *)
(* booking is what was simulated (ScenariosAreBookings).                   *)
(*                                                                         *)
(* Neither property of Observations is inductive.  An import that was      *)
(* answered says what it stored, so its source must have been kept since   *)
(* it was captured (Captured).  That a change is appended once rests on    *)
(* the locks: who is between its second look and its commit holds one, the *)
(* commit waits for all others, so what the look found cannot have changed *)
(* (Unlogged).                                                             *)
(***************************************************************************)
EXTENDS Valuation, SetLemmas

\* The ledger is finite, its transactions are numbered, and what they are made of are
\* times and amounts.
LedgerInv ==
  /\ use \in Uses
  /\ IsFiniteSet(ledger)
  /\ \A t \in ledger : /\ t.id \in 1..Cardinality(ledger)
                       /\ t.eff \in Times /\ t.known \in Times
                       /\ {t.cash, t.external} \subseteq [Currencies -> Int]
                       /\ t.pos \in [Instruments -> Int]
  /\ \A t, u \in ledger : t.id = u.id => t = u

\* The largest of two numbers.
LEMMA MaxOfTwo ==
  ASSUME NEW x \in Int, NEW y \in Int
  PROVE  Max({x, y}) = IF x >= y THEN x ELSE y
<1> DEFINE m == IF x >= y THEN x ELSE y
<1>1. m \in {x, y} /\ \A z \in {x, y} : m >= z OBVIOUS
<1>2. \A w \in {x, y} : (\A z \in {x, y} : w >= z) => w = m OBVIOUS
<1> QED BY <1>1, <1>2 DEF Max

\* The latest of a set of dates is one of them.
LEMMA LatestIsLast ==
  ASSUME NEW S \in SUBSET Times, S # {}
  PROVE  LatestOf(S) \in S /\ \A d \in S : d <= LatestOf(S)
<1> USE ValuationAssumption, RecordsAssumption
<1>1. Horizon \in Nat OBVIOUS
<1> DEFINE T == {n \in Nat : \A d \in S : d <= n}
<1>2. Horizon \in T BY <1>1 DEF Times
<1>3. PICK n \in T : \A m \in T : <<m, n>> \notin OpToRel(<, Nat)
  <2>1. T \subseteq Nat /\ T # {} BY <1>2
  <2> HIDE DEF T
  <2> QED BY <2>1, NatLessThanWellFounded, WFMin, Zenon
<1>4. \A m \in T : ~(m < n)
  BY <1>3 DEF OpToRel
<1>5. n \in S
  <2> SUFFICES ASSUME n \notin S PROVE FALSE
    OBVIOUS
  <2>1. \A d \in S : d \in Nat /\ d <= n /\ d # n /\ d >= 1 BY <1>1 DEF Times
  <2>2. n \in Nat /\ n >= 1 BY <2>1
  <2>3. n - 1 \in T BY <2>1, <2>2
  <2> QED BY <2>2, <2>3, <1>4
<1>6. \A d \in S : n >= d OBVIOUS
<1>7. \A x \in S : x \in Nat BY <1>1 DEF Times
<1>8. \E x \in S : \A y \in S : x >= y BY <1>5, <1>6
<1>9. Max(S) \in S /\ \A y \in S : Max(S) >= y
  <2> HIDE DEF T
  <2> QED BY <1>8 DEF Max
<1> QED BY <1>7, <1>9 DEF LatestOf

\* The cursor stops after the transactions that are visible: they come first in the
\* stream.
LEMMA SweptAreVisible ==
  ASSUME NEW ts, IsFiniteSet(ts), NEW k, NEW c \in Int,
         \A t \in ts : Activation(t, k) \in Int /\ t.id \in Int,
         \A t, u \in ts : t.id = u.id => t = u
  PROVE  Swept(Indexed(ts, k), k, c) = {t \in ts : Activation(t, k) <= c}
<1> DEFINE before == {p \in ts \X ts : Sooner(p[1], p[2], k)}
           stream == Sorted(ts, before)
           at(t) == Position(t, ts, before)
<1>1. \A t, u \in ts : <<t, u>> \in before <=> Sooner(t, u, k)
  OBVIOUS
<1>2. TotallyOrders(before, ts)
  <2> HIDE DEF before
  <2> QED BY <1>1 DEF TotallyOrders, Sooner
<1>3. Indexed(ts, k) = stream /\ DOMAIN stream = 1..Cardinality(ts)
  BY DEF Indexed, Sorted
<1>4. Cardinality(ts) \in Nat BY FS_CardinalityType
<1>5. /\ \A n \in 1..Cardinality(ts) : stream[n] \in ts /\ at(stream[n]) = n - 1
      /\ \A t \in ts : stream[at(t) + 1] = t
  BY <1>2, SortedHasEach
<1>6. \A t \in ts : at(t) \in 0..(Cardinality(ts) - 1)
  BY <1>2, PositionsFollowOrder
<1>7. \A t, u \in ts : <<t, u>> \in before => at(t) < at(u)
  BY <1>2, PositionsFollowOrder
<1> HIDE DEF before, stream, at
<1>8. ASSUME NEW t \in Swept(stream, k, c) PROVE t \in ts /\ Activation(t, k) <= c
  <2>1. PICK i \in 1..Cardinality(ts) : /\ t = stream[i]
                                        /\ \A m \in 1..i : Activation(stream[m], k) <= c
    BY <1>3 DEF Swept
  <2> QED BY <2>1, <1>4, <1>5
<1>9. ASSUME NEW t \in ts, Activation(t, k) <= c PROVE t \in Swept(stream, k, c)
  <2> DEFINE i == at(t) + 1
  <2>1. i \in 1..Cardinality(ts) /\ stream[i] = t BY <1>4, <1>5, <1>6
  <2>2. \A m \in 1..i : Activation(stream[m], k) <= c
    <3> SUFFICES ASSUME NEW m \in 1..i PROVE Activation(stream[m], k) <= c
      OBVIOUS
    <3> DEFINE u == stream[m]
    <3>1. m \in 1..Cardinality(ts) /\ m \in Nat /\ m <= i BY <2>1, <1>4
    <3>2. u \in ts /\ at(u) = m - 1 BY <3>1, <1>5
    <3>3. ~(at(t) < at(u)) BY <3>1, <3>2, <1>6
    <3>4. <<t, u>> \notin before BY <3>2, <3>3, <1>7
    <3>5. ~Sooner(t, u, k) BY <3>2, <3>4, <1>1
    <3> HIDE DEF u
    <3>6. Activation(u, k) \in Int /\ Activation(t, k) \in Int BY <3>2
    <3>7. Activation(u, k) <= Activation(t, k) BY <3>5, <3>6 DEF Sooner
    <3>8. Activation(u, k) <= c BY <3>6, <3>7, <1>9
    <3> QED BY <3>8 DEF u
  <2> QED BY <2>1, <2>2, <1>3 DEF Swept
<1> QED BY <1>3, <1>8, <1>9

\* One account's states, one sweep: what has been applied at a cutoff is what is
\* visible then.
LEMMA SweepIsVisible ==
  ASSUME LedgerInv, NEW a, NEW cutoffs \in SUBSET Times, NEW k \in {PointInTime} \cup Times,
         NEW c \in cutoffs
  PROVE  Swept(Indexed(StreamOf(ledger, a, cutoffs, k), k), k, c)
           = Transactions(ledger, a, c, KnownAt(k, c))
<1> USE ValuationAssumption, RecordsAssumption
<1> DEFINE ts == StreamOf(ledger, a, cutoffs, k)
           last == LatestOf(cutoffs)
<1>1. last \in Int /\ c \in Int /\ c <= last /\ c \in Times /\ last \in Times /\ Times \subseteq Nat \ {0}
  <2>1. last \in cutoffs /\ c <= last BY LatestIsLast
  <2>2. Times \subseteq Nat \ {0} BY DEF Times
  <2>3. c \in Times /\ last \in Times BY <2>1
  <2> HIDE DEF last
  <2> QED BY <2>1, <2>2, <2>3
<1>2. \A t \in ledger : t.eff \in Int /\ t.known \in Int /\ t.id \in Int
  <2>1. \A t \in ledger : t.eff \in Times /\ t.known \in Times /\ t.id \in 1..Cardinality(ledger)
    BY DEF LedgerInv
  <2>2. \A n : n \in Times => n \in Int BY <1>1
  <2>3. \A n \in 1..Cardinality(ledger) : n \in Int OBVIOUS
  <2> QED BY <2>1, <2>2, <2>3, Zenon
<1>3. ts = {t \in ledger : t.account = a /\ t.eff <= last /\ t.known <= KnownAt(k, last)}
  BY DEF StreamOf, Transactions, Visible
<1>4. IsFiniteSet(ts)
  <2>1. ts \in SUBSET ledger BY <1>3
  <2> HIDE DEF ts
  <2> QED BY <2>1, FS_Subset DEF LedgerInv
<1>5. \A t \in ledger :
        Activation(t, k) = IF k = PointInTime THEN (IF t.eff >= t.known THEN t.eff ELSE t.known) ELSE t.eff
  BY <1>2, MaxOfTwo DEF Activation
<1>6. \A t \in ts : Activation(t, k) \in Int /\ t.id \in Int
  BY <1>2, <1>3, <1>5
<1>7. \A t, u \in ts : t.id = u.id => t = u
  BY <1>3 DEF LedgerInv
<1>8. Swept(Indexed(ts, k), k, c) = {t \in ts : Activation(t, k) <= c}
  <2> HIDE DEF ts
  <2> QED BY <1>1, <1>4, <1>6, <1>7, SweptAreVisible
<1>9. {t \in ts : Activation(t, k) <= c} = Transactions(ledger, a, c, KnownAt(k, c))
  <2>1. Transactions(ledger, a, c, KnownAt(k, c))
          = {t \in ledger : t.account = a /\ t.eff <= c /\ t.known <= KnownAt(k, c)}
    BY DEF Transactions, Visible
  <2>2. CASE k = PointInTime
    <3>1. \A t \in ledger :
            /\ t.eff <= last /\ t.known <= last
            /\ (IF t.eff >= t.known THEN t.eff ELSE t.known) <= c
            <=> t.eff <= c /\ t.known <= c
      BY <1>1, <1>2
    <3> QED BY <2>1, <2>2, <3>1, <1>3, <1>5 DEF KnownAt
  <2>3. CASE k # PointInTime
    <3>1. \A t \in ledger : t.eff <= last /\ t.eff <= c <=> t.eff <= c
      BY <1>1, <1>2
    <3> QED BY <2>1, <2>3, <3>1, <1>3, <1>5 DEF KnownAt
  <2> QED BY <2>2, <2>3
<1> QED BY <1>8, <1>9

-----------------------------------------------------------------------------
(* Valuations *)

\* One query for many items is a query for each of them.
LEMMA QuotesOfItems ==
  ASSUME NEW d, NEW items, NEW all, items \subseteq all, NEW eff, NEW known
  PROVE  \A r : r \in Quotes(d, items, eff, known)
               <=> r \in QuotesMany(d, all, eff, known) /\ r.item \in items
<1> DEFINE many == QuotesMany(d, all, eff, known)
<1>1. \A r : r \in many <=> /\ r \in Accepted(d, all, eff, known)
                           /\ \A s \in Accepted(d, all, eff, known) :
                                s.item = r.item => s.observed <= r.observed
  BY DEF QuotesMany
<1>2. \A i, r : i \in all => (r \in Accepted(d, {i}, eff, known)
                              <=> r \in Accepted(d, all, eff, known) /\ r.item = i)
  BY DEF Accepted
<1>3. \A r : r \in Quotes(d, items, eff, known)
              <=> \E i \in items : /\ r \in Accepted(d, {i}, eff, known)
                                  /\ \A s \in Accepted(d, {i}, eff, known) : s.observed <= r.observed
  <2>1. \A i, r : r \in Newer(Accepted(d, {i}, eff, known))
                  <=> /\ r \in Accepted(d, {i}, eff, known)
                      /\ \A s \in Accepted(d, {i}, eff, known) : s.observed <= r.observed
    BY DEF Newer
  <2>2. \A r : r \in Quotes(d, items, eff, known) <=> \E i \in items : r \in Newer(Accepted(d, {i}, eff, known))
    BY DEF Quotes
  <2> QED BY <2>1, <2>2, Zenon
<1> HIDE DEF many
<1>4. ASSUME NEW r, r \in Quotes(d, items, eff, known) PROVE r \in many /\ r.item \in items
  <2>1. PICK i \in items : /\ r \in Accepted(d, {i}, eff, known)
                           /\ \A s \in Accepted(d, {i}, eff, known) : s.observed <= r.observed
    BY <1>3, <1>4
  <2> QED BY <2>1, <1>1, <1>2
<1>5. ASSUME NEW r \in many, r.item \in items PROVE r \in Quotes(d, items, eff, known)
  BY <1>1, <1>2, <1>3, <1>5
<1> QED BY <1>4, <1>5 DEF many

\* What is needed for all accounts is what is needed for one of them.
LEMMA NeededByOne ==
  ASSUME NEW states
  PROVE  Needed(states) = UNION {Needed({s}) : s \in states}
<1> DEFINE of(s) == {c \in Currencies : s.cash[c] # 0} \cup {CurrencyOf[i] : i \in Held(s)}
           currencies == {c \in Currencies : \E s \in states : s.cash[c] # 0}
                           \cup {CurrencyOf[i] : i \in UNION {Held(s) : s \in states}}
           foreign == currencies \ {Base}
           pairs(cs) == (cs \X {Base}) \cup ({Base} \X cs)
<1>1. \A s : Needed({s}) = Held(s) \cup pairs(of(s) \ {Base})
  <2> SUFFICES ASSUME NEW s PROVE Needed({s}) = Held(s) \cup pairs(of(s) \ {Base})
    OBVIOUS
  <2>1. UNION {Held(u) : u \in {s}} = Held(s) OBVIOUS
  <2>2. {c \in Currencies : \E u \in {s} : u.cash[c] # 0} = {c \in Currencies : s.cash[c] # 0}
    OBVIOUS
  <2> QED BY <2>1, <2>2 DEF Needed
<1>2. Needed(states) = (UNION {Held(s) : s \in states}) \cup pairs(foreign)
  BY DEF Needed
<1>3. \A c : c \in foreign <=> \E s \in states : c \in of(s) \ {Base}
  <2>1. \A c : c \in currencies <=> \E s \in states : c \in of(s)
    OBVIOUS
  <2> HIDE DEF currencies, of
  <2> QED BY <2>1
<1> HIDE DEF of, foreign, pairs
<1>4. \A x : x \in pairs(foreign) <=> \E s \in states : x \in pairs(of(s) \ {Base})
  <2>1. \A cs, x : x \in pairs(cs) <=> \E c \in cs : x = <<c, Base>> \/ x = <<Base, c>>
    BY DEF pairs
  <2>2. \A x : x \in pairs(foreign)
               <=> \E c : c \in foreign /\ (x = <<c, Base>> \/ x = <<Base, c>>)
    BY <2>1
  <2>3. \A x, s : x \in pairs(of(s) \ {Base})
               <=> \E c : c \in of(s) \ {Base} /\ (x = <<c, Base>> \/ x = <<Base, c>>)
    BY <2>1
  <2> QED BY <2>2, <2>3, <1>3
<1>5. \A x : x \in Needed(states) <=> \E s \in states : x \in Held(s) \cup pairs(of(s) \ {Base})
  BY <1>2, <1>4
<1>6. \A x : x \in UNION {Needed({s}) : s \in states}
              <=> \E s \in states : x \in Held(s) \cup pairs(of(s) \ {Base})
  BY <1>1
<1> QED BY <1>5, <1>6

\* Lines and gaps depend on the rows of what is needed only.
LEMMA LinesOfNeeded ==
  ASSUME NEW a, NEW state, NEW rows, NEW more,
         \A item \in Needed({state}) : Values(rows, item) = Values(more, item)
  PROVE  Lines(a, state, rows) = Lines(a, state, more) /\ Gaps(state, rows) = Gaps(state, more)
<1>1. \A c : c # Base /\ ((c \in Currencies /\ state.cash[c] # 0) \/ \E i \in Held(state) : c = CurrencyOf[i])
          => <<c, Base>> \in Needed({state}) /\ <<Base, c>> \in Needed({state})
  BY DEF Needed
<1>2. \A i \in Held(state) : i \in Needed({state})
  BY DEF Needed
<1>3. ASSUME NEW c,
             (c \in Currencies /\ state.cash[c] # 0) \/ \E i \in Held(state) : c = CurrencyOf[i]
      PROVE  Factor(c, rows) = Factor(c, more)
  BY <1>1, <1>3 DEF Factor
<1>4. ASSUME NEW i \in Held(state)
      PROVE  UnitValue(i, rows) = UnitValue(i, more)
  <2>1. Factor(CurrencyOf[i], rows) = Factor(CurrencyOf[i], more) BY <1>3
  <2>2. Values(rows, i) = Values(more, i) BY <1>2
  <2> QED BY <2>1, <2>2 DEF UnitValue
<1>5. Gaps(state, rows) = Gaps(state, more)
  <2>1. {c \in Currencies : state.cash[c] # 0 /\ Factor(c, rows) = {}}
          = {c \in Currencies : state.cash[c] # 0 /\ Factor(c, more) = {}}
    BY <1>3
  <2>2. {i \in Held(state) : state.pos[i] < 0 \/ UnitValue(i, rows) = {}}
          = {i \in Held(state) : state.pos[i] < 0 \/ UnitValue(i, more) = {}}
    BY <1>4
  <2> QED BY <2>1, <2>2 DEF Gaps
<1> DEFINE paid(r) == {d \in Currencies : state.cash[d] # 0 /\ Factor(d, r) # {}}
           long(r) == {j \in Instruments : state.pos[j] > 0 /\ UnitValue(j, r) # {}}
           cashline(c, r) == [account |-> a, item |-> c, asset |-> "cash", currency |-> c,
                              value |-> state.cash[c] * Max(Factor(c, r))]
           posline(i, r) == [account |-> a, item |-> i, asset |-> AssetOf[i], currency |-> CurrencyOf[i],
                             value |-> state.pos[i] * Max(UnitValue(i, r))]
<1>6. paid(rows) = paid(more) /\ \A c \in paid(rows) : cashline(c, rows) = cashline(c, more)
  BY <1>3
<1>7. \A j \in Instruments : state.pos[j] > 0 => j \in Held(state)
  BY DEF Held
<1>8. long(rows) = long(more) /\ \A i \in long(rows) : posline(i, rows) = posline(i, more)
  <2>1. long(rows) = long(more) BY <1>4, <1>7
  <2>2. \A i \in long(rows) : UnitValue(i, rows) = UnitValue(i, more) BY <1>4, <1>7
  <2> QED BY <2>1, <2>2
<1>9. \A r : Lines(a, state, r) = {cashline(c, r) : c \in paid(r)} \cup {posline(i, r) : i \in long(r)}
  BY DEF Lines
<1> HIDE DEF paid, long, cashline, posline
<1>10. {cashline(c, rows) : c \in paid(rows)} = {cashline(c, more) : c \in paid(more)}
  BY <1>6
<1>11. {posline(i, rows) : i \in long(rows)} = {posline(i, more) : i \in long(more)}
  BY <1>8
<1> QED BY <1>5, <1>9, <1>10, <1>11

\* The rows that are read for all accounts give each account what its own rows do.
LEMMA FastIsPlain ==
  ASSUME NEW states, NEW d, NEW eff, NEW known
  PROVE  FastValuation(states, d, eff, known)
           = ValueOf({[account |-> s.account, state |-> s.state,
                       rows |-> Quotes(d, Needed({s.state}), eff, known)] : s \in states})
<1> DEFINE all == Needed({s.state : s \in states})
           many == QuotesMany(d, all, eff, known)
           own(s) == Quotes(d, Needed({s.state}), eff, known)
           asked(s) == [account |-> s.account, state |-> s.state, rows |-> many]
           askedAlone(s) == [account |-> s.account, state |-> s.state, rows |-> own(s)]
           fast == {asked(s) : s \in states}
           plain == {askedAlone(s) : s \in states}
<1>1. \A item : item \in all <=> \E s \in states : item \in Needed({s.state})
  <2>1. all = UNION {Needed({u}) : u \in {s.state : s \in states}} BY NeededByOne
  <2> HIDE DEF all
  <2> QED BY <2>1
<1>2. \A s \in states : own(s) = {r \in many : r.item \in Needed({s.state})}
  <2> SUFFICES ASSUME NEW s \in states PROVE own(s) = {r \in many : r.item \in Needed({s.state})}
    OBVIOUS
  <2> DEFINE items == Needed({s.state})
  <2>1. items \subseteq all BY <1>1
  <2> HIDE DEF all, items
  <2>2. \A r : r \in Quotes(d, items, eff, known)
              <=> r \in QuotesMany(d, all, eff, known) /\ r.item \in items
    BY <2>1, QuotesOfItems
  <2> QED BY <2>2 DEF items
<1>3. \A r \in many : r.item \in all
  BY DEF QuotesMany, Accepted
<1>4. FastValuation(states, d, eff, known) = ValueOf(fast)
  BY DEF FastValuation
<1> HIDE DEF all, many, own
<1>0. \A s : /\ asked(s).account = s.account /\ asked(s).state = s.state /\ asked(s).rows = many
            /\ askedAlone(s).account = s.account /\ askedAlone(s).state = s.state
            /\ askedAlone(s).rows = own(s)
  OBVIOUS
<1> HIDE DEF asked, askedAlone
<1>5. \A s \in states : \A item \in Needed({s.state}) : Values(many, item) = Values(own(s), item)
  BY <1>2 DEF Values
<1>6. \A s \in states : /\ Lines(s.account, s.state, many) = Lines(s.account, s.state, own(s))
                        /\ Gaps(s.state, many) = Gaps(s.state, own(s))
  BY <1>5, LinesOfNeeded
<1>7. states # {} /\ Conflict(many) <=> \E s \in states : Conflict(own(s))
  <2>1. ASSUME NEW r \in many, NEW q \in many, r.item = q.item, r.value # q.value
        PROVE  \E s \in states : Conflict(own(s))
    <3>1. PICK s \in states : r.item \in Needed({s.state}) BY <1>1, <1>3
    <3>2. r \in own(s) /\ q \in own(s) BY <3>1, <2>1, <1>2
    <3> QED BY <3>2, <2>1 DEF Conflict
  <2>2. ASSUME NEW s \in states, Conflict(own(s)) PROVE states # {} /\ Conflict(many)
    BY <2>2, <1>2 DEF Conflict
  <2>3. Conflict(many) => \E s \in states : Conflict(own(s))
    BY <2>1 DEF Conflict
  <2> QED BY <2>2, <2>3
<1>8. (\E r \in fast : Conflict(r.rows)) <=> \E r \in plain : Conflict(r.rows)
  <2>1. (\E r \in fast : Conflict(r.rows)) <=> states # {} /\ Conflict(many)
    BY <1>0
  <2>2. (\E r \in plain : Conflict(r.rows)) <=> \E s \in states : Conflict(own(s))
    BY <1>0
  <2> QED BY <2>1, <2>2, <1>7
<1>9. {Lines(r.account, r.state, r.rows) : r \in fast} = {Lines(r.account, r.state, r.rows) : r \in plain}
  <2>1. {Lines(r.account, r.state, r.rows) : r \in fast} = {Lines(s.account, s.state, many) : s \in states}
    BY <1>0
  <2>2. {Lines(r.account, r.state, r.rows) : r \in plain} = {Lines(s.account, s.state, own(s)) : s \in states}
    BY <1>0
  <2> QED BY <2>1, <2>2, <1>6
<1>10. (\A r \in fast : Gaps(r.state, r.rows) = {}) <=> (\A r \in plain : Gaps(r.state, r.rows) = {})
  <2>1. (\A r \in fast : Gaps(r.state, r.rows) = {}) <=> \A s \in states : Gaps(s.state, many) = {}
    BY <1>0
  <2>2. (\A r \in plain : Gaps(r.state, r.rows) = {}) <=> \A s \in states : Gaps(s.state, own(s)) = {}
    BY <1>0
  <2> QED BY <2>1, <2>2, <1>6
<1> HIDE DEF fast, plain
<1>11. ValueOf(fast) = ValueOf(plain)
  <2>1. (\A r \in fast : Gaps(r.state, r.rows) = {}) = (\A r \in plain : Gaps(r.state, r.rows) = {})
    BY <1>10
  <2> QED BY <1>8, <1>9, <2>1, Zenon DEF ValueOf
<1> QED BY <1>4, <1>11 DEF plain, askedAlone, own

-----------------------------------------------------------------------------
(* Flows *)

\* The external amount of a transaction is an integer.
LEMMA ExternalIsInteger ==
  ASSUME LedgerInv, NEW t \in ledger
  PROVE  External(t) \in Int
<1>1. External(t) = SumOver(t.external, Currencies)
  BY DEF External, MapThenSumSet, MapThenFoldSet, SumOver, IsSum, First
<1>2. \A c \in Currencies : t.external[c] \in Int
  BY DEF LedgerInv
<1> QED BY <1>1, <1>2, SumIsInteger, ReadsAssumption

\* The flow of a set of transactions is a sum in the sense of SetLemmas.
LEMMA PaidIsSum ==
  ASSUME NEW S, IsFiniteSet(S)
  PROVE  MapThenSumSet(LAMBDA t : -External(t), S) = SumOver([t \in S |-> -External(t)], S)
<1> DEFINE f == [t \in S |-> -External(t)]
           Adds(g) == g = [s \in SUBSET S |-> IF s = {} THEN 0
                             ELSE -External(CHOOSE x \in s : TRUE) + g[s \ {CHOOSE x \in s : TRUE}]]
<1>1. MapThenSumSet(LAMBDA t : -External(t), S) = (CHOOSE g : Adds(g))[S]
  BY DEF MapThenSumSet, MapThenFoldSet
<1>2. \A g : Adds(g) <=> IsSum(g, f, S)
  <2>1. \A s \in SUBSET S : s # {} => f[First(s)] = -External(First(s))
    BY FirstIsElement
  <2> HIDE DEF f
  <2> QED BY <2>1 DEF IsSum, First
<1>3. \E g : Adds(g)
  <2> HIDE DEF Adds, f
  <2> QED BY <1>2, SumExists
<1>4. IsSum(CHOOSE g : Adds(g), f, S)
  <2> HIDE DEF Adds, f
  <2> QED BY <1>2, <1>3
<1> HIDE DEF Adds, f
<1> QED BY <1>1, <1>4, FoldIsSum DEF f

\* The flow that the sweep reports for an account at a cutoff is the one that is
\* read row by row: it only leaves out transactions that bring nothing from outside.
LEMMA SweepFlowIsFlow ==
  ASSUME LedgerInv, NEW a, NEW cutoffs \in SUBSET Times, NEW k \in {PointInTime} \cup Times,
         NEW c \in cutoffs
  PROVE  /\ ExternalFlow(ledger, a, DayOf[c], c, KnownAt(k, c)) \in Int
         /\ MapThenSumSet(LAMBDA t : -External(t),
              {t \in {u \in StreamOf(ledger, a, cutoffs, k) : External(u) # 0} :
                 DayOf[t.eff] = DayOf[c] /\ t.eff <= c /\ t.known <= KnownAt(k, c)})
              = ExternalFlow(ledger, a, DayOf[c], c, KnownAt(k, c))
<1> USE ValuationAssumption, RecordsAssumption
<1> DEFINE last == LatestOf(cutoffs)
           seen == {t \in Transactions(ledger, a, c, KnownAt(k, c)) : DayOf[t.eff] = DayOf[c]}
           swept == {t \in {u \in StreamOf(ledger, a, cutoffs, k) : External(u) # 0} :
                       DayOf[t.eff] = DayOf[c] /\ t.eff <= c /\ t.known <= KnownAt(k, c)}
           f == [t \in seen |-> -External(t)]
           g == [t \in swept |-> -External(t)]
<1>1. last \in Nat /\ c \in Nat /\ c <= last /\ Times \subseteq Nat
  <2>1. last \in cutoffs /\ c <= last BY LatestIsLast
  <2>2. Times \subseteq Nat BY DEF Times
  <2>3. c \in Times /\ last \in Times BY <2>1
  <2> HIDE DEF last
  <2> QED BY <2>1, <2>2, <2>3
<1>2. \A t \in ledger : t.eff \in Nat /\ t.known \in Nat
  BY <1>1 DEF LedgerInv
<1>3. StreamOf(ledger, a, cutoffs, k)
        = {t \in ledger : t.account = a /\ t.eff <= last /\ t.known <= KnownAt(k, last)}
  BY DEF StreamOf, Transactions, Visible
<1>4. Transactions(ledger, a, c, KnownAt(k, c))
        = {t \in ledger : t.account = a /\ t.eff <= c /\ t.known <= KnownAt(k, c)}
  BY DEF Transactions, Visible
<1>5. \A t \in ledger : t.known <= KnownAt(k, c) => t.known <= KnownAt(k, last)
  BY <1>1, <1>2 DEF KnownAt
<1>6. \A t \in ledger : t.eff <= c => t.eff <= last
  BY <1>1, <1>2
<1>7. swept = {t \in seen : External(t) # 0}
  <2> HIDE DEF last
  <2> QED BY <1>3, <1>4, <1>5, <1>6
<1>8. seen \in SUBSET ledger
  BY <1>4
<1>9. IsFiniteSet(seen) /\ IsFiniteSet(swept)
  <2> HIDE DEF seen, swept
  <2>1. IsFiniteSet(seen) BY <1>8, FS_Subset DEF LedgerInv
  <2>2. swept \in SUBSET seen BY <1>7
  <2> QED BY <2>1, <2>2, FS_Subset
<1>10. \A t \in seen : External(t) \in Int
  BY <1>8, ExternalIsInteger
<1>11. MapThenSumSet(LAMBDA t : -External(t), seen) = SumOver(f, seen)
  <2> HIDE DEF seen
  <2> QED BY <1>9, PaidIsSum
<1>12. MapThenSumSet(LAMBDA t : -External(t), swept) = SumOver(g, swept)
  <2> HIDE DEF swept
  <2> QED BY <1>9, PaidIsSum
<1>13. ExternalFlow(ledger, a, DayOf[c], c, KnownAt(k, c)) = SumOver(f, seen)
  BY <1>11 DEF ExternalFlow
<1>14. SumOver(f, seen) = SumOver(f, swept)
  <2>1. swept \in SUBSET seen /\ \A t \in seen \ swept : f[t] = 0
    <3> HIDE DEF seen, swept
    <3> QED BY <1>7, <1>10
  <2>2. \A t \in seen : f[t] \in Int
    <3> HIDE DEF seen
    <3> QED BY <1>10
  <2> HIDE DEF seen, swept, f
  <2> QED BY <2>1, <2>2, <1>9, SumWithoutZeros
<1>15. SumOver(f, swept) = SumOver(g, swept)
  <2>1. \A t \in swept : f[t] = g[t] /\ g[t] \in Int
    <3> HIDE DEF seen, swept
    <3> QED BY <1>7, <1>10
  <2> HIDE DEF seen, swept, f, g
  <2> QED BY <2>1, <1>9, SumsOfEquals
<1>16. SumOver(f, seen) \in Int
  <2>1. \A t \in seen : f[t] \in Int
    <3> HIDE DEF seen
    <3> QED BY <1>10
  <2> HIDE DEF seen, f
  <2> QED BY <2>1, <1>9, SumIsInteger
<1> QED BY <1>12, <1>13, <1>14, <1>15, <1>16

\* So is the flow of a set of reported rows ...
LEMMA ReportedIsSum ==
  ASSUME NEW S, IsFiniteSet(S)
  PROVE  MapThenSumSet(LAMBDA x : x.flow, S) = SumOver([x \in S |-> x.flow], S)
<1> DEFINE f == [x \in S |-> x.flow]
           Adds(g) == g = [s \in SUBSET S |-> IF s = {} THEN 0
                             ELSE (CHOOSE x \in s : TRUE).flow + g[s \ {CHOOSE x \in s : TRUE}]]
<1>1. MapThenSumSet(LAMBDA x : x.flow, S) = (CHOOSE g : Adds(g))[S]
  BY DEF MapThenSumSet, MapThenFoldSet
<1>2. \A g : Adds(g) <=> IsSum(g, f, S)
  <2>1. \A s \in SUBSET S : s # {} => f[First(s)] = First(s).flow
    BY FirstIsElement
  <2> HIDE DEF f
  <2> QED BY <2>1 DEF IsSum, First
<1>3. \E g : Adds(g)
  <2> HIDE DEF Adds, f
  <2> QED BY <1>2, SumExists
<1>4. IsSum(CHOOSE g : Adds(g), f, S)
  <2> HIDE DEF Adds, f
  <2> QED BY <1>2, <1>3
<1> HIDE DEF Adds, f
<1> QED BY <1>1, <1>4, FoldIsSum DEF f

\* ... and the flow of a set of accounts.
LEMMA ReadIsSum ==
  ASSUME NEW S, IsFiniteSet(S), NEW l, NEW day, NEW through, NEW known
  PROVE  MapThenSumSet(LAMBDA a : ExternalFlow(l, a, day, through, known), S)
           = SumOver([a \in S |-> ExternalFlow(l, a, day, through, known)], S)
<1> DEFINE f == [a \in S |-> ExternalFlow(l, a, day, through, known)]
           Adds(g) == g = [s \in SUBSET S |-> IF s = {} THEN 0
                             ELSE ExternalFlow(l, CHOOSE x \in s : TRUE, day, through, known)
                                    + g[s \ {CHOOSE x \in s : TRUE}]]
<1>1. MapThenSumSet(LAMBDA a : ExternalFlow(l, a, day, through, known), S) = (CHOOSE g : Adds(g))[S]
  BY DEF MapThenSumSet, MapThenFoldSet
<1>2. \A g : Adds(g) <=> IsSum(g, f, S)
  <2>1. \A s \in SUBSET S : s # {} => f[First(s)] = ExternalFlow(l, First(s), day, through, known)
    BY FirstIsElement
  <2> HIDE DEF f
  <2> QED BY <2>1 DEF IsSum, First
<1>3. \E g : Adds(g)
  <2> HIDE DEF Adds, f
  <2> QED BY <1>2, SumExists
<1>4. IsSum(CHOOSE g : Adds(g), f, S)
  <2> HIDE DEF Adds, f
  <2> QED BY <1>2, <1>3
<1> HIDE DEF Adds, f
<1> QED BY <1>1, <1>4, FoldIsSum DEF f

\* The flow of an account that a sweep reports at a cutoff; what the sweeps of some
\* accounts report for the members of a portfolio, and what is read row by row.
SweptFlow(a, cutoffs, k, c) ==
  MapThenSumSet(LAMBDA t : -External(t),
    {t \in {u \in StreamOf(ledger, a, cutoffs, k) : External(u) # 0} :
       DayOf[t.eff] = DayOf[c] /\ t.eff <= c /\ t.known <= KnownAt(k, c)})

ReportedFlow(members, all, cutoffs, k, c) ==
  MapThenSumSet(LAMBDA f : f.flow,
    {x \in UNION {SweepFlows(ledger, a, cutoffs, k) : a \in all} :
       x.at = c /\ x.account \in members})

ReadFlow(members, k, c) ==
  MapThenSumSet(LAMBDA a : ExternalFlow(ledger, a, DayOf[c], c, KnownAt(k, c)), members)

\* The flows that the sweeps report for the accounts of a portfolio at a cutoff
\* sum up to those that are read row by row.
LEMMA FlowsOfMembers ==
  ASSUME LedgerInv, NEW members \in SUBSET Accounts, NEW all, members \subseteq all,
         NEW cutoffs \in SUBSET Times, NEW k \in {PointInTime} \cup Times, NEW c \in cutoffs
  PROVE  ReportedFlow(members, all, cutoffs, k, c) = ReadFlow(members, k, c)
<1> DEFINE flow(a, d) == ExternalFlow(ledger, a, DayOf[d], d, KnownAt(k, d))
           row(a, d) == [account |-> a, at |-> d, flow |-> flow(a, d)]
           rows == {x \in UNION {SweepFlows(ledger, a, cutoffs, k) : a \in all} :
                      x.at = c /\ x.account \in members}
           f == [a \in members |-> flow(a, c)]
           g == [x \in rows |-> x.flow]
           h == [a \in members |-> row(a, c)]
<1>1. \A a, d : d \in cutoffs => flow(a, d) \in Int
  BY SweepFlowIsFlow
<1>2. \A a : SweepFlows(ledger, a, cutoffs, k) = {row(a, d) : d \in cutoffs}
  <2>1. \A a : SweepFlows(ledger, a, cutoffs, k)
                = {[account |-> a, at |-> d, flow |-> SweptFlow(a, cutoffs, k, d)] : d \in cutoffs}
    BY DEF SweepFlows, SweptFlow
  <2>2. \A a : \A d \in cutoffs : SweptFlow(a, cutoffs, k, d) = flow(a, d)
    BY SweepFlowIsFlow DEF SweptFlow
  <2> HIDE DEF flow
  <2> QED BY <2>1, <2>2
<1> HIDE DEF flow
<1>3. \A a, d : row(a, d).account = a /\ row(a, d).at = d /\ row(a, d).flow = flow(a, d)
  OBVIOUS
<1> HIDE DEF row
<1>4. rows = {h[a] : a \in members}
  <2>1. \A x : x \in rows <=> \E a \in members : x = row(a, c)
    <3>1. \A x : x \in rows <=> (\E a \in all, d \in cutoffs : x = row(a, d)) /\ x.at = c /\ x.account \in members
      BY <1>2
    <3> HIDE DEF rows
    <3> QED BY <3>1, <1>3
  <2> HIDE DEF rows
  <2> QED BY <2>1
<1>5. IsFiniteSet(members) BY FS_Subset, RecordsAssumption
<1>6. IsFiniteSet(rows)
  <2>1. h \in Surjection(members, rows)
    <3> HIDE DEF rows
    <3>1. DOMAIN h = members /\ \A a \in members : h[a] \in rows BY <1>4
    <3>2. \A x \in rows : \E a \in members : h[a] = x BY <1>4
    <3>3. h \in [members -> rows] BY <3>1
    <3> QED BY <3>2, <3>3 DEF Surjection
  <2> QED BY <2>1, <1>5, FS_Surjection
<1>7. MapThenSumSet(LAMBDA x : x.flow, rows) = SumOver(g, rows)
  <2> HIDE DEF rows
  <2> QED BY <1>6, ReportedIsSum
<1>8. MapThenSumSet(LAMBDA a : flow(a, c), members) = SumOver(f, members)
  BY <1>5, ReadIsSum DEF flow
<1>9. \A a, b \in members : h[a] = h[b] => a = b
  <2>1. \A a \in members : h[a].account = a BY <1>3
  <2> HIDE DEF h
  <2> QED BY <2>1
<1>10. \A a \in members : f[a] \in Int /\ g[h[a]] = f[a]
  <2> SUFFICES ASSUME NEW a \in members PROVE f[a] \in Int /\ g[h[a]] = f[a]
    OBVIOUS
  <2>1. h[a] \in rows /\ h[a] = row(a, c)
    <3> HIDE DEF rows
    <3> QED BY <1>4
  <2>2. g[h[a]] = h[a].flow
    <3> HIDE DEF rows, h
    <3> QED BY <2>1
  <2> QED BY <2>1, <2>2, <1>1, <1>3
<1>11. SumOver(g, rows) = SumOver(f, members)
  <2> HIDE DEF rows, f, g, h
  <2>1. SumOver(g, {h[a] : a \in members}) = SumOver(f, members) BY <1>5, <1>9, <1>10, SumOfImage
  <2> QED BY <2>1, <1>4
<1> QED BY <1>7, <1>8, <1>11 DEF flow, ReportedFlow, ReadFlow

-----------------------------------------------------------------------------
(* The readers agree *)

\* At each cutoff both readers return the same points.
LEMMA PointsAgree ==
  ASSUME LedgerInv, NEW d, NEW cutoffs \in SUBSET Times, NEW k \in {PointInTime} \cup Times
  PROVE  FastPoints(home, Portfolio, ledger, d, cutoffs, k)
           = PlainPoints(home, Portfolio, ledger, d, cutoffs, k)
<1> DEFINE members(c) == At(home, Portfolio, c, k)
           all == UNION {members(c) : c \in cutoffs}
           sweeps == UNION {Sweep(ledger, a, cutoffs, k) : a \in all}
           flows == UNION {SweepFlows(ledger, a, cutoffs, k) : a \in all}
           of(set, c) == {x \in set : x.at = c /\ x.account \in members(c)}
           states(c) == {[account |-> s.account, state |-> StateOf(s.applied)] : s \in of(sweeps, c)}
           reported(c) == MapThenSumSet(LAMBDA f : f.flow, of(flows, c))
           read(c) == ReadFlow(members(c), k, c)
           plain(c) == PlainValuation(ledger, d, members(c), c, KnownAt(k, c))
           fast(c) == FastValuation(states(c), d, c, KnownAt(k, c))
<1>1. \A c \in cutoffs : members(c) \in SUBSET Accounts /\ members(c) \subseteq all
  BY DEF At, Members
<1>2. FastPoints(home, Portfolio, ledger, d, cutoffs, k)
        = UNION {{[at |-> c, point |-> Point(c, v, reported(c))] : v \in fast(c)} : c \in cutoffs}
  BY DEF FastPoints
<1>3. PlainPoints(home, Portfolio, ledger, d, cutoffs, k)
        = UNION {{[at |-> c, point |-> p] : p \in {Point(c, v, read(c)) : v \in plain(c)}} : c \in cutoffs}
  BY DEF PlainPoints, PlainPoint, ReadFlow
<1>4. \A c \in cutoffs : reported(c) = read(c)
  <2>1. \A c \in cutoffs : reported(c) = ReportedFlow(members(c), all, cutoffs, k, c)
    BY DEF ReportedFlow
  <2> HIDE DEF members, all, reported
  <2>2. \A c \in cutoffs : ReportedFlow(members(c), all, cutoffs, k, c) = ReadFlow(members(c), k, c)
    BY <1>1, FlowsOfMembers
  <2> QED BY <2>1, <2>2
<1>5. \A c \in cutoffs :
        states(c) = {[account |-> a, state |-> State(ledger, a, c, KnownAt(k, c))] : a \in members(c)}
  <2> SUFFICES ASSUME NEW c \in cutoffs
               PROVE  states(c) = {[account |-> a, state |-> State(ledger, a, c, KnownAt(k, c))] :
                                     a \in members(c)}
    OBVIOUS
  <2> DEFINE applied(a, e) == Swept(Indexed(StreamOf(ledger, a, cutoffs, k), k), k, e)
             row(a, e) == [account |-> a, at |-> e, applied |-> applied(a, e)]
             m == members(c)
  <2>1. \A a : Sweep(ledger, a, cutoffs, k) = {row(a, e) : e \in cutoffs}
    BY DEF Sweep
  <2>2. \A a : applied(a, c) = Transactions(ledger, a, c, KnownAt(k, c))
    BY SweepIsVisible
  <2>3. m \subseteq all BY <1>1
  <2> HIDE DEF applied
  <2>4. \A a, e : row(a, e).account = a /\ row(a, e).at = e /\ row(a, e).applied = applied(a, e)
    OBVIOUS
  <2> HIDE DEF row, all, m
  <2>5. \A x : x \in {y \in UNION {Sweep(ledger, a, cutoffs, k) : a \in all} : y.at = c /\ y.account \in m}
              <=> \E a \in m : x = row(a, c)
    BY <2>1, <2>3, <2>4
  <2>6. of(sweeps, c) = {row(a, c) : a \in m}
    BY <2>5 DEF m
  <2> HIDE DEF of, sweeps
  <2>7. states(c) = {[account |-> row(a, c).account, state |-> StateOf(row(a, c).applied)] : a \in m}
    BY <2>6
  <2>8. \A a \in m : [account |-> row(a, c).account, state |-> StateOf(row(a, c).applied)]
                    = [account |-> a, state |-> State(ledger, a, c, KnownAt(k, c))]
    BY <2>2, <2>4 DEF State
  <2>9. states(c) = {[account |-> a, state |-> State(ledger, a, c, KnownAt(k, c))] : a \in m}
    <3> HIDE DEF states
    <3> QED BY <2>7, <2>8
  <2> QED BY <2>9 DEF m
<1>6. \A c \in cutoffs : fast(c) = plain(c)
  <2> SUFFICES ASSUME NEW c \in cutoffs PROVE fast(c) = plain(c)
    OBVIOUS
  <2>1. fast(c) = ValueOf({[account |-> s.account, state |-> s.state,
                            rows |-> Quotes(d, Needed({s.state}), c, KnownAt(k, c))] : s \in states(c)})
    <3> HIDE DEF states
    <3> QED BY FastIsPlain
  <2>2. plain(c) = ValueOf({[account |-> s.account, state |-> s.state,
                             rows |-> Quotes(d, Needed({s.state}), c, KnownAt(k, c))] :
                     s \in {[account |-> a, state |-> State(ledger, a, c, KnownAt(k, c))] : a \in members(c)}})
    BY DEF PlainValuation
  <2> HIDE DEF fast, plain, states, members
  <2> QED BY <2>1, <2>2, <1>5
<1> HIDE DEF fast, plain, reported, read
<1>7. \A c \in cutoffs : {[at |-> c, point |-> Point(c, v, reported(c))] : v \in fast(c)}
                           = {[at |-> c, point |-> p] : p \in {Point(c, v, read(c)) : v \in plain(c)}}
  BY <1>4, <1>6
<1> QED BY <1>2, <1>3, <1>7

\* The ledger stays finite, numbered and typed.
LEMMA LedgerInvHolds == Spec => []LedgerInv
<1> USE ValuationAssumption, RecordsAssumption DEF LedgerInv
<1>1. Init => LedgerInv
  BY FS_EmptySet DEF Init
<1>2. LedgerInv /\ [Next]_vars => LedgerInv'
  <2> SUFFICES ASSUME LedgerInv, [Next]_vars PROVE LedgerInv'
    OBVIOUS
  <2>1. CASE Book
    <3>1. PICK a \in Accounts, legs \in use.legs, t \in use.times :
            ledger' = ledger \cup
              {[id |-> Cardinality(ledger) + 1, account |-> a, eff |-> t[1], known |-> t[2],
                cash |-> legs.cash, pos |-> legs.pos, external |-> legs.external]}
      BY <2>1 DEF Book
    <3> DEFINE new == [id |-> Cardinality(ledger) + 1, account |-> a, eff |-> t[1], known |-> t[2],
                       cash |-> legs.cash, pos |-> legs.pos, external |-> legs.external]
    <3>2. Cardinality(ledger) \in Nat BY FS_CardinalityType
    <3>3. /\ new.id = Cardinality(ledger) + 1 /\ new.eff = t[1] /\ new.known = t[2]
          /\ new.cash = legs.cash /\ new.pos = legs.pos /\ new.external = legs.external
      OBVIOUS
    <3>4. IsUse(use) /\ use' = use BY <2>1 DEF Book
    <3>5. /\ t[1] \in Times /\ t[2] \in Times
          /\ {legs.cash, legs.external} \subseteq [Currencies -> Int]
          /\ legs.pos \in [Instruments -> Int]
      BY <3>4 DEF IsUse
    <3>6. ledger' = ledger \cup {new} BY <3>1
    <3> HIDE DEF new
    <3>7. new \notin ledger BY <3>2, <3>3
    <3>8. IsFiniteSet(ledger') /\ Cardinality(ledger') = Cardinality(ledger) + 1
      BY <3>6, <3>7, FS_AddElement
    <3>9. \A u \in ledger' : /\ u.id \in 1..Cardinality(ledger')
                             /\ u.eff \in Times /\ u.known \in Times
                             /\ {u.cash, u.external} \subseteq [Currencies -> Int]
                             /\ u.pos \in [Instruments -> Int]
      BY <3>2, <3>3, <3>5, <3>6, <3>8
    <3>10. \A u, v \in ledger' : u.id = v.id => u = v
      BY <3>2, <3>3, <3>6
    <3> QED BY <3>4, <3>8, <3>9, <3>10 DEF Times
  <2>2. CASE SetMembership BY <2>2 DEF SetMembership, Times
  <2>3. CASE Observe BY <2>3 DEF Observe, Times
  <2>4. CASE UNCHANGED vars BY <2>4 DEF vars, Times
  <2> QED BY <2>1, <2>2, <2>3, <2>4 DEF Next
<1> QED BY <1>1, <1>2, PTL DEF Spec

\* The readers that replace the baseline answer what it answers.
THEOREM ReadersAgree == Spec => []FastAgrees
<1>1. LedgerInv => FastAgrees
  <2> SUFFICES ASSUME LedgerInv, NEW cutoffs \in use.cutoffs, NEW k \in use.knowledge, NEW d
               PROVE  FastPoints(home, Portfolio, ledger, d, cutoffs, k)
                        = PlainPoints(home, Portfolio, ledger, d, cutoffs, k)
    BY DEF FastAgrees
  <2>1. IsUse(use) BY ValuationAssumption DEF LedgerInv
  <2>2. cutoffs \in SUBSET Times /\ k \in {PointInTime} \cup Times BY <2>1 DEF IsUse
  <2> QED BY <2>2, PointsAgree
<1> QED BY <1>1, LedgerInvHolds, PTL

-----------------------------------------------------------------------------
(* Returns while prices stand still *)

Items == Currencies \cup Instruments
Amount(r, x) == IF x \in Currencies THEN r.cash[x] ELSE r.pos[x]

\* What a transaction is worth is what it brings from outside.
Balanced(t, worth) ==
  SumOver([x \in Items |-> Amount(t, x) * worth[x]], Items) = -(Scale * External(t))

\* Where prices stand still, the datasets are those of the use and all transactions
\* are at their prices.
SteadyInv ==
  use.steady => /\ datasets = use.datasets
                /\ \A t \in ledger : Balanced(t, use.worth)

\* What is visible of some accounts.
VisibleIn(accounts, c, known) ==
  {t \in ledger : t.account \in accounts /\ t.eff <= c /\ t.known <= known}

\* The worth of amounts is a sum in the sense of SetLemmas ...
LEMMA WorthIsSum ==
  ASSUME NEW amounts, NEW worth, NEW S, IsFiniteSet(S)
  PROVE  Worth(amounts, worth, S) = SumOver([x \in S |-> amounts[x] * worth[x]], S)
<1> DEFINE f == [x \in S |-> amounts[x] * worth[x]]
           Adds(g) == g = [s \in SUBSET S |-> IF s = {} THEN 0
                             ELSE amounts[CHOOSE x \in s : TRUE] * worth[CHOOSE x \in s : TRUE]
                                    + g[s \ {CHOOSE x \in s : TRUE}]]
<1>1. Worth(amounts, worth, S) = (CHOOSE g : Adds(g))[S]
  BY DEF Worth, MapThenSumSet, MapThenFoldSet
<1>2. \A g : Adds(g) <=> IsSum(g, f, S)
  <2>1. \A s \in SUBSET S : s # {} => f[First(s)] = amounts[First(s)] * worth[First(s)]
    BY FirstIsElement
  <2> HIDE DEF f
  <2> QED BY <2>1 DEF IsSum, First
<1>3. \E g : Adds(g)
  <2> HIDE DEF Adds, f
  <2> QED BY <1>2, SumExists
<1>4. IsSum(CHOOSE g : Adds(g), f, S)
  <2> HIDE DEF Adds, f
  <2> QED BY <1>2, <1>3
<1> HIDE DEF Adds, f
<1> QED BY <1>1, <1>4, FoldIsSum DEF f

\* as are the total of a valuation
LEMMA TotalIsSum ==
  ASSUME NEW S, IsFiniteSet(S)
  PROVE  Sum(S) = SumOver([x \in S |-> x.value], S)
<1> DEFINE f == [x \in S |-> x.value]
           Adds(g) == g = [s \in SUBSET S |-> IF s = {} THEN 0
                             ELSE (CHOOSE x \in s : TRUE).value + g[s \ {CHOOSE x \in s : TRUE}]]
<1>1. Sum(S) = (CHOOSE g : Adds(g))[S]
  BY DEF Sum, MapThenSumSet, MapThenFoldSet
<1>2. \A g : Adds(g) <=> IsSum(g, f, S)
  <2>1. \A s \in SUBSET S : s # {} => f[First(s)] = First(s).value
    BY FirstIsElement
  <2> HIDE DEF f
  <2> QED BY <2>1 DEF IsSum, First
<1>3. \E g : Adds(g)
  <2> HIDE DEF Adds, f
  <2> QED BY <1>2, SumExists
<1>4. IsSum(CHOOSE g : Adds(g), f, S)
  <2> HIDE DEF Adds, f
  <2> QED BY <1>2, <1>3
<1> HIDE DEF Adds, f
<1> QED BY <1>1, <1>4, FoldIsSum DEF f

\* and the amount of an item that a state has.
LEMMA AmountIsSum ==
  ASSUME NEW S, IsFiniteSet(S), NEW x \in Items
  PROVE  Amount(StateOf(S), x) = SumOver([t \in S |-> Amount(t, x)], S)
<1> DEFINE f == [t \in S |-> Amount(t, x)]
           Adds(g) == g = [s \in SUBSET S |-> IF s = {} THEN 0
                             ELSE Amount(CHOOSE t \in s : TRUE, x) + g[s \ {CHOOSE t \in s : TRUE}]]
<1>1. Amount(StateOf(S), x) = (CHOOSE g : Adds(g))[S]
  <2>1. CASE x \in Currencies
    BY <2>1 DEF Amount, StateOf, SumBy, Cash, MapThenSumSet, MapThenFoldSet
  <2>2. CASE x \notin Currencies
    <3>1. x \in Instruments BY <2>2 DEF Items
    <3> QED BY <2>2, <3>1 DEF Amount, StateOf, SumBy, Pos, MapThenSumSet, MapThenFoldSet
  <2> QED BY <2>1, <2>2
<1>2. \A g : Adds(g) <=> IsSum(g, f, S)
  <2>1. \A s \in SUBSET S : s # {} => f[First(s)] = Amount(First(s), x)
    BY FirstIsElement
  <2> HIDE DEF f
  <2> QED BY SMTT(30), <2>1 DEF IsSum, First
<1>3. \E g : Adds(g)
  <2> HIDE DEF Adds, f
  <2> QED BY <1>2, SumExists
<1>4. IsSum(CHOOSE g : Adds(g), f, S)
  <2> HIDE DEF Adds, f
  <2> QED BY <1>2, <1>3
<1> HIDE DEF Adds, f
<1> QED BY <1>1, <1>4, FoldIsSum DEF f

\* Legs at the steady prices are balanced.
LEMMA LegsAreBalanced ==
  ASSUME NEW u, IsUse(u), IsSteady(u), NEW legs \in u.legs, NEW t,
         t.cash = legs.cash, t.pos = legs.pos, t.external = legs.external
  PROVE  Balanced(t, u.worth)
<1> DEFINE w == u.worth
           all == [x \in Items |-> Amount(t, x) * w[x]]
           cash == [c \in Currencies |-> t.cash[c] * w[c]]
           pos == [i \in Instruments |-> t.pos[i] * w[i]]
<1>1. \A x \in Items : w[x] \in Int BY DEF IsSteady, Items
<1>2. t.cash \in [Currencies -> Int] /\ t.pos \in [Instruments -> Int] BY DEF IsUse
<1>3. External(t) = External(legs) BY DEF External
<1>4. SumOver(cash, Currencies) + SumOver(pos, Instruments) = -(Scale * External(t))
  <2>1. Worth(t.cash, w, Currencies) + Worth(t.pos, w, Instruments) = -(Scale * External(legs))
    BY DEF IsSteady
  <2> QED BY <1>3, <2>1, WorthIsSum, ReadsAssumption
<1>5. Currencies \subseteq Items /\ Instruments \subseteq Items BY DEF Items
<1>6. \A c \in Currencies : all[c] = cash[c] /\ cash[c] \in Int
  BY <1>1, <1>2, <1>5 DEF Amount
<1>7. \A i \in Instruments : all[i] = pos[i] /\ pos[i] \in Int
  BY <1>1, <1>2, <1>5, ReadsAssumption DEF Amount
<1> HIDE DEF all, cash, pos
<1>8. SumOver(all, Currencies) = SumOver(cash, Currencies)
  BY <1>6, SumsOfEquals, ReadsAssumption
<1>9. SumOver(all, Instruments) = SumOver(pos, Instruments)
  BY <1>7, SumsOfEquals, ReadsAssumption
<1>10. SumOver(all, Items) = SumOver(all, Currencies) + SumOver(all, Instruments)
  BY <1>6, <1>7, SumOfUnion, ReadsAssumption DEF Items
<1>11. SumOver(all, Items) = -(Scale * External(t)) BY <1>4, <1>8, <1>9, <1>10
<1> QED BY <1>11 DEF all, Balanced

\* Steady prices stay, and the ledger stays at them.
LEMMA SteadyInvHolds == Spec => []SteadyInv
<1>1. Init => SteadyInv
  BY DEF Init, SteadyInv, ObservationsStart
<1>2. LedgerInv /\ SteadyInv /\ [Next]_vars => SteadyInv'
  <2> SUFFICES ASSUME LedgerInv, SteadyInv, [Next]_vars, use'.steady
               PROVE  datasets' = use'.datasets /\ \A t \in ledger' : Balanced(t, use'.worth)
    BY DEF SteadyInv
  <2>1. use' = use
    BY DEF Next, Book, SetMembership, Observe, vars
  <2>2. IsUse(use) /\ IsSteady(use) BY <2>1, ValuationAssumption DEF LedgerInv, IsUse
  <2>3. datasets' = datasets
    BY <2>2 DEF Next, Book, SetMembership, Observe, vars, observed, IsSteady
  <2>4. datasets = use.datasets /\ \A t \in ledger : Balanced(t, use.worth)
    BY <2>1 DEF SteadyInv
  <2>5. CASE Book
    <3>1. PICK a \in Accounts, legs \in use.legs, t \in use.times :
            ledger' = ledger \cup
              {[id |-> Cardinality(ledger) + 1, account |-> a, eff |-> t[1], known |-> t[2],
                cash |-> legs.cash, pos |-> legs.pos, external |-> legs.external]}
      BY <2>5 DEF Book
    <3> DEFINE new == [id |-> Cardinality(ledger) + 1, account |-> a, eff |-> t[1], known |-> t[2],
                       cash |-> legs.cash, pos |-> legs.pos, external |-> legs.external]
    <3>2. new.cash = legs.cash /\ new.pos = legs.pos /\ new.external = legs.external OBVIOUS
    <3>3. ledger' = ledger \cup {new} BY <3>1
    <3> HIDE DEF new
    <3>4. Balanced(new, use.worth) BY <2>2, <3>2, LegsAreBalanced
    <3> QED BY <2>1, <2>3, <2>4, <3>3, <3>4
  <2>6. CASE ledger' = ledger BY <2>1, <2>3, <2>4, <2>6
  <2> QED BY <2>5, <2>6 DEF Next, SetMembership, Observe, vars
<1> QED BY <1>1, <1>2, LedgerInvHolds, PTL DEF Spec

\* Whatever rows are read, an item is worth what it always is.
LEMMA RowsSayWorth ==
  ASSUME NEW u, IsSteady(u), NEW rows \in SUBSET RowsOf(u.datasets)
  PROVE  /\ \A c \in Currencies : Factor(c, rows) \subseteq {u.worth[c]}
         /\ \A i \in Instruments : UnitValue(i, rows) \subseteq {u.worth[i]}
<1>1. ASSUME NEW c \in Currencies PROVE Factor(c, rows) \subseteq {u.worth[c]}
  <2>1. \A n \in Values(rows, <<c, Base>>) : n * Scale = u.worth[c] BY DEF IsSteady, Values
  <2>2. \A n \in Values(rows, <<Base, c>>) : Scale \div n = u.worth[c] BY DEF IsSteady, Values
  <2>3. c = Base => u.worth[c] = Scale BY DEF IsSteady
  <2> QED BY <2>1, <2>2, <2>3 DEF Factor
<1>2. ASSUME NEW i \in Instruments PROVE UnitValue(i, rows) \subseteq {u.worth[i]}
  <2>1. CurrencyOf[i] \in Currencies BY ReadsAssumption
  <2>2. \A n \in Values(rows, i) : n * u.worth[CurrencyOf[i]] = u.worth[i] BY DEF IsSteady, Values
  <2>3. \A f \in Factor(CurrencyOf[i], rows) : f = u.worth[CurrencyOf[i]] BY <1>1, <2>1
  <2> QED BY <2>2, <2>3 DEF UnitValue
<1> QED BY <1>1, <1>2

\* The only one is the largest.
LEMMA MaxOfOne ==
  ASSUME NEW x \in Int, NEW S \in SUBSET {x}, S # {}
  PROVE  Max(S) = x
<1>1. S = {x} OBVIOUS
<1>2. x \in {x} /\ \A y \in {x} : x >= y OBVIOUS
<1> QED BY <1>1, <1>2 DEF Max

\* The line of an item.
LineOf(a, state, x, worth) ==
  IF x \in Currencies
    THEN [account |-> a, item |-> x, asset |-> "cash", currency |-> x,
          value |-> state.cash[x] * worth[x]]
    ELSE [account |-> a, item |-> x, asset |-> AssetOf[x], currency |-> CurrencyOf[x],
          value |-> state.pos[x] * worth[x]]

\* Without gaps, there is a line for everything that an account has.
LEMMA LinesOfWorth ==
  ASSUME NEW u, IsSteady(u), NEW rows \in SUBSET RowsOf(u.datasets), NEW a, NEW state,
         state.cash \in [Currencies -> Int], state.pos \in [Instruments -> Int],
         Gaps(state, rows) = {}
  PROVE  \A l : l \in Lines(a, state, rows)
                  <=> \E x \in Items : Amount(state, x) # 0 /\ l = LineOf(a, state, x, u.worth)
<1> DEFINE w == u.worth
<1>1. \A x \in Items : w[x] \in Int BY DEF IsSteady, Items
<1>2. \A c \in Currencies : Amount(state, c) = state.cash[c] BY DEF Amount
<1>3. \A i \in Instruments : i \notin Currencies /\ Amount(state, i) = state.pos[i]
  BY ReadsAssumption DEF Amount
<1>4. \A c \in Currencies : state.cash[c] # 0 => Factor(c, rows) # {} /\ Max(Factor(c, rows)) = w[c]
  <2> SUFFICES ASSUME NEW c \in Currencies, state.cash[c] # 0
               PROVE  Factor(c, rows) # {} /\ Max(Factor(c, rows)) = w[c]
    OBVIOUS
  <2>1. Factor(c, rows) # {} BY DEF Gaps
  <2>2. Factor(c, rows) \in SUBSET {w[c]} BY RowsSayWorth
  <2>3. w[c] \in Int BY <1>1 DEF Items
  <2> QED BY <2>1, <2>2, <2>3, MaxOfOne
<1>5. \A i \in Instruments : state.pos[i] # 0 =>
        state.pos[i] > 0 /\ UnitValue(i, rows) # {} /\ Max(UnitValue(i, rows)) = w[i]
  <2> SUFFICES ASSUME NEW i \in Instruments, state.pos[i] # 0
               PROVE  state.pos[i] > 0 /\ UnitValue(i, rows) # {} /\ Max(UnitValue(i, rows)) = w[i]
    OBVIOUS
  <2>1. i \in Held(state) BY DEF Held
  <2>2. ~(state.pos[i] < 0) /\ UnitValue(i, rows) # {} BY <2>1 DEF Gaps
  <2>3. state.pos[i] \in Int OBVIOUS
  <2>4. UnitValue(i, rows) \in SUBSET {w[i]} BY RowsSayWorth
  <2>5. w[i] \in Int BY <1>1 DEF Items
  <2> QED BY <2>2, <2>3, <2>4, <2>5, MaxOfOne
<1>6. \A i \in Instruments : state.pos[i] > 0 => state.pos[i] # 0 OBVIOUS
<1> DEFINE cashLine(c) == [account |-> a, item |-> c, asset |-> "cash", currency |-> c,
                           value |-> state.cash[c] * Max(Factor(c, rows))]
           posLine(i) == [account |-> a, item |-> i, asset |-> AssetOf[i], currency |-> CurrencyOf[i],
                          value |-> state.pos[i] * Max(UnitValue(i, rows))]
<1>7. \A l : l \in Lines(a, state, rows)
        <=> \/ \E c \in Currencies : state.cash[c] # 0 /\ Factor(c, rows) # {} /\ l = cashLine(c)
            \/ \E i \in Instruments : state.pos[i] > 0 /\ UnitValue(i, rows) # {} /\ l = posLine(i)
  BY DEF Lines
<1>8. \A c \in Currencies : state.cash[c] # 0 => cashLine(c) = LineOf(a, state, c, w)
  BY <1>4 DEF LineOf
<1>9. \A i \in Instruments : state.pos[i] # 0 => posLine(i) = LineOf(a, state, i, w)
  BY <1>3, <1>5 DEF LineOf
<1> HIDE DEF cashLine, posLine, w
<1>10. \A l : l \in Lines(a, state, rows)
         <=> \/ \E c \in Currencies : Amount(state, c) # 0 /\ l = LineOf(a, state, c, w)
             \/ \E i \in Instruments : Amount(state, i) # 0 /\ l = LineOf(a, state, i, w)
  BY <1>2, <1>3, <1>4, <1>5, <1>6, <1>7, <1>8, <1>9
<1> QED BY <1>10 DEF Items, w

\* What each transaction brings from outside, in units of 1 / Scale.
Invested == [t \in ledger |-> -(Scale * External(t))]

LEMMA InvestedIsInteger ==
  ASSUME LedgerInv
  PROVE  \A t \in ledger : Invested[t] \in Int
BY ExternalIsInteger, ReadsAssumption DEF Invested

\* What an account has at steady prices is what its transactions bring from outside.
LEMMA AccountIsWorth ==
  ASSUME LedgerInv, SteadyInv, use.steady, NEW S \in SUBSET ledger, NEW a,
         NEW rows \in SUBSET RowsOf(use.datasets), Gaps(StateOf(S), rows) = {}
  PROVE  /\ IsFiniteSet(Lines(a, StateOf(S), rows))
         /\ \A l \in Lines(a, StateOf(S), rows) : l.account = a /\ l.value \in Int
         /\ Sum(Lines(a, StateOf(S), rows)) = SumOver(Invested, S)
<1> DEFINE w == use.worth
           state == StateOf(S)
           lines == Lines(a, state, rows)
           T == {x \in Items : Amount(state, x) # 0}
           f == [x \in Items |-> Amount(state, x) * w[x]]
           h == [x \in T |-> LineOf(a, state, x, w)]
<1>1. IsUse(use) /\ IsSteady(use) BY ValuationAssumption DEF LedgerInv, IsUse
<1>2. IsFiniteSet(S) BY FS_Subset DEF LedgerInv
<1>3. IsFiniteSet(Items) /\ \A x \in Items : w[x] \in Int
  BY <1>1, FS_Union, ReadsAssumption DEF IsSteady, Items
<1>4. \A t \in S, x \in Items : Amount(t, x) \in Int
  BY DEF LedgerInv, Amount, Items
<1>5. \A x \in Items : /\ Amount(state, x) = SumOver([t \in S |-> Amount(t, x)], S)
                       /\ Amount(state, x) \in Int
  <2> SUFFICES ASSUME NEW x \in Items
               PROVE  /\ Amount(state, x) = SumOver([t \in S |-> Amount(t, x)], S)
                      /\ Amount(state, x) \in Int
    OBVIOUS
  <2>1. Amount(state, x) = SumOver([t \in S |-> Amount(t, x)], S) BY <1>2, AmountIsSum
  <2> DEFINE g == [t \in S |-> Amount(t, x)]
  <2>2. \A t \in S : g[t] \in Int BY <1>4
  <2> HIDE DEF g
  <2>3. SumOver(g, S) \in Int BY <1>2, <2>2, SumIsInteger
  <2> QED BY <2>1, <2>3 DEF g
<1>6. state.cash \in [Currencies -> Int] /\ state.pos \in [Instruments -> Int]
  <2>1. /\ DOMAIN state.cash = Currencies /\ state.cash = [c \in Currencies |-> state.cash[c]]
        /\ DOMAIN state.pos = Instruments /\ state.pos = [i \in Instruments |-> state.pos[i]]
    BY DEF StateOf, SumBy
  <2>2. \A c \in Currencies : state.cash[c] = Amount(state, c) /\ c \in Items BY DEF Amount, Items
  <2>3. \A i \in Instruments : state.pos[i] = Amount(state, i) /\ i \in Items
    BY ReadsAssumption DEF Amount, Items
  <2> HIDE DEF state
  <2>4. \A c \in Currencies : state.cash[c] \in Int BY <1>5, <2>2
  <2>5. \A i \in Instruments : state.pos[i] \in Int BY <1>5, <2>3
  <2>6. state.cash \in [Currencies -> Int] BY <2>1, <2>4
  <2>7. state.pos \in [Instruments -> Int] BY <2>1, <2>5
  <2> QED BY <2>6, <2>7
<1> HIDE DEF state, w
<1>7. lines = {h[x] : x \in T}
  <2>1. \A l : l \in lines <=> \E x \in Items : Amount(state, x) # 0 /\ l = LineOf(a, state, x, w)
    BY <1>1, <1>6, LinesOfWorth DEF state, w
  <2> HIDE DEF lines
  <2> QED BY <2>1
<1>0. \A x \in Items : f[x] = Amount(state, x) * w[x] /\ f[x] \in Int
  <2> SUFFICES ASSUME NEW x \in Items
               PROVE  f[x] = Amount(state, x) * w[x] /\ f[x] \in Int
    OBVIOUS
  <2>1. Amount(state, x) \in Int /\ w[x] \in Int BY <1>3, <1>5
  <2>2. \A m, n \in Int : m * n \in Int OBVIOUS
  <2>3. Amount(state, x) * w[x] \in Int BY <2>1, <2>2
  <2> QED BY <2>3
<1>8. \A x \in T : h[x].item = x /\ h[x].account = a /\ h[x].value = f[x] /\ f[x] \in Int
  <2> SUFFICES ASSUME NEW x \in T
               PROVE  h[x].item = x /\ h[x].account = a /\ h[x].value = f[x] /\ f[x] \in Int
    OBVIOUS
  <2>1. h[x] = LineOf(a, state, x, w) /\ x \in Items OBVIOUS
  <2>2. LineOf(a, state, x, w).item = x /\ LineOf(a, state, x, w).account = a
    BY DEF LineOf
  <2>3. LineOf(a, state, x, w).value = Amount(state, x) * w[x]
    BY DEF LineOf, Amount
  <2> HIDE DEF f, h, T
  <2> QED BY <1>0, <2>1, <2>2, <2>3
<1>9. IsFiniteSet(T) BY <1>3, FS_Subset
<1> HIDE DEF lines, h
<1>10. IsFiniteSet(lines) BY <1>7, <1>9, ImageIsFinite
<1>11. \A l \in lines : l.account = a /\ l.value \in Int
  BY <1>7, <1>8
<1>12. Sum(lines) = SumOver(f, T)
  <2> DEFINE g == [l \in lines |-> l.value]
  <2>1. \A x, y \in T : h[x] = h[y] => x = y BY <1>8
  <2>2. \A x \in T : f[x] \in Int /\ g[h[x]] = f[x] BY <1>7, <1>8
  <2>3. Sum(lines) = SumOver(g, lines) BY <1>10, TotalIsSum
  <2> HIDE DEF f, g, T
  <2>4. SumOver(g, {h[x] : x \in T}) = SumOver(f, T) BY <1>9, <2>1, <2>2, SumOfImage
  <2> QED BY <1>7, <2>3, <2>4
<1>13. SumOver(f, Items) = SumOver(f, T)
  <2>1. T \in SUBSET Items /\ \A x \in Items : f[x] \in Int BY <1>0
  <2>2. \A x \in Items \ T : f[x] = 0 BY <1>3, <1>5
  <2> HIDE DEF f, T
  <2> QED BY <1>3, <2>1, <2>2, SumWithoutZeros
<1>14. SumOver(f, Items) = SumOver(Invested, S)
  <2> DEFINE each == [x \in Items |-> [t \in S |-> Amount(t, x) * w[x]]]
  <2>1. \A x \in Items, t \in S : each[x][t] \in Int BY <1>3, <1>4
  <2>2. \A x \in Items : f[x] = SumOver(each[x], S)
    <3> SUFFICES ASSUME NEW x \in Items PROVE f[x] = SumOver(each[x], S)
      OBVIOUS
    <3> DEFINE g == [t \in S |-> Amount(t, x)]
    <3>1. \A t \in S : g[t] \in Int /\ each[x][t] = g[t] * w[x] BY <1>4
    <3>2. Amount(state, x) = SumOver(g, S) BY <1>5
    <3> HIDE DEF g, each
    <3>3. SumOver(each[x], S) = SumOver(g, S) * w[x] BY <1>2, <1>3, <3>1, SumScaled
    <3> QED BY <3>2, <3>3
  <2>3. \A t \in S : Invested[t] = SumOver(Column(each, Items, t), Items)
    <3> SUFFICES ASSUME NEW t \in S
                 PROVE  Invested[t] = SumOver(Column(each, Items, t), Items)
      OBVIOUS
    <3>1. Column(each, Items, t) = [x \in Items |-> Amount(t, x) * w[x]] BY DEF Column
    <3>2. Balanced(t, w) BY DEF SteadyInv, w
    <3> HIDE DEF each
    <3> QED BY <3>1, <3>2 DEF Balanced, Invested
  <2> HIDE DEF each, f
  <2> QED BY <1>2, <1>3, <2>1, <2>2, <2>3, SumsSwap
<1> QED BY <1>10, <1>11, <1>12, <1>13, <1>14 DEF lines, state

\* A complete total is what the visible transactions bring from outside.
AccountState(a, c, known) == StateOf(Transactions(ledger, a, c, known))
AccountRows(a, c, known) == Quotes(datasets, Needed({AccountState(a, c, known)}), c, known)
AccountLines(a, c, known) == Lines(a, AccountState(a, c, known), AccountRows(a, c, known))

LEMMA TotalOfAccounts ==
  ASSUME NEW accounts, NEW c, NEW known,
         NEW v \in PlainValuation(ledger, datasets, accounts, c, known), v.complete
  PROVE  /\ v.total = Sum(UNION {AccountLines(a, c, known) : a \in accounts})
         /\ \A a \in accounts : Gaps(AccountState(a, c, known), AccountRows(a, c, known)) = {}
<1> DEFINE read(a) == [account |-> a, state |-> AccountState(a, c, known),
                       rows |-> AccountRows(a, c, known)]
           reads == {read(a) : a \in accounts}
<1>1. PlainValuation(ledger, datasets, accounts, c, known) = ValueOf(reads)
  <2> DEFINE pair(a) == [account |-> a, state |-> AccountState(a, c, known)]
             asked(s) == [account |-> s.account, state |-> s.state,
                          rows |-> Quotes(datasets, Needed({s.state}), c, known)]
             states == {pair(a) : a \in accounts}
  <2>1. PlainValuation(ledger, datasets, accounts, c, known) = ValueOf({asked(s) : s \in states})
    BY DEF PlainValuation, State, AccountState
  <2>2. \A a : asked(pair(a)) = read(a) BY DEF AccountRows
  <2> HIDE DEF asked, pair, read
  <2>3. {asked(s) : s \in states} = reads BY <2>2
  <2> QED BY <2>1, <2>3
<1>2. \A a : /\ read(a).account = a /\ read(a).state = AccountState(a, c, known)
             /\ read(a).rows = AccountRows(a, c, known)
  OBVIOUS
<1> HIDE DEF read
<1>3. v = Aggregate(UNION {Lines(r.account, r.state, r.rows) : r \in reads},
                    \A r \in reads : Gaps(r.state, r.rows) = {})
  <2> HIDE DEF reads
  <2> QED BY <1>1 DEF ValueOf, Raised
<1>4. /\ v.total = Sum(UNION {Lines(r.account, r.state, r.rows) : r \in reads})
      /\ v.complete = (\A r \in reads : Gaps(r.state, r.rows) = {})
  <2> HIDE DEF reads
  <2> QED BY <1>3, Zenon DEF Aggregate
<1>5. {Lines(r.account, r.state, r.rows) : r \in reads} = {AccountLines(a, c, known) : a \in accounts}
  BY <1>2 DEF AccountLines
<1>6. \A a \in accounts : Gaps(read(a).state, read(a).rows) = {}
  BY <1>4
<1> QED BY <1>2, <1>4, <1>5, <1>6

LEMMA SteadyTotal ==
  ASSUME LedgerInv, SteadyInv, use.steady, NEW accounts \in SUBSET Accounts, NEW c, NEW known,
         NEW v \in PlainValuation(ledger, datasets, accounts, c, known), v.complete
  PROVE  v.total = SumOver(Invested, VisibleIn(accounts, c, known))
<1> DEFINE seen(a) == Transactions(ledger, a, c, known)
           lines(a) == AccountLines(a, c, known)
           all == UNION {lines(a) : a \in accounts}
           V == VisibleIn(accounts, c, known)
           f == [l \in all |-> l.value]
           account == [l \in all |-> l.account]
           owner == [t \in V |-> t.account]
           parts == [a \in accounts |-> SumOver(Invested, seen(a))]
<1>1. IsFiniteSet(accounts) BY FS_Subset, RecordsAssumption
<1>2. V \in SUBSET ledger /\ IsFiniteSet(V)
  BY FS_Subset DEF VisibleIn, LedgerInv
<1>3. \A a \in accounts : seen(a) = {t \in V : t.account = a} /\ seen(a) \in SUBSET ledger
  BY DEF VisibleIn, Transactions, Visible
<1>4. \A a \in accounts : AccountRows(a, c, known) \in SUBSET RowsOf(use.datasets)
  BY DEF AccountRows, Quotes, Newer, Accepted, SteadyInv
<1>5. /\ v.total = Sum(all)
      /\ \A a \in accounts : Gaps(AccountState(a, c, known), AccountRows(a, c, known)) = {}
  BY TotalOfAccounts
<1> HIDE DEF V, seen
<1>6. \A a \in accounts : /\ IsFiniteSet(lines(a))
                          /\ \A l \in lines(a) : l.account = a /\ l.value \in Int
                          /\ Sum(lines(a)) = SumOver(Invested, seen(a))
  <2> SUFFICES ASSUME NEW a \in accounts
               PROVE  /\ IsFiniteSet(lines(a))
                      /\ \A l \in lines(a) : l.account = a /\ l.value \in Int
                      /\ Sum(lines(a)) = SumOver(Invested, seen(a))
    OBVIOUS
  <2>1. AccountState(a, c, known) = StateOf(seen(a)) BY DEF AccountState, seen
  <2>2. lines(a) = Lines(a, StateOf(seen(a)), AccountRows(a, c, known)) BY <2>1 DEF AccountLines
  <2>3. Gaps(StateOf(seen(a)), AccountRows(a, c, known)) = {} BY <1>5, <2>1
  <2> HIDE DEF lines
  <2> QED BY <1>3, <1>4, <2>2, <2>3, AccountIsWorth
<1> HIDE DEF lines
<1>7. IsFiniteSet(all)
  <2> DEFINE h == [a \in accounts |-> lines(a)]
  <2>1. {lines(a) : a \in accounts} = {h[a] : a \in accounts} OBVIOUS
  <2>2. IsFiniteSet({h[a] : a \in accounts})
    <3> HIDE DEF h
    <3> QED BY <1>1, ImageIsFinite
  <2>3. \A s \in {lines(a) : a \in accounts} : IsFiniteSet(s) BY <1>6
  <2> HIDE DEF h
  <2> QED BY <2>1, <2>2, <2>3, FS_UNION
<1>8. \A a \in accounts : parts[a] = SumOver(f, Keyed(all, account, a))
  <2> SUFFICES ASSUME NEW a \in accounts
               PROVE  parts[a] = SumOver(f, Keyed(all, account, a))
    OBVIOUS
  <2>1. Keyed(all, account, a) = lines(a) BY <1>6 DEF Keyed
  <2> DEFINE g == [l \in lines(a) |-> l.value]
  <2>2. \A l \in lines(a) : g[l] = f[l] /\ f[l] \in Int BY <1>6
  <2>3. Sum(lines(a)) = SumOver(g, lines(a)) BY <1>6, TotalIsSum
  <2> HIDE DEF f, g
  <2>4. SumOver(g, lines(a)) = SumOver(f, lines(a)) BY <1>6, <2>2, SumsOfEquals
  <2> QED BY <1>6, <2>1, <2>3, <2>4
<1>9. SumOver(parts, accounts) = SumOver(f, all)
  <2>1. \A l \in all : account[l] \in accounts /\ f[l] \in Int BY <1>6
  <2> HIDE DEF all, f, account, parts
  <2> QED BY <1>1, <1>7, <1>8, <2>1, SumOfParts
<1>10. SumOver(parts, accounts) = SumOver(Invested, V)
  <2>1. \A t \in V : owner[t] \in accounts /\ Invested[t] \in Int
    BY <1>2, InvestedIsInteger DEF V, VisibleIn
  <2>2. \A a \in accounts : parts[a] = SumOver(Invested, Keyed(V, owner, a))
    <3> SUFFICES ASSUME NEW a \in accounts
                 PROVE  parts[a] = SumOver(Invested, Keyed(V, owner, a))
      OBVIOUS
    <3>1. Keyed(V, owner, a) = seen(a) BY <1>3 DEF Keyed
    <3> QED BY <3>1
  <2> HIDE DEF owner, parts
  <2> QED BY <1>1, <1>2, <2>1, <2>2, SumOfParts
<1>11. Sum(all) = SumOver(f, all)
  <2> HIDE DEF all
  <2> QED BY <1>7, TotalIsSum
<1> QED BY <1>5, <1>9, <1>10, <1>11 DEF V

\* Flows, in units of 1 / Scale.
LEMMA PaidIsInvested ==
  ASSUME LedgerInv, NEW S \in SUBSET ledger
  PROVE  MapThenSumSet(LAMBDA t : -External(t), S) * Scale = SumOver(Invested, S)
<1> DEFINE f == [t \in S |-> -External(t)]
<1>1. IsFiniteSet(S) BY FS_Subset DEF LedgerInv
<1>2. Scale \in Int BY ReadsAssumption
<1>3. \A t \in S : f[t] \in Int /\ Invested[t] = f[t] * Scale
  BY <1>2, ExternalIsInteger DEF Invested
<1>4. MapThenSumSet(LAMBDA t : -External(t), S) = SumOver(f, S) BY <1>1, PaidIsSum
<1> HIDE DEF f
<1>5. SumOver(Invested, S) = SumOver(f, S) * Scale BY <1>1, <1>2, <1>3, SumScaled
<1> QED BY <1>4, <1>5

\* The flow of a point is what the visible transactions of its day bring from outside.
OfDay(accounts, k, c) ==
  {t \in VisibleIn(accounts, c, KnownAt(k, c)) : DayOf[t.eff] = DayOf[c]}

LEMMA ReadFlowIsInvested ==
  ASSUME LedgerInv, NEW accounts \in SUBSET Accounts, NEW k, NEW c
  PROVE  ReadFlow(accounts, k, c) * Scale = SumOver(Invested, OfDay(accounts, k, c))
<1> DEFINE flow(a) == ExternalFlow(ledger, a, DayOf[c], c, KnownAt(k, c))
           seen(a) == {t \in Transactions(ledger, a, c, KnownAt(k, c)) : DayOf[t.eff] = DayOf[c]}
           V == OfDay(accounts, k, c)
           flows == [a \in accounts |-> flow(a)]
           parts == [a \in accounts |-> flow(a) * Scale]
           owner == [t \in V |-> t.account]
<1>1. IsFiniteSet(accounts) BY FS_Subset, RecordsAssumption
<1>2. V \in SUBSET ledger /\ IsFiniteSet(V) /\ \A t \in V : t.account \in accounts
  BY FS_Subset DEF OfDay, VisibleIn, LedgerInv
<1>3. \A a \in accounts : seen(a) = {t \in V : t.account = a} /\ seen(a) \in SUBSET ledger
  BY DEF OfDay, VisibleIn, Transactions, Visible
<1>4. \A a \in accounts : flow(a) * Scale = SumOver(Invested, seen(a))
  <2> SUFFICES ASSUME NEW a \in accounts
               PROVE  flow(a) * Scale = SumOver(Invested, seen(a))
    OBVIOUS
  <2>1. flow(a) = MapThenSumSet(LAMBDA t : -External(t), seen(a)) BY DEF ExternalFlow
  <2>2. seen(a) \in SUBSET ledger BY <1>3
  <2> HIDE DEF seen, flow
  <2>3. MapThenSumSet(LAMBDA t : -External(t), seen(a)) * Scale = SumOver(Invested, seen(a))
    BY <2>2, PaidIsInvested
  <2> QED BY <2>1, <2>3
<1>5. \A a \in accounts : flow(a) \in Int
  <2> SUFFICES ASSUME NEW a \in accounts PROVE flow(a) \in Int
    OBVIOUS
  <2> DEFINE f == [t \in seen(a) |-> -External(t)]
  <2>1. seen(a) \in SUBSET ledger /\ IsFiniteSet(seen(a)) BY <1>3, FS_Subset DEF LedgerInv
  <2>2. \A t \in seen(a) : f[t] \in Int
    <3> HIDE DEF seen
    <3> QED BY <2>1, ExternalIsInteger
  <2>3. flow(a) = MapThenSumSet(LAMBDA t : -External(t), seen(a)) BY DEF ExternalFlow
  <2> HIDE DEF seen, flow
  <2>4. MapThenSumSet(LAMBDA t : -External(t), seen(a)) = SumOver(f, seen(a)) BY <2>1, PaidIsSum
  <2> HIDE DEF f
  <2> QED BY <2>1, <2>2, <2>3, <2>4, SumIsInteger
<1>6. ReadFlow(accounts, k, c) = SumOver(flows, accounts)
  BY <1>1, ReadIsSum DEF ReadFlow
<1> HIDE DEF flow, seen, V
<1>7. SumOver(parts, accounts) = SumOver(flows, accounts) * Scale
  <2>1. Scale \in Int BY ReadsAssumption
  <2>2. \A a \in accounts : flows[a] \in Int /\ parts[a] = flows[a] * Scale BY <1>5
  <2> HIDE DEF flows, parts
  <2> QED BY <1>1, <2>1, <2>2, SumScaled
<1>8. SumOver(parts, accounts) = SumOver(Invested, V)
  <2>1. \A t \in V : owner[t] \in accounts /\ Invested[t] \in Int
    BY <1>2, InvestedIsInteger
  <2>2. \A a \in accounts : parts[a] = SumOver(Invested, Keyed(V, owner, a))
    <3> SUFFICES ASSUME NEW a \in accounts
                 PROVE  parts[a] = SumOver(Invested, Keyed(V, owner, a))
      OBVIOUS
    <3>1. Keyed(V, owner, a) = seen(a) BY <1>3 DEF Keyed
    <3> QED BY <1>4, <3>1
  <2> HIDE DEF owner, parts
  <2> QED BY <1>1, <1>2, <2>1, <2>2, SumOfParts
<1> QED BY <1>6, <1>7, <1>8 DEF V

\* What is visible at the end of a period was visible at its start, or is of the day it
\* ends, or is missed.
LEMMA PeriodBrings ==
  ASSUME LedgerInv, NEW accounts \in SUBSET Accounts, NEW k \in {PointInTime} \cup Times,
         NEW c \in Times, NEW d \in Times, c < d, DayOf[c] # DayOf[d]
  PROVE  SumOver(Invested, VisibleIn(accounts, d, KnownAt(k, d)))
           = SumOver(Invested, VisibleIn(accounts, c, KnownAt(k, c)))
               + SumOver(Invested, OfDay(accounts, k, d))
               + SumOver(Invested, Missed(accounts, c, d, k))
<1> DEFINE V == VisibleIn(accounts, c, KnownAt(k, c))
           W == VisibleIn(accounts, d, KnownAt(k, d))
           D == OfDay(accounts, k, d)
           M == Missed(accounts, c, d, k)
<1>1. Horizon \in 1..End /\ End \in Nat BY ValuationAssumption, RecordsAssumption
<1>2. Times \subseteq 1..End /\ Times \subseteq Nat BY <1>1 DEF Times
<1>3. \A t \in ledger : t.eff \in Times /\ t.known \in Times BY DEF LedgerInv
<1>4. KnownAt(k, c) \in Int /\ KnownAt(k, d) \in Int /\ KnownAt(k, c) <= KnownAt(k, d)
  <2>1. c \in Nat /\ d \in Nat /\ (k = PointInTime \/ k \in Nat) BY <1>2
  <2>2. CASE k = PointInTime BY <2>1, <2>2 DEF KnownAt
  <2>3. CASE k # PointInTime BY <2>1, <2>3 DEF KnownAt
  <2> QED BY <2>2, <2>3
<1>5. \A s, t \in Times : /\ DayOf[s] \in Nat /\ s \in Int
                          /\ s <= t => DayOf[s] <= DayOf[t]
  BY <1>2, ReadsAssumption
<1>6. V \subseteq W
  <2>1. \A t \in ledger : t.eff <= c => t.eff <= d
    BY <1>3, <1>5
  <2>2. \A t \in ledger : t.known <= KnownAt(k, c) => t.known <= KnownAt(k, d)
    BY <1>3, <1>4, <1>5
  <2> QED BY <2>1, <2>2 DEF VisibleIn
<1>7. \A t \in V : DayOf[t.eff] # DayOf[d]
  <2> SUFFICES ASSUME NEW t \in V PROVE DayOf[t.eff] # DayOf[d]
    OBVIOUS
  <2>1. t.eff \in Times /\ t.eff <= c BY <1>3 DEF VisibleIn
  <2>2. DayOf[t.eff] <= DayOf[c] /\ DayOf[c] <= DayOf[d] BY <1>5, <2>1
  <2>3. DayOf[t.eff] \in Nat /\ DayOf[c] \in Nat /\ DayOf[d] \in Nat BY <1>5, <2>1
  <2> QED BY <2>2, <2>3
<1>8. D = {t \in W : DayOf[t.eff] = DayOf[d]} BY DEF OfDay
<1>9. M = {t \in W : t \notin V /\ DayOf[t.eff] # DayOf[d]}
  BY DEF Missed, Visibly, VisibleIn
<1>10. W = (V \cup D) \cup M /\ V \cap D = {} /\ (V \cup D) \cap M = {}
  <2> HIDE DEF V, W, D, M
  <2> QED BY <1>6, <1>7, <1>8, <1>9
<1>11. W \in SUBSET ledger /\ \A t \in W : Invested[t] \in Int
  BY InvestedIsInteger DEF VisibleIn
<1>12. IsFiniteSet(V) /\ IsFiniteSet(D) /\ IsFiniteSet(M) /\ IsFiniteSet(V \cup D)
  <2>1. IsFiniteSet(W) BY <1>11, FS_Subset DEF LedgerInv
  <2> HIDE DEF V, W, D, M
  <2>2. V \cup D \subseteq W /\ M \subseteq W /\ V \subseteq W /\ D \subseteq W BY <1>10
  <2> QED BY <2>1, <2>2, FS_Subset
<1> HIDE DEF V, W, D, M
<1>13. SumOver(Invested, W) = SumOver(Invested, V \cup D) + SumOver(Invested, M)
  BY <1>10, <1>11, <1>12, SumOfUnion
<1>14. SumOver(Invested, V \cup D) = SumOver(Invested, V) + SumOver(Invested, D)
  <2>1. \A t \in V \cup D : Invested[t] \in Int BY <1>10, <1>11
  <2> QED BY <1>10, <1>12, <2>1, SumOfUnion
<1> QED BY <1>13, <1>14 DEF V, W, D, M

\* A point of a complete valuation: its total and its flow.
LEMMA PointIsInvested ==
  ASSUME LedgerInv, SteadyInv, use.steady, NEW cutoffs \in SUBSET Times, NEW k,
         NEW p \in PlainPoints(home, Portfolio, ledger, datasets, cutoffs, k),
         p.point.valuation.complete
  PROVE  LET accounts == At(home, Portfolio, p.at, k)
         IN  /\ p.at \in cutoffs /\ p.point.day = DayOf[p.at]
             /\ p.point.valuation.total
                  = SumOver(Invested, VisibleIn(accounts, p.at, KnownAt(k, p.at)))
             /\ p.point.flow = SumOver(Invested, OfDay(accounts, k, p.at))
<1> DEFINE members(c) == At(home, Portfolio, c, k)
           plain(c) == PlainValuation(ledger, datasets, members(c), c, KnownAt(k, c))
           read(c) == ReadFlow(members(c), k, c)
           point(c, v) == Point(c, v, read(c))
           row(c, v) == [at |-> c, point |-> point(c, v)]
<1>1. \A c : members(c) \in SUBSET Accounts BY DEF At, Members
<1>2. PlainPoints(home, Portfolio, ledger, datasets, cutoffs, k)
        = UNION {{[at |-> c, point |-> u] : u \in {point(c, v) : v \in plain(c)}} : c \in cutoffs}
  BY DEF PlainPoints, PlainPoint, ReadFlow
<1> HIDE DEF members, plain, read, point
<1>0. PICK c \in cutoffs : \E v \in plain(c) : p = row(c, v)
  BY <1>2
<1>3. PICK v \in plain(c) : p = row(c, v) BY <1>0
<1>4. p.at = c /\ p.point = point(c, v) BY <1>3
<1>5. /\ point(c, v).day = DayOf[c] /\ point(c, v).valuation = v
      /\ point(c, v).flow = read(c) * Scale
  BY DEF point, Point
<1>6. v.total = SumOver(Invested, VisibleIn(members(c), c, KnownAt(k, c)))
  BY <1>1, <1>4, <1>5, SteadyTotal DEF plain
<1>7. read(c) * Scale = SumOver(Invested, OfDay(members(c), k, c))
  BY <1>1, ReadFlowIsInvested DEF read
<1> QED BY <1>4, <1>5, <1>6, <1>7 DEF members

\* While prices stand still, the return of a period is the flows that are not of the
\* day that it ends.
THEOREM ReturnsAreNotFlows == Spec => []FlowsAreNotReturns
<1>1. LedgerInv /\ SteadyInv => FlowsAreNotReturns
  <2> SUFFICES ASSUME LedgerInv, SteadyInv, use.steady,
                      NEW cutoffs \in use.cutoffs, NEW k \in use.knowledge,
                      NEW p \in PlainPoints(home, Portfolio, ledger, datasets, cutoffs, k),
                      NEW q \in PlainPoints(home, Portfolio, ledger, datasets, cutoffs, k),
                      p.at < q.at,
                      At(home, Portfolio, p.at, k) = At(home, Portfolio, q.at, k),
                      Linkable(p.point, q.point)
               PROVE  Gain(p.point, q.point)
                        = Scale * MapThenSumSet(LAMBDA t : -External(t),
                                    Missed(At(home, Portfolio, q.at, k), p.at, q.at, k))
    BY DEF FlowsAreNotReturns
  <2> DEFINE accounts == At(home, Portfolio, q.at, k)
             V(c) == VisibleIn(accounts, c, KnownAt(k, c))
             M == Missed(accounts, p.at, q.at, k)
  <2>1. IsUse(use) BY ValuationAssumption DEF LedgerInv
  <2>2. cutoffs \in SUBSET Times /\ k \in {PointInTime} \cup Times BY <2>1 DEF IsUse
  <2>3. /\ p.point.valuation.complete /\ q.point.valuation.complete
        /\ p.point.day # q.point.day
    BY DEF Linkable
  <2>4. /\ p.at \in Times /\ p.point.day = DayOf[p.at]
        /\ p.point.valuation.total = SumOver(Invested, V(p.at))
    BY <2>2, <2>3, PointIsInvested
  <2>5. /\ q.at \in Times /\ q.point.day = DayOf[q.at]
        /\ q.point.valuation.total = SumOver(Invested, V(q.at))
        /\ q.point.flow = SumOver(Invested, OfDay(accounts, k, q.at))
    BY <2>2, <2>3, PointIsInvested
  <2>6. accounts \in SUBSET Accounts BY DEF At, Members
  <2> HIDE DEF accounts
  <2>7. SumOver(Invested, V(q.at))
          = SumOver(Invested, V(p.at)) + SumOver(Invested, OfDay(accounts, k, q.at))
              + SumOver(Invested, M)
    BY <2>2, <2>3, <2>4, <2>5, <2>6, PeriodBrings
  <2>8. /\ V(p.at) \in SUBSET ledger /\ OfDay(accounts, k, q.at) \in SUBSET ledger
        /\ M \in SUBSET ledger
    BY DEF VisibleIn, OfDay, Missed
  <2>9. \A S \in SUBSET ledger : SumOver(Invested, S) \in Int
    BY FS_Subset, SumIsInteger, InvestedIsInteger DEF LedgerInv
  <2>10. MapThenSumSet(LAMBDA t : -External(t), M) * Scale = SumOver(Invested, M)
    BY <2>8, PaidIsInvested
  <2>11. MapThenSumSet(LAMBDA t : -External(t), M) \in Int
    <3> DEFINE f == [t \in M |-> -External(t)]
    <3>1. IsFiniteSet(M) BY <2>8, FS_Subset DEF LedgerInv
    <3>2. \A t \in M : f[t] \in Int
      <4> HIDE DEF M
      <4> QED BY <2>8, ExternalIsInteger
    <3> HIDE DEF M
    <3>3. MapThenSumSet(LAMBDA t : -External(t), M) = SumOver(f, M) BY <3>1, PaidIsSum
    <3> HIDE DEF f
    <3> QED BY <3>1, <3>2, <3>3, SumIsInteger
  <2>12. Gain(p.point, q.point) = SumOver(Invested, M)
    <3> DEFINE a == SumOver(Invested, V(p.at))
               b == SumOver(Invested, OfDay(accounts, k, q.at))
               m == SumOver(Invested, M)
    <3>1. a \in Int /\ b \in Int /\ m \in Int BY <2>8, <2>9
    <3>2. Gain(p.point, q.point) = (a + b + m) - b - a BY <2>4, <2>5, <2>7 DEF Gain
    <3> HIDE DEF a, b, m
    <3>3. (a + b + m) - b - a = m BY <3>1
    <3> QED BY <3>2, <3>3 DEF m
  <2>13. Scale * MapThenSumSet(LAMBDA t : -External(t), M) = SumOver(Invested, M)
    <3> DEFINE n == MapThenSumSet(LAMBDA t : -External(t), M)
    <3>1. Scale \in Int BY ReadsAssumption
    <3>2. n \in Int BY <2>11
    <3>3. n * Scale = SumOver(Invested, M) BY <2>10
    <3> HIDE DEF n, M
    <3>4. Scale * n = SumOver(Invested, M) BY <3>1, <3>2, <3>3
    <3> QED BY <3>4 DEF n
  <2> QED BY <2>12, <2>13 DEF accounts
<1> QED BY <1>1, LedgerInvHolds, SteadyInvHolds, PTL

-----------------------------------------------------------------------------
(* Imports and evaluations that overlap *)

Answers == {"none", "stored", "conflict", "failed"}
Sources == Contents \cup {{}}

Imports == [kind : {"import"}, label : Labels, via : {"csv", "snapshot"},
            source : Sources, content : Sources, answer : Answers]
Evaluations == [kind : {"evaluate"}, change : Changes, answer : Answers]

ImportPcs == {"capture", "parse", "look", "insert"}
AttentionPcs == {"check", "recheck", "append", "commit"}

ObservationsTypeOK ==
  /\ file \in Sources
  /\ events \in Seq(Changes)
  /\ lock \in [Processes -> {"none", "shared", "reserved", "pending"}]
  /\ draft = [raw |-> draft.raw, events |-> draft.events] /\ draft.events \in Seq(Changes)
  /\ pc \in [Processes -> ImportPcs \cup AttentionPcs \cup {"idle"}]
  /\ job \in [Processes -> {NoJob} \cup Imports \cup Evaluations]

\* One change is one event of a log, and what one log has another has too.
Distinct(log) == \A i, j \in DOMAIN log : log[i] = log[j] => i = j
Includes(log, earlier) == \A c \in Changes : IsIn(c, earlier) => IsIn(c, log)

\* One connection writes.
Exclusive == \A p, q \in Processes : Writes(p) /\ Writes(q) => p = q

\* What a connection that writes sees is what is stored and more.
Drafted(p) ==
  Writes(p) => raw \subseteq draft.raw /\ Distinct(draft.events) /\ Includes(draft.events, events)

\* From the second look to the end of its transaction an evaluation has a lock, and
\* what it saw is still so.
Holds(p) ==
  /\ lock[p] = "shared" => pc[p] = "append"
  /\ lock[p] = "reserved" => pc[p] = "commit"
  /\ Joins(p) => p \in left
  /\ pc[p] = "append" => lock[p] # "none" /\ ~Known(p)
  /\ pc[p] = "commit" => Writes(p) /\ IsIn(job[p].change, draft.events)

\* What the caller was told.
Told(p) ==
  /\ job[p].kind = "import" /\ job[p].answer = "stored" => Dataset(p) \in datasets
  /\ p \notin left /\ job[p].kind = "evaluate" /\ job[p].answer = "stored"
       => IsIn(job[p].change, events)

\* The call that a process makes, by where it is.
Calling(p) ==
  /\ pc[p] \in ImportPcs => job[p] \in Imports /\ job[p].answer = "none"
  /\ pc[p] \in AttentionPcs => job[p] \in Evaluations /\ job[p].answer = "none"

ProcessInv(p) == Drafted(p) /\ Holds(p) /\ Told(p) /\ Calling(p)

VersionsKept ==
  /\ \A d, e \in datasets : d.label = e.label => d = e
  /\ \A d \in datasets : d.source \in raw

ObservationsInv ==
  /\ ObservationsTypeOK /\ Exclusive /\ VersionsKept /\ Distinct(events)
  /\ \A p \in Processes : ProcessInv(p)

-----------------------------------------------------------------------------

\* A home with no events, and with datasets that were imported before.
LEMMA StartKeeps ==
  ASSUME NEW imported, NEW files \in SUBSET Sources, ObservationsStart(imported, files),
         \A d, e \in imported : d.label = e.label => d = e
  PROVE  ObservationsInv
<1>1. ObservationsTypeOK /\ Exclusive /\ VersionsKept /\ Distinct(events)
  BY DEF ObservationsStart, ObservationsTypeOK, Exclusive, Writes, VersionsKept, Distinct, Empty,
         ImportPcs, AttentionPcs
<1>2. ASSUME NEW p \in Processes PROVE ProcessInv(p)
  BY DEF ObservationsStart, ProcessInv, Drafted, Holds, Told, Calling, Writes, Joins, NoJob,
         ImportPcs, AttentionPcs
<1> QED
  BY <1>1, <1>2 DEF ObservationsInv

\* A step of one process, seen by the others: what is stored changes when they have no
\* lock, and what is drafted when they do not write.
Alone(p) ==
  /\ job' = [job EXCEPT ![p] = job'[p]]
  /\ pc' = [pc EXCEPT ![p] = pc'[p]]
  /\ lock' = [lock EXCEPT ![p] = lock'[p]]
  /\ UNCHANGED <<raw, events>> \/ MayCommit(p)
  /\ UNCHANGED draft \/ MayWrite(p)
  /\ Writes(p)' => MayWrite(p)
  /\ left \subseteq left'
  /\ raw \subseteq raw' /\ datasets \subseteq datasets' /\ Includes(events', events)

\* What holds of another process goes on to hold.
LEMMA OthersKeep ==
  ASSUME ObservationsInv, NEW p \in Processes, Alone(p), NEW q \in Processes \ {p}
  PROVE  ProcessInv(q)'
<1>1. job'[q] = job[q] /\ pc'[q] = pc[q] /\ lock'[q] = lock[q]
  BY DEF Alone, ObservationsInv, ObservationsTypeOK
<1>2. ProcessInv(q)
  BY DEF ObservationsInv
<1>3. lock[q] # "none" => UNCHANGED <<raw, events>>
  BY DEF Alone, MayCommit
<1>4. Writes(q) => UNCHANGED draft
  BY DEF Alone, MayWrite
<1>5. Writes(q)' = Writes(q) /\ Joins(q)' = Joins(q)
  BY <1>1 DEF Writes, Joins
<1>6. Drafted(q)'
  BY <1>2, <1>3, <1>4, <1>5 DEF ProcessInv, Drafted, Writes, Distinct, Includes, IsIn
<1>7. Holds(q)'
  <2>1. lock[q] # "none" => Known(q)' = Known(q)
    BY <1>1, <1>3, <1>4, <1>5 DEF Known, Sees, IsIn
  <2>2. pc[q] = "commit" => UNCHANGED draft
    BY <1>2, <1>4 DEF ProcessInv, Holds
  <2> QED
    BY <1>1, <1>2, <1>5, <2>1, <2>2 DEF ProcessInv, Holds, Alone, IsIn
<1>8. Told(q)'
  <2>1. Dataset(q)' = Dataset(q)
    BY <1>1 DEF Dataset
  <2>2. job[q].kind = "evaluate" => job[q].change \in Changes
    BY DEF ObservationsInv, ObservationsTypeOK, Imports, Evaluations, NoJob
  <2>3. job[q].kind = "evaluate" /\ IsIn(job[q].change, events) => IsIn(job'[q].change, events')
    BY <1>1, <2>2 DEF Alone, Includes
  <2> QED
    BY <1>1, <1>2, <2>1, <2>3 DEF ProcessInv, Told, Alone
<1>9. Calling(q)'
  BY <1>1, <1>2 DEF ProcessInv, Calling
<1> QED
  BY <1>6, <1>7, <1>8, <1>9 DEF ProcessInv

\* What a step of one process has to keep.
LEMMA StepKeeps ==
  ASSUME ObservationsInv, NEW p \in Processes, Alone(p), ObservationsTypeOK',
         VersionsKept', Distinct(events)', ProcessInv(p)'
  PROVE  ObservationsInv'
<1>1. \A q \in Processes \ {p} : ProcessInv(q)'
  BY OthersKeep
<1>2. Exclusive'
  <2> SUFFICES ASSUME NEW q \in Processes, NEW r \in Processes, Writes(q)', Writes(r)'
               PROVE  q = r
    BY DEF Exclusive
  <2>1. ASSUME NEW s \in Processes \ {p} PROVE Writes(s)' = Writes(s)
    BY DEF Alone, ObservationsInv, ObservationsTypeOK, Writes
  <2>2. Writes(p)' => \A s \in Processes \ {p} : ~Writes(s)
    BY DEF Alone, MayWrite
  <2> QED
    BY <2>1, <2>2 DEF ObservationsInv, Exclusive
<1> QED
  BY <1>1, <1>2 DEF ObservationsInv

\* What a process sees is typed.
LEMMA SeesTyped ==
  ASSUME ObservationsInv, NEW p \in Processes
  PROVE  /\ Sees(p) = [raw |-> Sees(p).raw, events |-> Sees(p).events]
         /\ Sees(p).events \in Seq(Changes) /\ Distinct(Sees(p).events)
         /\ raw \subseteq Sees(p).raw /\ Includes(Sees(p).events, events)
         /\ Writes(p) => MayWrite(p)
<1>1. CASE Writes(p)
  <2>1. Sees(p) = draft /\ Drafted(p)
    BY <1>1 DEF Sees, ObservationsInv, ProcessInv
  <2>2. MayWrite(p)
    BY <1>1 DEF MayWrite, ObservationsInv, Exclusive
  <2> QED
    BY <1>1, <2>1, <2>2 DEF ObservationsInv, ObservationsTypeOK, Drafted
<1>2. CASE ~Writes(p)
  <2>1. Sees(p) = [raw |-> raw, events |-> events]
    BY <1>2 DEF Sees
  <2> QED
    BY <1>2, <2>1 DEF ObservationsInv, ObservationsTypeOK, Includes
<1> QED
  BY <1>1, <1>2

\* The end of a transaction.
LEMMA OverStep ==
  ASSUME ObservationsInv, NEW p \in Processes, Over(p) \/ Leave(p)
  PROVE  /\ lock' = [lock EXCEPT ![p] = lock'[p]]
         /\ lock'[p] \in {"none", "pending"}
         /\ lock' \in [Processes -> {"none", "shared", "reserved", "pending"}]
         /\ draft' = [raw |-> draft'.raw, events |-> draft'.events] /\ draft'.events \in Seq(Changes)
         /\ UNCHANGED draft \/ MayWrite(p)
         /\ lock'[p] = "pending" => Joins(p) /\ UNCHANGED draft
<1>1. ASSUME Over(p)
      PROVE  /\ lock' = [lock EXCEPT ![p] = lock'[p]] /\ lock'[p] = "none"
             /\ lock' \in [Processes -> {"none", "shared", "reserved", "pending"}]
             /\ draft' = [raw |-> draft'.raw, events |-> draft'.events] /\ draft'.events \in Seq(Changes)
             /\ UNCHANGED draft \/ MayWrite(p)
  <2>1. lock' = [lock EXCEPT ![p] = "none"] /\ lock \in [Processes -> {"none", "shared", "reserved", "pending"}]
    BY <1>1 DEF Over, ObservationsInv, ObservationsTypeOK
  <2>2. CASE Writes(p)
    <3>1. draft' = [raw |-> {}, events |-> <<>>] /\ MayWrite(p)
      BY <1>1, <2>2, SeesTyped DEF Over, Empty
    <3> QED
      BY <2>1, <3>1
  <2>3. CASE ~Writes(p)
    <3>1. draft' = draft
      BY <1>1, <2>3 DEF Over
    <3> QED
      BY <2>1, <3>1 DEF ObservationsInv, ObservationsTypeOK
  <2> QED
    BY <2>2, <2>3
<1>2. CASE Leave(p) /\ ~Joins(p)
  BY <1>1, <1>2 DEF Leave
<1>3. CASE Leave(p) /\ Joins(p)
  BY <1>3 DEF Leave, Joins, ObservationsInv, ObservationsTypeOK
<1> QED
  BY <1>1, <1>2, <1>3

\* An answer is what the caller is told of its call.
LEMMA AnswerTyped ==
  ASSUME ObservationsInv, NEW p \in Processes, NEW a \in Answers, pc[p] # "idle", Answer(p, a)
  PROVE  /\ job' = [job EXCEPT ![p] = job'[p]] /\ pc' = [pc EXCEPT ![p] = pc'[p]]
         /\ pc'[p] = "idle" /\ job'[p].answer = a
         /\ pc' \in [Processes -> ImportPcs \cup AttentionPcs \cup {"idle"}]
         /\ job' \in [Processes -> {NoJob} \cup Imports \cup Evaluations]
         /\ job'[p].kind = job[p].kind
         /\ job[p] \in Imports => Dataset(p)' = Dataset(p)
         /\ job[p] \in Evaluations => job'[p].change = job[p].change
         /\ job[p].kind = "import" => job[p] \in Imports
         /\ job[p].kind = "evaluate" => job[p] \in Evaluations
<1>1. job[p] \in Imports \cup Evaluations
  BY DEF ObservationsInv, ObservationsTypeOK, ProcessInv, Calling
<1>2. /\ job' = [job EXCEPT ![p] = [job[p] EXCEPT !.answer = a]]
      /\ pc' = [pc EXCEPT ![p] = "idle"]
  BY DEF Answer, Goto
<1>3. /\ job[p] \in Imports => [job[p] EXCEPT !.answer = a] \in Imports
      /\ job[p] \in Evaluations => [job[p] EXCEPT !.answer = a] \in Evaluations
      /\ [job[p] EXCEPT !.answer = a].answer = a
      /\ [job[p] EXCEPT !.answer = a].kind = job[p].kind
  BY <1>1 DEF Imports, Evaluations
<1>4. job'[p] = [job[p] EXCEPT !.answer = a]
  BY <1>2 DEF ObservationsInv, ObservationsTypeOK
<1>5. /\ job[p] \in Imports => Dataset(p)' = Dataset(p)
      /\ job[p] \in Evaluations => job'[p].change = job[p].change
      /\ job[p].kind = "import" => job[p] \in Imports
      /\ job[p].kind = "evaluate" => job[p] \in Evaluations
  BY <1>1, <1>4 DEF Dataset, Imports, Evaluations
<1> QED
  BY <1>1, <1>2, <1>3, <1>4, <1>5 DEF ObservationsInv, ObservationsTypeOK

\* A call is answered, or fails, and its transaction is over or is left open as it was.
LEMMA AnswerStep ==
  ASSUME ObservationsInv, NEW p \in Processes, NEW a \in Answers,
         pc[p] # "idle", Answer(p, a), Over(p) \/ Leave(p), file' \in Sources, UNCHANGED left,
         UNCHANGED <<raw, events>> \/ (MayCommit(p) /\ lock'[p] = "none"),
         raw \subseteq raw', datasets \subseteq datasets', Includes(events', events),
         events' \in Seq(Changes), Distinct(events)', VersionsKept',
         a = "stored" =>
           /\ job[p].kind = "import" => Dataset(p) \in datasets'
           /\ job[p].kind = "evaluate" /\ p \notin left => IsIn(job[p].change, events')
  PROVE  ObservationsInv'
<1>1. Alone(p)
  <2>1. Writes(p)' => MayWrite(p)
    <3>1. Writes(p)' => Writes(p)
      BY OverStep DEF Joins, Writes
    <3> QED
      BY <3>1, SeesTyped
  <2> QED
    BY <2>1, AnswerTyped, OverStep DEF Alone
<1>2. ObservationsTypeOK'
  BY AnswerTyped, OverStep DEF ObservationsTypeOK
<1>3. Drafted(p)'
  <2> SUFFICES ASSUME Writes(p)' PROVE Drafted(p)'
    BY DEF Drafted
  <2>1. Joins(p) /\ UNCHANGED <<draft, raw, events>>
    BY OverStep DEF Writes
  <2> QED
    BY <2>1 DEF Drafted, Joins, Writes, ObservationsInv, ProcessInv, Includes, Distinct, IsIn
<1>4. Holds(p)'
  BY AnswerTyped, OverStep DEF Holds, Joins, Writes, ObservationsInv, ProcessInv
<1>5. Told(p)'
  BY AnswerTyped DEF Told
<1>6. Calling(p)'
  BY AnswerTyped DEF Calling, ImportPcs, AttentionPcs
<1> QED
  BY <1>1, <1>2, <1>3, <1>4, <1>5, <1>6, StepKeeps DEF ProcessInv

\* What stays as it is, is kept.
LEMMA Stays ==
  ASSUME ObservationsInv
  PROVE  /\ UNCHANGED events => events' \in Seq(Changes) /\ Distinct(events)' /\ Includes(events', events)
         /\ UNCHANGED <<raw, datasets>> => VersionsKept'
         /\ UNCHANGED datasets /\ raw \subseteq raw' => VersionsKept'
BY DEF ObservationsInv, ObservationsTypeOK, Distinct, Includes, VersionsKept

\* A refused COMMIT leaves what it would have stored.
LEMMA RefusedStep ==
  ASSUME ObservationsInv, NEW p \in Processes, NEW seen, pc[p] # "idle", Refused(p, seen), MayWrite(p),
         UNCHANGED <<file, raw, datasets, events>>,
         seen = [raw |-> seen.raw, events |-> seen.events], seen.events \in Seq(Changes),
         raw \subseteq seen.raw, Distinct(seen.events), Includes(seen.events, events)
  PROVE  ObservationsInv'
<1>0. Answer(p, "failed") /\ "failed" \in Answers
  BY DEF Refused, Answers
<1>1. /\ lock' = [lock EXCEPT ![p] = lock'[p]] /\ lock'[p] = "pending"
      /\ lock' \in [Processes -> {"none", "shared", "reserved", "pending"}]
      /\ draft' = seen /\ left \subseteq left' /\ p \in left'
  BY DEF Refused, ObservationsInv, ObservationsTypeOK
<1>2. Alone(p)
  BY <1>0, <1>1, AnswerTyped, Stays DEF Alone
<1>3. ObservationsTypeOK'
  BY <1>0, <1>1, AnswerTyped, Stays DEF ObservationsTypeOK, ObservationsInv
<1>4. ProcessInv(p)'
  <2>1. Drafted(p)'
    BY <1>1 DEF Drafted, Includes, Distinct, IsIn
  <2>2. Holds(p)' /\ Calling(p)' /\ Told(p)'
    BY <1>0, <1>1, AnswerTyped DEF Holds, Joins, Told, Calling, ImportPcs, AttentionPcs
  <2> QED
    BY <2>1, <2>2 DEF ProcessInv
<1> QED
  BY <1>2, <1>3, <1>4, Stays, StepKeeps

\* A step of a call that is not over: nothing is stored, and what is drafted is more.
LEMMA CallStep ==
  ASSUME ObservationsInv, NEW p \in Processes,
         job' = [job EXCEPT ![p] = job'[p]],
         pc' = [pc EXCEPT ![p] = pc'[p]],
         file' \in Sources, UNCHANGED <<raw, datasets, events, lock, draft, left>>,
         \/ pc'[p] \in ImportPcs /\ job'[p] \in Imports /\ job'[p].answer = "none"
         \/ pc'[p] \in {"check", "recheck"} /\ job'[p] \in Evaluations /\ job'[p].answer = "none",
         lock[p] \notin {"shared", "reserved"}
  PROVE  ObservationsInv'
<1>1. Alone(p)
  BY SeesTyped, Stays DEF Alone, Writes, ObservationsInv, ObservationsTypeOK
<1>2. ObservationsTypeOK'
  BY ZenonT(30) DEF ObservationsTypeOK, ObservationsInv, ImportPcs, AttentionPcs
<1>3. ProcessInv(p)'
  <2>1. Drafted(p) /\ Holds(p)
    BY DEF ObservationsInv, ProcessInv
  <2>2. Drafted(p)'
    BY <2>1 DEF Drafted, Writes, Includes, Distinct, IsIn
  <2>3. Holds(p)' /\ Calling(p)' /\ Told(p)'
    BY <2>1 DEF Holds, Joins, Told, Calling, ImportPcs, AttentionPcs
  <2> QED
    BY <2>2, <2>3 DEF ProcessInv
<1> QED
  BY <1>1, <1>2, <1>3, Stays, StepKeeps DEF ObservationsInv

\* The call that a process makes, by where it is.
LEMMA JobAt ==
  ASSUME ObservationsInv, NEW p \in Processes
  PROVE  /\ pc[p] \in ImportPcs =>
              job[p] \in Imports /\ job[p].kind = "import" /\ job[p].answer = "none"
         /\ pc[p] \in AttentionPcs =>
              /\ job[p] \in Evaluations /\ job[p].kind = "evaluate" /\ job[p].answer = "none"
              /\ job[p].change \in Changes
         /\ pc[p] # "commit" => lock[p] # "reserved"
         /\ pc[p] # "append" => lock[p] # "shared"
BY DEF ObservationsInv, ProcessInv, Calling, Holds, Imports, Evaluations

\* Whoever answers from what it reads leaves its connection as it was.
LEMMA LookingLeaves ==
  ASSUME ObservationsInv, NEW p \in Processes, pc[p] \in {"look", "check", "recheck"},
         UNCHANGED <<lock, draft>>
  PROVE  Over(p) \/ Leave(p)
<1>1. lock[p] \in {"none", "pending"} /\ lock = [lock EXCEPT ![p] = lock[p]]
  BY JobAt DEF ObservationsInv, ObservationsTypeOK
<1>2. CASE lock[p] = "pending"
  BY <1>2 DEF Leave, Joins
<1>3. CASE lock[p] = "none"
  BY <1>1, <1>3 DEF Over, Writes
<1> QED
  BY <1>1, <1>2, <1>3

\* An event that is not in a log yet is in it once when it is appended.
LEMMA AppendedOnce ==
  ASSUME NEW log \in Seq(Changes), NEW c \in Changes, ~IsIn(c, log), Distinct(log),
         NEW earlier, Includes(log, earlier)
  PROVE  /\ Append(log, c) \in Seq(Changes) /\ Distinct(Append(log, c))
         /\ Includes(Append(log, c), earlier) /\ IsIn(c, Append(log, c))
<1> DEFINE all == Append(log, c)
<1>1. /\ all \in Seq(Changes) /\ Len(log) \in Nat /\ DOMAIN log = 1..Len(log)
      /\ DOMAIN all = 1..(Len(log) + 1)
      /\ \A i \in 1..Len(log) : all[i] = log[i]
      /\ all[Len(log) + 1] = c
  OBVIOUS
<1> HIDE DEF all
<1>2. Distinct(all)
  BY <1>1 DEF Distinct, IsIn
<1>3. \A d \in Changes : IsIn(d, log) => IsIn(d, all)
  BY <1>1 DEF IsIn
<1>4. IsIn(c, all)
  BY <1>1 DEF IsIn
<1> QED
  BY <1>1, <1>2, <1>3, <1>4 DEF Includes, all

\* The file is not what the invariant is about.
LEMMA FileChanges ==
  ASSUME ObservationsInv, file' \in Sources,
         UNCHANGED <<raw, datasets, events, lock, draft, left, pc, job>>
  PROVE  ObservationsInv'
<1>1. ObservationsTypeOK' /\ Exclusive' /\ VersionsKept' /\ Distinct(events)'
  BY DEF ObservationsInv, ObservationsTypeOK, Exclusive, Writes, VersionsKept, Distinct
<1>2. ASSUME NEW p \in Processes PROVE ProcessInv(p)'
  BY DEF ObservationsInv, ProcessInv, Drafted, Holds, Told, Calling, Writes, Joins, Known, Sees,
         Dataset, Includes, Distinct, IsIn
<1> QED
  BY <1>1, <1>2 DEF ObservationsInv

\* Imports keep the invariant.
LEMMA ImportKeeps ==
  ASSUME ObservationsInv, NEW p \in Processes, ImportStep(p)
  PROVE  ObservationsInv'
<1>0. /\ job \in [Processes -> {NoJob} \cup Imports \cup Evaluations]
      /\ pc \in [Processes -> ImportPcs \cup AttentionPcs \cup {"idle"}]
      /\ file \in Sources
  BY DEF ObservationsInv, ObservationsTypeOK
<1>1. CASE CallImport(p) \/ CallSnapshot(p)
  <2>1. PICK l \in Labels, via \in {"csv", "snapshot"}, c \in Sources : Call(p, Import(l, via, c), "capture")
    BY <1>1 DEF CallImport, CallSnapshot, Sources
  <2>2. Import(l, via, c) \in Imports /\ Import(l, via, c).answer = "none"
    BY DEF Import, Imports, Answers, Sources
  <2>3. /\ job' = [job EXCEPT ![p] = job'[p]] /\ job'[p] = Import(l, via, c)
        /\ pc' = [pc EXCEPT ![p] = pc'[p]] /\ pc'[p] = "capture" /\ pc[p] = "idle"
        /\ UNCHANGED <<file, raw, datasets, events, lock, draft, left>>
    BY <1>0, <2>1 DEF Call, Goto
  <2>4. lock[p] \notin {"shared", "reserved"}
    BY <2>3, JobAt
  <2> QED
    BY <1>0, <2>2, <2>3, <2>4, CallStep DEF ImportPcs
<1>2. ASSUME Cite(p), pc[p] = "capture"
      PROVE  /\ job' = [job EXCEPT ![p] = job'[p]] /\ job'[p] \in Imports /\ job'[p].answer = "none"
             /\ pc' = [pc EXCEPT ![p] = pc'[p]] /\ pc'[p] \in {"parse", "look"}
             /\ UNCHANGED left
  <2>1. job[p] \in Imports /\ job[p].answer = "none"
    BY <1>2, JobAt DEF ImportPcs
  <2>2. Bytes(p) \in Sources
    BY <1>0, <2>1 DEF Bytes, Imports
  <2>3. /\ [job[p] EXCEPT !.source = Bytes(p)] \in Imports
        /\ [job[p] EXCEPT !.source = Bytes(p)].answer = "none"
    BY <2>1, <2>2 DEF Imports
  <2>4. job' = [job EXCEPT ![p] = [job[p] EXCEPT !.source = Bytes(p)]]
    BY <1>2 DEF Cite
  <2>5. /\ pc' = [pc EXCEPT ![p] = pc'[p]] /\ pc'[p] \in {"parse", "look"}
        /\ UNCHANGED left
    BY <1>0, <1>2 DEF Cite, Goto
  <2> QED
    BY <1>0, <2>3, <2>4, <2>5
<1>3. CASE Capture(p)
  <2> DEFINE seen == [Sees(p) EXCEPT !.raw = @ \cup {Bytes(p)}]
  <2>0. pc[p] = "capture" /\ UNCHANGED <<file, datasets, events>> /\ lock[p] \notin {"shared", "reserved"}
    BY <1>3, JobAt DEF Capture
  <2>1. /\ seen = [raw |-> seen.raw, events |-> seen.events] /\ seen.events \in Seq(Changes)
        /\ Distinct(seen.events) /\ raw \subseteq seen.raw /\ Includes(seen.events, events)
    <3>1. Sees(p) = [raw |-> Sees(p).raw, events |-> Sees(p).events]
      BY SeesTyped
    <3>2. seen.raw = Sees(p).raw \cup {Bytes(p)} /\ seen.events = Sees(p).events
      BY <3>1
    <3>3. seen = [raw |-> seen.raw, events |-> seen.events]
      BY <3>1
    <3> QED
      BY <3>2, <3>3, SeesTyped
  <2> HIDE DEF seen
  <2>2. CASE Cite(p) /\ UNCHANGED <<raw, lock, draft>>
    BY <1>0, <1>2, <2>0, <2>2, CallStep DEF ImportPcs
  <2>3. CASE MayWrite(p) /\ Joins(p) /\ draft' = seen /\ Cite(p) /\ UNCHANGED <<raw, lock>>
    <3>0. /\ job' = [job EXCEPT ![p] = job'[p]] /\ job'[p] \in Imports /\ job'[p].answer = "none"
          /\ pc' = [pc EXCEPT ![p] = pc'[p]] /\ pc'[p] \in {"parse", "look"} /\ UNCHANGED left
      BY <1>2, <2>0, <2>3
    <3>1. lock \in [Processes -> {"none", "shared", "reserved", "pending"}] /\ lock[p] = "pending"
      BY <2>3 DEF Joins, ObservationsInv, ObservationsTypeOK
    <3>2. Alone(p)
      BY <2>0, <2>3, <3>0, <3>1, Stays DEF Alone
    <3>3. ObservationsTypeOK'
      BY <1>0, <2>0, <2>1, <2>3, <3>0, <3>1, Stays DEF ObservationsTypeOK, ImportPcs
    <3>4. Drafted(p)'
      BY <2>0, <2>1, <2>3 DEF Drafted, Includes, Distinct, IsIn
    <3>5. p \in left
      BY <2>3 DEF ObservationsInv, ProcessInv, Holds
    <3>6. Holds(p)' /\ Told(p)' /\ Calling(p)'
      BY <2>3, <3>0, <3>1, <3>5 DEF Holds, Joins, Told, Calling, ImportPcs, AttentionPcs
    <3> QED
      BY <2>0, <2>3, <3>2, <3>3, <3>4, <3>6, Stays, StepKeeps DEF ProcessInv
  <2>4. CASE ~Joins(p) /\ MayCommit(p) /\ raw' = seen.raw /\ Cite(p) /\ UNCHANGED <<lock, draft>>
    <3>0. /\ job' = [job EXCEPT ![p] = job'[p]] /\ job'[p] \in Imports /\ job'[p].answer = "none"
          /\ pc' = [pc EXCEPT ![p] = pc'[p]] /\ pc'[p] \in {"parse", "look"} /\ UNCHANGED left
      BY <1>2, <2>0, <2>4
    <3>1. /\ lock \in [Processes -> {"none", "shared", "reserved", "pending"}] /\ lock[p] # "pending"
          /\ raw \subseteq raw'
      BY <2>1, <2>4 DEF Joins, ObservationsInv, ObservationsTypeOK
    <3>2. ~Writes(p)'
      BY <2>0, <2>4, <3>1 DEF Writes
    <3>3. Alone(p)
      BY <2>0, <2>4, <3>0, <3>1, <3>2, Stays DEF Alone
    <3>4. ObservationsTypeOK'
      BY <1>0, <2>0, <2>4, <3>0, <3>1, Stays DEF ObservationsTypeOK, ObservationsInv, ImportPcs
    <3>5. Drafted(p)'
      BY <3>2 DEF Drafted
    <3>6. Holds(p)' /\ Told(p)' /\ Calling(p)'
      BY <2>0, <2>4, <3>0, <3>1 DEF Holds, Joins, Told, Calling, ImportPcs, AttentionPcs
    <3> QED
      BY <2>0, <3>1, <3>3, <3>4, <3>5, <3>6, Stays, StepKeeps DEF ProcessInv
  <2>5. CASE MayWrite(p) /\ Refused(p, seen) /\ UNCHANGED raw
    BY <2>0, <2>1, <2>5, RefusedStep
  <2> QED
    BY <1>3, <2>2, <2>3, <2>4, <2>5 DEF Capture, seen
<1>4. CASE Parse(p)
  <2>1. job[p] \in Imports /\ job[p].answer = "none" /\ pc[p] = "parse" /\ lock[p] \notin {"shared", "reserved"}
    BY <1>4, JobAt DEF Parse, ImportPcs
  <2>2. [job[p] EXCEPT !.content = file] \in Imports /\ [job[p] EXCEPT !.content = file].answer = "none"
    BY <1>0, <2>1 DEF Imports
  <2>3. /\ job' = [job EXCEPT ![p] = [job[p] EXCEPT !.content = file]]
        /\ pc' = [pc EXCEPT ![p] = pc'[p]] /\ pc'[p] = "look"
        /\ UNCHANGED <<file, raw, datasets, events, lock, draft, left>>
    BY <1>0, <1>4 DEF Parse, Goto
  <2>4. job' = [job EXCEPT ![p] = job'[p]] /\ job'[p] \in Imports /\ job'[p].answer = "none"
    BY <1>0, <2>2, <2>3
  <2> QED
    BY <1>0, <2>1, <2>3, <2>4, CallStep DEF ImportPcs
<1>5. CASE Register(p)
  <2>1. /\ pc[p] # "idle" /\ MayWrite(p) /\ Refused(p, Sees(p))
        /\ UNCHANGED <<file, raw, datasets, events>>
    BY <1>5 DEF Register
  <2> QED
    BY <2>1, SeesTyped, RefusedStep
<1>6. CASE LookUp(p)
  <2>0. /\ pc[p] = "look" /\ UNCHANGED <<file, raw, datasets, events, lock, draft, left>>
        /\ job[p] \in Imports /\ job[p].kind = "import" /\ job[p].answer = "none" /\ lock[p] \notin {"shared", "reserved"}
    BY <1>6, JobAt DEF LookUp, ImportPcs
  <2>1. CASE Goto(p, "insert") /\ UNCHANGED job
    <3>1. /\ job' = [job EXCEPT ![p] = job'[p]] /\ job'[p] = job[p]
          /\ pc' = [pc EXCEPT ![p] = pc'[p]] /\ pc'[p] = "insert"
      BY <1>0, <2>1 DEF Goto
    <3> QED
      BY <1>0, <2>0, <3>1, CallStep DEF ImportPcs
  <2>2. ASSUME NEW d \in Versions(job[p].label),
               Answer(p, IF d = Dataset(p) THEN "stored" ELSE "conflict")
        PROVE  ObservationsInv'
    <3>1. PICK a \in {"stored", "conflict"} : Answer(p, a) /\ (a = "stored" => Dataset(p) \in datasets')
      BY <2>0, <2>2 DEF Versions
    <3>2. a \in Answers
      BY DEF Answers
    <3>3. Over(p) \/ Leave(p)
      BY <2>0, LookingLeaves
    <3> QED
      BY <1>0, <2>0, <3>1, <3>2, <3>3, Stays, AnswerStep
  <2> QED
    BY <1>6, <2>1, <2>2 DEF LookUp
<1>7. CASE Insert(p)
  <2>0. /\ pc[p] = "insert" /\ MayCommit(p) /\ Over(p) /\ UNCHANGED <<file, left>> /\ Answer(p, "stored")
        /\ raw' = Sees(p).raw /\ events' = Sees(p).events
        /\ Versions(job[p].label) = {} /\ job[p].source \in Sees(p).raw
        /\ datasets' = datasets \cup {Dataset(p)}
    BY <1>7 DEF Insert, Committed
  <2>1. /\ raw \subseteq raw' /\ events' \in Seq(Changes) /\ Distinct(events)' /\ Includes(events', events)
    BY <2>0, SeesTyped DEF Distinct
  <2>2. VersionsKept'
    <3>1. \A d \in datasets : d.label # Dataset(p).label
      BY <2>0 DEF Versions, Dataset
    <3>2. Dataset(p).source \in raw'
      BY <2>0 DEF Dataset
    <3> QED
      BY <2>0, <2>1, <3>1, <3>2 DEF VersionsKept, ObservationsInv
  <2>3. job[p].kind = "import" /\ "stored" \in Answers
    BY <2>0, JobAt DEF ImportPcs, Answers
  <2>4. lock'[p] = "none"
    BY <2>0 DEF Over, ObservationsInv, ObservationsTypeOK
  <2> QED
    BY <1>0, <2>0, <2>1, <2>2, <2>3, <2>4, AnswerStep
<1> QED
  BY <1>1, <1>3, <1>4, <1>5, <1>6, <1>7 DEF ImportStep

\* Evaluations keep the invariant.
LEMMA AttentionKeeps ==
  ASSUME ObservationsInv, NEW p \in Processes, AttentionStep(p)
  PROVE  ObservationsInv'
<1>0. /\ job \in [Processes -> {NoJob} \cup Imports \cup Evaluations]
      /\ pc \in [Processes -> ImportPcs \cup AttentionPcs \cup {"idle"}]
      /\ file \in Sources /\ lock \in [Processes -> {"none", "shared", "reserved", "pending"}]
  BY DEF ObservationsInv, ObservationsTypeOK
<1>1. CASE CallEvaluate(p)
  <2>1. PICK c \in Changes : Call(p, Evaluate(c), "check")
    BY <1>1 DEF CallEvaluate
  <2>2. Evaluate(c) \in Evaluations /\ Evaluate(c).answer = "none"
    BY DEF Evaluate, Evaluations, Answers
  <2>3. /\ job' = [job EXCEPT ![p] = job'[p]] /\ job'[p] = Evaluate(c)
        /\ pc' = [pc EXCEPT ![p] = pc'[p]] /\ pc'[p] = "check" /\ pc[p] = "idle"
        /\ UNCHANGED <<file, raw, datasets, events, lock, draft, left>>
    BY <1>0, <2>1 DEF Call, Goto
  <2>4. lock[p] \notin {"shared", "reserved"}
    BY <2>3, JobAt
  <2> QED
    BY <1>0, <2>2, <2>3, <2>4, CallStep
<1>2. CASE Check(p) \/ Recheck(p)
  <2>0. /\ pc[p] \in {"check", "recheck"} /\ lock[p] \notin {"shared", "reserved"}
        /\ job[p] \in Evaluations /\ job[p].kind = "evaluate" /\ job[p].answer = "none"
        /\ UNCHANGED <<file, raw, datasets, events, draft, left>>
    BY <1>2, JobAt DEF Check, Recheck, AttentionPcs
  <2>1. CASE Known(p) /\ Answer(p, "stored") /\ UNCHANGED lock
    <3>1. "stored" \in Answers
      BY DEF Answers
    <3>2. p \notin left => IsIn(job[p].change, events')
      <4>1. p \notin left => ~Writes(p)
        BY <1>0, <2>0 DEF Writes, Joins, ObservationsInv, ProcessInv, Holds
      <4>2. ~Writes(p) => Sees(p).events = events
        BY DEF Sees
      <4> QED
        BY <2>0, <2>1, <4>1, <4>2 DEF Known, IsIn
    <3>3. Over(p) \/ Leave(p)
      BY <2>0, <2>1, LookingLeaves
    <3> QED
      BY <1>0, <2>0, <2>1, <3>1, <3>2, <3>3, Stays, AnswerStep
  <2>2. CASE Goto(p, "recheck") /\ UNCHANGED <<job, lock>>
    <3>1. /\ job' = [job EXCEPT ![p] = job'[p]] /\ job'[p] = job[p]
          /\ pc' = [pc EXCEPT ![p] = pc'[p]] /\ pc'[p] = "recheck"
      BY <1>0, <2>2 DEF Goto
    <3> QED
      BY <1>0, <2>0, <2>2, <3>1, CallStep
  <2>3. CASE /\ ~Known(p) /\ Goto(p, "append") /\ UNCHANGED job
             /\ lock' = [lock EXCEPT ![p] = IF Joins(p) THEN @ ELSE "shared"]
    <3>1. /\ job' = [job EXCEPT ![p] = job'[p]] /\ job'[p] = job[p]
          /\ pc' = [pc EXCEPT ![p] = pc'[p]] /\ pc'[p] = "append"
          /\ lock' = [lock EXCEPT ![p] = lock'[p]]
          /\ lock'[p] = IF Joins(p) THEN "pending" ELSE "shared"
      BY <1>0, <2>3 DEF Goto, Joins
    <3>2. /\ pc' \in [Processes -> ImportPcs \cup AttentionPcs \cup {"idle"}]
          /\ lock' \in [Processes -> {"none", "shared", "reserved", "pending"}]
      BY <1>0, <3>1 DEF AttentionPcs
    <3>3. Writes(p)' = Writes(p) /\ Joins(p)' = Joins(p)
      BY <1>0, <2>0, <3>1 DEF Writes, Joins
    <3>4. Alone(p)
      BY <2>0, <3>1, <3>3, SeesTyped, Stays DEF Alone
    <3>5. ObservationsTypeOK'
      BY <2>0, <2>3, <3>2, Stays DEF ObservationsTypeOK, ObservationsInv
    <3>6. Known(p)' = Known(p)
      BY <2>0, <2>3, <3>3 DEF Known, Sees, IsIn
    <3>7. Drafted(p)'
      BY <2>0, <3>3 DEF Drafted, ObservationsInv, ProcessInv, Includes, Distinct, IsIn
    <3>8. Holds(p)'
      BY <2>0, <2>3, <3>1, <3>3, <3>6 DEF Holds, ObservationsInv, ProcessInv
    <3>9. Told(p)' /\ Calling(p)'
      BY <2>0, <3>1 DEF Told, Calling, ImportPcs, AttentionPcs
    <3> QED
      BY <2>0, <3>4, <3>5, <3>7, <3>8, <3>9, Stays, StepKeeps DEF ProcessInv
  <2> QED
    BY <1>2, <2>1, <2>2, <2>3 DEF Check, Recheck
<1>3. CASE AppendEvent(p)
  <2> DEFINE seen == [Sees(p) EXCEPT !.events = Append(@, job[p].change)]
             c == job[p].change
  <2>0. /\ pc[p] = "append" /\ MayWrite(p) /\ ~Known(p) /\ c \in Changes
        /\ job[p] \in Evaluations /\ job[p].answer = "none"
        /\ UNCHANGED <<file, raw, datasets, events, left, job>> /\ draft' = seen
    BY <1>3, JobAt DEF AppendEvent, AttentionPcs, ObservationsInv, ProcessInv, Holds
  <2>1. /\ seen = [raw |-> seen.raw, events |-> seen.events]
        /\ seen.raw = Sees(p).raw /\ seen.events = Append(Sees(p).events, c)
    <3>1. Sees(p) = [raw |-> Sees(p).raw, events |-> Sees(p).events]
      BY SeesTyped
    <3> QED
      BY <3>1
  <2>2. /\ Append(Sees(p).events, c) \in Seq(Changes) /\ Distinct(Append(Sees(p).events, c))
        /\ Includes(Append(Sees(p).events, c), events) /\ IsIn(c, Append(Sees(p).events, c))
    BY <2>0, AppendedOnce, SeesTyped DEF Known
  <2>3. /\ pc' = [pc EXCEPT ![p] = pc'[p]] /\ pc'[p] = "commit"
        /\ lock' = [lock EXCEPT ![p] = lock'[p]]
        /\ lock'[p] = IF Joins(p) THEN "pending" ELSE "reserved"
    BY <1>0, <1>3 DEF AppendEvent, Goto, Joins
  <2>4. /\ pc' \in [Processes -> ImportPcs \cup AttentionPcs \cup {"idle"}]
        /\ lock' \in [Processes -> {"none", "shared", "reserved", "pending"}]
    BY <1>0, <2>3 DEF AttentionPcs
  <2>5. raw \subseteq seen.raw
    BY <2>1, SeesTyped
  <2> HIDE DEF seen, c
  <2>6. Alone(p)
    BY <1>0, <2>0, <2>3, Stays DEF Alone
  <2>7. ObservationsTypeOK'
    BY <1>0, <2>0, <2>1, <2>2, <2>4, Stays DEF ObservationsTypeOK
  <2>8. Drafted(p)'
    BY <2>0, <2>1, <2>2, <2>5 DEF Drafted, Includes, Distinct, IsIn
  <2>9. Holds(p)'
    <3>1. Writes(p)' /\ (Joins(p)' => Joins(p))
      BY <2>3 DEF Writes, Joins
    <3>2. IsIn(job[p].change, draft.events)'
      BY <2>0, <2>1, <2>2 DEF IsIn, c
    <3> QED
      BY <2>0, <2>3, <3>1, <3>2 DEF Holds, ObservationsInv, ProcessInv
  <2>10. Told(p)' /\ Calling(p)'
    BY <2>0, <2>3 DEF Told, Calling, ImportPcs, AttentionPcs
  <2> QED
    BY <2>0, <2>6, <2>7, <2>8, <2>9, <2>10, Stays, StepKeeps DEF ProcessInv
<1>4. CASE Commit(p)
  <2>0. /\ pc[p] = "commit" /\ Writes(p) /\ IsIn(job[p].change, draft.events) /\ Drafted(p)
        /\ job[p].kind = "evaluate"
        /\ UNCHANGED <<file, datasets>>
    BY <1>4, JobAt DEF Commit, AttentionPcs, ObservationsInv, ProcessInv, Holds
  <2>1. /\ draft = [raw |-> draft.raw, events |-> draft.events] /\ draft.events \in Seq(Changes)
        /\ raw \subseteq draft.raw /\ Distinct(draft.events) /\ Includes(draft.events, events)
        /\ MayWrite(p)
    BY <2>0, SeesTyped DEF Drafted, ObservationsInv, ObservationsTypeOK
  <2>2. CASE Joins(p) /\ Answer(p, "stored") /\ UNCHANGED <<raw, events, lock, draft, left>>
    <3>1. p \in left /\ Leave(p) /\ "stored" \in Answers
      BY <2>2 DEF ObservationsInv, ProcessInv, Holds, Leave, Answers
    <3> QED
      BY <1>0, <2>0, <2>2, <3>1, Stays, AnswerStep
  <2>3. CASE /\ MayCommit(p) /\ Committed(draft) /\ Over(p) /\ UNCHANGED left
             /\ \E a \in {"stored", "failed"} : Answer(p, a)
    <3>1. PICK a \in {"stored", "failed"} : Answer(p, a)
      BY <2>3
    <3>2. raw' = draft.raw /\ events' = draft.events /\ lock'[p] = "none" /\ a \in Answers
      BY <1>0, <2>3 DEF Committed, Over, Answers
    <3>3. VersionsKept' /\ Distinct(events)' /\ Includes(events', events) /\ IsIn(job[p].change, events')
      BY <2>0, <2>1, <3>2, Stays DEF Distinct, IsIn, Includes
    <3> QED
      BY <1>0, <2>0, <2>1, <2>3, <3>1, <3>2, <3>3, AnswerStep
  <2>4. CASE Refused(p, draft) /\ UNCHANGED <<raw, events>>
    BY <2>0, <2>1, <2>4, RefusedStep
  <2> QED
    BY <1>4, <2>2, <2>3, <2>4 DEF Commit
<1> QED
  BY <1>1, <1>2, <1>3, <1>4 DEF AttentionStep

\* A step of an import, of an evaluation or of neither keeps the invariant.
LEMMA ObservationsStep ==
  ASSUME ObservationsInv, [ObservationsNext]_observed
  PROVE  ObservationsInv'
<1>1. CASE Replace
  <2>1. file' \in Sources /\ UNCHANGED <<raw, datasets, events, lock, draft, left, pc, job>>
    BY <1>1 DEF Replace, Sources
  <2> QED
    BY <2>1, FileChanges
<1>2. ASSUME NEW p \in Processes, Fail(p)
      PROVE  ObservationsInv'
  <2>1. /\ pc[p] # "idle" /\ Answer(p, "failed") /\ "failed" \in Answers /\ (Over(p) \/ Leave(p))
        /\ UNCHANGED <<file, raw, datasets, events, left>> /\ file \in Sources
    BY <1>2 DEF Fail, Answers, ObservationsInv, ObservationsTypeOK
  <2> QED
    BY <2>1, Stays, AnswerStep
<1>3. ASSUME NEW p \in Processes, Exit(p)
      PROVE  ObservationsInv'
  <2>0. Joins(p) /\ Over(p) /\ UNCHANGED <<file, raw, datasets, events, left>> /\ file \in Sources
    BY <1>3 DEF Exit, ObservationsInv, ObservationsTypeOK
  <2>1. CASE pc[p] # "idle" /\ Answer(p, "failed")
    BY <2>0, <2>1, Stays, AnswerStep DEF Answers
  <2>2. CASE pc[p] = "idle" /\ UNCHANGED <<pc, job>>
    <3>1. lock'[p] = "none"
      BY <2>0 DEF Over, ObservationsInv, ObservationsTypeOK
    <3>2. Alone(p)
      BY <2>0, <2>2, <3>1, OverStep, Stays DEF Alone, Writes, ObservationsInv, ObservationsTypeOK
    <3>3. ObservationsTypeOK'
      BY <2>0, <2>2, OverStep, Stays DEF ObservationsInv, ObservationsTypeOK
    <3>4. Drafted(p)' /\ Holds(p)'
      BY <2>2, <3>1 DEF Drafted, Holds, Writes, Joins
    <3>5. Told(p)' /\ Calling(p)'
      BY <2>0, <2>2 DEF Told, Calling, Dataset, IsIn, ObservationsInv, ProcessInv
    <3> QED
      BY <2>0, <3>2, <3>3, <3>4, <3>5, Stays, StepKeeps DEF ProcessInv
  <2> QED
    BY <1>3, <2>1, <2>2 DEF Exit
<1>4. ASSUME NEW p \in Processes, Elsewhere(p)
      PROVE  ObservationsInv'
  <2>0. /\ pc[p] = "idle" /\ Joins(p) /\ MayCommit(p) /\ Over(p) /\ file \in Sources
        /\ UNCHANGED <<file, datasets, left, pc, job>>
        /\ raw' = Sees(p).raw /\ events' = Sees(p).events
    BY <1>4 DEF Elsewhere, Committed, ObservationsInv, ObservationsTypeOK
  <2>1. /\ raw \subseteq raw' /\ events' \in Seq(Changes) /\ Distinct(events)' /\ Includes(events', events)
        /\ VersionsKept'
    BY <2>0, SeesTyped, Stays DEF Distinct
  <2>2. lock'[p] = "none" /\ ~Writes(p)' /\ p \in left
    BY <2>0 DEF Over, Writes, Holds, ProcessInv, ObservationsInv, ObservationsTypeOK
  <2>3. Alone(p)
    BY <2>0, <2>1, <2>2, OverStep DEF Alone, ObservationsInv, ObservationsTypeOK
  <2>4. ObservationsTypeOK'
    BY <2>0, <2>1, OverStep DEF ObservationsInv, ObservationsTypeOK
  <2>5. Drafted(p)' /\ Holds(p)'
    BY <2>0, <2>2 DEF Drafted, Holds, Joins
  <2>6. Told(p)' /\ Calling(p)'
    BY <2>0, <2>2 DEF Told, Calling, Dataset, ObservationsInv, ProcessInv
  <2> QED
    BY <2>1, <2>3, <2>4, <2>5, <2>6, StepKeeps DEF ProcessInv
<1>5. CASE UNCHANGED observed
  <2>1. file' \in Sources /\ UNCHANGED <<raw, datasets, events, lock, draft, left, pc, job>>
    BY <1>5 DEF observed, ObservationsInv, ObservationsTypeOK
  <2> QED
    BY <2>1, FileChanges
<1>6. ASSUME NEW p \in Processes, Step(p)
      PROVE  ObservationsInv'
  BY <1>2, <1>3, <1>4, <1>6, ImportKeeps, AttentionKeeps DEF Step
<1> QED
  BY <1>1, <1>5, <1>6 DEF ObservationsNext

\* A stored version is what the caller of an import was told, and so is an event.
LEMMA ObservationsTruthful ==
  ASSUME ObservationsInv
  PROVE  DatasetsTruthful /\ MaterialChangeOnce
BY DEF ObservationsInv, VersionsKept, ProcessInv, Told, Distinct, DatasetsTruthful, MaterialChangeOnce

\* The invariant of imports and evaluations that overlap, by themselves ...
THEOREM ObservationsInvariant == ObservationsSpec => []ObservationsInv
<1>1. ObservationsInit => ObservationsInv
  BY StartKeeps DEF ObservationsInit, Sources
<1> QED
  BY <1>1, ObservationsStep, PTL DEF ObservationsSpec

\* ... and in a home whose ledger and memberships are written too.
THEOREM HomeObservationsInvariant == Spec => []ObservationsInv
<1>1. Init => ObservationsInv
  <2> SUFFICES ASSUME Init PROVE ObservationsInv
    OBVIOUS
  <2>1. (IF use.calls THEN Contents ELSE {{}}) \in SUBSET Sources
    BY DEF Sources
  <2>2. IsUse(use) BY ValuationAssumption DEF Init
  <2> QED BY <2>1, <2>2, StartKeeps DEF Init, IsUse
<1>2. [Next]_vars => [ObservationsNext]_observed
  BY DEF Next, vars, Book, SetMembership, Observe, observed
<1> QED
  BY <1>1, <1>2, ObservationsStep, PTL DEF Spec

\* For any processes and calls, a version of a market dataset has one content, has
\* its source, and is stored when its import was answered (add_market_dataset()).
THEOREM DatasetsAreTruthful == Spec => []DatasetsTruthful
<1>1. ObservationsInv => DatasetsTruthful
  BY ObservationsTruthful
<1> QED
  BY <1>1, HomeObservationsInvariant, PTL

\* For any processes and calls, a material change is one event, whatever refused COMMITs
\* leave open; and it is stored when an evaluation that found it was answered by a process
\* that never left a transaction open (add_attention_event(), write_transaction()).
THEOREM ChangesAreEventsOnce == Spec => []MaterialChangeOnce
<1>1. ObservationsInv => MaterialChangeOnce
  BY ObservationsTruthful
<1> QED
  BY <1>1, HomeObservationsInvariant, PTL

-----------------------------------------------------------------------------
(* Prices *)

\* A finite set of integers has a largest one.
LEMMA MaxOfFinite ==
  ASSUME NEW S, IsFiniteSet(S), S # {}, \A x \in S : x \in Int
  PROVE  Max(S) \in S
<1> DEFINE Q == {U \in SUBSET S : U # {} => \E x \in U : \A y \in U : x >= y}
<1>1. {} \in Q OBVIOUS
<1>2. ASSUME NEW U \in SUBSET S, U # {}, \A x \in U : U \ {x} \in Q PROVE U \in Q
  <2>1. PICK x \in U : TRUE BY <1>2
  <2>2. U \ {x} \in Q BY <1>2
  <2>3. CASE U \ {x} = {}
    <3>1. x \in Int /\ \A y \in U : y = x BY <2>3
    <3> QED BY <3>1
  <2>4. CASE U \ {x} # {}
    <3>1. PICK z \in U \ {x} : \A y \in U \ {x} : z >= y BY <2>2, <2>4
    <3>2. x \in Int /\ \A y \in U : y \in Int OBVIOUS
    <3>3. CASE z >= x BY <3>1, <3>2, <3>3
    <3>4. CASE x >= z BY <3>1, <3>2, <3>4
    <3> QED BY <3>2, <3>3, <3>4
  <2> QED BY <2>3, <2>4
<1> HIDE DEF Q
<1>3. S \in Q BY <1>1, <1>2, SubsetInduction
<1>4. \E x \in S : \A y \in S : x >= y BY <1>3 DEF Q
<1> QED BY <1>4 DEF Max

\* What is read at all: prices and rates are positive and there are finitely many.
ContentInv == IsContent(RowsOf(datasets))

\* Everything that can be looked up.
AllItems == Instruments \cup (Currencies \X {Base}) \cup ({Base} \X Currencies)

\* The rows at a time.
Market(c) == QuotesMany(datasets, AllItems, c, c)

\* An item has finitely many values among rows, and each is positive.
LEMMA ValuesAreFinite ==
  ASSUME ContentInv, NEW rows \in SUBSET RowsOf(datasets), NEW item
  PROVE  IsFiniteSet(Values(rows, item)) /\ Values(rows, item) \in SUBSET (Nat \ {0})
<1> DEFINE of == {s \in rows : s.item = item}
           h == [r \in of |-> r.value]
<1>1. IsFiniteSet(RowsOf(datasets)) /\ \A r \in RowsOf(datasets) : r.value \in Nat \ {0}
  BY DEF ContentInv, IsContent
<1>2. of \in SUBSET RowsOf(datasets) OBVIOUS
<1>3. IsFiniteSet(of) BY <1>1, <1>2, FS_Subset
<1>4. Values(rows, item) = {h[r] : r \in of} BY DEF Values
<1>5. IsFiniteSet({h[r] : r \in of})
  <2> HIDE DEF of, h
  <2> QED BY <1>3, ImageIsFinite
<1> QED BY <1>1, <1>2, <1>4, <1>5

\* A currency has finitely many rates to the base currency, and each is an integer.
LEMMA FactorIsFinite ==
  ASSUME ContentInv, NEW rows \in SUBSET RowsOf(datasets), NEW c
  PROVE  IsFiniteSet(Factor(c, rows)) /\ Factor(c, rows) \in SUBSET Int
<1> DEFINE direct == Values(rows, <<c, Base>>)
           inverse == Values(rows, <<Base, c>>)
           times == [r \in direct |-> r * Scale]
           divided == [r \in inverse |-> Scale \div r]
<1>1. /\ IsFiniteSet(direct) /\ direct \in SUBSET (Nat \ {0})
      /\ IsFiniteSet(inverse) /\ inverse \in SUBSET (Nat \ {0})
  BY ValuesAreFinite
<1>2. Scale \in Nat \ {0} BY ReadsAssumption
<1>3. \A r \in direct : times[r] = r * Scale /\ times[r] \in Int BY <1>1, <1>2
<1>4. \A r \in inverse : divided[r] = Scale \div r /\ divided[r] \in Int BY <1>1, <1>2
<1>5. Factor(c, rows) = IF c = Base THEN {Scale}
                        ELSE IF direct # {} THEN {times[r] : r \in direct} ELSE {divided[r] : r \in inverse}
  BY DEF Factor
<1> HIDE DEF times, divided, direct, inverse
<1>6. IsFiniteSet({times[r] : r \in direct}) /\ IsFiniteSet({divided[r] : r \in inverse})
  BY <1>1, ImageIsFinite
<1>7. IsFiniteSet({Scale}) BY FS_Singleton
<1>8. {Scale} \in SUBSET Int /\ {times[r] : r \in direct} \in SUBSET Int /\ {divided[r] : r \in inverse} \in SUBSET Int
  BY <1>2, <1>3, <1>4
<1> QED BY <1>5, <1>6, <1>7, <1>8

\* An instrument has finitely many unit values, and each is an integer.
LEMMA UnitValueIsFinite ==
  ASSUME ContentInv, NEW rows \in SUBSET RowsOf(datasets), NEW i
  PROVE  IsFiniteSet(UnitValue(i, rows)) /\ UnitValue(i, rows) \in SUBSET Int
<1> DEFINE prices == Values(rows, i)
           factors == Factor(CurrencyOf[i], rows)
           h == [q \in prices \X factors |-> q[1] * q[2]]
<1>1. IsFiniteSet(prices) /\ prices \in SUBSET (Nat \ {0}) BY ValuesAreFinite
<1>2. IsFiniteSet(factors) /\ factors \in SUBSET Int BY FactorIsFinite
<1>3. UnitValue(i, rows) = {h[q] : q \in prices \X factors}
  <2>1. \A x : x \in UnitValue(i, rows) <=> \E p \in prices, f \in factors : x = p * f
    BY DEF UnitValue
  <2>2. \A p \in prices, f \in factors : <<p, f>> \in prices \X factors /\ h[<<p, f>>] = p * f
    OBVIOUS
  <2>3. \A q \in prices \X factors : q[1] \in prices /\ q[2] \in factors /\ h[q] = q[1] * q[2]
    OBVIOUS
  <2> HIDE DEF prices, factors, h
  <2>4. ASSUME NEW x \in UnitValue(i, rows) PROVE x \in {h[q] : q \in prices \X factors}
    <3>1. PICK p \in prices, f \in factors : x = p * f BY <2>1
    <3> QED BY <3>1, <2>2
  <2>5. ASSUME NEW q \in prices \X factors PROVE h[q] \in UnitValue(i, rows)
    <3>1. PICK p \in prices, f \in factors : p = q[1] /\ f = q[2] BY <2>3
    <3>2. h[q] = p * f BY <2>3, <3>1
    <3> QED BY <2>1, <3>2
  <2> QED BY <2>4, <2>5
<1>4. \A q \in prices \X factors : h[q] \in Int
  <2> SUFFICES ASSUME NEW q \in prices \X factors PROVE q[1] * q[2] \in Int
    OBVIOUS
  <2>1. q[1] \in Int /\ q[2] \in Int BY <1>1, <1>2
  <2> QED BY <2>1
<1> HIDE DEF prices, factors, h
<1>5. IsFiniteSet(prices \X factors) BY <1>1, <1>2, FS_Product
<1>6. IsFiniteSet({h[q] : q \in prices \X factors}) BY <1>5, ImageIsFinite
<1> QED BY <1>3, <1>4, <1>6

\* What one of an item is worth at a time, as far as it is quoted.
Worths(x, c) == IF x \in Currencies THEN Factor(x, Market(c)) ELSE UnitValue(x, Market(c))
Prices(c) == [x \in Items |-> IF Worths(x, c) = {} THEN 0 ELSE Max(Worths(x, c))]

\* Prices are integers, and one of the base currency is worth a whole unit.
LEMMA PricesAreIntegers ==
  ASSUME ContentInv, NEW c
  PROVE  /\ Market(c) \in SUBSET RowsOf(datasets)
         /\ \A x \in Items : Prices(c)[x] \in Int
         /\ Prices(c)[Base] = Scale
<1>1. Market(c) \in SUBSET RowsOf(datasets) BY DEF Market, QuotesMany, Accepted
<1>2. \A x : IsFiniteSet(Worths(x, c)) /\ Worths(x, c) \in SUBSET Int
  BY <1>1, FactorIsFinite, UnitValueIsFinite DEF Worths
<1>3. \A x \in Items : Worths(x, c) # {} => Max(Worths(x, c)) \in Int
  BY <1>2, MaxOfFinite
<1>4. Prices(c)[Base] = Scale
  <2>1. Base \in Items /\ Worths(Base, c) = {Scale} /\ Scale \in Int
    BY ReadsAssumption DEF Items, Worths, Factor
  <2>2. Max({Scale}) = Scale BY <2>1, MaxOfOne
  <2> QED BY <2>1, <2>2 DEF Prices
<1>5. \A x \in Items : Prices(c)[x] \in Int BY <1>3 DEF Prices
<1> QED BY <1>1, <1>4, <1>5

-----------------------------------------------------------------------------
(* What lines add up to, by groups of items *)

\* All that an account has is quoted at these prices.
AreQuoted(state, rows, w) ==
  /\ \A c \in Currencies : state.cash[c] # 0 => Factor(c, rows) # {} /\ Max(Factor(c, rows)) = w[c]
  /\ \A i \in Instruments : state.pos[i] # 0 =>
       state.pos[i] > 0 /\ UnitValue(i, rows) # {} /\ Max(UnitValue(i, rows)) = w[i]

\* The lines of an account whose holdings are quoted are one for each item it has.
LEMMA LinesOfPrices ==
  ASSUME NEW w, NEW rows, NEW a, NEW state,
         state.cash \in [Currencies -> Int], state.pos \in [Instruments -> Int],
         AreQuoted(state, rows, w)
  PROVE  \A l : l \in Lines(a, state, rows)
                  <=> \E x \in Items : Amount(state, x) # 0 /\ l = LineOf(a, state, x, w)
<1>2. \A c \in Currencies : Amount(state, c) = state.cash[c] BY DEF Amount
<1>3. \A i \in Instruments : i \notin Currencies /\ Amount(state, i) = state.pos[i]
  BY ReadsAssumption DEF Amount
<1>4. /\ \A c \in Currencies : state.cash[c] # 0 => Factor(c, rows) # {} /\ Max(Factor(c, rows)) = w[c]
      /\ \A i \in Instruments : state.pos[i] # 0 =>
           state.pos[i] > 0 /\ UnitValue(i, rows) # {} /\ Max(UnitValue(i, rows)) = w[i]
  BY DEF AreQuoted
<1>6. \A i \in Instruments : state.pos[i] > 0 => state.pos[i] # 0 OBVIOUS
<1> DEFINE cashLine(c) == [account |-> a, item |-> c, asset |-> "cash", currency |-> c,
                           value |-> state.cash[c] * Max(Factor(c, rows))]
           posLine(i) == [account |-> a, item |-> i, asset |-> AssetOf[i], currency |-> CurrencyOf[i],
                          value |-> state.pos[i] * Max(UnitValue(i, rows))]
<1>7. \A l : l \in Lines(a, state, rows)
        <=> \/ \E c \in Currencies : state.cash[c] # 0 /\ Factor(c, rows) # {} /\ l = cashLine(c)
            \/ \E i \in Instruments : state.pos[i] > 0 /\ UnitValue(i, rows) # {} /\ l = posLine(i)
  BY DEF Lines
<1>8. \A c \in Currencies : state.cash[c] # 0 => cashLine(c) = LineOf(a, state, c, w)
  BY <1>4 DEF LineOf
<1>9. \A i \in Instruments : state.pos[i] # 0 => posLine(i) = LineOf(a, state, i, w)
  BY <1>3, <1>4 DEF LineOf
<1> HIDE DEF cashLine, posLine
<1>10. \A l : l \in Lines(a, state, rows)
         <=> \/ \E c \in Currencies : Amount(state, c) # 0 /\ l = LineOf(a, state, c, w)
             \/ \E i \in Instruments : Amount(state, i) # 0 /\ l = LineOf(a, state, i, w)
  BY <1>2, <1>3, <1>4, <1>6, <1>7, <1>8, <1>9
<1> QED BY <1>10 DEF Items

\* What the amounts of a group of items are worth.
WorthIn(state, w, G) ==
  SumOver([x \in Items |-> IF x \in G THEN Amount(state, x) * w[x] ELSE 0], Items)

\* Some lines are just those of the amounts of a state.
AreLines(lines, a, state, w) ==
  \A l : l \in lines <=> \E x \in Items : Amount(state, x) # 0 /\ l = LineOf(a, state, x, w)

\* What an account's lines for a group of items add up to, is the worth of the group ...
LEMMA LinesOfGroup ==
  ASSUME NEW a, NEW state, NEW w, NEW lines, AreLines(lines, a, state, w),
         \A x \in Items : Amount(state, x) \in Int /\ w[x] \in Int, NEW G
  PROVE  /\ IsFiniteSet(lines)
         /\ \A l \in lines : l.account = a /\ l.value \in Int /\ l.item \in Items
         /\ Sum({l \in lines : l.item \in G}) = WorthIn(state, w, G)
         /\ WorthIn(state, w, G) \in Int
<1> DEFINE T == {x \in Items : Amount(state, x) # 0}
           U == {x \in T : x \in G}
           f == [x \in Items |-> IF x \in G THEN Amount(state, x) * w[x] ELSE 0]
           h == [x \in T |-> LineOf(a, state, x, w)]
           k == [x \in U |-> h[x]]
           some == {l \in lines : l.item \in G}
           g == [l \in some |-> l.value]
<1>1. lines = {h[x] : x \in T} BY DEF AreLines
<1>2. IsFiniteSet(Items) BY FS_Union, ReadsAssumption DEF Items
<1>3. \A x \in Items : Amount(state, x) * w[x] \in Int
  <2> SUFFICES ASSUME NEW x \in Items PROVE Amount(state, x) * w[x] \in Int
    OBVIOUS
  <2>1. Amount(state, x) \in Int /\ w[x] \in Int OBVIOUS
  <2> QED BY <2>1
<1>4. \A x \in Items : f[x] = (IF x \in G THEN Amount(state, x) * w[x] ELSE 0) /\ f[x] \in Int
  BY <1>3
<1>5. \A x \in T : /\ h[x].item = x /\ h[x].account = a /\ h[x].value = Amount(state, x) * w[x]
                   /\ h[x].value \in Int /\ x \in Items
  <2> SUFFICES ASSUME NEW x \in T
               PROVE  /\ h[x].item = x /\ h[x].account = a /\ h[x].value = Amount(state, x) * w[x]
                      /\ h[x].value \in Int /\ x \in Items
    OBVIOUS
  <2>1. h[x] = LineOf(a, state, x, w) /\ x \in Items OBVIOUS
  <2>2. LineOf(a, state, x, w).item = x /\ LineOf(a, state, x, w).account = a
    BY DEF LineOf
  <2>3. LineOf(a, state, x, w).value = Amount(state, x) * w[x]
    BY DEF LineOf, Amount
  <2> HIDE DEF f, h, T
  <2> QED BY <1>3, <2>1, <2>2, <2>3
<1>6. T \in SUBSET Items /\ U \in SUBSET Items /\ U \in SUBSET T OBVIOUS
<1>7. \A x \in Items \ U : f[x] = 0
  <2> SUFFICES ASSUME NEW x \in Items, x \notin U, x \in G PROVE f[x] = 0
    BY <1>4
  <2>1. Amount(state, x) = 0 OBVIOUS
  <2>2. w[x] \in Int OBVIOUS
  <2> QED BY <1>4, <2>1, <2>2
<1>8. \A x \in U : k[x] = h[x] /\ f[x] = Amount(state, x) * w[x] BY <1>4, <1>6
<1>9. IsFiniteSet(T) /\ IsFiniteSet(U) BY <1>2, <1>6, FS_Subset
<1> HIDE DEF h, f, T
<1>10. some = {k[x] : x \in U}
  <2>1. \A l : l \in some <=> \E x \in T : l = h[x] /\ x \in G BY <1>1, <1>5
  <2> QED BY <2>1, <1>8
<1>11. IsFiniteSet(lines) BY <1>1, <1>9, ImageIsFinite
<1>12. \A l \in lines : l.account = a /\ l.value \in Int /\ l.item \in Items
  BY <1>1, <1>5
<1>13. \A x, y \in U : k[x] = k[y] => x = y BY <1>5, <1>8
<1>14. \A x \in U : f[x] \in Int /\ g[k[x]] = f[x]
  <2> SUFFICES ASSUME NEW x \in U PROVE f[x] \in Int /\ g[k[x]] = f[x]
    OBVIOUS
  <2>1. k[x] \in some BY <1>10
  <2> QED BY <1>4, <1>5, <1>6, <1>8, <2>1
<1>15. IsFiniteSet(some) BY <1>11, FS_Subset
<1>16. Sum(some) = SumOver(g, some) BY <1>15, TotalIsSum
<1> HIDE DEF some, g, k, U
<1>17. SumOver(g, {k[x] : x \in U}) = SumOver(f, U) BY <1>9, <1>13, <1>14, SumOfImage
<1>18. SumOver(f, Items) = SumOver(f, U)
  <2>1. \A x \in Items : f[x] \in Int BY <1>4
  <2> QED BY <1>2, <1>6, <1>7, <2>1, SumWithoutZeros
<1>19. Sum(some) = SumOver(f, Items) BY <1>10, <1>16, <1>17, <1>18
<1>20. SumOver(f, Items) \in Int BY <1>2, <1>4, SumIsInteger
<1> QED BY <1>11, <1>12, <1>19, <1>20 DEF WorthIn, f, some

\* ... and those of several accounts.
AreAllLines(lines, A, states, w) ==
  /\ IsFiniteSet(A)
  /\ \A a \in A : AreLines(lines[a], a, states[a], w)
  /\ \A a \in A, x \in Items : Amount(states[a], x) \in Int
  /\ \A x \in Items : w[x] \in Int

LinesIn(lines, A, G)      == {l \in UNION {lines[a] : a \in A} : l.item \in G}
WorthBy(A, states, w, G)  == SumOver([a \in A |-> WorthIn(states[a], w, G)], A)

\* ... and the lines of all accounts add up to what the group is worth in all of them.
LEMMA LinesOfAccounts ==
  ASSUME NEW A, NEW states, NEW w, NEW lines, AreAllLines(lines, A, states, w), NEW G
  PROVE  Sum(LinesIn(lines, A, G)) = WorthBy(A, states, w, G) /\ WorthBy(A, states, w, G) \in Int
<1> DEFINE all == UNION {lines[a] : a \in A}
           some == {l \in all : l.item \in G}
           of(a) == {l \in lines[a] : l.item \in G}
           f == [l \in some |-> l.value]
           account == [l \in some |-> l.account]
           parts == [a \in A |-> WorthIn(states[a], w, G)]
<1>0. /\ IsFiniteSet(A)
      /\ \A a \in A : AreLines(lines[a], a, states[a], w)
      /\ \A a \in A, x \in Items : Amount(states[a], x) \in Int
      /\ \A x \in Items : w[x] \in Int
  BY DEF AreAllLines
<1>1. \A a \in A : /\ IsFiniteSet(lines[a])
                   /\ \A l \in lines[a] : l.account = a /\ l.value \in Int
                   /\ Sum(of(a)) = WorthIn(states[a], w, G)
                   /\ WorthIn(states[a], w, G) \in Int
  <2> SUFFICES ASSUME NEW a \in A
               PROVE  /\ IsFiniteSet(lines[a])
                      /\ \A l \in lines[a] : l.account = a /\ l.value \in Int
                      /\ Sum(of(a)) = WorthIn(states[a], w, G)
                      /\ WorthIn(states[a], w, G) \in Int
    OBVIOUS
  <2>1. AreLines(lines[a], a, states[a], w) /\ \A x \in Items : Amount(states[a], x) \in Int /\ w[x] \in Int
    BY <1>0
  <2> QED BY ONLY <2>1, LinesOfGroup
<1>2. IsFiniteSet(all)
  <2> DEFINE h == [a \in A |-> lines[a]]
  <2>1. {lines[a] : a \in A} = {h[a] : a \in A} OBVIOUS
  <2>2. IsFiniteSet({h[a] : a \in A})
    <3> HIDE DEF h
    <3> QED BY <1>0, ImageIsFinite
  <2>3. \A s \in {lines[a] : a \in A} : IsFiniteSet(s) BY <1>1
  <2> HIDE DEF h
  <2> QED BY <2>1, <2>2, <2>3, FS_UNION
<1>8. \A l \in all : l.account \in A /\ l.value \in Int /\ \A a \in A : l.account = a <=> l \in lines[a]
  <2> SUFFICES ASSUME NEW b \in A, NEW l \in lines[b]
               PROVE  l.account \in A /\ l.value \in Int /\ \A a \in A : l.account = a <=> l \in lines[a]
    OBVIOUS
  <2>1. l.account = b /\ l.value \in Int BY <1>1
  <2> QED BY <1>1, <2>1
<1>3. IsFiniteSet(some) /\ some \in SUBSET all BY <1>2, FS_Subset
<1>4. \A a \in A : parts[a] = SumOver(f, Keyed(some, account, a))
  <2> SUFFICES ASSUME NEW a \in A
               PROVE  parts[a] = SumOver(f, Keyed(some, account, a))
    OBVIOUS
  <2>1. Keyed(some, account, a) = of(a)
    <3>1. \A l \in some : account[l] = l.account OBVIOUS
    <3>2. \A l \in all : l.account = a <=> l \in lines[a] BY <1>8
    <3> QED BY <3>1, <3>2 DEF Keyed
  <2> DEFINE g == [l \in of(a) |-> l.value]
  <2>2. of(a) \in SUBSET lines[a] OBVIOUS
  <2>3. IsFiniteSet(of(a)) BY <1>1, <2>2, FS_Subset
  <2>4. \A l \in of(a) : g[l] = f[l] /\ f[l] \in Int BY <1>1
  <2>5. Sum(of(a)) = SumOver(g, of(a)) BY <2>3, TotalIsSum
  <2> HIDE DEF f, g, of
  <2>6. SumOver(g, of(a)) = SumOver(f, of(a)) BY <2>3, <2>4, SumsOfEquals
  <2> QED BY <1>1, <2>1, <2>5, <2>6
<1>5. SumOver(parts, A) = SumOver(f, some)
  <2>1. \A l \in some : account[l] \in A /\ f[l] \in Int BY <1>8
  <2> HIDE DEF all, some, f, account, parts
  <2> QED BY <1>0, <1>3, <1>4, <2>1, SumOfParts
<1>6. Sum(some) = SumOver(f, some)
  <2> HIDE DEF some
  <2> QED BY <1>3, TotalIsSum
<1>7. SumOver(parts, A) \in Int
  <2>1. \A a \in A : parts[a] \in Int BY <1>1
  <2> HIDE DEF parts
  <2> QED BY <1>0, <2>1, SumIsInteger
<1> QED BY <1>5, <1>6, <1>7 DEF LinesIn, WorthBy

\* The groups that a valuation is made up of.
OfAsset(t)    == {x \in Items : IF x \in Currencies THEN t = "cash" ELSE AssetOf[x] = t}
OfCurrency(c) == {x \in Items : IF x \in Currencies THEN x = c ELSE CurrencyOf[x] = c}

\* A complete valuation, from the worth of each group.
Composed(W) ==
  [complete |-> TRUE, total |-> W[Items],
   allocation |-> [t \in AssetTypes |-> W[OfAsset(t)]],
   exposure |-> [c \in Currencies |-> W[OfCurrency(c)]],
   concentration |-> [i \in Instruments |-> W[{i}]]]

\* The worth of each group of what accounts have.
WorthOf(A, states, w) ==
  [G \in SUBSET Items |-> WorthBy(A, states, w, G)]

\* _aggregate adds up the lines by group: a valuation is composed of the worths of groups.
LEMMA AggregateIsComposed ==
  ASSUME NEW A, NEW states, NEW w, NEW lines, AreAllLines(lines, A, states, w)
  PROVE  Aggregate(UNION {lines[a] : a \in A}, TRUE) = Composed(WorthOf(A, states, w))
<1> DEFINE all == UNION {lines[a] : a \in A}
           W == WorthOf(A, states, w)
<1>1. \A G \in SUBSET Items : Sum({l \in all : l.item \in G}) = W[G]
  <2> SUFFICES ASSUME NEW G \in SUBSET Items PROVE Sum({l \in all : l.item \in G}) = W[G]
    OBVIOUS
  <2>1. Sum(LinesIn(lines, A, G)) = WorthBy(A, states, w, G) BY LinesOfAccounts
  <2> QED BY <2>1 DEF WorthOf, LinesIn
<1>2. \A l \in all : /\ l.item \in Items
                     /\ l.asset = IF l.item \in Currencies THEN "cash" ELSE AssetOf[l.item]
                     /\ l.currency = IF l.item \in Currencies THEN l.item ELSE CurrencyOf[l.item]
  <2> SUFFICES ASSUME NEW a \in A, NEW l \in lines[a]
               PROVE  /\ l.item \in Items
                      /\ l.asset = IF l.item \in Currencies THEN "cash" ELSE AssetOf[l.item]
                      /\ l.currency = IF l.item \in Currencies THEN l.item ELSE CurrencyOf[l.item]
    OBVIOUS
  <2>1. PICK x \in Items : l = LineOf(a, states[a], x, w) BY DEF AreLines, AreAllLines
  <2> QED BY <2>1 DEF LineOf
<1> HIDE DEF all, W
<1>3. Sum(all) = W[Items]
  <2>1. all = {l \in all : l.item \in Items} BY <1>2
  <2>2. Sum({l \in all : l.item \in Items}) = W[Items] BY <1>1
  <2> QED BY <2>1, <2>2
<1>4. \A t : Sum({l \in all : l.asset = t}) = W[OfAsset(t)]
  <2> SUFFICES ASSUME NEW t PROVE Sum({l \in all : l.asset = t}) = W[OfAsset(t)]
    OBVIOUS
  <2>1. {l \in all : l.asset = t} = {l \in all : l.item \in OfAsset(t)} BY <1>2 DEF OfAsset
  <2>2. OfAsset(t) \in SUBSET Items BY DEF OfAsset
  <2> QED BY <1>1, <2>1, <2>2
<1>5. \A c : Sum({l \in all : l.currency = c}) = W[OfCurrency(c)]
  <2> SUFFICES ASSUME NEW c PROVE Sum({l \in all : l.currency = c}) = W[OfCurrency(c)]
    OBVIOUS
  <2>1. {l \in all : l.currency = c} = {l \in all : l.item \in OfCurrency(c)} BY <1>2 DEF OfCurrency
  <2>2. OfCurrency(c) \in SUBSET Items BY DEF OfCurrency
  <2> QED BY <1>1, <2>1, <2>2
<1>6. \A i \in Instruments : Sum({l \in all : l.item = i}) = W[{i}]
  <2> SUFFICES ASSUME NEW i \in Instruments PROVE Sum({l \in all : l.item = i}) = W[{i}]
    OBVIOUS
  <2>1. {l \in all : l.item = i} = {l \in all : l.item \in {i}} OBVIOUS
  <2>2. {i} \in SUBSET Items BY DEF Items
  <2> QED BY <1>1, <2>1, <2>2
<1> QED BY <1>3, <1>4, <1>5, <1>6, Zenon DEF Aggregate, Composed, all, W

\* What is needed is among what can be looked up, and its rows are the market's.
LEMMA NeededIsListed ==
  ASSUME NEW state
  PROVE  Needed({state}) \subseteq AllItems
BY ReadsAssumption DEF Needed, AllItems, Held

\* The query for the items of a portfolio gives each the rows it has in the market.
LEMMA OwnRows ==
  ASSUME NEW items, items \subseteq AllItems, NEW c, NEW item \in items
  PROVE  Values(Quotes(datasets, items, c, c), item) = Values(Market(c), item)
<1>1. \A r : r \in Quotes(datasets, items, c, c)
             <=> r \in QuotesMany(datasets, AllItems, c, c) /\ r.item \in items
  BY QuotesOfItems
<1> QED BY <1>1 DEF Values, Market

\* A scenario's action is priced as the portfolio is.
LEMMA UnitValuesAtMarket ==
  ASSUME NEW i \in Instruments, NEW c
  PROVE  UnitValues(i, c) = UnitValue(i, Market(c))
<1> DEFINE items == {i} \cup ({Base} \X Currencies) \cup (Currencies \X {Base})
           rows == Quotes(datasets, items, c, c)
           k == CurrencyOf[i]
<1>1. items \subseteq AllItems BY DEF AllItems
<1>2. UnitValues(i, c) = UnitValue(i, rows) BY DEF UnitValues
<1>3. i \in items /\ <<k, Base>> \in items /\ <<Base, k>> \in items BY ReadsAssumption
<1> HIDE DEF items, k
<1>4. \A item \in items : Values(rows, item) = Values(Market(c), item) BY <1>1, OwnRows
<1> HIDE DEF rows
<1>5. Factor(k, rows) = Factor(k, Market(c)) BY <1>3, <1>4 DEF Factor
<1> QED BY <1>2, <1>3, <1>4, <1>5 DEF UnitValue, k

\* Each account of a valuation may as well be read at the rows of the market.
StateAt(l, a, c) == State(l, a, c, c)
MarketLines(l, accounts, c) == [a \in accounts |-> Lines(a, StateAt(l, a, c), Market(c))]
NoGaps(l, accounts, c) == \A a \in accounts : Gaps(StateAt(l, a, c), Market(c)) = {}

\* A valuation adds up the lines of its accounts at the market of its cutoff.
LEMMA ValuationAtMarket ==
  ASSUME NEW l, NEW accounts, NEW c, NEW v \in PlainValuation(l, datasets, accounts, c, c)
  PROVE  LET lines == MarketLines(l, accounts, c)
         IN  v = Aggregate(UNION {lines[a] : a \in accounts}, NoGaps(l, accounts, c))
<1> DEFINE rows(s) == Quotes(datasets, Needed({s}), c, c)
           pair(a) == [account |-> a, state |-> StateAt(l, a, c)]
           asked(s) == [account |-> s.account, state |-> s.state, rows |-> rows(s.state)]
           read(a) == [account |-> a, state |-> StateAt(l, a, c), rows |-> rows(StateAt(l, a, c))]
           states == {pair(a) : a \in accounts}
           reads == {read(a) : a \in accounts}
           lines == MarketLines(l, accounts, c)
<1>1. PlainValuation(l, datasets, accounts, c, c) = ValueOf(reads)
  <2>1. PlainValuation(l, datasets, accounts, c, c) = ValueOf({asked(s) : s \in states})
    BY DEF PlainValuation, StateAt
  <2>2. \A a : asked(pair(a)) = read(a) OBVIOUS
  <2> HIDE DEF asked, pair, read
  <2>3. {asked(s) : s \in states} = reads BY <2>2
  <2> QED BY <2>1, <2>3
<1>2. \A a : /\ read(a).account = a /\ read(a).state = StateAt(l, a, c)
             /\ read(a).rows = rows(StateAt(l, a, c))
  OBVIOUS
<1>3. \A a, s : Lines(a, s, rows(s)) = Lines(a, s, Market(c)) /\ Gaps(s, rows(s)) = Gaps(s, Market(c))
  <2> SUFFICES ASSUME NEW a, NEW s
               PROVE  Lines(a, s, rows(s)) = Lines(a, s, Market(c)) /\ Gaps(s, rows(s)) = Gaps(s, Market(c))
    OBVIOUS
  <2>1. \A item \in Needed({s}) : Values(rows(s), item) = Values(Market(c), item)
    BY NeededIsListed, OwnRows
  <2> HIDE DEF rows
  <2> QED BY <2>1, LinesOfNeeded
<1> HIDE DEF read, rows
<1>4. v = Aggregate(UNION {Lines(r.account, r.state, r.rows) : r \in reads},
                    \A r \in reads : Gaps(r.state, r.rows) = {})
  <2> HIDE DEF reads
  <2> QED BY <1>1 DEF ValueOf, Raised
<1>5. {Lines(r.account, r.state, r.rows) : r \in reads} = {lines[a] : a \in accounts}
  <2>1. \A a \in accounts : Lines(read(a).account, read(a).state, read(a).rows) = lines[a]
    BY <1>2, <1>3 DEF MarketLines
  <2> HIDE DEF lines
  <2> QED BY <2>1
<1>6. (\A r \in reads : Gaps(r.state, r.rows) = {}) = NoGaps(l, accounts, c)
  BY <1>2, <1>3 DEF NoGaps
<1> HIDE DEF reads, lines
<1> QED BY <1>4, <1>5, <1>6 DEF lines

\* Amounts of a set of transactions are integers.
AreBooked(S) ==
  /\ IsFiniteSet(S)
  /\ \A t \in S : t.cash \in [Currencies -> Int] /\ t.pos \in [Instruments -> Int]

\* The state of an account is the sum of its transactions, item by item.
LEMMA StateIsTyped ==
  ASSUME NEW S, AreBooked(S)
  PROVE  /\ StateOf(S).cash \in [Currencies -> Int] /\ StateOf(S).pos \in [Instruments -> Int]
         /\ \A x \in Items : /\ Amount(StateOf(S), x) \in Int
                             /\ Amount(StateOf(S), x) = SumOver([t \in S |-> Amount(t, x)], S)
<1> DEFINE state == StateOf(S)
<1>1. \A t \in S, x \in Items : Amount(t, x) \in Int
  BY DEF AreBooked, Amount, Items
<1>2. IsFiniteSet(S) BY DEF AreBooked
<1>3. \A x \in Items : /\ Amount(state, x) = SumOver([t \in S |-> Amount(t, x)], S)
                       /\ Amount(state, x) \in Int
  <2> SUFFICES ASSUME NEW x \in Items
               PROVE  /\ Amount(state, x) = SumOver([t \in S |-> Amount(t, x)], S)
                      /\ Amount(state, x) \in Int
    OBVIOUS
  <2>1. Amount(state, x) = SumOver([t \in S |-> Amount(t, x)], S) BY <1>2, AmountIsSum
  <2> DEFINE g == [t \in S |-> Amount(t, x)]
  <2>2. \A t \in S : g[t] \in Int BY <1>1
  <2> HIDE DEF g
  <2>3. SumOver(g, S) \in Int BY <1>2, <2>2, SumIsInteger
  <2> QED BY <2>1, <2>3 DEF g
<1>4. /\ DOMAIN state.cash = Currencies /\ state.cash = [c \in Currencies |-> state.cash[c]]
      /\ DOMAIN state.pos = Instruments /\ state.pos = [i \in Instruments |-> state.pos[i]]
  BY DEF StateOf, SumBy
<1>5. \A c \in Currencies : state.cash[c] = Amount(state, c) /\ c \in Items BY DEF Amount, Items
<1>6. \A i \in Instruments : state.pos[i] = Amount(state, i) /\ i \in Items
  BY ReadsAssumption DEF Amount, Items
<1> HIDE DEF state
<1>7. \A c \in Currencies : state.cash[c] \in Int BY <1>3, <1>5
<1>8. \A i \in Instruments : state.pos[i] \in Int BY <1>3, <1>6
<1>9. state.cash \in [Currencies -> Int] BY <1>4, <1>7
<1>10. state.pos \in [Instruments -> Int] BY <1>4, <1>8
<1> QED BY <1>3, <1>9, <1>10 DEF state

\* A complete valuation is composed of what each account has.
StatesAt(l, accounts, c) == [a \in accounts |-> StateAt(l, a, c)]

\* Without gaps a valuation is composed of what the accounts' groups are worth.
LEMMA CompleteIsComposed ==
  ASSUME ContentInv, NEW l, AreBooked(l), NEW accounts, IsFiniteSet(accounts), NEW c,
         NoGaps(l, accounts, c), NEW v \in PlainValuation(l, datasets, accounts, c, c)
  PROVE  v = Composed(WorthOf(accounts, StatesAt(l, accounts, c), Prices(c)))
<1> DEFINE w == Prices(c)
           states == StatesAt(l, accounts, c)
           lines == MarketLines(l, accounts, c)
<1>1. v = Aggregate(UNION {lines[a] : a \in accounts}, NoGaps(l, accounts, c)) BY ValuationAtMarket
<1>2. NoGaps(l, accounts, c) = TRUE BY DEF NoGaps
<1>3. \A x \in Items : w[x] \in Int BY PricesAreIntegers
<1>4. ASSUME NEW a \in accounts
      PROVE  AreLines(lines[a], a, states[a], w) /\ \A x \in Items : Amount(states[a], x) \in Int
  <2> DEFINE S == Transactions(l, a, c, c)
             state == StateOf(S)
  <2>1. lines[a] = Lines(a, state, Market(c)) /\ states[a] = state
    BY DEF MarketLines, StatesAt, StateAt, State
  <2>2. AreBooked(S)
    <3>1. S \in SUBSET l BY DEF Transactions, Visible
    <3> QED BY <3>1, FS_Subset DEF AreBooked
  <2>3. Gaps(state, Market(c)) = {} BY DEF NoGaps, StateAt, State
  <2> HIDE DEF S
  <2>4. /\ state.cash \in [Currencies -> Int] /\ state.pos \in [Instruments -> Int]
        /\ \A x \in Items : Amount(state, x) \in Int
    BY <2>2, StateIsTyped
  <2> HIDE DEF state, lines, states
  <2>5. \A d \in Currencies : state.cash[d] # 0 =>
          Factor(d, Market(c)) # {} /\ Max(Factor(d, Market(c))) = w[d]
    BY <2>3 DEF Gaps, Prices, Worths, Items
  <2>6. \A i \in Instruments : state.pos[i] # 0 =>
          /\ state.pos[i] > 0 /\ UnitValue(i, Market(c)) # {}
          /\ Max(UnitValue(i, Market(c))) = w[i]
    <3> SUFFICES ASSUME NEW i \in Instruments, state.pos[i] # 0
                 PROVE  /\ state.pos[i] > 0 /\ UnitValue(i, Market(c)) # {}
                        /\ Max(UnitValue(i, Market(c))) = w[i]
      OBVIOUS
    <3>1. i \in Held(state) BY DEF Held
    <3>2. ~(state.pos[i] < 0) /\ UnitValue(i, Market(c)) # {} BY <2>3, <3>1 DEF Gaps
    <3>3. state.pos[i] \in Int BY <2>4
    <3>4. i \in Items /\ i \notin Currencies BY ReadsAssumption DEF Items
    <3>5. Max(UnitValue(i, Market(c))) = w[i] BY <3>2, <3>4 DEF Prices, Worths
    <3> QED BY <3>2, <3>3, <3>5
  <2> HIDE DEF w
  <2>8. AreQuoted(state, Market(c), w) BY <2>5, <2>6 DEF AreQuoted
  <2>7. \A x : x \in Lines(a, state, Market(c))
                 <=> \E y \in Items : Amount(state, y) # 0 /\ x = LineOf(a, state, y, w)
    BY <2>4, <2>8, LinesOfPrices
  <2> QED BY <2>1, <2>4, <2>7 DEF AreLines
<1> HIDE DEF w, states, lines
<1>5. AreAllLines(lines, accounts, states, w) BY <1>3, <1>4 DEF AreAllLines
<1>6. Aggregate(UNION {lines[a] : a \in accounts}, TRUE) = Composed(WorthOf(accounts, states, w))
  BY ZenonT(30), <1>5, AggregateIsComposed
<1> QED BY <1>1, <1>2, <1>6 DEF w, states

-----------------------------------------------------------------------------
(* Simulations *)

\* The worth of groups when an item gains d and the base currency e.
Moved(W, i, d, e) ==
  [G \in SUBSET Items |-> W[G] + (IF i \in G THEN d ELSE 0) + (IF Base \in G THEN e ELSE 0)]

\* The worths of groups of items.
Worthy == [SUBSET Items -> Int]

\* The groups of a valuation, and what they hold of the base currency and an instrument.
LEMMA GroupsOfItems ==
  /\ Items \in SUBSET Items /\ Base \in Items /\ Base \in Currencies
  /\ \A t : OfAsset(t) \in SUBSET Items /\ (Base \in OfAsset(t) <=> t = "cash")
            /\ \A i \in Instruments : i \in OfAsset(t) <=> AssetOf[i] = t
  /\ \A c : OfCurrency(c) \in SUBSET Items /\ (Base \in OfCurrency(c) <=> c = Base)
            /\ \A i \in Instruments : i \in OfCurrency(c) <=> CurrencyOf[i] = c
  /\ \A i \in Instruments : i \in Items /\ {i} \in SUBSET Items /\ Base \notin {i}
<1>1. Base \in Currencies /\ \A i \in Instruments : i \notin Currencies BY ReadsAssumption
<1> QED BY <1>1 DEF OfAsset, OfCurrency, Items

\* A valuation, and what becomes of it when fields change.
ValuationWith(b, t, al, ex, co) ==
  [complete |-> b, total |-> t, allocation |-> al, exposure |-> ex, concentration |-> co]

\* A field changes and the others stay.
LEMMA FieldsChange ==
  ASSUME NEW b, NEW t, NEW al, NEW ex, NEW co, NEW new, NEW V, V = ValuationWith(b, t, al, ex, co)
  PROVE  /\ [V EXCEPT !.total = new] = ValuationWith(b, new, al, ex, co)
         /\ [V EXCEPT !.allocation = new] = ValuationWith(b, t, new, ex, co)
         /\ [V EXCEPT !.exposure = new] = ValuationWith(b, t, al, new, co)
         /\ [V EXCEPT !.concentration = new] = ValuationWith(b, t, al, ex, new)
         /\ V.total = t /\ V.allocation = al /\ V.exposure = ex /\ V.concentration = co
BY DEF ValuationWith

\* New cash goes to the groups of the base currency, ...
LEMMA CashIsComposed ==
  ASSUME NEW W \in Worthy, NEW cash \in Int, NEW i
  PROVE  /\ WithNewCash(Composed(W), cash) = Composed(Moved(W, i, 0, cash))
         /\ Moved(W, i, 0, cash) \in Worthy
<1> DEFINE M == Moved(W, i, 0, cash)
           V == Composed(W)
<1>1. \A G \in SUBSET Items : W[G] \in Int /\ M[G] = W[G] + (IF Base \in G THEN cash ELSE 0)
  BY DEF Moved, Worthy
<1>2. M \in Worthy BY DEF Moved, Worthy
<1>3. /\ V.complete = TRUE /\ V.total = W[Items]
      /\ V.allocation = [t \in AssetTypes |-> W[OfAsset(t)]]
      /\ V.exposure = [c \in Currencies |-> W[OfCurrency(c)]]
      /\ V.concentration = [j \in Instruments |-> W[{j}]]
  BY DEF Composed
<1>4. WithNewCash(V, cash)
        = ValuationWith(V.complete, V.total + cash, Add(V.allocation, "cash", cash), Add(V.exposure, Base, cash),
                        V.concentration)
  <2> DEFINE b == V.complete
             t == V.total + cash
             al == Add(V.allocation, "cash", cash)
             ex == Add(V.exposure, Base, cash)
             co == V.concentration
  <2>1. V = ValuationWith(b, V.total, V.allocation, V.exposure, co)
    BY DEF Composed, ValuationWith
  <2> HIDE DEF V
  <2>2. WithNewCash(V, cash)
          = [[[V EXCEPT !.total = t] EXCEPT !.allocation = al] EXCEPT !.exposure = ex]
    BY Zenon DEF WithNewCash
  <2> HIDE DEF b, t, al, ex, co
  <2>3. [V EXCEPT !.total = t] = ValuationWith(b, t, V.allocation, V.exposure, co)
    BY <2>1, FieldsChange
  <2>4. [ValuationWith(b, t, V.allocation, V.exposure, co) EXCEPT !.allocation = al]
          = ValuationWith(b, t, al, V.exposure, co)
    BY FieldsChange
  <2>5. [ValuationWith(b, t, al, V.exposure, co) EXCEPT !.exposure = ex] = ValuationWith(b, t, al, ex, co)
    <3> DEFINE Y == ValuationWith(b, t, al, V.exposure, co)
    <3>1. Y = ValuationWith(b, t, al, V.exposure, co) OBVIOUS
    <3> HIDE DEF Y
    <3>2. [Y EXCEPT !.exposure = ex] = ValuationWith(b, t, al, ex, co) BY <3>1, FieldsChange
    <3> QED BY <3>2 DEF Y
  <2>6. WithNewCash(V, cash) = ValuationWith(b, t, al, ex, co) BY <2>2, <2>3, <2>4, <2>5
  <2> QED BY <2>6 DEF b, t, al, ex, co
<1> HIDE DEF V, M
<1>5. V.total + cash = M[Items] BY <1>1, <1>3, GroupsOfItems
<1>6. Add(V.allocation, "cash", cash) = [t \in AssetTypes |-> M[OfAsset(t)]]
  BY <1>1, <1>3, GroupsOfItems DEF Add
<1>7. Add(V.exposure, Base, cash) = [c \in Currencies |-> M[OfCurrency(c)]]
  BY <1>1, <1>3, GroupsOfItems DEF Add
<1>8. V.concentration = [j \in Instruments |-> M[{j}]]
  BY <1>1, <1>3, GroupsOfItems
<1>9. WithNewCash(V, cash) = Composed(M)
  BY <1>3, <1>4, <1>5, <1>6, <1>7, <1>8 DEF Composed, ValuationWith
<1> QED BY <1>2, <1>9 DEF M, V

\* ... and a trade moves its value between the groups of its item and those of the
\* base currency, which pays the fee.
Action(a) == a.instrument \in Instruments /\ a.delta \in Int /\ a.fee \in Int

\* Trading an item moves worth between its groups and those of the base currency.
LEMMA TradeIsComposed ==
  ASSUME NEW W \in Worthy, NEW a, Action(a)
  PROVE  LET M == Moved(W, a.instrument, a.delta, -a.delta - a.fee)
         IN  Trade(Composed(W), a) = Composed(M) /\ M \in Worthy
<1> DEFINE i == a.instrument
           d == a.delta
           e == -a.delta - a.fee
           M == Moved(W, i, d, e)
           V == Composed(W)
<1>0. i \in Instruments /\ d \in Int /\ a.fee \in Int /\ e \in Int /\ e = -d - a.fee BY DEF Action
<1>1. \A G \in SUBSET Items :
        /\ W[G] \in Int
        /\ M[G] = W[G] + (IF i \in G THEN d ELSE 0) + (IF Base \in G THEN e ELSE 0)
  BY DEF Moved, Worthy
<1>2. M \in Worthy BY <1>0 DEF Moved, Worthy
<1>3. /\ V.complete = TRUE /\ V.total = W[Items]
      /\ V.allocation = [t \in AssetTypes |-> W[OfAsset(t)]]
      /\ V.exposure = [c \in Currencies |-> W[OfCurrency(c)]]
      /\ V.concentration = [j \in Instruments |-> W[{j}]]
  BY DEF Composed
<1>4. Trade(V, a)
        = ValuationWith(V.complete, V.total - a.fee, Add(Add(V.allocation, AssetOf[i], d), "cash", e),
                        Add(Add(V.exposure, CurrencyOf[i], d), Base, e), Add(V.concentration, i, d))
  <2> DEFINE b == V.complete
             t == V.total - a.fee
             al == Add(Add(V.allocation, AssetOf[i], d), "cash", e)
             ex == Add(Add(V.exposure, CurrencyOf[i], d), Base, e)
             co == Add(V.concentration, i, d)
  <2>1. V = ValuationWith(b, V.total, V.allocation, V.exposure, V.concentration)
    BY DEF Composed, ValuationWith
  <2> HIDE DEF V
  <2>2. Trade(V, a)
          = [[[[V EXCEPT !.total = t] EXCEPT !.allocation = al] EXCEPT !.exposure = ex] EXCEPT !.concentration = co]
    BY Zenon DEF Trade
  <2> HIDE DEF b, t, al, ex, co
  <2>3. [V EXCEPT !.total = t] = ValuationWith(b, t, V.allocation, V.exposure, V.concentration)
    BY <2>1, FieldsChange
  <2>4. [ValuationWith(b, t, V.allocation, V.exposure, V.concentration) EXCEPT !.allocation = al]
          = ValuationWith(b, t, al, V.exposure, V.concentration)
    BY FieldsChange
  <2>5. [ValuationWith(b, t, al, V.exposure, V.concentration) EXCEPT !.exposure = ex]
          = ValuationWith(b, t, al, ex, V.concentration)
    <3> DEFINE Y == ValuationWith(b, t, al, V.exposure, V.concentration)
    <3>1. Y = ValuationWith(b, t, al, V.exposure, V.concentration) OBVIOUS
    <3> HIDE DEF Y
    <3>2. [Y EXCEPT !.exposure = ex] = ValuationWith(b, t, al, ex, V.concentration) BY <3>1, FieldsChange
    <3> QED BY <3>2 DEF Y
  <2>6. [ValuationWith(b, t, al, ex, V.concentration) EXCEPT !.concentration = co]
          = ValuationWith(b, t, al, ex, co)
    <3> DEFINE Y == ValuationWith(b, t, al, ex, V.concentration)
    <3>1. Y = ValuationWith(b, t, al, ex, V.concentration) OBVIOUS
    <3> HIDE DEF Y
    <3>2. [Y EXCEPT !.concentration = co] = ValuationWith(b, t, al, ex, co) BY <3>1, FieldsChange
    <3> QED BY <3>2 DEF Y
  <2>7. Trade(V, a) = ValuationWith(b, t, al, ex, co) BY <2>2, <2>3, <2>4, <2>5, <2>6
  <2> QED BY <2>7 DEF b, t, al, ex, co
<1> HIDE DEF V, M, i, d, e
<1>5. V.total - a.fee = M[Items]
  <2>1. Items \in SUBSET Items /\ i \in Items /\ Base \in Items BY <1>0, GroupsOfItems
  <2>2. W[Items] \in Int /\ M[Items] = W[Items] + d + e BY <1>1, <2>1
  <2> QED BY <1>0, <1>3, <2>2
<1>6. Add(Add(V.allocation, AssetOf[i], d), "cash", e) = [t \in AssetTypes |-> M[OfAsset(t)]]
  <2> DEFINE once == Add(V.allocation, AssetOf[i], d)
  <2>1. \A t \in AssetTypes : /\ OfAsset(t) \in SUBSET Items
                              /\ i \in OfAsset(t) <=> t = AssetOf[i]
                              /\ Base \in OfAsset(t) <=> t = "cash"
    BY <1>0, GroupsOfItems
  <2>2. once = [t \in AssetTypes |-> IF t = AssetOf[i] THEN W[OfAsset(t)] + d ELSE W[OfAsset(t)]]
    BY <1>3 DEF Add
  <2> HIDE DEF once
  <2>3. Add(once, "cash", e) = [t \in AssetTypes |-> IF t = "cash" THEN once[t] + e ELSE once[t]]
    BY <2>2 DEF Add
  <2>4. ASSUME NEW t \in AssetTypes
        PROVE  (IF t = "cash" THEN once[t] + e ELSE once[t]) = M[OfAsset(t)]
    <3>1. /\ W[OfAsset(t)] \in Int
          /\ M[OfAsset(t)] = W[OfAsset(t)] + (IF t = AssetOf[i] THEN d ELSE 0) + (IF t = "cash" THEN e ELSE 0)
      BY <1>1, <2>1
    <3>2. once[t] = IF t = AssetOf[i] THEN W[OfAsset(t)] + d ELSE W[OfAsset(t)] BY <2>2
    <3> QED BY <1>0, <3>1, <3>2
  <2>5. Add(once, "cash", e) = [t \in AssetTypes |-> M[OfAsset(t)]] BY Zenon, <2>3, <2>4
  <2> QED BY <2>5 DEF once
<1>7. Add(Add(V.exposure, CurrencyOf[i], d), Base, e) = [c \in Currencies |-> M[OfCurrency(c)]]
  <2> DEFINE once == Add(V.exposure, CurrencyOf[i], d)
  <2>1. \A c \in Currencies : /\ OfCurrency(c) \in SUBSET Items
                              /\ i \in OfCurrency(c) <=> c = CurrencyOf[i]
                              /\ Base \in OfCurrency(c) <=> c = Base
    BY <1>0, GroupsOfItems
  <2>2. once = [c \in Currencies |-> IF c = CurrencyOf[i] THEN W[OfCurrency(c)] + d ELSE W[OfCurrency(c)]]
    BY <1>3 DEF Add
  <2> HIDE DEF once
  <2>3. Add(once, Base, e) = [c \in Currencies |-> IF c = Base THEN once[c] + e ELSE once[c]]
    BY <2>2 DEF Add
  <2>4. ASSUME NEW c \in Currencies
        PROVE  (IF c = Base THEN once[c] + e ELSE once[c]) = M[OfCurrency(c)]
    <3>1. /\ W[OfCurrency(c)] \in Int
          /\ M[OfCurrency(c)] = W[OfCurrency(c)] + (IF c = CurrencyOf[i] THEN d ELSE 0) + (IF c = Base THEN e ELSE 0)
      BY <1>1, <2>1
    <3>2. once[c] = IF c = CurrencyOf[i] THEN W[OfCurrency(c)] + d ELSE W[OfCurrency(c)] BY <2>2
    <3> QED BY <1>0, <3>1, <3>2
  <2>5. Add(once, Base, e) = [c \in Currencies |-> M[OfCurrency(c)]] BY Zenon, <2>3, <2>4
  <2> QED BY <2>5 DEF once
<1>8. Add(V.concentration, i, d) = [j \in Instruments |-> M[{j}]]
  <2> DEFINE f == V.concentration
  <2>1. DOMAIN f = Instruments /\ f = [j \in Instruments |-> f[j]] /\ \A j \in Instruments : f[j] = W[{j}]
    BY <1>3
  <2> HIDE DEF f
  <2>2. Add(f, i, d) = [j \in Instruments |-> IF j = i THEN f[j] + d ELSE f[j]]
    BY <2>1 DEF Add
  <2>3. ASSUME NEW j \in Instruments PROVE (IF j = i THEN f[j] + d ELSE f[j]) = M[{j}]
    <3>1. {j} \in SUBSET Items /\ Base \notin {j} BY GroupsOfItems
    <3>2. W[{j}] \in Int /\ M[{j}] = W[{j}] + (IF i \in {j} THEN d ELSE 0) + (IF Base \in {j} THEN e ELSE 0)
      BY <1>1, <3>1
    <3>3. f[j] = W[{j}] BY <2>1
    <3> QED BY <1>0, <3>1, <3>2, <3>3
  <2>4. Add(f, i, d) = [j \in Instruments |-> M[{j}]] BY Zenon, <2>2, <2>3
  <2> QED BY <2>4 DEF f
<1>9. Trade(V, a) = Composed(M)
  BY <1>3, <1>4, <1>5, <1>6, <1>7, <1>8 DEF Composed, ValuationWith
<1> QED BY <1>2, <1>9 DEF M, V, i, d, e

\* The priced actions of a scenario.
ActionSet == [instrument : Instruments, fee : Int, delta : Int]

\* The results that the simulation of actions runs through.
Results == SUBSET {Composed(U) : U \in Worthy}

\* What each action makes of the result before it.
ActedRun(run, base, actions) ==
  /\ run \in [0..Len(actions) -> Results]
  /\ run[0] = base
  /\ \A n \in 1..Len(actions) : run[n] = Acted(run[n - 1], actions[n])

\* An action keeps results composed.
LEMMA ActedStays ==
  ASSUME NEW R \in Results, NEW a \in ActionSet
  PROVE  Acted(R, a) \in Results
<1> DEFINE C == {Composed(U) : U \in Worthy}
<1>1. ASSUME NEW v \in R PROVE Trade(v, a) \in C
  <2>1. PICK U \in Worthy : v = Composed(U) BY DEF Results
  <2>2. Action(a) BY DEF Action, ActionSet
  <2> DEFINE M == Moved(U, a.instrument, a.delta, -a.delta - a.fee)
  <2>3. Trade(Composed(U), a) = Composed(M) /\ M \in Worthy BY <2>2, TradeIsComposed
  <2> HIDE DEF M
  <2> QED BY <2>1, <2>3
<1> HIDE DEF C
<1>2. Acted(R, a) \in SUBSET C BY <1>1 DEF Acted
<1> QED BY <1>2 DEF C, Results

\* simulate_base_currency_trades takes the actions one after another.
LEMMA SimulationRuns ==
  ASSUME NEW W \in Worthy, NEW actions \in Seq(ActionSet)
  PROVE  \E run : /\ ActedRun(run, {Composed(W)}, actions)
                  /\ Simulation(Composed(W), actions) = run[Len(actions)]
<1> DEFINE T == Results
           X == ActionSet
           base == {Composed(W)}
           step == [p \in T \X X |-> Acted(p[1], p[2])]
           D == DOMAIN actions
           h == CHOOSE g : g = [s \in SUBSET D |-> IF s = {} THEN base
                                                   ELSE Acted(g[s \ {Max(s)}], actions[Max(s)])]
<1>1. base \in T
  <2>1. Composed(W) \in {Composed(U) : U \in Worthy} OBVIOUS
  <2> QED BY <2>1 DEF Results
<1>2. StaysIn(step, T, X) /\ \A t \in T, x \in X : step[<<t, x>>] = Acted(t, x)
  <2>1. \A t \in T, x \in X : Acted(t, x) \in T
    BY ActedStays
  <2> HIDE DEF T, X
  <2> QED BY <2>1 DEF StaysIn
<1>3. Simulation(Composed(W), actions) = h[D]
  BY DEF Simulation, FoldLeft, MapThenFoldSet
<1>4. actions \in Seq(X) /\ D = 1..Len(actions) /\ Len(actions) \in Nat /\ \A i \in D : actions[i] \in X
  OBVIOUS
<1> HIDE DEF T, X, step, base
<1>5. \E g : g = [s \in SUBSET D |-> IF s = {} THEN base ELSE Acted(g[s \ {Max(s)}], actions[Max(s)])]
  <2>1. PICK g \in [SUBSET D -> T] : IsFold(g, step, base, actions, Len(actions))
    BY <1>1, <1>2, <1>4, FoldExists
  <2>2. ASSUME NEW s \in SUBSET D, s # {}
        PROVE  step[<<g[s \ {Max(s)}], actions[Max(s)]>>] = Acted(g[s \ {Max(s)}], actions[Max(s)])
    <3>1. Max(s) \in s BY <1>4, <2>2, MaxOfIndices
    <3>2. actions[Max(s)] \in X /\ g[s \ {Max(s)}] \in T BY <1>4, <2>1, <3>1
    <3> QED BY <1>2, <3>2
  <2>3. g = [s \in SUBSET D |-> IF s = {} THEN base ELSE step[<<g[s \ {Max(s)}], actions[Max(s)]>>]]
    BY <1>4, <2>1 DEF IsFold
  <2>4. g = [s \in SUBSET D |-> IF s = {} THEN base ELSE Acted(g[s \ {Max(s)}], actions[Max(s)])]
    BY <2>2, <2>3
  <2> QED BY <2>4
<1>6. h = [s \in SUBSET D |-> IF s = {} THEN base ELSE Acted(h[s \ {Max(s)}], actions[Max(s)])]
  BY <1>5
<1> HIDE DEF h
<1>7. h[{}] = base BY <1>6
<1>8. ASSUME NEW s \in SUBSET D, s # {}, h[s \ {Max(s)}] \in T
      PROVE  h[s] = step[<<h[s \ {Max(s)}], actions[Max(s)]>>]
  <2>1. Max(s) \in s BY <1>4, <1>8, MaxOfIndices
  <2>2. actions[Max(s)] \in X BY <1>4, <2>1
  <2> QED BY <1>2, <1>6, <1>8, <2>2
<1>9. PICK run : Runs(run, T, step, base, actions) /\ run[Len(actions)] = h[D]
  <2>1. FoldsBy(h, T, step, base, actions)
    BY <1>7, <1>8 DEF FoldsBy
  <2>2. \E run : Runs(run, T, step, base, actions) /\ run[Len(actions)] = h[DOMAIN actions]
    <3> HIDE DEF D
    <3> QED BY <1>1, <1>2, <1>4, <2>1, FoldRuns
  <2> QED BY <2>2
<1>10. ActedRun(run, base, actions)
  <2>1. run \in [0..Len(actions) -> T] /\ run[0] = base BY <1>9 DEF Runs
  <2>2. ASSUME NEW k \in 1..Len(actions) PROVE run[k] = Acted(run[k - 1], actions[k])
    <3>1. k - 1 \in 0..Len(actions) /\ actions[k] \in X BY <1>4
    <3>2. run[k] = step[<<run[k - 1], actions[k]>>] BY <1>9 DEF Runs
    <3> QED BY <1>2, <2>1, <3>1, <3>2
  <2> QED BY <2>1, <2>2 DEF ActedRun, T
<1> QED BY <1>3, <1>9, <1>10 DEF base

\* What actions bring to a group of items, what they take from the base currency, and
\* what the groups are worth after the first n of them.
Brought(actions, G) ==
  [m \in DOMAIN actions |-> IF actions[m].instrument \in G THEN actions[m].delta ELSE 0]
Taken(actions) == [m \in DOMAIN actions |-> actions[m].delta + actions[m].fee]

After(W, cash, actions, n) ==
  [G \in SUBSET Items |-> W[G] + SumOver(Brought(actions, G), 1..n)
                            + (IF Base \in G THEN cash - SumOver(Taken(actions), 1..n) ELSE 0)]

\* A sum up to a number adds the last term to the sum before it.
LEMMA SumUpTo ==
  ASSUME NEW N \in Nat, NEW f, \A m \in 1..N : f[m] \in Int
  PROVE  /\ SumOver(f, 1..0) = 0
         /\ \A n \in 0..N : SumOver(f, 1..n) \in Int
         /\ \A n \in 1..N : SumOver(f, 1..n) = f[n] + SumOver(f, 1..(n - 1))
<1>1. \A n \in Nat : IsFiniteSet(1..n) BY FS_Interval
<1>2. SumOver(f, 1..0) = 0
  <2>1. 1..0 = {} /\ IsFiniteSet({}) BY FS_EmptySet
  <2>2. SumOver(f, {}) = 0 BY <2>1, SumUnfolds
  <2> QED BY <2>1, <2>2
<1>3. \A n \in 0..N : SumOver(f, 1..n) \in Int
  <2> SUFFICES ASSUME NEW n \in 0..N PROVE SumOver(f, 1..n) \in Int OBVIOUS
  <2>1. IsFiniteSet(1..n) /\ \A m \in 1..n : f[m] \in Int BY <1>1
  <2> QED BY <2>1, SumIsInteger
<1>4. ASSUME NEW n \in 1..N PROVE SumOver(f, 1..n) = f[n] + SumOver(f, 1..(n - 1))
  <2>1. n \in 1..n /\ (1..n) \ {n} = 1..(n - 1) /\ IsFiniteSet(1..n) /\ \A m \in 1..n : f[m] \in Int
    BY <1>1
  <2>2. SumOver(f, 1..n) = f[n] + SumOver(f, (1..n) \ {n}) BY <2>1, SumSplits
  <2> QED BY <2>1, <2>2
<1> QED BY <1>2, <1>3, <1>4

\* A simulation is composed of what the groups are worth after all its actions.
LEMMA SimulationIsComposed ==
  ASSUME NEW W \in Worthy, NEW cash \in Int, NEW actions \in Seq(ActionSet)
  PROVE  LET V == After(W, cash, actions, Len(actions))
         IN  /\ Simulation(WithNewCash(Composed(W), cash), actions) \subseteq {Composed(V)}
             /\ V \in Worthy
<1> DEFINE N == Len(actions)
           A(n) == After(W, cash, actions, n)
           W0 == Moved(W, Base, 0, cash)
<1>1. /\ N \in Nat /\ DOMAIN actions = 1..N
      /\ \A m \in 1..N : /\ actions[m] \in ActionSet /\ actions[m].instrument \in Instruments
                         /\ actions[m].delta \in Int /\ actions[m].fee \in Int
  <2>1. N \in Nat /\ DOMAIN actions = 1..N /\ \A m \in 1..N : actions[m] \in ActionSet OBVIOUS
  <2>2. \A a \in ActionSet : a.instrument \in Instruments /\ a.delta \in Int /\ a.fee \in Int
    BY DEF ActionSet
  <2> QED BY <2>1, <2>2
<1>2. \A G \in SUBSET Items : W[G] \in Int BY DEF Worthy
<1>3. \A G : \A m \in 1..N : Brought(actions, G)[m] \in Int BY <1>1 DEF Brought
<1>4. \A m \in 1..N : Taken(actions)[m] \in Int BY <1>1 DEF Taken
<1>5. \A G : \A n \in 0..N : SumOver(Brought(actions, G), 1..n) \in Int BY <1>1, <1>3, SumUpTo
<1>6. \A n \in 0..N : SumOver(Taken(actions), 1..n) \in Int BY <1>1, <1>4, SumUpTo
<1>7. \A n \in 0..N : \A G \in SUBSET Items :
        A(n)[G] = W[G] + SumOver(Brought(actions, G), 1..n)
                    + (IF Base \in G THEN cash - SumOver(Taken(actions), 1..n) ELSE 0)
  BY DEF After
<1>8. \A n \in 0..N : A(n) \in Worthy
  <2> SUFFICES ASSUME NEW n \in 0..N PROVE A(n) \in Worthy OBVIOUS
  <2>1. \A G \in SUBSET Items : A(n)[G] \in Int BY SMTT(30), <1>2, <1>5, <1>6, <1>7
  <2> QED BY <2>1 DEF Worthy, After
<1>9. A(0) = W0 /\ WithNewCash(Composed(W), cash) = Composed(W0) /\ W0 \in Worthy
  <2>1. WithNewCash(Composed(W), cash) = Composed(W0) /\ W0 \in Worthy BY CashIsComposed
  <2>2. \A G : SumOver(Brought(actions, G), 1..0) = 0 BY <1>1, <1>3, SumUpTo
  <2>3. SumOver(Taken(actions), 1..0) = 0 BY <1>1, <1>4, SumUpTo
  <2>4. \A G \in SUBSET Items : A(0)[G] = W0[G] BY <1>1, <1>2, <1>7, <2>2, <2>3 DEF Moved
  <2>5. A(0) = W0 BY <2>4 DEF After, Moved
  <2> QED BY <2>1, <2>5
<1> HIDE DEF W0
<1>10. PICK run : ActedRun(run, {Composed(W0)}, actions) /\ Simulation(Composed(W0), actions) = run[N]
  BY <1>9, SimulationRuns
<1> DEFINE R == {n \in 0..N : run[n] \subseteq {Composed(A(n))}}
<1>11. 0 \in R BY <1>1, <1>9, <1>10 DEF ActedRun
<1>12. ASSUME NEW n \in 1..N, n - 1 \in R PROVE n \in R
  <2> DEFINE a == actions[n]
             M == Moved(A(n - 1), a.instrument, a.delta, -a.delta - a.fee)
  <2>1. n \in 0..N /\ n - 1 \in 0..N BY <1>1
  <2>2. run[n] = Acted(run[n - 1], a) BY <1>10 DEF ActedRun
  <2>3. run[n - 1] \subseteq {Composed(A(n - 1))} BY <1>12
  <2>4. Trade(Composed(A(n - 1)), a) = Composed(M)
    <3>1. A(n - 1) \in Worthy /\ Action(a) BY <1>1, <1>8, <2>1 DEF Action
    <3> HIDE DEF A
    <3> QED BY <3>1, TradeIsComposed
  <2>5. M = A(n)
    <3>1. \A G : SumOver(Brought(actions, G), 1..n)
                   = Brought(actions, G)[n] + SumOver(Brought(actions, G), 1..(n - 1))
      BY <1>1, <1>3, SumUpTo
    <3>2. SumOver(Taken(actions), 1..n) = Taken(actions)[n] + SumOver(Taken(actions), 1..(n - 1))
      BY <1>1, <1>4, SumUpTo
    <3>3. ASSUME NEW G \in SUBSET Items PROVE M[G] = A(n)[G]
      <4>1. M[G] = A(n - 1)[G] + (IF a.instrument \in G THEN a.delta ELSE 0)
                     + (IF Base \in G THEN -a.delta - a.fee ELSE 0)
        BY DEF Moved
      <4>2. Brought(actions, G)[n] = IF a.instrument \in G THEN a.delta ELSE 0
        BY <1>1 DEF Brought
      <4>3. Taken(actions)[n] = a.delta + a.fee BY <1>1 DEF Taken
      <4>4. A(n - 1)[G] = W[G] + SumOver(Brought(actions, G), 1..(n - 1))
                            + (IF Base \in G THEN cash - SumOver(Taken(actions), 1..(n - 1)) ELSE 0)
        BY <1>7, <2>1
      <4>5. A(n)[G] = W[G] + SumOver(Brought(actions, G), 1..n)
                        + (IF Base \in G THEN cash - SumOver(Taken(actions), 1..n) ELSE 0)
        BY <1>7, <2>1
      <4>6. /\ SumOver(Brought(actions, G), 1..(n - 1)) \in Int /\ SumOver(Taken(actions), 1..(n - 1)) \in Int
            /\ W[G] \in Int /\ a.delta \in Int /\ a.fee \in Int
        BY <1>1, <1>2, <1>5, <1>6, <2>1
      <4>7. SumOver(Brought(actions, G), 1..n)
              = (IF a.instrument \in G THEN a.delta ELSE 0) + SumOver(Brought(actions, G), 1..(n - 1))
        BY <3>1, <4>2
      <4>8. SumOver(Taken(actions), 1..n) = a.delta + a.fee + SumOver(Taken(actions), 1..(n - 1))
        BY <3>2, <4>3
      <4> HIDE DEF M, A, a
      <4>9. CASE Base \in G
        <5>1. A(n)[G] = W[G] + SumOver(Brought(actions, G), 1..n) + (cash - SumOver(Taken(actions), 1..n))
          BY <4>5, <4>9
        <5>2. A(n - 1)[G] = W[G] + SumOver(Brought(actions, G), 1..(n - 1))
                              + (cash - SumOver(Taken(actions), 1..(n - 1)))
          BY <4>4, <4>9
        <5>3. M[G] = A(n - 1)[G] + (IF a.instrument \in G THEN a.delta ELSE 0) + (-a.delta - a.fee)
          BY <4>1, <4>9
        <5> DEFINE x == IF a.instrument \in G THEN a.delta ELSE 0
                   s == SumOver(Brought(actions, G), 1..(n - 1))
                   p == SumOver(Taken(actions), 1..(n - 1))
                   w == W[G]
        <5>4. x \in Int /\ s \in Int /\ p \in Int /\ w \in Int /\ a.delta \in Int /\ a.fee \in Int
          BY <4>6
        <5>5. /\ A(n)[G] = w + (x + s) + (cash - (a.delta + a.fee + p))
              /\ M[G] = (w + s + (cash - p)) + x + (-a.delta - a.fee)
          BY <4>7, <4>8, <5>1, <5>2, <5>3
        <5> HIDE DEF x, s, p, w
        <5> QED BY <5>4, <5>5
      <4>10. CASE Base \notin G
        <5>1. /\ A(n)[G] = W[G] + SumOver(Brought(actions, G), 1..n) + 0
              /\ A(n - 1)[G] = W[G] + SumOver(Brought(actions, G), 1..(n - 1)) + 0
              /\ M[G] = A(n - 1)[G] + (IF a.instrument \in G THEN a.delta ELSE 0) + 0
          BY <4>1, <4>4, <4>5, <4>10
        <5> QED BY <4>6, <4>7, <5>1
      <4> QED BY <4>9, <4>10
    <3> QED BY <3>3 DEF Moved, After
  <2> HIDE DEF M, A, a
  <2>6. run[n] \subseteq {Composed(A(n))} BY <2>2, <2>3, <2>4, <2>5 DEF Acted
  <2> QED BY <2>1, <2>6
<1> HIDE DEF R
<1> HIDE DEF N
<1>15. \A n \in 0..N : n \in R BY <1>1, <1>11, <1>12, CountUp
<1>13. N \in R BY <1>1, <1>15
<1>14. run[N] \subseteq {Composed(A(N))} BY <1>13 DEF R
<1> QED BY <1>1, <1>8, <1>9, <1>10, <1>14 DEF N

\* The actions of a scenario at their prices.
AllQuoted(s, c) == \A n \in DOMAIN s.actions : UnitValues(s.actions[n].instrument, c) # {}
\* The actions of a scenario, with their prices.
Acts(s, c) == Priced(s, c).actions

\* Where all is quoted, each action is priced at the price of its item.
LEMMA PricedActions ==
  ASSUME ContentInv, NEW s \in Scenarios, NEW c, AllQuoted(s, c)
  PROVE  /\ Priced(s, c).cash = s.cash /\ s.cash \in Int /\ s.key \in Int
         /\ Acts(s, c) \in Seq(ActionSet)
         /\ Len(Acts(s, c)) = Len(s.actions) /\ Len(s.actions) \in Nat
         /\ DOMAIN Acts(s, c) = 1..Len(s.actions) /\ DOMAIN s.actions = 1..Len(s.actions)
         /\ \A n \in 1..Len(s.actions) :
              /\ s.actions[n].instrument \in Instruments
              /\ s.actions[n].quantity \in Int /\ s.actions[n].fee \in Int
              /\ Acts(s, c)[n].instrument = s.actions[n].instrument
              /\ Acts(s, c)[n].fee = s.actions[n].fee
              /\ Acts(s, c)[n].delta = s.actions[n].quantity * Prices(c)[s.actions[n].instrument]
<1> DEFINE act(n) == [instrument |-> s.actions[n].instrument, fee |-> s.actions[n].fee,
                      delta |-> s.actions[n].quantity * Max(UnitValues(s.actions[n].instrument, c))]
           N == Len(s.actions)
           acts == [n \in DOMAIN s.actions |-> act(n)]
<1>1. s.cash \in Int /\ s.key \in Int
      /\ s.actions \in Seq([instrument : Instruments, quantity : Int, fee : Int])
  BY DEF Scenarios
<1>2. N \in Nat /\ DOMAIN s.actions = 1..N
      /\ \A n \in 1..N : s.actions[n] \in [instrument : Instruments, quantity : Int, fee : Int]
  <2> DEFINE q == s.actions
             X == [instrument : Instruments, quantity : Int, fee : Int]
  <2>1. q \in Seq(X) BY <1>1
  <2> HIDE DEF q, X
  <2>2. Len(q) \in Nat /\ DOMAIN q = 1..Len(q) /\ \A n \in 1..Len(q) : q[n] \in X BY <2>1
  <2> QED BY <2>2 DEF q, X
<1>3. \A n \in 1..N : /\ s.actions[n].instrument \in Instruments
                      /\ s.actions[n].quantity \in Int /\ s.actions[n].fee \in Int
  BY <1>2
<1>4. Priced(s, c) = [s EXCEPT !.actions = acts] BY DEF Priced
<1>5. Acts(s, c) = acts /\ Priced(s, c).cash = s.cash
  <2> HIDE DEF acts
  <2>1. DOMAIN s = {"key", "cash", "actions"} BY DEF Scenarios
  <2> QED BY <1>4, <2>1 DEF Acts
<1>6. ASSUME NEW n \in 1..N
      PROVE  /\ act(n) \in ActionSet
             /\ act(n).delta = s.actions[n].quantity * Prices(c)[s.actions[n].instrument]
  <2> DEFINE i == s.actions[n].instrument
  <2>1. i \in Instruments /\ i \in Items /\ i \notin Currencies BY <1>3, ReadsAssumption DEF Items
  <2>2. UnitValues(i, c) = UnitValue(i, Market(c)) BY <2>1, UnitValuesAtMarket
  <2>3. UnitValues(i, c) # {} BY <1>2 DEF AllQuoted
  <2> HIDE DEF i
  <2>4. Worths(i, c) = UnitValues(i, c) BY <2>1, <2>2 DEF Worths
  <2>5. Prices(c)[i] = Max(UnitValues(i, c)) BY <2>1, <2>3, <2>4 DEF Prices
  <2>6. Prices(c)[i] \in Int BY <2>1, PricesAreIntegers
  <2>7. s.actions[n].quantity * Prices(c)[i] \in Int BY <1>3, <2>6
  <2>8. act(n).delta = s.actions[n].quantity * Prices(c)[i] BY <2>5 DEF i
  <2>9. act(n) \in ActionSet
    <3>1. act(n).delta = s.actions[n].quantity * Max(UnitValues(s.actions[n].instrument, c)) OBVIOUS
    <3>2. s.actions[n].quantity * Max(UnitValues(s.actions[n].instrument, c)) \in Int
      BY <2>7, <2>8, <3>1
    <3> QED BY <1>3, <3>2 DEF ActionSet
  <2> QED BY <2>8, <2>9 DEF i
<1>7. acts \in Seq(ActionSet) /\ Len(acts) = N /\ DOMAIN acts = 1..N
  <2>1. DOMAIN acts = 1..N /\ \A n \in 1..N : acts[n] \in ActionSet BY <1>2, <1>6
  <2>2. acts \in [1..N -> ActionSet] BY <1>2, <1>6
  <2> HIDE DEF acts
  <2> QED BY <1>2, <2>1, <2>2
<1>8. \A n \in 1..N : acts[n] = act(n) BY <1>2
<1>9. \A n \in 1..N : act(n).instrument = s.actions[n].instrument /\ act(n).fee = s.actions[n].fee
  OBVIOUS
<1> HIDE DEF acts, act
<1> QED BY <1>1, <1>2, <1>3, <1>5, <1>6, <1>7, <1>8, <1>9

\* The folds of a scenario are sums.
LEMMA TradedIsSum ==
  ASSUME NEW s, NEW i, IsFiniteSet(DOMAIN s.actions)
  PROVE  Traded(s, i)
           = SumOver([n \in DOMAIN s.actions |-> IF s.actions[n].instrument = i
                                                   THEN s.actions[n].quantity ELSE 0], DOMAIN s.actions)
<1> DEFINE S == DOMAIN s.actions
           part(n) == IF s.actions[n].instrument = i THEN s.actions[n].quantity ELSE 0
           f == [n \in S |-> part(n)]
           Adds(g) == g = [u \in SUBSET S |-> IF u = {} THEN 0
                             ELSE part(CHOOSE x \in u : TRUE) + g[u \ {CHOOSE x \in u : TRUE}]]
<1>1. Traded(s, i) = (CHOOSE g : Adds(g))[S]
  BY DEF Traded, MapThenSumSet, MapThenFoldSet
<1>2. \A g : Adds(g) <=> IsSum(g, f, S)
  <2>1. \A u \in SUBSET S : u # {} => f[First(u)] = part(First(u))
    BY FirstIsElement
  <2> HIDE DEF f, part
  <2> QED BY <2>1 DEF IsSum, First
<1>3. \E g : Adds(g)
  <2> HIDE DEF Adds, f
  <2> QED BY <1>2, SumExists
<1>4. IsSum(CHOOSE g : Adds(g), f, S)
  <2> HIDE DEF Adds, f
  <2> QED BY <1>2, <1>3
<1> HIDE DEF Adds, f
<1> QED BY <1>1, <1>4, FoldIsSum DEF f

\* The fees of a scenario are a sum over its actions, ...
LEMMA FeesIsSum ==
  ASSUME NEW s, IsFiniteSet(DOMAIN s.actions)
  PROVE  Fees(s) = SumOver([n \in DOMAIN s.actions |-> s.actions[n].fee], DOMAIN s.actions)
<1> DEFINE S == DOMAIN s.actions
           part(n) == s.actions[n].fee
           f == [n \in S |-> part(n)]
           Adds(g) == g = [u \in SUBSET S |-> IF u = {} THEN 0
                             ELSE part(CHOOSE x \in u : TRUE) + g[u \ {CHOOSE x \in u : TRUE}]]
<1>1. Fees(s) = (CHOOSE g : Adds(g))[S]
  BY DEF Fees, MapThenSumSet, MapThenFoldSet
<1>2. \A g : Adds(g) <=> IsSum(g, f, S)
  <2>1. \A u \in SUBSET S : u # {} => f[First(u)] = part(First(u))
    BY FirstIsElement
  <2> HIDE DEF f, part
  <2> QED BY <2>1 DEF IsSum, First
<1>3. \E g : Adds(g)
  <2> HIDE DEF Adds, f
  <2> QED BY <1>2, SumExists
<1>4. IsSum(CHOOSE g : Adds(g), f, S)
  <2> HIDE DEF Adds, f
  <2> QED BY <1>2, <1>3
<1> HIDE DEF Adds, f
<1> QED BY <1>1, <1>4, FoldIsSum DEF f

\* ... and so is what is left of its cash.
LEMMA ChangeIsSum ==
  ASSUME NEW s, NEW c, IsFiniteSet(DOMAIN Acts(s, c))
  PROVE  Change(s, c) = s.cash - SumOver(Taken(Acts(s, c)), DOMAIN Acts(s, c))
<1> DEFINE acts == Acts(s, c)
           S == DOMAIN acts
           part(n) == acts[n].delta + acts[n].fee
           f == [n \in S |-> part(n)]
           Adds(g) == g = [u \in SUBSET S |-> IF u = {} THEN 0
                             ELSE part(CHOOSE x \in u : TRUE) + g[u \ {CHOOSE x \in u : TRUE}]]
<1>1. Change(s, c) = s.cash - (CHOOSE g : Adds(g))[S]
  <2>1. acts = Priced(s, c).actions BY DEF Acts
  <2> HIDE DEF acts
  <2> QED BY <2>1 DEF Change, MapThenSumSet, MapThenFoldSet
<1> HIDE DEF acts
<1>2. \A g : Adds(g) <=> IsSum(g, f, S)
  <2>1. \A u \in SUBSET S : u # {} => f[First(u)] = part(First(u))
    BY FirstIsElement
  <2> HIDE DEF f, part
  <2> QED BY <2>1 DEF IsSum, First
<1>3. \E g : Adds(g)
  <2>1. IsFiniteSet(S) BY DEF acts
  <2> HIDE DEF Adds, f
  <2> QED BY <1>2, <2>1, SumExists
<1>4. IsSum(CHOOSE g : Adds(g), f, S)
  <2> HIDE DEF Adds, f
  <2> QED BY <1>2, <1>3
<1>5. f = Taken(acts) BY DEF Taken
<1>6. IsFiniteSet(S) BY DEF acts
<1> HIDE DEF Adds, f
<1> QED BY <1>1, <1>4, <1>5, <1>6, FoldIsSum DEF acts

\* What the legs of a booking are worth is what its actions bring and take.
IsBookingOf(bk, s, c) ==
  /\ bk.cash = [d \in Currencies |-> IF d = Base THEN Change(s, c) \div Scale ELSE 0]
  /\ bk.pos = [i \in Instruments |-> Traded(s, i)]

\* What a scenario trades of an item is an integer.
LEMMA TradedIsInteger ==
  ASSUME NEW s \in Scenarios, NEW i
  PROVE  Traded(s, i) \in Int
<1> DEFINE q == s.actions
           X == [instrument : Instruments, quantity : Int, fee : Int]
           f == [n \in DOMAIN q |-> IF q[n].instrument = i THEN q[n].quantity ELSE 0]
<1>1. q \in Seq(X) BY DEF Scenarios
<1>2. \A x \in X : x.quantity \in Int OBVIOUS
<1>3. DOMAIN q = 1..Len(q) /\ Len(q) \in Nat /\ \A n \in DOMAIN q : q[n] \in X
  <2> HIDE DEF q, X
  <2> QED BY <1>1
<1>4. IsFiniteSet(DOMAIN q) BY <1>3, FS_Interval
<1>5. Traded(s, i) = SumOver(f, DOMAIN q) BY <1>4, TradedIsSum
<1>6. \A n \in DOMAIN q : f[n] \in Int
  <2> HIDE DEF q, X
  <2> QED BY <1>2, <1>3
<1> HIDE DEF f, q
<1> QED BY <1>4, <1>5, <1>6, SumIsInteger

\* What the actions of a scenario bring and take are integers.
LEMMA ActsAreSummed ==
  ASSUME ContentInv, NEW s \in Scenarios, NEW c, AllQuoted(s, c)
  PROVE  LET acts == Acts(s, c)
             N == Len(acts)
         IN  /\ N \in Nat /\ s.cash \in Int
             /\ \A n \in 1..N : acts[n].delta \in Int
             /\ \A G : SumOver(Brought(acts, G), 1..N) \in Int
             /\ SumOver(Taken(acts), 1..N) \in Int
             /\ Change(s, c) = s.cash - SumOver(Taken(acts), 1..N) /\ Change(s, c) \in Int
<1> DEFINE acts == Acts(s, c)
           N == Len(acts)
<1>1. acts \in Seq(ActionSet) /\ s.cash \in Int BY PricedActions
<1>2. N \in Nat /\ DOMAIN acts = 1..N /\ \A n \in 1..N : acts[n] \in ActionSet
  <2> HIDE DEF acts
  <2> QED BY <1>1
<1>3. \A a \in ActionSet : a.delta \in Int /\ a.fee \in Int BY DEF ActionSet
<1>4. \A G : \A n \in 1..N : Brought(acts, G)[n] \in Int BY <1>2, <1>3 DEF Brought
<1>5. \A n \in 1..N : Taken(acts)[n] \in Int BY <1>2, <1>3 DEF Taken
<1>6. IsFiniteSet(1..N) BY <1>2, FS_Interval
<1>7. \A G : SumOver(Brought(acts, G), 1..N) \in Int BY <1>4, <1>6, SumIsInteger
<1>8. SumOver(Taken(acts), 1..N) \in Int BY <1>5, <1>6, SumIsInteger
<1>9. Change(s, c) = s.cash - SumOver(Taken(acts), 1..N) BY <1>2, <1>6, ChangeIsSum
<1>10. Change(s, c) \in Int BY <1>1, <1>8, <1>9
<1>11. \A n \in 1..N : acts[n].delta \in Int BY <1>2, <1>3
<1> QED BY <1>1, <1>2, <1>7, <1>8, <1>9, <1>10, <1>11

\* In each group of items a booking is worth what the actions bring, and what is left of
\* the cash when they are paid.
LEMMA BookingIsWorth ==
  ASSUME ContentInv, NEW s \in Scenarios, NEW c, AllQuoted(s, c), Change(s, c) % Scale = 0,
         NEW bk, IsBookingOf(bk, s, c), NEW G
  PROVE  LET acts == Acts(s, c)
             N == Len(acts)
         IN  /\ \A x \in Items : Amount(bk, x) \in Int
             /\ WorthIn(bk, Prices(c), G)
                  = SumOver(Brought(acts, G), 1..N)
                      + (IF Base \in G THEN s.cash - SumOver(Taken(acts), 1..N) ELSE 0)
<1> DEFINE acts == Acts(s, c)
           N == Len(acts)
           w == Prices(c)
           f == [x \in Items |-> IF x \in G THEN Amount(bk, x) * w[x] ELSE 0]
           b == Brought(acts, G)
           key == [n \in 1..N |-> acts[n].instrument]
<1>1. /\ s.cash \in Int /\ N \in Nat /\ N = Len(s.actions) /\ DOMAIN acts = 1..N /\ DOMAIN s.actions = 1..N
      /\ \A n \in 1..N : /\ acts[n].instrument \in Instruments
                         /\ s.actions[n].quantity \in Int /\ acts[n].fee \in Int
                         /\ acts[n].instrument = s.actions[n].instrument
                         /\ acts[n].delta = s.actions[n].quantity * w[acts[n].instrument]
  BY PricedActions
<1>2. \A x \in Items : w[x] \in Int BY PricesAreIntegers
<1>3. w[Base] = Scale /\ Scale \in Nat \ {0} /\ Base \in Currencies BY PricesAreIntegers, ReadsAssumption
<1>4. IsFiniteSet(Currencies) /\ IsFiniteSet(Instruments) /\ Currencies \cap Instruments = {}
      /\ Items = Currencies \cup Instruments
  BY ReadsAssumption DEF Items
<1>5. IsFiniteSet(1..N) BY <1>1, FS_Interval
<1>6. \A n \in 1..N : acts[n].delta \in Int BY ActsAreSummed
<1>7. /\ Change(s, c) = s.cash - SumOver(Taken(acts), 1..N)
      /\ SumOver(Taken(acts), 1..N) \in Int /\ Change(s, c) \in Int
  BY ActsAreSummed
<1>8. /\ Amount(bk, Base) = Change(s, c) \div Scale
      /\ \A d \in Currencies \ {Base} : Amount(bk, d) = 0
      /\ \A i \in Instruments : i \notin Currencies /\ Amount(bk, i) = Traded(s, i)
  BY <1>3, <1>4 DEF IsBookingOf, Amount
<1>9. \A x \in Items : Amount(bk, x) \in Int
  <2>1. Change(s, c) \div Scale \in Int BY <1>3, <1>7
  <2>2. \A i : Traded(s, i) \in Int BY TradedIsInteger
  <2> QED BY <1>3, <1>4, <1>8, <2>1, <2>2
<1> HIDE DEF acts, N, w
<1>10. \A x \in Items : f[x] = (IF x \in G THEN Amount(bk, x) * w[x] ELSE 0) /\ f[x] \in Int
  <2> SUFFICES ASSUME NEW x \in Items PROVE Amount(bk, x) * w[x] \in Int OBVIOUS
  <2>1. Amount(bk, x) \in Int /\ w[x] \in Int BY <1>2, <1>9
  <2> QED BY <2>1
<1>11. SumOver(f, Currencies) = IF Base \in G THEN s.cash - SumOver(Taken(acts), 1..N) ELSE 0
  <2>1. \A d \in Currencies \ {Base} : f[d] = 0
    <3> SUFFICES ASSUME NEW d \in Currencies \ {Base}, d \in G PROVE f[d] = 0 BY <1>4, <1>10
    <3>1. Amount(bk, d) = 0 /\ w[d] \in Int BY <1>2, <1>4, <1>8
    <3> QED BY <1>4, <1>10, <3>1
  <2>2. \A d \in Currencies : f[d] \in Int BY <1>4, <1>10
  <2>3. {Base} \in SUBSET Currencies /\ IsFiniteSet({Base}) BY <1>3, FS_Singleton
  <2>4. f[Base] = IF Base \in G THEN s.cash - SumOver(Taken(acts), 1..N) ELSE 0
    <3>1. f[Base] = IF Base \in G THEN (Change(s, c) \div Scale) * Scale ELSE 0 BY <1>3, <1>4, <1>8, <1>10
    <3>2. Change(s, c) = Scale * (Change(s, c) \div Scale) + (Change(s, c) % Scale) BY <1>3, <1>7
    <3>3. (Change(s, c) \div Scale) * Scale = Scale * (Change(s, c) \div Scale) BY <1>3, <1>7
    <3>4. Scale * (Change(s, c) \div Scale) \in Int BY <1>3, <1>7
    <3>5. (Change(s, c) \div Scale) * Scale = Change(s, c) BY <3>2, <3>3, <3>4
    <3> QED BY <1>7, <3>1, <3>5
  <2> HIDE DEF f
  <2>5. SumOver(f, Currencies) = SumOver(f, {Base}) BY <1>4, <2>1, <2>2, <2>3, SumWithoutZeros
  <2>6. SumOver(f, {Base}) = f[Base]
    <3> DEFINE none == {Base} \ {Base}
               one == {Base}
    <3>1. none = {} /\ IsFiniteSet(none) BY FS_EmptySet
    <3>2. Base \in one /\ none = one \ {Base} /\ IsFiniteSet(one) /\ \A d \in one : f[d] \in Int
      BY <1>3, <2>2, <2>3
    <3> HIDE DEF none, one
    <3>3. SumOver(f, none) = 0 BY <3>1, SumUnfolds
    <3>4. SumOver(f, one) = f[Base] + SumOver(f, none) BY <3>2, SumSplits
    <3>5. SumOver(f, one) = f[Base] BY <3>2, <3>3, <3>4
    <3> QED BY <3>5 DEF one
  <2> QED BY <2>4, <2>5, <2>6
<1>12. SumOver(f, Instruments) = SumOver(b, 1..N)
  <2>1. \A n \in 1..N : /\ key[n] \in Instruments /\ key[n] = acts[n].instrument
                        /\ b[n] = (IF acts[n].instrument \in G THEN acts[n].delta ELSE 0) /\ b[n] \in Int
    <3> SUFFICES ASSUME NEW n \in 1..N
                 PROVE  /\ key[n] \in Instruments /\ key[n] = acts[n].instrument
                        /\ b[n] = (IF acts[n].instrument \in G THEN acts[n].delta ELSE 0) /\ b[n] \in Int
      OBVIOUS
    <3>1. acts[n].instrument \in Instruments /\ n \in DOMAIN acts /\ acts[n].delta \in Int BY <1>1, <1>6
    <3>2. b[n] = IF acts[n].instrument \in G THEN acts[n].delta ELSE 0 BY <3>1 DEF Brought
    <3> HIDE DEF b
    <3> QED BY <3>1, <3>2
  <2>2. ASSUME NEW i \in Instruments PROVE f[i] = SumOver(b, Keyed(1..N, key, i))
    <3> DEFINE q == [n \in 1..N |-> IF s.actions[n].instrument = i THEN s.actions[n].quantity ELSE 0]
               K == Keyed(1..N, key, i)
               x == IF i \in G THEN w[i] ELSE 0
    <3>1. \A n \in 1..N : q[n] = (IF s.actions[n].instrument = i THEN s.actions[n].quantity ELSE 0) /\ q[n] \in Int
      BY <1>1
    <3>2. Traded(s, i) = SumOver(q, 1..N) BY <1>1, <1>5, TradedIsSum
    <3>3. K \in SUBSET (1..N) /\ \A n \in 1..N : n \in K <=> acts[n].instrument = i BY <2>1 DEF Keyed
    <3>4. IsFiniteSet(K) BY <1>5, <3>3, FS_Subset
    <3>5. \A n \in (1..N) \ K : q[n] = 0 BY <1>1, <3>1, <3>3
    <3>6. i \in Items /\ x \in Int BY <1>2, <1>4
    <3>7. ASSUME NEW n \in K PROVE q[n] \in Int /\ b[n] = q[n] * x
      <4>1. n \in 1..N /\ acts[n].instrument = i /\ s.actions[n].instrument = i BY <1>1, <3>3
      <4>2. acts[n].delta = q[n] * w[i] /\ q[n] \in Int BY <1>1, <3>1, <4>1
      <4>3. q[n] * 0 = 0 BY <4>2
      <4> QED BY <2>1, <4>1, <4>2, <4>3
    <3> HIDE DEF q, K, b, x, key
    <3>8. SumOver(q, 1..N) = SumOver(q, K) BY ZenonT(30), <1>5, <3>1, <3>3, <3>5, SumWithoutZeros
    <3>9. SumOver(b, K) = SumOver(q, K) * x BY <3>4, <3>6, <3>7, SumScaled
    <3>10. SumOver(q, K) \in Int BY <3>4, <3>7, SumIsInteger
    <3>11. f[i] = SumOver(q, K) * x
      <4>1. Amount(bk, i) = SumOver(q, K) BY <1>8, <3>2, <3>8
      <4>2. SumOver(q, K) * 0 = 0 BY <3>10
      <4> QED BY <1>10, <3>6, <4>1, <4>2 DEF x
    <3> QED BY <3>9, <3>11 DEF K
  <2> HIDE DEF f, b, key
  <2>3. \A n \in 1..N : key[n] \in Instruments /\ b[n] \in Int BY <2>1
  <2>4. \A i \in Instruments : f[i] = SumOver(b, Keyed(1..N, key, i)) BY <2>2
  <2>5. IsFiniteSet(Instruments) BY <1>4
  <2> DEFINE S == 1..N
  <2>6. /\ IsFiniteSet(S) /\ \A n \in S : key[n] \in Instruments /\ b[n] \in Int
        /\ \A i \in Instruments : f[i] = SumOver(b, Keyed(S, key, i))
    BY <1>5, <2>3, <2>4
  <2> HIDE DEF S
  <2>7. SumOver(f, Instruments) = SumOver(b, S) BY ONLY <2>5, <2>6, SumOfParts
  <2> QED BY <2>7 DEF S
<1>13. SumOver(f, Items) = SumOver(f, Currencies) + SumOver(f, Instruments)
  <2> HIDE DEF f
  <2> QED BY <1>4, <1>10, SumOfUnion
<1>14. SumOver(b, 1..N) \in Int BY ActsAreSummed DEF acts, N
<1>15. WorthIn(bk, w, G) = SumOver(f, Items) BY DEF WorthIn
<1> HIDE DEF f
<1>16. WorthIn(bk, w, G) = SumOver(b, 1..N) + (IF Base \in G THEN s.cash - SumOver(Taken(acts), 1..N) ELSE 0)
  BY <1>1, <1>7, <1>11, <1>12, <1>13, <1>14, <1>15
<1> QED BY <1>9, <1>16 DEF w, acts, N, b

\* What a transaction that is booked now adds to the states.
IsBookedNow(bk, a, c) ==
  /\ bk.id = Cardinality(ledger) + 1 /\ bk.account = a /\ bk.eff = c /\ bk.known = c
  /\ bk.cash \in [Currencies -> Int] /\ bk.pos \in [Instruments -> Int]

\* The ledger with a transaction added.
With(bk) == ledger \cup {bk}

\* It adds its legs to the state of its account, and changes no other.
LEMMA StatesWithBooking ==
  ASSUME LedgerInv, NEW c \in Times, NEW a, NEW bk, IsBookedNow(bk, a, c)
  PROVE  LET more == With(bk)
         IN  /\ AreBooked(ledger) /\ AreBooked(more)
             /\ \A b : b # a => StateAt(more, b, c) = StateAt(ledger, b, c)
             /\ \A b : \A x \in Items : Amount(StateAt(ledger, b, c), x) \in Int
             /\ \A x \in Items :
                  Amount(StateAt(more, a, c), x) = Amount(StateAt(ledger, a, c), x) + Amount(bk, x)
             /\ \A b : /\ StateAt(more, b, c).cash \in [Currencies -> Int]
                       /\ StateAt(more, b, c).pos \in [Instruments -> Int]
<1> DEFINE more == ledger \cup {bk}
           Seen(b) == Transactions(ledger, b, c, c)
           Then(b) == Transactions(more, b, c, c)
<1>1. /\ bk.id = Cardinality(ledger) + 1 /\ bk.account = a /\ bk.eff = c /\ bk.known = c
      /\ bk.cash \in [Currencies -> Int] /\ bk.pos \in [Instruments -> Int]
  BY DEF IsBookedNow
<1>2. /\ IsFiniteSet(ledger) /\ Cardinality(ledger) \in Nat
      /\ \A t \in ledger : t.id \in 1..Cardinality(ledger) /\ t.cash \in [Currencies -> Int]
                           /\ t.pos \in [Instruments -> Int]
  BY FS_CardinalityType DEF LedgerInv
<1>3. bk \notin ledger BY <1>1, <1>2
<1>4. AreBooked(ledger) BY <1>2 DEF AreBooked
<1>5. AreBooked(more)
  <2>1. IsFiniteSet(more) BY <1>2, FS_AddElement
  <2> QED BY <1>1, <1>2, <2>1 DEF AreBooked
<1>6. c <= c
  <2>1. c \in Int BY DEF Times
  <2> QED BY <2>1
<1>7. \A b : Then(b) = IF b = a THEN Seen(b) \cup {bk} ELSE Seen(b)
  <2>1. \A b : Seen(b) = {t \in ledger : t.account = b /\ t.eff <= c /\ t.known <= c}
    BY DEF Transactions, Visible
  <2>2. \A b : Then(b) = {t \in more : t.account = b /\ t.eff <= c /\ t.known <= c}
    BY DEF Transactions, Visible
  <2> HIDE DEF Seen, Then
  <2> QED BY <1>1, <1>6, <2>1, <2>2
<1>8. \A b : Seen(b) \in SUBSET ledger /\ Then(b) \in SUBSET more BY DEF Transactions, Visible
<1>9. \A b : AreBooked(Seen(b)) /\ AreBooked(Then(b))
  <2> SUFFICES ASSUME NEW b PROVE AreBooked(Seen(b)) /\ AreBooked(Then(b)) OBVIOUS
  <2>1. Seen(b) \in SUBSET ledger /\ Then(b) \in SUBSET more BY <1>8
  <2> HIDE DEF Seen, Then, more
  <2>2. IsFiniteSet(Seen(b)) /\ IsFiniteSet(Then(b)) BY <1>4, <1>5, <2>1, FS_Subset DEF AreBooked
  <2> QED BY <1>4, <1>5, <2>1, <2>2 DEF AreBooked
<1>10. \A b : StateAt(ledger, b, c) = StateOf(Seen(b)) /\ StateAt(more, b, c) = StateOf(Then(b))
  BY DEF StateAt, State
<1> HIDE DEF Seen, Then, more
<1>11. \A b : \A x \in Items : Amount(StateAt(ledger, b, c), x) \in Int
  BY <1>9, <1>10, StateIsTyped
<1>12. \A b : /\ StateAt(more, b, c).cash \in [Currencies -> Int]
              /\ StateAt(more, b, c).pos \in [Instruments -> Int]
  BY <1>9, <1>10, StateIsTyped
<1>13. ASSUME NEW x \in Items
       PROVE  Amount(StateAt(more, a, c), x) = Amount(StateAt(ledger, a, c), x) + Amount(bk, x)
  <2> DEFINE S == Seen(a)
             U == Then(a)
             f == [t \in S |-> Amount(t, x)]
             g == [t \in U |-> Amount(t, x)]
  <2>1. U = S \cup {bk} /\ bk \in U /\ bk \notin S /\ U \ {bk} = S BY <1>3, <1>7, <1>8
  <2>2. AreBooked(S) /\ AreBooked(U) BY <1>9
  <2>3. /\ Amount(StateOf(S), x) = SumOver(f, S) /\ Amount(StateOf(U), x) = SumOver(g, U)
        /\ Amount(StateOf(S), x) \in Int
    BY <2>2, StateIsTyped
  <2>4. \A t \in U : g[t] = Amount(t, x) /\ g[t] \in Int BY <2>2 DEF AreBooked, Amount, Items
  <2>5. \A t \in S : g[t] = f[t] /\ f[t] \in Int BY <2>1, <2>4
  <2>6. IsFiniteSet(S) /\ IsFiniteSet(U) BY <2>2 DEF AreBooked
  <2> HIDE DEF S, U, f, g
  <2>7. SumOver(g, U) = g[bk] + SumOver(g, U \ {bk}) BY <2>1, <2>4, <2>6, SumSplits
  <2>8. SumOver(g, S) = SumOver(f, S) BY <2>5, <2>6, SumsOfEquals
  <2>9. SumOver(g, U) = Amount(bk, x) + SumOver(f, S) BY <2>1, <2>4, <2>7, <2>8
  <2>10. Amount(bk, x) \in Int BY <2>1, <2>4
  <2>11. Amount(StateOf(U), x) = Amount(StateOf(S), x) + Amount(bk, x) BY <2>3, <2>9, <2>10
  <2> QED BY <1>10, <2>11 DEF S, U
<1>14. \A b : b # a => StateAt(more, b, c) = StateAt(ledger, b, c) BY <1>7, <1>10
<1> QED BY <1>4, <1>5, <1>11, <1>12, <1>13, <1>14 DEF more, With

\* What is added to the amounts is added to what they are worth.
LEMMA WorthAdds ==
  ASSUME NEW w, NEW old, NEW new, NEW bk, NEW G,
         \A x \in Items : /\ w[x] \in Int /\ Amount(old, x) \in Int /\ Amount(bk, x) \in Int
                          /\ Amount(new, x) = Amount(old, x) + Amount(bk, x)
  PROVE  /\ WorthIn(new, w, G) = WorthIn(old, w, G) + WorthIn(bk, w, G)
         /\ WorthIn(old, w, G) \in Int /\ WorthIn(bk, w, G) \in Int
<1> DEFINE f == [x \in Items |-> IF x \in G THEN Amount(old, x) * w[x] ELSE 0]
           g == [x \in Items |-> IF x \in G THEN Amount(bk, x) * w[x] ELSE 0]
           h == [x \in Items |-> IF x \in G THEN Amount(new, x) * w[x] ELSE 0]
<1>1. IsFiniteSet(Items) BY FS_Union, ReadsAssumption DEF Items
<1>2. ASSUME NEW x \in Items PROVE f[x] \in Int /\ g[x] \in Int /\ h[x] = f[x] + g[x]
  <2>1. /\ w[x] \in Int /\ Amount(old, x) \in Int /\ Amount(bk, x) \in Int
        /\ Amount(new, x) = Amount(old, x) + Amount(bk, x)
    OBVIOUS
  <2>2. Amount(old, x) * w[x] \in Int /\ Amount(bk, x) * w[x] \in Int BY <2>1
  <2>3. Amount(new, x) * w[x] = Amount(old, x) * w[x] + Amount(bk, x) * w[x] BY <2>1
  <2> QED BY <2>2, <2>3
<1>3. WorthIn(new, w, G) = SumOver(h, Items) /\ WorthIn(old, w, G) = SumOver(f, Items)
      /\ WorthIn(bk, w, G) = SumOver(g, Items)
  BY DEF WorthIn
<1> HIDE DEF f, g, h
<1>4. SumOver(f, Items) \in Int /\ SumOver(g, Items) \in Int BY <1>1, <1>2, SumIsInteger
<1>5. SumOver(h, Items) = SumOver(f, Items) + SumOver(g, Items) BY <1>1, <1>2, SumOfTwo
<1> QED BY <1>3, <1>4, <1>5

\* The states of two sets of accounts, of which one is worth d more.
OneGains(A, a, old, new, w, G, d) ==
  /\ IsFiniteSet(A) /\ a \in A /\ d \in Int
  /\ \A b \in A : WorthIn(old[b], w, G) \in Int
  /\ \A b \in A : b # a => WorthIn(new[b], w, G) = WorthIn(old[b], w, G)
  /\ WorthIn(new[a], w, G) = WorthIn(old[a], w, G) + d

\* When one of the accounts gains, all of them together gain the same.
LEMMA WorthOfOne ==
  ASSUME NEW A, NEW a, NEW old, NEW new, NEW w, NEW G, NEW d, OneGains(A, a, old, new, w, G, d)
  PROVE  /\ WorthBy(A, new, w, G) = WorthBy(A, old, w, G) + d
         /\ WorthBy(A, old, w, G) \in Int
<1> DEFINE f == [b \in A |-> WorthIn(old[b], w, G)]
           g == [b \in A |-> WorthIn(new[b], w, G)]
           rest == A \ {a}
<1>0. /\ IsFiniteSet(A) /\ a \in A /\ d \in Int
      /\ \A b \in A : WorthIn(old[b], w, G) \in Int
      /\ \A b \in A : b # a => WorthIn(new[b], w, G) = WorthIn(old[b], w, G)
      /\ WorthIn(new[a], w, G) = WorthIn(old[a], w, G) + d
  BY DEF OneGains
<1>1. \A b \in A : f[b] \in Int /\ g[b] \in Int BY <1>0
<1>2. \A b \in rest : g[b] = f[b] /\ f[b] \in Int BY <1>0
<1>3. g[a] = f[a] + d BY <1>0
<1>4. IsFiniteSet(rest) BY <1>0, FS_Subset
<1>5. WorthBy(A, new, w, G) = SumOver(g, A) /\ WorthBy(A, old, w, G) = SumOver(f, A) BY DEF WorthBy
<1> HIDE DEF f, g
<1>6. SumOver(g, A) = g[a] + SumOver(g, rest) /\ SumOver(f, A) = f[a] + SumOver(f, rest)
  BY <1>0, <1>1, SumSplits
<1>7. SumOver(g, rest) = SumOver(f, rest) /\ SumOver(f, rest) \in Int
  <2> HIDE DEF rest
  <2> QED BY <1>2, <1>4, SumsOfEquals, SumIsInteger
<1> QED BY <1>0, <1>1, <1>3, <1>5, <1>6, <1>7

\* The worth of each group before a scenario and after it.
Now(accounts, c) == WorthOf(accounts, StatesAt(ledger, accounts, c), Prices(c))
Once(accounts, c, s) == After(Now(accounts, c), s.cash, Acts(s, c), Len(Acts(s, c)))

\* A scenario can be booked on an account that then is short of nothing.
CanBook(s, a, c) ==
  \A i \in Instruments : State(ledger, a, c, c).pos[i] + Traded(s, i) >= 0

\* What the groups are worth now are integers.
LEMMA NowIsWorthy ==
  ASSUME LedgerInv, ContentInv, NEW accounts, IsFiniteSet(accounts), NEW c
  PROVE  /\ Now(accounts, c) \in Worthy
         /\ \A G : \A a \in accounts : WorthIn(StateAt(ledger, a, c), Prices(c), G) \in Int
<1> DEFINE w == Prices(c)
           state(a) == StateAt(ledger, a, c)
<1>1. \A a : \A x \in Items : Amount(state(a), x) \in Int
  <2> SUFFICES ASSUME NEW a PROVE \A x \in Items : Amount(state(a), x) \in Int OBVIOUS
  <2> DEFINE S == Transactions(ledger, a, c, c)
  <2>1. S \in SUBSET ledger BY DEF Transactions, Visible
  <2>2. AreBooked(S)
    <3> HIDE DEF S
    <3> QED BY <2>1, FS_Subset DEF LedgerInv, AreBooked
  <2>3. state(a) = StateOf(S) BY DEF StateAt, State
  <2> HIDE DEF S, state
  <2> QED BY <2>2, <2>3, StateIsTyped
<1>2. \A x \in Items : w[x] \in Int BY PricesAreIntegers
<1> HIDE DEF w, state
<1>3. ASSUME NEW G, NEW a PROVE WorthIn(state(a), w, G) \in Int
  <2> DEFINE f == [x \in Items |-> IF x \in G THEN Amount(state(a), x) * w[x] ELSE 0]
  <2>1. IsFiniteSet(Items) BY FS_Union, ReadsAssumption DEF Items
  <2>2. \A x \in Items : f[x] \in Int
    <3> SUFFICES ASSUME NEW x \in Items PROVE Amount(state(a), x) * w[x] \in Int OBVIOUS
    <3>1. Amount(state(a), x) \in Int /\ w[x] \in Int BY <1>1, <1>2
    <3> QED BY <3>1
  <2>3. WorthIn(state(a), w, G) = SumOver(f, Items) BY DEF WorthIn
  <2> HIDE DEF f
  <2> QED BY <2>1, <2>2, <2>3, SumIsInteger
<1>4. ASSUME NEW G PROVE Now(accounts, c)[G] \in Int \/ G \notin SUBSET Items
  <2> DEFINE f == [a \in accounts |-> WorthIn(StatesAt(ledger, accounts, c)[a], Prices(c), G)]
  <2>1. \A a \in accounts : f[a] \in Int BY <1>3 DEF StatesAt, state, w
  <2>2. G \in SUBSET Items => Now(accounts, c)[G] = SumOver(f, accounts) BY DEF Now, WorthOf, WorthBy
  <2> HIDE DEF f
  <2> QED BY <2>1, <2>2, SumIsInteger
<1>5. Now(accounts, c) = [G \in SUBSET Items |-> Now(accounts, c)[G]] BY DEF Now, WorthOf
<1>6. Now(accounts, c) \in Worthy BY <1>4, <1>5 DEF Worthy
<1> QED BY <1>3, <1>6 DEF state, w

\* Booking a scenario that is quoted leaves no gap in a valuation that had none: it is
\* short of nothing, and all it trades has a price.
LEMMA NoGapsBooked ==
  ASSUME LedgerInv, ContentInv, NEW s \in Scenarios, NEW c \in Times, AllQuoted(s, c),
         NEW accounts, NEW a \in accounts, CanBook(s, a, c), NoGaps(ledger, accounts, c),
         NEW bk, IsBookedNow(bk, a, c), IsBookingOf(bk, s, c)
  PROVE  NoGaps(With(bk), accounts, c)
<1> DEFINE more == With(bk)
           old == StateAt(ledger, a, c)
           new == StateAt(more, a, c)
           rows == Market(c)
<1>1. /\ \A b : b # a => StateAt(more, b, c) = StateAt(ledger, b, c)
      /\ \A x \in Items : Amount(old, x) \in Int /\ Amount(new, x) = Amount(old, x) + Amount(bk, x)
      /\ new.cash \in [Currencies -> Int] /\ new.pos \in [Instruments -> Int]
  <2>1. /\ \A b : b # a => StateAt(more, b, c) = StateAt(ledger, b, c)
        /\ \A b : \A x \in Items : Amount(StateAt(ledger, b, c), x) \in Int
        /\ \A x \in Items :
             Amount(StateAt(more, a, c), x) = Amount(StateAt(ledger, a, c), x) + Amount(bk, x)
        /\ \A b : /\ StateAt(more, b, c).cash \in [Currencies -> Int]
                  /\ StateAt(more, b, c).pos \in [Instruments -> Int]
    BY StatesWithBooking
  <2> HIDE DEF more
  <2> QED BY <2>1
<1>2. Gaps(old, rows) = {} BY DEF NoGaps
<1>3. /\ \A d \in Currencies : d \in Items /\ Amount(old, d) = old.cash[d] /\ Amount(new, d) = new.cash[d]
      /\ \A i \in Instruments : /\ i \in Items /\ i \notin Currencies
                                /\ Amount(old, i) = old.pos[i] /\ Amount(new, i) = new.pos[i]
      /\ \A d \in Currencies \ {Base} : Amount(bk, d) = 0
      /\ \A i \in Instruments : Amount(bk, i) = Traded(s, i)
      /\ Base \in Currencies
  BY ReadsAssumption DEF Amount, Items, IsBookingOf
<1>4. \A i \in Instruments : old.pos[i] + Traded(s, i) >= 0 BY DEF CanBook, StateAt
<1>5. \A i \in Instruments : UnitValue(i, rows) = {} => Traded(s, i) = 0
  <2> SUFFICES ASSUME NEW i \in Instruments, UnitValue(i, rows) = {} PROVE Traded(s, i) = 0
    OBVIOUS
  <2> DEFINE f == [n \in DOMAIN s.actions |-> IF s.actions[n].instrument = i
                                              THEN s.actions[n].quantity ELSE 0]
             D == DOMAIN s.actions
  <2>1. \A n \in D : UnitValues(s.actions[n].instrument, c) # {} BY DEF AllQuoted
  <2>2. UnitValues(i, c) = {} BY UnitValuesAtMarket
  <2>3. \A n \in D : s.actions[n].instrument # i BY <2>1, <2>2
  <2>4. \A n \in D : f[n] = 0 BY <2>3
  <2>5. IsFiniteSet(D)
    <3>1. D = 1..Len(s.actions) /\ Len(s.actions) \in Nat BY PricedActions
    <3> HIDE DEF D
    <3> QED BY <3>1, FS_Interval
  <2>6. Traded(s, i) = SumOver(f, D) BY <2>5, TradedIsSum
  <2> HIDE DEF f, D
  <2>7. SumOver(f, D) = SumOver(f, {})
    <3>1. {} \in SUBSET D /\ \A n \in D : f[n] \in Int BY <2>4
    <3> QED BY <2>4, <2>5, <3>1, SumWithoutZeros
  <2>8. SumOver(f, {}) = 0 BY FS_EmptySet, SumUnfolds
  <2> QED BY <2>6, <2>7, <2>8
<1>6. /\ \A d \in Currencies : old.cash[d] # 0 => Factor(d, rows) # {}
      /\ \A i \in Instruments : old.pos[i] # 0 => UnitValue(i, rows) # {}
  BY <1>2 DEF Gaps, Held
<1>7. Factor(Base, rows) # {} BY DEF Factor
<1> HIDE DEF new, old, rows
<1>8. \A d \in Currencies : new.cash[d] # 0 => Factor(d, rows) # {}
  <2> SUFFICES ASSUME NEW d \in Currencies, d # Base, new.cash[d] # 0 PROVE Factor(d, rows) # {}
    BY <1>7
  <2>1. new.cash[d] = old.cash[d]
    <3>1. Amount(new, d) = Amount(old, d) + 0 /\ Amount(old, d) \in Int BY <1>1, <1>3
    <3> QED BY <1>3, <3>1
  <2> QED BY <1>6, <2>1
<1>9. \A i \in Instruments : new.pos[i] # 0 => ~(new.pos[i] < 0) /\ UnitValue(i, rows) # {}
  <2> SUFFICES ASSUME NEW i \in Instruments, new.pos[i] # 0
               PROVE  ~(new.pos[i] < 0) /\ UnitValue(i, rows) # {}
    OBVIOUS
  <2>1. new.pos[i] = old.pos[i] + Traded(s, i) /\ old.pos[i] \in Int /\ Traded(s, i) \in Int
    BY <1>1, <1>3, TradedIsInteger
  <2>2. new.pos[i] >= 0 BY <1>4, <2>1
  <2>3. UnitValue(i, rows) # {}
    <3> SUFFICES ASSUME UnitValue(i, rows) = {} PROVE FALSE OBVIOUS
    <3>1. Traded(s, i) = 0 /\ old.pos[i] = 0 BY <1>5, <1>6
    <3> QED BY <2>1, <3>1
  <2> QED BY <2>1, <2>2, <2>3
<1>10. Gaps(new, rows) = {} BY <1>8, <1>9 DEF Gaps, Held
<1>11. \A b \in accounts : b # a => Gaps(StateAt(more, b, c), rows) = {}
  BY <1>1 DEF NoGaps, rows
<1> QED BY <1>10, <1>11 DEF NoGaps, new, rows

\* With the booking the groups are worth what they are after the scenario's actions.
LEMMA WorthWithBooking ==
  ASSUME LedgerInv, ContentInv, NEW s \in Scenarios, NEW c \in Times, AllQuoted(s, c),
         Change(s, c) % Scale = 0, NEW accounts, IsFiniteSet(accounts), NEW a \in accounts,
         NEW bk, IsBookedNow(bk, a, c), IsBookingOf(bk, s, c)
  PROVE  WorthOf(accounts, StatesAt(With(bk), accounts, c), Prices(c)) = Once(accounts, c, s)
<1> DEFINE more == With(bk)
           w == Prices(c)
           old == StatesAt(ledger, accounts, c)
           new == StatesAt(more, accounts, c)
           acts == Acts(s, c)
           N == Len(acts)
           d(G) == SumOver(Brought(acts, G), 1..N) + (IF Base \in G THEN s.cash - SumOver(Taken(acts), 1..N) ELSE 0)
<1>1. /\ \A b \in accounts : b # a => new[b] = old[b]
      /\ \A b \in accounts : \A x \in Items : Amount(old[b], x) \in Int
      /\ \A x \in Items : Amount(new[a], x) = Amount(old[a], x) + Amount(bk, x)
  <2>1. /\ \A b : b # a => StateAt(more, b, c) = StateAt(ledger, b, c)
        /\ \A b : \A x \in Items : Amount(StateAt(ledger, b, c), x) \in Int
        /\ \A x \in Items :
             Amount(StateAt(more, a, c), x) = Amount(StateAt(ledger, a, c), x) + Amount(bk, x)
    BY StatesWithBooking
  <2> HIDE DEF more
  <2> QED BY <2>1 DEF StatesAt
<1>2. \A x \in Items : w[x] \in Int BY PricesAreIntegers
<1>3. \A G : /\ \A x \in Items : Amount(bk, x) \in Int
             /\ WorthIn(bk, w, G) = d(G)
  BY BookingIsWorth
<1> HIDE DEF w, old, new, acts, N, d
<1>4. \A G : \A b \in accounts : WorthIn(old[b], w, G) \in Int BY NowIsWorthy DEF StatesAt, old, w
<1>5. \A G : WorthIn(new[a], w, G) = WorthIn(old[a], w, G) + d(G) /\ d(G) \in Int
  <2> SUFFICES ASSUME NEW G PROVE WorthIn(new[a], w, G) = WorthIn(old[a], w, G) + d(G) /\ d(G) \in Int
    OBVIOUS
  <2>1. \A x \in Items : /\ w[x] \in Int /\ Amount(old[a], x) \in Int /\ Amount(bk, x) \in Int
                         /\ Amount(new[a], x) = Amount(old[a], x) + Amount(bk, x)
    BY <1>1, <1>2, <1>3
  <2>2. /\ WorthIn(new[a], w, G) = WorthIn(old[a], w, G) + WorthIn(bk, w, G)
        /\ WorthIn(bk, w, G) \in Int
    BY ONLY <2>1, WorthAdds
  <2> QED BY <1>3, <2>2
<1>6. ASSUME NEW G
      PROVE  /\ WorthBy(accounts, new, w, G) = WorthBy(accounts, old, w, G) + d(G)
             /\ WorthBy(accounts, old, w, G) \in Int
  <2>1. \A b \in accounts : WorthIn(old[b], w, G) \in Int BY <1>4
  <2>2. \A b \in accounts : b # a => WorthIn(new[b], w, G) = WorthIn(old[b], w, G) BY <1>1
  <2>3. WorthIn(new[a], w, G) = WorthIn(old[a], w, G) + d(G) /\ d(G) \in Int BY <1>5
  <2>4. IsFiniteSet(accounts) /\ a \in accounts OBVIOUS
  <2>5. OneGains(accounts, a, old, new, w, G, d(G)) BY <2>1, <2>2, <2>3, <2>4 DEF OneGains
  <2> QED BY <2>5, WorthOfOne
<1>8. Now(accounts, c) = WorthOf(accounts, old, w) BY DEF Now, old, w
<1>9. /\ N \in Nat /\ s.cash \in Int
      /\ \A G : SumOver(Brought(acts, G), 1..N) \in Int
      /\ SumOver(Taken(acts), 1..N) \in Int
  BY ActsAreSummed DEF acts, N
<1>10. \A G \in SUBSET Items :
         WorthOf(accounts, new, w)[G] = After(WorthOf(accounts, old, w), s.cash, acts, N)[G]
  <2> SUFFICES ASSUME NEW G \in SUBSET Items
               PROVE  WorthBy(accounts, new, w, G)
                        = WorthBy(accounts, old, w, G) + SumOver(Brought(acts, G), 1..N)
                            + (IF Base \in G THEN s.cash - SumOver(Taken(acts), 1..N) ELSE 0)
    BY DEF WorthOf, After
  <2> DEFINE x == WorthBy(accounts, old, w, G)
             y == SumOver(Brought(acts, G), 1..N)
             z == IF Base \in G THEN s.cash - SumOver(Taken(acts), 1..N) ELSE 0
  <2>1. x \in Int /\ y \in Int /\ z \in Int BY <1>6, <1>9
  <2>2. d(G) = y + z BY DEF d
  <2>3. WorthBy(accounts, new, w, G) = x + d(G) BY <1>6
  <2> HIDE DEF x, y, z
  <2>4. WorthBy(accounts, new, w, G) = x + y + z BY <2>1, <2>2, <2>3
  <2> QED BY <2>4 DEF x, y, z
<1>11. WorthOf(accounts, new, w) = After(WorthOf(accounts, old, w), s.cash, acts, N)
  <2>1. \A f : DOMAIN WorthOf(accounts, f, w) = SUBSET Items BY DEF WorthOf
  <2>2. \A W : DOMAIN After(W, s.cash, acts, N) = SUBSET Items BY DEF After
  <2>3. /\ WorthOf(accounts, new, w) = [G \in SUBSET Items |-> WorthOf(accounts, new, w)[G]]
        /\ After(WorthOf(accounts, old, w), s.cash, acts, N)
             = [G \in SUBSET Items |-> After(WorthOf(accounts, old, w), s.cash, acts, N)[G]]
    BY DEF WorthOf, After
  <2> QED BY <1>10, <2>3
<1> QED BY <1>8, <1>11 DEF Once, new, w, acts, N

\* The simulation of a scenario is the portfolio with the scenario booked.
LEMMA BookedIsSimulated ==
  ASSUME LedgerInv, ContentInv, NEW s \in Scenarios, NEW c \in Times, AllQuoted(s, c),
         Change(s, c) % Scale = 0, NEW v \in PlainValuation(ledger, datasets, AccountsAt(c), c, c)
  PROVE  \A x \in Simulated(v, Priced(s, c)) :
           x = Composed(Once(AccountsAt(c), c, s)) /\ x.complete /\ Booked(s, c) \subseteq {x}
<1> DEFINE A == AccountsAt(c)
           C == Composed(Once(A, c, s))
<1>1. IsFiniteSet(A)
  <2>1. A \in SUBSET Accounts BY DEF AccountsAt, At, Members
  <2> QED BY <2>1, FS_Subset, RecordsAssumption
<1>2. AreBooked(ledger) BY DEF LedgerInv, AreBooked
<1> SUFFICES ASSUME NEW x \in Simulated(v, Priced(s, c))
             PROVE  x = C /\ x.complete /\ Booked(s, c) \subseteq {x}
  OBVIOUS
<1>3. v.complete /\ x \in Simulation(WithNewCash(v, s.cash), Acts(s, c))
  BY PricedActions DEF Simulated, Raised, Acts
<1>4. NoGaps(ledger, A, c)
  <2>1. v.complete = NoGaps(ledger, A, c)
    <3>1. \A lines, b : Aggregate(lines, b).complete = b BY DEF Aggregate
    <3>2. v = Aggregate(UNION {MarketLines(ledger, A, c)[a] : a \in A}, NoGaps(ledger, A, c))
      BY ValuationAtMarket
    <3> QED BY <3>1, <3>2
  <2> QED BY <1>3, <2>1
<1>5. v = Composed(Now(A, c))
  <2> HIDE DEF A
  <2> QED BY <1>1, <1>2, <1>4, CompleteIsComposed DEF Now, A
<1>6. Now(A, c) \in Worthy
  <2> HIDE DEF A
  <2> QED BY <1>1, NowIsWorthy
<1>7. x = C
  <2>1. s.cash \in Int /\ Acts(s, c) \in Seq(ActionSet) BY PricedActions
  <2>2. Simulation(WithNewCash(Composed(Now(A, c)), s.cash), Acts(s, c)) \subseteq {C}
    <3> HIDE DEF A
    <3> QED BY <1>6, <2>1, SimulationIsComposed DEF Once
  <2> QED BY <1>3, <1>5, <2>2
<1>8. x.complete BY <1>7 DEF Composed
<1>9. ASSUME NEW a \in A, CanBook(s, a, c), NEW y \in PlainValuation(ledger \cup {Booking(s, a, c)}, datasets, A, c, c)
      PROVE  y = C
  <2> DEFINE bk == Booking(s, a, c)
  <2>1. IsBookingOf(bk, s, c) BY DEF Booking, IsBookingOf
  <2>2. IsBookedNow(bk, a, c)
    <3>1. \A i : Traded(s, i) \in Int BY TradedIsInteger
    <3>2. Change(s, c) \div Scale \in Int
      <4>1. Change(s, c) \in Int BY ActsAreSummed
      <4>2. Scale \in Nat \ {0} BY ReadsAssumption
      <4> QED BY <4>1, <4>2
    <3>3. bk.cash = [d \in Currencies |-> IF d = Base THEN Change(s, c) \div Scale ELSE 0]
          /\ bk.pos = [i \in Instruments |-> Traded(s, i)]
      BY <2>1 DEF IsBookingOf
    <3>4. bk.cash \in [Currencies -> Int] /\ bk.pos \in [Instruments -> Int] BY <3>1, <3>2, <3>3
    <3>5. bk.id = Cardinality(ledger) + 1 /\ bk.account = a /\ bk.eff = c /\ bk.known = c BY DEF Booking
    <3> QED BY <3>4, <3>5 DEF IsBookedNow
  <2> HIDE DEF bk, A
  <2>3. NoGaps(With(bk), A, c) BY <1>4, <1>9, <2>1, <2>2, NoGapsBooked
  <2>4. AreBooked(With(bk)) BY <2>2, StatesWithBooking
  <2>5. y = Composed(WorthOf(A, StatesAt(With(bk), A, c), Prices(c)))
    BY <1>1, <1>9, <2>3, <2>4, CompleteIsComposed DEF bk, With
  <2>6. WorthOf(A, StatesAt(With(bk), A, c), Prices(c)) = Once(A, c, s)
    BY <1>1, <2>1, <2>2, WorthWithBooking
  <2> QED BY <2>5, <2>6
<1>10. Booked(s, c) \subseteq {C} BY <1>9 DEF Booked, CanBook
<1> QED BY <1>7, <1>8, <1>10

\* A total order of a finite set has a least element.
LEMMA LeastExists ==
  ASSUME NEW S, IsFiniteSet(S), S # {}, NEW before, TotallyOrders(before, S)
  PROVE  \E x \in S : \A y \in S \ {x} : <<x, y>> \in before
<1>1. Cardinality(S) \in Nat /\ Cardinality(S) # 0 BY FS_CardinalityType, FS_EmptySet
<1>2. 1 \in 1..Cardinality(S) BY <1>1
<1> DEFINE x == Sorted(S, before)[1]
<1>3. x \in S /\ Position(x, S, before) = 0 BY <1>2, SortedHasEach
<1> HIDE DEF x
<1>4. {y \in S : <<y, x>> \in before} = {}
  <2> DEFINE T == {y \in S : <<y, x>> \in before}
  <2>1. IsFiniteSet(T) BY FS_Subset
  <2>2. Cardinality(T) = 0 BY <1>3 DEF Position
  <2> HIDE DEF T
  <2>3. T = {} BY <2>1, <2>2, FS_EmptySet
  <2> QED BY <2>3 DEF T
<1> QED BY <1>3, <1>4 DEF TotallyOrders

-----------------------------------------------------------------------------
(* The recommendation *)

\* A rank: compliance, hard failures, failures, fees and key.
Ranks == [1..5 -> Int]

\* One rank is before another where they first differ.
LEMMA BeforeAt ==
  ASSUME NEW r \in Ranks, NEW s \in Ranks
  PROVE  Before(r, s) <=> \E i \in 1..5 : r[i] < s[i] /\ \A j \in 1..5 : j < i => r[j] = s[j]
<1>1. DOMAIN r = 1..5 BY DEF Ranks
<1>2. \A i \in 1..5 : \A j : j \in 1..(i - 1) <=> j \in 1..5 /\ j < i OBVIOUS
<1> QED BY <1>1, <1>2 DEF Before

\* Before orders ranks, and totally those of different keys.
LEMMA RanksAreOrdered ==
  ASSUME NEW r \in Ranks, NEW s \in Ranks
  PROVE  /\ ~Before(r, r)
         /\ r[5] # s[5] => Before(r, s) \/ Before(s, r)
         /\ \A t \in Ranks : Before(r, s) /\ Before(s, t) => Before(r, t)
         /\ Before(r, s) => r[1] <= s[1]
<1>1. \A i \in 1..5 : r[i] \in Int /\ s[i] \in Int BY DEF Ranks
<1>2. ~Before(r, r) BY <1>1, BeforeAt
<1>3. ASSUME r[5] # s[5] PROVE Before(r, s) \/ Before(s, r)
  <2>1. ASSUME NEW i \in 1..5, r[i] # s[i], \A j \in 1..5 : j < i => r[j] = s[j]
        PROVE  Before(r, s) \/ Before(s, r)
    <3>1. r[i] < s[i] \/ s[i] < r[i] BY <1>1, <2>1
    <3> QED BY <2>1, <3>1, BeforeAt
  <2>2. \E i \in 1..5 : r[i] # s[i] /\ \A j \in 1..5 : j < i => r[j] = s[j]
    <3>1. CASE r[1] # s[1]
      <4>1. 1 \in 1..5 /\ \A j \in 1..5 : ~(j < 1) OBVIOUS
      <4> QED BY <3>1, <4>1
    <3>2. CASE r[1] = s[1] /\ r[2] # s[2]
      <4>1. 2 \in 1..5 /\ \A j \in 1..5 : j < 2 => j = 1 OBVIOUS
      <4> QED BY <3>2, <4>1
    <3>3. CASE r[1] = s[1] /\ r[2] = s[2] /\ r[3] # s[3]
      <4>1. 3 \in 1..5 /\ \A j \in 1..5 : j < 3 => j = 1 \/ j = 2 OBVIOUS
      <4> QED BY <3>3, <4>1
    <3>4. CASE r[1] = s[1] /\ r[2] = s[2] /\ r[3] = s[3] /\ r[4] # s[4]
      <4>1. 4 \in 1..5 /\ \A j \in 1..5 : j < 4 => j = 1 \/ j = 2 \/ j = 3 OBVIOUS
      <4> QED BY <3>4, <4>1
    <3>5. CASE r[1] = s[1] /\ r[2] = s[2] /\ r[3] = s[3] /\ r[4] = s[4]
      <4>1. 5 \in 1..5 /\ \A j \in 1..5 : j < 5 => j = 1 \/ j = 2 \/ j = 3 \/ j = 4 OBVIOUS
      <4> QED BY <1>3, <3>5, <4>1
    <3> QED BY <3>1, <3>2, <3>3, <3>4, <3>5
  <2> QED BY <2>1, <2>2
<1>4. ASSUME NEW t \in Ranks, Before(r, s), Before(s, t) PROVE Before(r, t)
  <2>1. \A i \in 1..5 : t[i] \in Int BY DEF Ranks
  <2>2. PICK i \in 1..5 : r[i] < s[i] /\ \A j \in 1..5 : j < i => r[j] = s[j] BY <1>4, BeforeAt
  <2>3. PICK k \in 1..5 : s[k] < t[k] /\ \A j \in 1..5 : j < k => s[j] = t[j] BY <1>4, BeforeAt
  <2>4. CASE i < k
    <3>1. s[i] = t[i] /\ \A j \in 1..5 : j < i => j < k BY <2>3, <2>4
    <3>2. r[i] < t[i] /\ \A j \in 1..5 : j < i => r[j] = t[j] BY <2>2, <2>3, <3>1
    <3> QED BY <3>2, BeforeAt
  <2>5. CASE k < i
    <3>1. r[k] = s[k] /\ \A j \in 1..5 : j < k => j < i BY <2>2, <2>5
    <3>2. r[k] < t[k] /\ \A j \in 1..5 : j < k => r[j] = t[j] BY <2>2, <2>3, <3>1
    <3> QED BY <3>2, BeforeAt
  <2>6. CASE i = k
    <3>1. r[i] < t[i] BY <1>1, <2>1, <2>2, <2>3, <2>6
    <3>2. \A j \in 1..5 : j < i => r[j] = t[j] BY <2>2, <2>3, <2>6
    <3> QED BY <3>1, <3>2, BeforeAt
  <2> QED BY <2>4, <2>5, <2>6
<1>5. ASSUME Before(r, s) PROVE r[1] <= s[1]
  <2>1. PICK i \in 1..5 : r[i] < s[i] /\ \A j \in 1..5 : j < i => r[j] = s[j] BY <1>5, BeforeAt
  <2>2. 1 \in 1..5 /\ (i = 1 \/ 1 < i) OBVIOUS
  <2>3. r[1] = s[1] \/ r[1] < s[1] BY <2>1, <2>2
  <2> QED BY <1>1, <2>2, <2>3
<1> QED BY <1>2, <1>3, <1>4, <1>5

\* The rank of a scenario, which its key tells from the others.
LEMMA RankIsTyped ==
  ASSUME NEW s \in Scenarios, NEW v, NEW rules, IsFiniteSet(rules)
  PROVE  /\ Rank(s, v, rules) \in Ranks /\ Rank(s, v, rules)[5] = s.key
         /\ Rank(s, v, rules)[1] \in {0, 1}
         /\ Rank(s, v, rules)[1] = 0 <=> Violations(v, rules) = {}
<1> DEFINE failed == Violations(v, rules)
           hard == {r \in failed : r.hard}
           q == s.actions
           X == [instrument : Instruments, quantity : Int, fee : Int]
           f == [n \in DOMAIN q |-> q[n].fee]
<1>1. failed \in SUBSET rules BY DEF Violations
<1>2. IsFiniteSet(failed) BY <1>1, FS_Subset
<1>3. hard \in SUBSET failed OBVIOUS
<1>4. IsFiniteSet(hard) BY <1>2, <1>3, FS_Subset
<1>5. Cardinality(failed) \in Nat /\ Cardinality(hard) \in Nat BY <1>2, <1>4, FS_CardinalityType
<1>6. s.key \in Int /\ q \in Seq(X) BY DEF Scenarios
<1>7. Fees(s) \in Int
  <2>1. \A x \in X : x.fee \in Int OBVIOUS
  <2>2. DOMAIN q = 1..Len(q) /\ Len(q) \in Nat /\ \A n \in DOMAIN q : q[n] \in X
    <3> HIDE DEF q, X
    <3> QED BY <1>6
  <2>3. IsFiniteSet(DOMAIN q) BY <2>2, FS_Interval
  <2>4. Fees(s) = SumOver(f, DOMAIN q) BY <2>3, FeesIsSum
  <2>5. \A n \in DOMAIN q : f[n] \in Int
    <3> HIDE DEF q, X
    <3> QED BY <2>1, <2>2
  <2> HIDE DEF f, q
  <2> QED BY <2>3, <2>4, <2>5, SumIsInteger
<1>8. Rank(s, v, rules) = <<IF failed = {} THEN 0 ELSE 1, Cardinality(hard), Cardinality(failed), Fees(s), s.key>>
  BY DEF Rank
<1> HIDE DEF failed, hard
<1>9. Rank(s, v, rules) \in Ranks BY <1>5, <1>6, <1>7, <1>8 DEF Ranks
<1>10. Rank(s, v, rules)[1] = (IF failed = {} THEN 0 ELSE 1) /\ Rank(s, v, rules)[5] = s.key BY <1>8
<1> QED BY <1>9, <1>10 DEF failed

\* The rank of a simulation by rules.
RankOf(s, rules) == Rank(s.scenario, s.valuation, rules)

\* Simulations of scenarios whose keys are unique.
AreSimulations(sims) ==
  /\ IsFiniteSet(sims)
  /\ \A s \in sims : /\ s.scenario \in Scenarios
                     /\ \A o \in sims : s.scenario.key = o.scenario.key => s = o

\* The recommended simulation is the one of the lowest rank.
LEMMA RecommendedIsLeast ==
  ASSUME NEW sims, AreSimulations(sims), sims # {}, NEW rules, IsFiniteSet(rules)
  PROVE  LET r == Recommended(sims, rules)
         IN  r \in sims /\ \A o \in sims \ {r} : Before(RankOf(r, rules), RankOf(o, rules))
<1> DEFINE before == {p \in sims \X sims : Before(RankOf(p[1], rules), RankOf(p[2], rules))}
           Least(s) == \A o \in sims \ {s} : Before(RankOf(s, rules), RankOf(o, rules))
<1>1. \A x, y \in sims : <<x, y>> \in before <=> Before(RankOf(x, rules), RankOf(y, rules)) OBVIOUS
<1>2. \A x \in sims : RankOf(x, rules) \in Ranks /\ RankOf(x, rules)[5] = x.scenario.key
  BY RankIsTyped DEF RankOf, AreSimulations
<1> HIDE DEF before
<1>3. \A x \in sims : <<x, x>> \notin before BY <1>1, <1>2, RanksAreOrdered
<1>4. \A x, y \in sims : x # y => <<x, y>> \in before \/ <<y, x>> \in before
  BY <1>1, <1>2, RanksAreOrdered DEF AreSimulations
<1>5. \A x, y, z \in sims : <<x, y>> \in before /\ <<y, z>> \in before => <<x, z>> \in before
  BY <1>1, <1>2, RanksAreOrdered
<1>6. TotallyOrders(before, sims) BY <1>3, <1>4, <1>5 DEF TotallyOrders
<1>7. PICK x \in sims : \A y \in sims \ {x} : <<x, y>> \in before
  BY <1>6, LeastExists DEF AreSimulations
<1>8. Least(x) BY <1>1, <1>7
<1>9. Recommended(sims, rules) = CHOOSE s \in sims : Least(s) BY DEF Recommended, RankOf
<1> HIDE DEF Least
<1>10. Recommended(sims, rules) \in sims /\ Least(Recommended(sims, rules)) BY <1>8, <1>9
<1> QED BY <1>10 DEF Least

\* Booking any scenario of a plan gives its simulation, and the recommended one is
\* compliant when any is.
LEMMA PlanIsBooking ==
  ASSUME LedgerInv, ContentInv, NEW plan, IsPlan(plan), NEW c \in Times, Quoted(plan, c),
         NEW v \in PlainValuation(ledger, datasets, AccountsAt(c), c, c),
         NEW sims, sims = Simulations(plan, c, v)
  PROVE  /\ \A s \in sims : Booked(s.scenario, c) \subseteq {s.valuation}
         /\ (\E s \in sims : \E w \in Booked(s.scenario, c) : Evaluation(w, plan.rules) = "compliant")
              => \A w \in Booked(Recommended(sims, plan.rules).scenario, c) :
                   Evaluation(w, plan.rules) = "compliant"
<1> DEFINE rules == plan.rules
           Outcome(s) == [scenario |-> s, valuation |-> Composed(Once(AccountsAt(c), c, s))]
           image == {Outcome(s) : s \in plan.scenarios}
<1>1. /\ IsFiniteSet(plan.scenarios) /\ IsFiniteSet(rules)
      /\ \A s \in plan.scenarios : /\ s \in Scenarios
                                   /\ \A t \in plan.scenarios : s.key = t.key => s = t
  BY DEF IsPlan
<1>2. \A s \in plan.scenarios : AllQuoted(s, c) /\ Change(s, c) % Scale = 0
  BY DEF Quoted, AllQuoted
<1>3. \A s \in plan.scenarios : \A x \in Simulated(v, Priced(s, c)) :
        x = Composed(Once(AccountsAt(c), c, s)) /\ x.complete /\ Booked(s, c) \subseteq {x}
  BY <1>1, <1>2, BookedIsSimulated
<1>4. ASSUME NEW x \in sims
      PROVE  /\ x.scenario \in plan.scenarios /\ x = Outcome(x.scenario)
             /\ x.valuation.complete /\ Booked(x.scenario, c) \subseteq {x.valuation}
  <2>1. PICK s \in plan.scenarios : \E w \in Simulated(v, Priced(s, c)) : x = [scenario |-> s, valuation |-> w]
    BY DEF Simulations
  <2>2. PICK w \in Simulated(v, Priced(s, c)) : x = [scenario |-> s, valuation |-> w] BY <2>1
  <2>3. x.scenario = s /\ x.valuation = w BY <2>2
  <2>4. w = Composed(Once(AccountsAt(c), c, s)) /\ w.complete /\ Booked(s, c) \subseteq {w} BY <1>3
  <2> QED BY <2>2, <2>3, <2>4
<1>5. \A s \in plan.scenarios : Outcome(s).scenario = s OBVIOUS
<1>6. AreSimulations(sims)
  <2> DEFINE h == [s \in plan.scenarios |-> Outcome(s)]
  <2>1. image = {h[s] : s \in plan.scenarios} OBVIOUS
  <2>2. IsFiniteSet({h[s] : s \in plan.scenarios})
    <3> HIDE DEF h
    <3> QED BY <1>1, ImageIsFinite
  <2> HIDE DEF Outcome, h
  <2>3. sims \in SUBSET image BY <1>4
  <2> HIDE DEF image
  <2>4. IsFiniteSet(sims) BY <2>1, <2>2, <2>3, FS_Subset
  <2>5. \A x \in sims : x.scenario \in Scenarios BY <1>1, <1>4
  <2>6. \A x, y \in sims : x.scenario.key = y.scenario.key => x = y BY <1>1, <1>4
  <2> QED BY <2>4, <2>5, <2>6 DEF AreSimulations
<1> HIDE DEF Outcome
<1>7. ASSUME NEW s \in sims, NEW w \in Booked(s.scenario, c), Evaluation(w, rules) = "compliant",
             NEW u \in Booked(Recommended(sims, rules).scenario, c)
      PROVE  Evaluation(u, rules) = "compliant"
  <2> DEFINE r == Recommended(sims, rules)
  <2>1. r \in sims /\ \A o \in sims \ {r} : Before(RankOf(r, rules), RankOf(o, rules))
    BY <1>1, <1>6, <1>7, RecommendedIsLeast
  <2>2. w = s.valuation /\ u = r.valuation /\ u.complete BY <1>4, <1>7, <2>1
  <2>3. Violations(s.valuation, rules) = {} BY <1>7, <2>2 DEF Evaluation
  <2> HIDE DEF r
  <2>4. /\ s.scenario \in Scenarios /\ r.scenario \in Scenarios BY <1>1, <1>4, <2>1
  <2>5. /\ RankOf(s, rules) \in Ranks /\ RankOf(r, rules) \in Ranks
        /\ RankOf(s, rules)[1] = 0 /\ RankOf(r, rules)[1] \in {0, 1}
        /\ RankOf(r, rules)[1] = 0 => Violations(r.valuation, rules) = {}
    BY <1>1, <2>3, <2>4, RankIsTyped DEF RankOf
  <2>6. RankOf(r, rules)[1] = 0
    <3>1. CASE r = s BY <2>5, <3>1
    <3>2. CASE r # s
      <4>1. Before(RankOf(r, rules), RankOf(s, rules)) BY <2>1, <3>2
      <4>2. RankOf(r, rules)[1] <= RankOf(s, rules)[1] BY <2>5, <4>1, RanksAreOrdered
      <4> QED BY <2>5, <4>2
    <3> QED BY <3>1, <3>2
  <2>7. Violations(u, rules) = {} /\ u.complete BY <2>2, <2>5, <2>6
  <2> QED BY <2>7 DEF Evaluation
<1> QED BY <1>4, <1>7

-----------------------------------------------------------------------------
\* Prices and rates stay positive, and there are finitely many.
LEMMA ContentInvHolds == Spec => []ContentInv
<1>1. Init => ContentInv
  <2> SUFFICES ASSUME Init PROVE ContentInv OBVIOUS
  <2>1. IsUse(use) /\ datasets = use.datasets BY ValuationAssumption DEF Init, ObservationsStart
  <2> QED BY <2>1 DEF IsUse, ContentInv
<1>2. ObservationsInv /\ ContentInv /\ [Next]_vars => ContentInv'
  <2> SUFFICES ASSUME ObservationsInv, ContentInv, [Next]_vars PROVE ContentInv' OBVIOUS
  <2>1. CASE datasets' = datasets BY <2>1 DEF ContentInv, RowsOf
  <2>2. ASSUME NEW p \in Processes, pc[p] = "insert", datasets' = datasets \cup {Dataset(p)}
        PROVE  ContentInv'
    <3>1. job[p] \in Imports BY <2>2, JobAt DEF ImportPcs
    <3>2. job[p].content \in Contents \cup {{}} BY <3>1 DEF Imports, Sources
    <3>3. IsContent(job[p].content)
      <4>1. IsContent({}) BY FS_EmptySet DEF IsContent
      <4> QED BY <3>2, <4>1, ValuationAssumption
    <3>4. RowsOf(datasets') = RowsOf(datasets) \cup job[p].content
      <4> DEFINE d == Dataset(p)
      <4>1. d.content = job[p].content BY DEF Dataset
      <4> HIDE DEF d
      <4>2. \A r : r \in RowsOf(datasets \cup {d}) <=> r \in RowsOf(datasets) \/ r \in d.content
        BY DEF RowsOf
      <4> QED BY <2>2, <4>1, <4>2 DEF d
    <3>5. IsContent(RowsOf(datasets) \cup job[p].content)
      BY <3>3, FS_Union DEF ContentInv, IsContent
    <3> QED BY <3>4, <3>5 DEF ContentInv
  <2>3. datasets' = datasets \/ \E p \in Processes : pc[p] = "insert" /\ datasets' = datasets \cup {Dataset(p)}
    BY DEF Next, vars, Book, SetMembership, Observe, observed, ObservationsNext, Replace, Step, ImportStep,
           AttentionStep, Fail, Exit, Elsewhere, CallImport, CallSnapshot, Call, Capture, Parse, Register,
           LookUp, Insert, CallEvaluate, Check, Recheck, AppendEvent, Commit
  <2> QED BY <2>1, <2>2, <2>3
<1> QED BY <1>1, <1>2, HomeObservationsInvariant, PTL DEF Spec

\* Booking a scenario of a plan (its trades at their prices, its cash and its fees) on an
\* account it does not leave short gives the valuation that compare_plan_scenarios
\* simulated, and when any booking complies with the rules the recommended one does
\* (analytics/planning.py compare_plan_scenarios, analytics/policy.py
\* simulate_base_currency_trades), for any accounts, ledger, plan and market data.
THEOREM ScenariosAreBookings == Spec => []ScenarioIsBooking
<1>1. LedgerInv /\ ContentInv => ScenarioIsBooking
  <2> SUFFICES ASSUME LedgerInv, ContentInv, NEW plan \in use.plans, NEW c \in UNION use.cutoffs, Quoted(plan, c),
                      NEW v \in PlainValuation(ledger, datasets, AccountsAt(c), c, c),
                      NEW sims, sims = Simulations(plan, c, v)
               PROVE  /\ \A s \in sims : Booked(s.scenario, c) \subseteq {s.valuation}
                      /\ (\E s \in sims : \E w \in Booked(s.scenario, c) :
                            Evaluation(w, plan.rules) = "compliant")
                         => \A w \in Booked(Recommended(sims, plan.rules).scenario, c) :
                              Evaluation(w, plan.rules) = "compliant"
    BY DEF ScenarioIsBooking
  <2>1. IsUse(use) BY ValuationAssumption DEF LedgerInv
  <2>2. IsPlan(plan) /\ c \in Times BY <2>1 DEF IsUse
  <2> QED BY <2>2, PlanIsBooking
<1> QED BY <1>1, LedgerInvHolds, ContentInvHolds, PTL
=============================================================================
