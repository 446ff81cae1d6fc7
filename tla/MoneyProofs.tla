----------------------------- MODULE MoneyProofs -----------------------------
(***************************************************************************)
(* Theorems about LedgerLots, for any ways of keeping a ledger: that all   *)
(* that was paid and received is in the open lots and the results.         *)
(*                                                                         *)
(* Money is accounted for step by step: what the open lots and the results *)
(* of a replay are worth (Funds) changes by what the fact pays or receives *)
(* in the account, and summed over the accounts that is what the ledger    *)
(* books.                                                                  *)
(***************************************************************************)
EXTENDS LedgerProofs

-----------------------------------------------------------------------------
(* What lots are worth *)

\* Values that are known to be the same but for one.
ValuesDifferAt(lots, after, j, S) ==
  \A i \in S : /\ lots[i].val \in Values /\ after[i].val \in Values
               /\ i # j => after[i].val = lots[i].val

\* The value changes by as much as one of its terms.
LEMMA ValueChangesBy ==
  ASSUME NEW S, IsFiniteSet(S), NEW lots, NEW after, NEW j \in S, ValuesDifferAt(lots, after, j, S)
  PROVE  /\ ValueOf(lots, S) \in Int /\ ValueOf(after, S) \in Int
         /\ ValueOf(after, S) = ValueOf(lots, S) + Known(after[j].val) - Known(lots[j].val)
<1> DEFINE f == [i \in S |-> Known(lots[i].val)]
           g == [i \in S |-> Known(after[i].val)]
           rest == S \ {j}
<1>1. ValueOf(lots, S) = SumOver(f, S) /\ ValueOf(after, S) = SumOver(g, S)
  BY ValueIsSum
<1>2. \A i \in S : f[i] \in Int /\ g[i] \in Int BY KnownIsInteger DEF ValuesDifferAt
<1>3. \A i \in rest : f[i] = g[i] /\ g[i] \in Int BY <1>2 DEF ValuesDifferAt
<1>4. f[j] = Known(lots[j].val) /\ g[j] = Known(after[j].val) OBVIOUS
<1>5. IsFiniteSet(rest) BY FS_Subset
<1> HIDE DEF f, g
<1>6. SumOver(f, S) = f[j] + SumOver(f, rest) /\ SumOver(g, S) = g[j] + SumOver(g, rest)
  BY <1>2, SumSplits
<1>7. SumOver(f, rest) = SumOver(g, rest) /\ SumOver(g, rest) \in Int
  <2> HIDE DEF rest
  <2> QED BY <1>3, <1>5, SumsOfEquals, SumIsInteger
<1> QED BY <1>1, <1>2, <1>4, <1>6, <1>7

\* Lots with the same values have the same value.
LEMMA ValuesAgree ==
  ASSUME NEW S, IsFiniteSet(S), NEW lots, NEW after,
         \A i \in S : lots[i].val \in Values /\ after[i].val = lots[i].val
  PROVE  ValueOf(lots, S) = ValueOf(after, S) /\ ValueOf(lots, S) \in Int
<1> DEFINE f == [i \in S |-> Known(lots[i].val)]
           g == [i \in S |-> Known(after[i].val)]
<1>1. \A i \in S : f[i] = g[i] /\ g[i] \in Int BY KnownIsInteger
<1>2. SumOver(f, S) = SumOver(g, S) /\ SumOver(g, S) \in Int
  <2> HIDE DEF f, g
  <2> QED BY <1>1, SumsOfEquals, SumIsInteger
<1> QED BY <1>2, ValueIsSum

\* The value with one more at the end.
LEMMA ValueOfLonger ==
  ASSUME NEW T, NEW lots \in Seq(T), NEW x, \A t \in T : t.val \in Values, x.val \in Values,
         NEW S \in SUBSET DOMAIN lots
  PROVE  /\ ValueOf(lots, S) \in Int
         /\ ValueOf(Append(lots, x), S) = ValueOf(lots, S)
         /\ ValueOf(Append(lots, x), S \cup {Len(lots) + 1}) = ValueOf(lots, S) + Known(x.val)
<1> DEFINE after == Append(lots, x)
           n == Len(lots) + 1
           U == S \cup {n}
           f == [i \in U |-> Known(after[i].val)]
<1>1. n \notin S /\ after[n] = x /\ \A i \in S : after[i] = lots[i] /\ lots[i] \in T
  OBVIOUS
<1>2. IsFiniteSet(S) /\ IsFiniteSet(U)
  <2>1. DOMAIN lots = 1..Len(lots) /\ Len(lots) \in Nat OBVIOUS
  <2> HIDE DEF after, n
  <2>2. IsFiniteSet(1..Len(lots)) BY <2>1, FS_Interval
  <2>3. IsFiniteSet(S) BY <2>1, <2>2, FS_Subset
  <2> QED BY <2>3, FS_AddElement
<1> HIDE DEF after, n
<1>3. ValueOf(lots, S) = ValueOf(after, S) /\ ValueOf(lots, S) \in Int
  <2>1. \A i \in S : lots[i].val \in Values /\ after[i].val = lots[i].val BY <1>1
  <2> QED BY <1>2, <2>1, ValuesAgree
<1>4. \A i \in U : f[i] \in Int BY <1>1, KnownIsInteger
<1>5. U \ {n} = S /\ n \in U /\ f[n] = Known(x.val) BY <1>1
<1>6. ValueOf(after, U) = SumOver(f, U) BY <1>2, ValueIsSum
<1>7. SumOver(f, U) = Known(x.val) + SumOver(f, S)
  <2> HIDE DEF f, U
  <2> QED BY <1>2, <1>4, <1>5, SumSplits
<1>8. SumOver(f, S) = ValueOf(after, S)
  <2> DEFINE g == [i \in S |-> Known(after[i].val)]
  <2>1. \A i \in S : f[i] = g[i] /\ g[i] \in Int BY <1>4
  <2>2. SumOver(f, S) = SumOver(g, S)
    <3> HIDE DEF f, g
    <3> QED BY <1>2, <2>1, SumsOfEquals
  <2> QED BY <1>2, <2>2, ValueIsSum
<1>9. Known(x.val) \in Int BY KnownIsInteger
<1>10. ValueOf(after, U) = ValueOf(lots, S) + Known(x.val) BY <1>3, <1>6, <1>7, <1>8, <1>9
<1> QED BY <1>3, <1>10 DEF after, n

\* The value of pieces with one more piece.
LEMMA PieceValueOfLonger ==
  ASSUME NEW pieces \in Seq(Pieces), NEW piece \in Pieces
  PROVE  PieceValue(Append(pieces, piece)) = PieceValue(pieces) + Known(piece.val)
<1>1. \A t \in Pieces : t.val \in Values BY DEF Pieces
<1>2. ValueOf(Append(pieces, piece), DOMAIN pieces \cup {Len(pieces) + 1})
        = ValueOf(pieces, DOMAIN pieces) + Known(piece.val)
  <2>1. DOMAIN pieces \in SUBSET DOMAIN pieces /\ piece.val \in Values BY <1>1
  <2> QED BY <1>1, <2>1, ValueOfLonger
<1>3. DOMAIN Append(pieces, piece) = DOMAIN pieces \cup {Len(pieces) + 1} OBVIOUS
<1> QED BY <1>2, <1>3 DEF PieceValue

\* No pieces are worth nothing.
LEMMA NoPiecesNoValue == PieceValue(<<>>) = 0
<1>1. DOMAIN <<>> = {} /\ IsFiniteSet({}) BY FS_EmptySet
<1>2. ValueOf(<<>>, {}) = SumOver([j \in {} |-> Known(<<>>[j].val)], {}) BY <1>1, ValueIsSum
<1>3. SumOver([j \in {} |-> Known(<<>>[j].val)], {}) = 0 BY <1>1, SumUnfolds
<1> QED BY <1>1, <1>2, <1>3 DEF PieceValue

\* A lot that is closed has no value left.
Emptied(lots) == \A j \in DOMAIN lots : lots[j].qty = 0 => Known(lots[j].val) = 0

OfSide(lots, side) == {j \in DOMAIN lots : lots[j].side = side}
Worth(lots, side) == ValueOf(lots, OfSide(lots, side))

\* The lots of a side are finitely many, and worth an integer.
LEMMA WorthIsInteger ==
  ASSUME NEW I, NEW lots \in Seq(LotsOf(I)), NEW side
  PROVE  /\ Worth(lots, side) \in Int
         /\ IsFiniteSet(OfSide(lots, side)) /\ OfSide(lots, side) \in SUBSET DOMAIN lots
         /\ \A j \in DOMAIN lots : lots[j] \in LotsOf(I) /\ lots[j].val \in Values /\ lots[j].qty \in Nat
<1> DEFINE S == OfSide(lots, side)
<1>1. \A j \in DOMAIN lots : lots[j] \in LotsOf(I) OBVIOUS
<1>2. \A j \in DOMAIN lots : lots[j].val \in Values /\ lots[j].qty \in Nat /\ lots[j].qty \in Int BY <1>1, LotFields
<1>3. S \in SUBSET DOMAIN lots BY DEF OfSide
<1>4. IsFiniteSet(S)
  <2>1. IsFiniteSet(1..Len(lots)) /\ DOMAIN lots = 1..Len(lots) BY FS_Interval
  <2> HIDE DEF S
  <2> QED BY <1>3, <2>1, FS_Subset
<1> HIDE DEF S
<1>5. ValueOf(lots, S) \in Int BY <1>2, <1>3, <1>4, SumsAreIntegers
<1> QED BY <1>1, <1>2, <1>3, <1>4, <1>5 DEF Worth, S

\* When closed lots have no value, the basis is the value of all lots.
LEMMA BasisIsWorth ==
  ASSUME NEW I, NEW lots \in Seq(LotsOf(I)), Emptied(lots), NEW side
  PROVE  Basis(lots, side) = Worth(lots, side)
<1> DEFINE S == OfSide(lots, side)
           T == {j \in DOMAIN lots : lots[j].side = side /\ lots[j].qty > 0}
           f == [j \in S |-> Known(lots[j].val)]
           g == [j \in T |-> Known(lots[j].val)]
<1>1. /\ IsFiniteSet(S) /\ S \in SUBSET DOMAIN lots
      /\ \A j \in DOMAIN lots : lots[j].val \in Values /\ lots[j].qty \in Nat
  BY WorthIsInteger
<1>2. T \in SUBSET S BY DEF OfSide
<1>3. \A j \in S \ T : Known(lots[j].val) = 0
  <2> TAKE j \in S \ T
  <2>1. j \in DOMAIN lots /\ ~(lots[j].qty > 0) BY DEF OfSide
  <2>2. lots[j].qty = 0 BY <1>1, <2>1
  <2> QED BY <2>1, <2>2 DEF Emptied
<1> HIDE DEF S, T
<1>4. IsFiniteSet(T) BY <1>1, <1>2, FS_Subset
<1>5. \A j \in S : f[j] \in Int BY <1>1, KnownIsInteger
<1>6. \A j \in S \ T : f[j] = 0 BY <1>3
<1>7. \A j \in T : f[j] = g[j] /\ g[j] \in Int BY <1>2, <1>5
<1>8. SumOver(f, S) = SumOver(f, T)
  <2> HIDE DEF f
  <2> QED BY <1>1, <1>2, <1>5, <1>6, SumWithoutZeros
<1>9. SumOver(f, T) = SumOver(g, T)
  <2> HIDE DEF f, g
  <2> QED BY <1>4, <1>7, SumsOfEquals
<1>10. ValueOf(lots, S) = ValueOf(lots, T) BY <1>1, <1>4, <1>8, <1>9, ValueIsSum
<1> QED BY <1>10 DEF Basis, Worth, S, T

\* A lot that is opened adds what it is known to be worth.
LEMMA WorthOpened ==
  ASSUME NEW I, NEW lots \in Seq(LotsOf(I)), NEW lot \in LotsOf(I), NEW side
  PROVE  /\ Worth(Append(lots, lot), side)
              = Worth(lots, side) + (IF lot.side = side THEN Known(lot.val) ELSE 0)
         /\ Emptied(lots) /\ (lot.qty = 0 => Known(lot.val) = 0) => Emptied(Append(lots, lot))
<1> DEFINE S == OfSide(lots, side)
           longer == Append(lots, lot)
           n == Len(lots) + 1
           T == OfSide(longer, side)
<1>1. /\ longer \in Seq(LotsOf(I)) /\ DOMAIN longer = 1..n /\ DOMAIN lots = 1..(n - 1) /\ n \in Nat \ {0}
      /\ longer[n] = lot /\ \A j \in DOMAIN lots : longer[j] = lots[j]
  OBVIOUS
<1>2. 1..n = 1..(n - 1) \cup {n} /\ n \notin 1..(n - 1)
  <2> HIDE DEF n
  <2> QED BY <1>1
<1>3. T = IF lot.side = side THEN S \cup {n} ELSE S
  <2> HIDE DEF longer, n
  <2>2. S = {j \in 1..(n - 1) : longer[j].side = side} BY <1>1 DEF OfSide
  <2>3. T = {j \in 1..n : longer[j].side = side} BY <1>1 DEF OfSide
  <2> HIDE DEF S, T
  <2>4. CASE lot.side = side BY <1>1, <1>2, <2>2, <2>3, <2>4
  <2>5. CASE ~(lot.side = side) BY <1>1, <1>2, <2>2, <2>3, <2>5
  <2> QED BY <2>4, <2>5
<1>4. /\ ValueOf(lots, S) \in Int
      /\ ValueOf(longer, S) = ValueOf(lots, S)
      /\ ValueOf(longer, S \cup {n}) = ValueOf(lots, S) + Known(lot.val)
  <2>1. \A t \in LotsOf(I) : t.val \in Values BY LotFields
  <2>2. S \in SUBSET DOMAIN lots BY DEF OfSide
  <2> HIDE DEF S
  <2> QED BY <2>1, <2>2, ValueOfLonger
<1>5. Emptied(lots) /\ (lot.qty = 0 => Known(lot.val) = 0) => Emptied(longer)
  <2> HIDE DEF longer, n
  <2> QED BY <1>1, <1>2 DEF Emptied
<1> HIDE DEF S, T, longer, n
<1>6. Worth(longer, side) = Worth(lots, side) + (IF lot.side = side THEN Known(lot.val) ELSE 0)
  BY <1>3, <1>4 DEF Worth, S, T
<1> QED BY <1>5, <1>6 DEF longer

\* Lots that keep their sides and values keep what they are worth.
LEMMA WorthKept ==
  ASSUME NEW I, NEW lots \in Seq(LotsOf(I)), NEW after, SameLots(lots, after, I),
         \A j \in DOMAIN lots : after[j].val = lots[j].val, NEW side
  PROVE  Worth(after, side) = Worth(lots, side)
<1> DEFINE S == OfSide(lots, side)
<1>1. DOMAIN after = DOMAIN lots /\ OfSide(after, side) = S
  <2>1. DOMAIN after = DOMAIN lots BY DEF SameLots
  <2> QED BY <2>1 DEF SameLots, OfSide
<1>2. /\ IsFiniteSet(S) /\ S \in SUBSET DOMAIN lots
      /\ \A j \in DOMAIN lots : lots[j].val \in Values
  BY WorthIsInteger
<1> HIDE DEF S
<1>3. ValueOf(lots, S) = ValueOf(after, S) BY <1>2, ValuesAgree
<1> QED BY <1>1, <1>3 DEF Worth, S

-----------------------------------------------------------------------------
(* What leaves the lots is in the pieces *)

\* What a lot gives up of its value is the value of the piece, and nothing stays with
\* a lot that is closed.
Pays(t, u, j, N) ==
  /\ t.left = 0 => u = t
  /\ t.left > 0 =>
       \E piece \in Pieces :
         /\ u.pieces = Append(t.pieces, piece) /\ u.left = t.left - piece.qty
         /\ t.lots[j].qty > 0 => piece.qty > 0
         /\ Known(u.lots[j].val) = Known(t.lots[j].val) - Known(piece.val)
         /\ u.lots[j].qty = 0 => Known(u.lots[j].val) = 0
  /\ \A i \in 1..N : i # j => u.lots[i] = t.lots[i]

\* One lot gives a piece of its value with a piece of its quantity.
LEMMA TakeOnePays ==
  ASSUME NEW I, NEW N \in Nat, NEW t \in Takes(I, N), NEW j \in 1..N
  PROVE  Pays(t, TakeOne(t, j), j, N)
<1> DEFINE u == TakeOne(t, j)
           lot == t.lots[j]
           used == IF lot.qty <= t.left THEN lot.qty ELSE t.left
           part == IF lot.val = Unknown \/ used = lot.qty THEN lot.val ELSE (lot.val * used) \div lot.qty
           val == IF lot.val = Unknown THEN Unknown ELSE lot.val - part
           rest == [lot EXCEPT !.qty = lot.qty - used, !.val = val]
           piece == [src |-> lot.src, qty |-> used, val |-> part]
<1>1. /\ t.lots \in [1..N -> LotsOf(I)] /\ t.left \in Nat /\ lot \in LotsOf(I)
      /\ lot.qty \in Nat /\ lot.val \in Values /\ lot.src \in Nat
  BY DEF Takes, LotsOf
<1>2. used \in Nat /\ used <= t.left /\ used <= lot.qty /\ (used = t.left \/ used = lot.qty)
  BY <1>1
<1>3. u = IF t.left = 0 THEN t
          ELSE [lots |-> [t.lots EXCEPT ![j] = rest], pieces |-> Append(t.pieces, piece),
                left |-> t.left - used]
  <2>1. rest = [lot EXCEPT !.qty = @ - used, !.val = IF @ = Unknown THEN Unknown ELSE @ - part]
    BY <1>1 DEF LotsOf
  <2> QED BY <2>1 DEF TakeOne
<1>4. rest.qty = lot.qty - used /\ rest.val = val
  BY <1>1 DEF LotsOf
<1>5. Unknown \notin Int BY LedgerAssumption
<1>6. /\ part \in Values
      /\ Known(val) = Known(lot.val) - Known(part)
      /\ lot.qty - used = 0 => Known(val) = 0
  <2> HIDE DEF lot, used
  <2>1. CASE lot.val = Unknown
    BY <1>5, <2>1 DEF Known, Values
  <2>2. CASE lot.val # Unknown /\ used = lot.qty
    <3>1. lot.val \in Int BY <1>1, <2>2 DEF Values
    <3>2. part = lot.val /\ val = 0 BY <2>2, <3>1
    <3> HIDE DEF part, val
    <3> QED BY <1>5, <2>2, <3>1, <3>2 DEF Known, Values
  <2>3. CASE lot.val # Unknown /\ used # lot.qty
    <3>1. lot.val \in Int /\ lot.qty \in Nat \ {0} BY <1>1, <1>2, <2>3 DEF Values
    <3>2. lot.val * used \in Int BY <1>2, <3>1
    <3>3. (lot.val * used) \div lot.qty \in Int
      <4> DEFINE x == lot.val * used
      <4> HIDE DEF x
      <4>1. x \div lot.qty \in Int BY <3>1, <3>2 DEF x
      <4> QED BY <4>1 DEF x
    <3>4. part \in Int /\ val = lot.val - part BY <2>3, <3>3
    <3> HIDE DEF part, val
    <3>5. val \in Int BY <3>1, <3>4
    <3>6. lot.qty - used # 0 BY <1>1, <1>2, <2>3
    <3> QED BY <1>5, <3>1, <3>4, <3>5, <3>6 DEF Known, Values
  <2> QED BY <2>1, <2>2, <2>3
<1>7. piece \in Pieces /\ piece.qty = used /\ piece.val = part BY <1>1, <1>2, <1>6 DEF Pieces
<1> HIDE DEF rest, u, part, val, piece
<1> SUFFICES Pays(t, u, j, N)
  BY DEF u
<1>8. CASE t.left = 0
  <2>1. u = t BY <1>3, <1>8
  <2> QED BY <1>8, <2>1 DEF Pays
<1>9. CASE t.left # 0
  <2>1. u = [lots |-> [t.lots EXCEPT ![j] = rest], pieces |-> Append(t.pieces, piece), left |-> t.left - used]
    BY <1>3, <1>9
  <2>2. u.lots = [t.lots EXCEPT ![j] = rest] /\ u.left = t.left - used /\ u.pieces = Append(t.pieces, piece)
    BY <2>1
  <2>3. u.lots[j] = rest /\ \A i \in 1..N : i # j => u.lots[i] = t.lots[i]
    BY <1>1, <2>2
  <2>4. lot.qty > 0 => used > 0 BY <1>1, <1>2, <1>9
  <2> HIDE DEF used
  <2>5. /\ u.pieces = Append(t.pieces, piece) /\ u.left = t.left - piece.qty
        /\ t.lots[j].qty > 0 => piece.qty > 0
        /\ Known(u.lots[j].val) = Known(t.lots[j].val) - Known(piece.val)
        /\ u.lots[j].qty = 0 => Known(u.lots[j].val) = 0
    BY <1>4, <1>6, <1>7, <2>2, <2>3, <2>4
  <2> QED BY <1>7, <1>9, <2>3, <2>5 DEF Pays
<1> QED BY <1>1, <1>8, <1>9

\* The value of some lots is what is left of them and what was taken.
Paid(t, lots, n, S) ==
  /\ ValueOf(t.lots, S) \in Int /\ ValueOf(t.lots, S) = ValueOf(lots, S) - PieceValue(t.pieces)
  /\ Emptied(lots) => Emptied(t.lots)
  /\ \A p \in DOMAIN t.pieces : t.pieces[p].qty > 0
  /\ t.left <= n
  /\ t.left = n => t.pieces = <<>>

\* What a whole take removes from the value of the lots is in its pieces.
LEMMA TakePays ==
  ASSUME NEW I, NEW N \in Nat, NEW lots \in [1..N -> LotsOf(I)], NEW order \in Seq(1..N), NEW n \in Nat,
         \A k, l \in DOMAIN order : k < l => order[k] # order[l],
         NEW S \in SUBSET (1..N), \A k \in DOMAIN order : order[k] \in S /\ lots[order[k]].qty > 0
  PROVE  Paid(Take(lots, order, n), lots, n, S)
<1>1. PICK run : TakeRun(run, I, N, lots, order, n) /\ Take(lots, order, n) = run[Len(order)]
  BY TakeRuns
<1> DEFINE M == Len(order)
           Q == {k \in 0..M : Paid(run[k], lots, n, S)}
<1>2. M \in Nat /\ DOMAIN order = 1..M /\ \A k \in 1..M : order[k] \in S OBVIOUS
<1>3. IsFiniteSet(S)
  <2>1. IsFiniteSet(1..N) BY FS_Interval
  <2> QED BY <2>1, FS_Subset
<1>4. 0 \in Q
  <2>1. run[0] = [lots |-> lots, pieces |-> <<>>, left |-> n] BY <1>1 DEF TakeRun
  <2>2. \A j \in S : lots[j].qty \in Int /\ lots[j].val \in Values BY DEF LotsOf
  <2>3. ValueOf(lots, S) \in Int BY <1>3, <2>2, SumsAreIntegers
  <2>4. DOMAIN <<>> = {} OBVIOUS
  <2>5. Paid(run[0], lots, n, S) BY <2>1, <2>3, <2>4, NoPiecesNoValue DEF Paid
  <2> QED BY <1>2, <2>5
<1>5. ASSUME NEW k \in 1..M, k - 1 \in Q PROVE k \in Q
  <2> DEFINE t == run[k - 1]
             u == run[k]
             j == order[k]
  <2>1. t \in Takes(I, N) /\ u \in Takes(I, N) /\ u = TakeOne(t, j)
    <3>1. k - 1 \in 0..Len(order) /\ k \in 0..Len(order) /\ k \in 1..Len(order) BY <1>2
    <3> HIDE DEF M
    <3> QED BY <1>1, <3>1 DEF TakeRun
  <2>2. j \in S /\ j \in 1..N /\ lots[j].qty > 0 BY <1>2
  <2>3. Paid(t, lots, n, S) BY <1>5
  <2>4. /\ t.lots \in [1..N -> LotsOf(I)] /\ u.lots \in [1..N -> LotsOf(I)]
        /\ t.pieces \in Seq(Pieces) /\ t.left \in Nat /\ u.left \in Nat
    BY <2>1 DEF Takes
  <2>5. \A i \in S : t.lots[i].val \in Values /\ u.lots[i].val \in Values
    <3>1. \A i \in S : t.lots[i] \in LotsOf(I) /\ u.lots[i] \in LotsOf(I) BY <2>4
    <3> HIDE DEF t, u
    <3> QED BY <3>1, LotFields
  <2>6. t.lots[j].qty > 0
    <3>1. Greedy(lots, t.lots, order, k - 1, t.left)
      <4>1. k - 1 \in 0..Len(order) BY <1>2
      <4> QED BY <1>1, <4>1, TakeRunIsGreedy
    <3>2. \A i \in 1..(k - 1) : order[i] # j
      <4>1. \A i \in 1..(k - 1) : i \in DOMAIN order /\ i < k /\ k \in DOMAIN order BY <1>2
      <4> QED BY <4>1
    <3>3. t.lots[j] = lots[j]
      <4>1. DOMAIN lots = 1..N OBVIOUS
      <4> HIDE DEF t, j
      <4> QED BY <2>2, <3>1, <3>2, <4>1 DEF Greedy
    <3> QED BY <2>2, <3>3
  <2> HIDE DEF t, u, j
  <2>7. Pays(t, u, j, N) BY <2>1, <2>2, TakeOnePays
  <2>8. CASE t.left = 0
    <3>1. u = t BY <2>7, <2>8 DEF Pays
    <3> QED BY <2>3, <3>1 DEF u
  <2>9. CASE t.left > 0
    <3>1. PICK piece \in Pieces :
            /\ u.pieces = Append(t.pieces, piece) /\ u.left = t.left - piece.qty
            /\ t.lots[j].qty > 0 => piece.qty > 0
            /\ Known(u.lots[j].val) = Known(t.lots[j].val) - Known(piece.val)
            /\ u.lots[j].qty = 0 => Known(u.lots[j].val) = 0
      BY <2>7, <2>9 DEF Pays
    <3>2. piece.qty \in Nat /\ piece.qty > 0 /\ piece.val \in Values BY <2>6, <3>1 DEF Pieces
    <3>3. \A i \in 1..N : i # j => u.lots[i] = t.lots[i] BY <2>7 DEF Pays
    <3>4. ValuesDifferAt(t.lots, u.lots, j, S) BY <2>5, <3>3 DEF ValuesDifferAt
    <3>5. /\ ValueOf(t.lots, S) \in Int /\ ValueOf(u.lots, S) \in Int
          /\ ValueOf(u.lots, S) = ValueOf(t.lots, S) + Known(u.lots[j].val) - Known(t.lots[j].val)
      <4> DEFINE before == t.lots
                 after == u.lots
      <4>1. ValuesDifferAt(before, after, j, S) BY <3>4
      <4> HIDE DEF before, after
      <4>2. /\ ValueOf(before, S) \in Int /\ ValueOf(after, S) \in Int
            /\ ValueOf(after, S) = ValueOf(before, S) + Known(after[j].val) - Known(before[j].val)
        BY <1>3, <2>2, <4>1, ValueChangesBy
      <4> QED BY <4>2 DEF before, after
    <3>6. PieceValue(u.pieces) = PieceValue(t.pieces) + Known(piece.val) /\ PieceValue(t.pieces) \in Int
      BY <2>4, <3>1, PieceValueOfLonger, PieceValueIsInteger
    <3>7. Known(piece.val) \in Int /\ Known(t.lots[j].val) \in Int
      BY <2>2, <2>5, <3>2, KnownIsInteger
    <3>8. ValueOf(lots, S) \in Int
      <4>1. \A i \in S : lots[i] \in LotsOf(I) OBVIOUS
      <4>2. \A i \in S : lots[i].qty \in Int /\ lots[i].val \in Values BY <4>1, LotFields
      <4> QED BY <1>3, <4>2, SumsAreIntegers
    <3>9. ValueOf(u.lots, S) = ValueOf(lots, S) - PieceValue(u.pieces)
      <4>1. ValueOf(t.lots, S) = ValueOf(lots, S) - PieceValue(t.pieces) BY <2>3 DEF Paid
      <4>2. Known(u.lots[j].val) = Known(t.lots[j].val) - Known(piece.val) BY <3>1
      <4> QED BY <3>5, <3>6, <3>7, <3>8, <4>1, <4>2
    <3>10. Emptied(lots) => Emptied(u.lots)
      <4>1. SUFFICES ASSUME Emptied(lots) PROVE Emptied(u.lots) OBVIOUS
      <4>2. Emptied(t.lots) BY <2>3, <4>1 DEF Paid
      <4>3. DOMAIN t.lots = 1..N /\ DOMAIN u.lots = 1..N BY <2>4
      <4> QED BY <3>1, <3>3, <4>2, <4>3 DEF Emptied
    <3>11. \A p \in DOMAIN u.pieces : u.pieces[p].qty > 0
      <4>1. \A p \in DOMAIN t.pieces : t.pieces[p].qty > 0 BY <2>3 DEF Paid
      <4>2. \A p \in DOMAIN u.pieces :
              \/ p \in DOMAIN t.pieces /\ u.pieces[p] = t.pieces[p]
              \/ u.pieces[p] = piece
        BY <2>4, <3>1
      <4> QED BY <3>2, <4>1, <4>2
    <3>12. u.left < n
      <4>1. t.left <= n BY <2>3 DEF Paid
      <4> QED BY <2>4, <3>1, <3>2, <4>1
    <3>13. u.left <= n /\ u.left # n BY <2>4, <3>12
    <3>14. Paid(u, lots, n, S) BY <3>5, <3>9, <3>10, <3>11, <3>13 DEF Paid
    <3> QED BY <3>14 DEF u
  <2> QED BY <2>4, <2>8, <2>9
<1>6. \A k \in 0..M : k \in Q
  <2>1. \A k \in 1..M : k - 1 \in Q => k \in Q BY <1>5
  <2> HIDE DEF M, Q
  <2> QED BY <1>2, <1>4, <2>1, CountUp
<1>7. M \in 0..M BY <1>2
<1>8. M \in Q BY <1>6, <1>7
<1> QED BY <1>1, <1>8

\* What is taken out of lots of one side leaves that side, and only that one.
PaidFrom(lots, taken, at, n) ==
  /\ \A side \in Sides :
       Worth(taken.lots, side) = Worth(lots, side) - (IF side = at THEN PieceValue(taken.pieces) ELSE 0)
  /\ Emptied(lots) => Emptied(taken.lots)
  /\ \A p \in DOMAIN taken.pieces : taken.pieces[p].qty > 0
  /\ taken.left <= n
  /\ taken.left = n => taken.pieces = <<>>

\* Taking from chosen lots of a side.
LEMMA TakeInOrderPays ==
  ASSUME NEW I, NEW lots \in Seq(LotsOf(I)), NEW at,
         NEW chosen \in SUBSET {j \in DOMAIN lots : lots[j].qty > 0}, \A j \in chosen : lots[j].side = at,
         NEW method, NEW n \in Nat
  PROVE  PaidFrom(lots, Take(lots, InOrder(lots, chosen, method), n), at, n)
<1> DEFINE N == Len(lots)
           order == InOrder(lots, chosen, method)
           taken == Take(lots, order, n)
           S == OfSide(lots, at)
<1>1. /\ N \in Nat /\ lots \in [1..N -> LotsOf(I)] /\ DOMAIN lots = 1..N
      /\ chosen \in SUBSET {j \in 1..N : lots[j].qty > 0}
  OBVIOUS
<1>2. TakenFrom(lots, taken, chosen, method, n, I) BY TakeInOrder
<1> HIDE DEF N
<1>3. /\ order \in Seq(1..N) /\ \A k \in DOMAIN order : order[k] \in chosen
      /\ \A k, l \in DOMAIN order : k < l => order[k] # order[l]
  <2>1. Unknown \notin Int BY LedgerAssumption
  <2>2. /\ order \in Seq(1..N) /\ \A k \in DOMAIN order : order[k] \in chosen
        /\ \A k, l \in DOMAIN order : k < l => /\ order[k] # order[l]
                                               /\ Prefers(lots, method, order[k], order[l])
    BY <1>1, <2>1, OrderOfLots
  <2> HIDE DEF order
  <2> QED BY <2>2
<1> HIDE DEF order, taken
<1>4. S \in SUBSET (1..N) /\ chosen \subseteq S BY <1>1 DEF OfSide
<1>5. Paid(taken, lots, n, S)
  <2>1. \A k \in DOMAIN order : order[k] \in S /\ lots[order[k]].qty > 0 BY <1>3, <1>4
  <2> HIDE DEF S
  <2> QED BY <1>1, <1>3, <1>4, <2>1, TakePays DEF taken
<1>6. SameLots(lots, taken.lots, I) BY <1>2, TakenIsSame
<1>7. DOMAIN taken.lots = DOMAIN lots BY <1>6 DEF SameLots
<1>8. \A side : OfSide(taken.lots, side) = OfSide(lots, side)
  BY <1>6, <1>7 DEF SameLots, OfSide
<1>9. ASSUME NEW side \in Sides
      PROVE  Worth(taken.lots, side) = Worth(lots, side) - (IF side = at THEN PieceValue(taken.pieces) ELSE 0)
  <2>1. CASE side = at
    <3>1. Worth(taken.lots, side) = ValueOf(taken.lots, S) /\ Worth(lots, side) = ValueOf(lots, S)
      BY <1>8, <2>1 DEF Worth
    <3> QED BY <1>5, <2>1, <3>1 DEF Paid
  <2>2. CASE side # at
    <3> DEFINE T == OfSide(lots, side)
    <3>1. IsFiniteSet(T) /\ \A i \in T : lots[i].val \in Values /\ T \in SUBSET DOMAIN lots BY WorthIsInteger
    <3>2. \A i \in T : i \in DOMAIN lots /\ i \notin chosen BY <2>2 DEF OfSide
    <3>3. \A i \in T : taken.lots[i] = lots[i] BY <1>2, <3>2 DEF TakenFrom
    <3> HIDE DEF T
    <3>4. ValueOf(lots, T) = ValueOf(taken.lots, T) /\ ValueOf(lots, T) \in Int BY <3>1, <3>3, ValuesAgree
    <3>5. Worth(taken.lots, side) = ValueOf(taken.lots, T) /\ Worth(lots, side) = ValueOf(lots, T)
      BY <1>8 DEF Worth, T
    <3> QED BY <2>2, <3>4, <3>5
  <2> QED BY <2>1, <2>2
<1>10. PaidFrom(lots, taken, at, n) BY <1>5, <1>9 DEF Paid, PaidFrom
<1> QED BY <1>10 DEF taken, order

\* Taking from the open lots of an instrument.
LEMMA OpenPays ==
  ASSUME NEW I, NEW lots \in Seq(LotsOf(I)), NEW inst, NEW at, NEW method, NEW n \in Nat
  PROVE  PaidFrom(lots, Take(lots, Ordered(lots, inst, at, method), n), at, n)
<1> DEFINE chosen == Open(lots, inst, at)
<1>1. chosen \in SUBSET {j \in DOMAIN lots : lots[j].qty > 0} /\ \A j \in chosen : lots[j].side = at
  BY DEF Open
<1> HIDE DEF chosen
<1>2. PaidFrom(lots, Take(lots, InOrder(lots, chosen, method), n), at, n) BY <1>1, TakeInOrderPays
<1> QED BY <1>2 DEF Ordered, chosen

\* Taking from the lots that one transaction opened.
LEMMA SourcePays ==
  ASSUME NEW I, NEW lots \in Seq(LotsOf(I)), NEW inst, NEW src, NEW n \in Nat
  PROVE  PaidFrom(lots, Take(lots, OrderedFrom(lots, inst, src), n), "long", n)
<1> DEFINE chosen == {j \in Open(lots, inst, "long") : lots[j].src = src}
<1>1. chosen \in SUBSET {j \in DOMAIN lots : lots[j].qty > 0} /\ \A j \in chosen : lots[j].side = "long"
  BY DEF Open
<1> HIDE DEF chosen
<1>2. PaidFrom(lots, Take(lots, InOrder(lots, chosen, "fifo"), n), "long", n) BY <1>1, TakeInOrderPays
<1> QED BY <1>2 DEF OrderedFrom, chosen

-----------------------------------------------------------------------------
(* Results *)

BookedAs(row, side) == IF row.side = side THEN row.open ELSE row.close

\* The results of a side are a sum over the rows.
LEMMA ResultsAreSum ==
  ASSUME NEW rows, IsFiniteSet(DOMAIN rows), NEW side
  PROVE  Results(rows, side) = SumOver([n \in DOMAIN rows |-> BookedAs(rows[n], side)], DOMAIN rows)
<1> DEFINE S == DOMAIN rows
           b(n) == IF rows[n].side = side THEN rows[n].open ELSE rows[n].close
           f == [n \in S |-> b(n)]
           Totals(g) == g = [s \in SUBSET S |-> IF s = {} THEN 0
                             ELSE b(CHOOSE x \in s : TRUE) + g[s \ {CHOOSE x \in s : TRUE}]]
<1>1. Results(rows, side) = (CHOOSE g : Totals(g))[S]
  BY DEF Results, MapThenSumSet, MapThenFoldSet
<1> HIDE DEF b
<1>2. \A g : Totals(g) <=> IsSum(g, f, S)
  <2>1. \A s \in SUBSET S : s # {} => f[First(s)] = b(First(s))
    BY FirstIsElement
  <2> HIDE DEF f
  <2> QED BY <2>1 DEF IsSum, First
<1>3. \E g : Totals(g)
  <2> HIDE DEF Totals, f
  <2> QED BY <1>2, SumExists
<1>4. IsSum(CHOOSE g : Totals(g), f, S)
  <2> HIDE DEF Totals, f
  <2> QED BY <1>2, <1>3
<1>5. Results(rows, side) = SumOver(f, S)
  <2> HIDE DEF Totals, f, S
  <2>1. S \in SUBSET S OBVIOUS
  <2> QED BY <1>1, <1>4, <2>1, FoldIsSum DEF S
<1> QED BY <1>5 DEF b, f, BookedAs

\* A row of the results adds what it opened or closed for.
LEMMA ResultsGrow ==
  ASSUME NEW rows \in Seq(Rows), NEW row \in Rows, NEW side
  PROVE  /\ Results(rows, side) \in Int
         /\ Results(Append(rows, row), side) = Results(rows, side) + BookedAs(row, side)
<1> DEFINE longer == Append(rows, row)
           n == Len(rows) + 1
           S == 1..(n - 1)
           f == [k \in S |-> BookedAs(rows[k], side)]
           g == [k \in 1..n |-> BookedAs(longer[k], side)]
<1>1. /\ DOMAIN rows = S /\ DOMAIN longer = 1..n /\ n \in Nat \ {0}
      /\ longer[n] = row /\ \A k \in S : longer[k] = rows[k] /\ rows[k] \in Rows
  OBVIOUS
<1>2. \A x \in Rows : BookedAs(x, side) \in Int BY DEF Rows, BookedAs
<1> HIDE DEF longer, n
<1>3. IsFiniteSet(S) /\ IsFiniteSet(1..n)
  <2>1. n - 1 \in Nat /\ n \in Nat BY <1>1
  <2> QED BY <2>1, FS_Interval
<1>4. S \in SUBSET (1..n) /\ (1..n) \ {n} = S /\ n \in 1..n BY <1>1
<1>5. Results(rows, side) = SumOver(f, S) /\ Results(longer, side) = SumOver(g, 1..n)
  BY <1>1, <1>3, ResultsAreSum
<1> HIDE DEF S
<1>6. \A k \in 1..n : g[k] \in Int
  <2>1. \A k \in 1..n : k = n \/ k \in S BY <1>4
  <2>2. \A k \in 1..n : longer[k] \in Rows BY <1>1, <2>1
  <2> QED BY <1>2, <2>2
<1>7. \A k \in S : f[k] = g[k] /\ g[k] \in Int BY <1>1, <1>4, <1>6
<1>8. g[n] = BookedAs(row, side) BY <1>1, <1>4
<1> HIDE DEF f, g
<1>9. SumOver(g, 1..n) = g[n] + SumOver(g, S) BY <1>3, <1>4, <1>6, SumSplits
<1>10. SumOver(f, S) = SumOver(g, S) /\ SumOver(g, S) \in Int
  BY <1>3, <1>7, SumsOfEquals, SumIsInteger
<1>11. BookedAs(row, side) \in Int BY <1>2
<1>12. /\ Results(rows, side) \in Int
       /\ Results(longer, side) = Results(rows, side) + BookedAs(row, side)
  BY <1>5, <1>8, <1>9, <1>10, <1>11
<1> QED BY <1>12 DEF longer

\* The shares of a value that is divided by quantity add up, if it goes to one of the
\* two or divides.
LEMMA SharesAddUp ==
  ASSUME NEW v \in Int, NEW n \in Nat \ {0}, NEW left \in 0..n, left = 0 \/ left = n \/ v % n = 0
  PROVE  /\ (v * (n - left)) \div n \in Int /\ (v * left) \div n \in Int
         /\ (v * (n - left)) \div n + (v * left) \div n = v
         /\ left = 0 => (v * (n - left)) \div n = v
         /\ left = n => (v * left) \div n = v
<1>1. (v * n) \div n = v /\ (v * 0) \div n = 0
  <2>1. v * 0 = 0 * n /\ 0 \in Int OBVIOUS
  <2>2. (0 * n) \div n = 0 BY ProductQuotient
  <2> QED BY <2>1, <2>2, ProductQuotient
<1>2. CASE left = 0
  <2>1. n - left = n BY <1>2
  <2> QED BY <1>1, <1>2, <2>1
<1>3. CASE left = n
  <2>1. n - left = 0 BY <1>3
  <2> QED BY <1>1, <1>3, <2>1
<1>4. CASE v % n = 0 /\ left # 0 /\ left # n
  <2> DEFINE k == v \div n
  <2>1. k \in Int /\ v = k * n BY <1>4, WholeQuotient
  <2> HIDE DEF k
  <2>2. v * left = (k * left) * n /\ v * (n - left) = (k * (n - left)) * n
    BY <2>1
  <2> DEFINE a == k * left
             b == k * (n - left)
  <2>3. a \in Int /\ b \in Int /\ a + b = v BY <2>1
  <2>4. v * left = a * n /\ v * (n - left) = b * n BY <2>2
  <2> HIDE DEF a, b
  <2>5. (a * n) \div n = a /\ (b * n) \div n = b BY <2>3, ProductQuotient
  <2>6. (v * left) \div n = a /\ (v * (n - left)) \div n = b BY <2>4, <2>5
  <2> QED BY <1>4, <2>3, <2>6
<1> QED BY <1>2, <1>3, <1>4

\* What a replay has of a side: what its lots are worth and what it realized.
Funds(r, side) == Worth(r.lots, side) + Results(r.realized, side)

\* The money of a typed report is an integer on each side.
LEMMA FundsAreIntegers ==
  ASSUME NEW I, NEW r \in Replays(I), NEW side
  PROVE  /\ Worth(r.lots, side) \in Int /\ Results(r.realized, side) \in Int
         /\ Funds(r, side) \in Int
         /\ r.lots \in Seq(LotsOf(I)) /\ r.realized \in Seq(Rows)
<1>1. r.lots \in Seq(LotsOf(I)) /\ r.realized \in Seq(Rows) BY DEF Replays
<1>2. Worth(r.lots, side) \in Int BY <1>1, WorthIsInteger
<1>3. IsFiniteSet(DOMAIN r.realized)
  <2>1. DOMAIN r.realized = 1..Len(r.realized) /\ Len(r.realized) \in Nat BY <1>1
  <2> QED BY <2>1, FS_Interval
<1> DEFINE f == [n \in DOMAIN r.realized |-> BookedAs(r.realized[n], side)]
<1>4. \A n \in DOMAIN r.realized : f[n] \in Int
  <2>1. \A n \in DOMAIN r.realized : r.realized[n] \in Rows BY <1>1
  <2> QED BY <2>1 DEF Rows, BookedAs
<1>5. Results(r.realized, side) = SumOver(f, DOMAIN r.realized) BY <1>3, ResultsAreSum
<1> HIDE DEF f
<1>6. SumOver(f, DOMAIN r.realized) \in Int BY <1>3, <1>4, SumIsInteger
<1>7. Funds(r, side) \in Int BY <1>2, <1>5, <1>6 DEF Funds
<1> QED BY <1>1, <1>2, <1>5, <1>6, <1>7

\* A step books an amount on one side, and nothing on the other.
Funded(s, r, at, amount) ==
  /\ Emptied(s.lots)
  /\ \A side \in Sides : Funds(s, side) = Funds(r, side) + (IF side = at THEN amount ELSE 0)

\* A trade pays or receives its value, if what closes and what opens lots divides it.
LEMMA TradePays ==
  ASSUME NEW I, AreFacts(I), NEW i \in DOMAIN facts, facts[i].kind \in {"buy", "sell"},
         NEW r \in Replays(I), Emptied(r.lots), NEW side \in Sides, NEW method,
         LET n == Size(facts[i])
             left == Take(r.lots, Ordered(r.lots, facts[i].inst, OpposedSide(side), method), n).left
         IN  left = 0 \/ left = n \/ facts[i].value % n = 0
  PROVE  Funded(Trade(r, i, side, method), r, side, facts[i].value)
<1> DEFINE f == facts[i]
           n == Size(f)
           other == OpposedSide(side)
           taken == Take(r.lots, Ordered(r.lots, f.inst, OpposedSide(side), method), n)
           closed == n - taken.left
           paid == (f.value * closed) \div n
           row == Row(OpposedSide(side), closed, taken.pieces, paid)
           rows == IF closed = 0 THEN r.realized ELSE Append(r.realized, row)
           after == [r EXCEPT !.lots = taken.lots, !.realized = rows]
           val == (f.value * taken.left) \div n
           s == Trade(r, i, side, method)
           value == f.value
<1>1. f.qty \in Int /\ f.qty # 0 /\ f.inst \in I /\ value \in Int /\ i \in Nat
  BY DEF AreFacts, IsFact
<1>2. n \in Nat /\ n \in Nat \ {0} BY <1>1 DEF Size
<1>3. /\ r.lots \in Seq(LotsOf(I)) /\ r.realized \in Seq(Rows) /\ r.seq \in Nat /\ r.ok \in BOOLEAN
  BY DEF Replays
<1>4. TakenFrom(r.lots, taken, Open(r.lots, f.inst, other), method, n, I)
  <2> HIDE DEF n, f
  <2> QED BY <1>2, <1>3, TakeOpen
<1>5. PaidFrom(r.lots, taken, other, n)
  <2> HIDE DEF n, f
  <2> QED BY <1>2, <1>3, OpenPays
<1>6. s = IF taken.left = 0 THEN after ELSE Opened(after, f.inst, i, side, taken.left, val)
  BY <1>3 DEF Trade, Traded, Replays, Size
<1>7. taken.left = 0 \/ taken.left = n \/ value % n = 0 OBVIOUS
<1> HIDE DEF taken, n
<1>8. taken.left \in Nat /\ taken.pieces \in Seq(Pieces) /\ taken.lots \in Seq(LotsOf(I)) BY <1>4 DEF TakenFrom
<1>9. taken.left \in 0..n BY <1>2, <1>5, <1>8 DEF PaidFrom
<1>10. /\ paid \in Int /\ val \in Int /\ paid + val = value
       /\ taken.left = 0 => paid = value
       /\ taken.left = n => val = value
  <2> DEFINE v == value
             left == taken.left
  <2>1. v \in Int /\ left \in 0..n /\ (left = 0 \/ left = n \/ v % n = 0) BY <1>1, <1>7, <1>9
  <2> HIDE DEF v, left
  <2>2. /\ (v * (n - left)) \div n \in Int /\ (v * left) \div n \in Int
        /\ (v * (n - left)) \div n + (v * left) \div n = v
        /\ left = 0 => (v * (n - left)) \div n = v
        /\ left = n => (v * left) \div n = v
    BY <1>2, <2>1, SharesAddUp
  <2> QED BY <2>2 DEF v, left
<1> HIDE DEF f, paid, val
<1>11. PieceValue(taken.pieces) \in Int BY <1>8, PieceValueIsInteger
<1>12. other \in Sides /\ side # other /\ \A x \in Sides : x = side \/ x = other BY DEF OpposedSide, Sides
<1>13. row \in Rows /\ row.side = other /\ row.open = PieceValue(taken.pieces) /\ row.close = paid
  <2>1. closed \in Int BY <1>2, <1>8
  <2> HIDE DEF closed
  <2> QED BY <1>10, <1>11, <1>12, <2>1 DEF Row, Rows
<1>14. \A x \in Sides :
         /\ Worth(r.lots, x) \in Int /\ Results(r.realized, x) \in Int /\ Worth(taken.lots, x) \in Int
         /\ Worth(taken.lots, x) = Worth(r.lots, x) - (IF x = other THEN PieceValue(taken.pieces) ELSE 0)
  BY <1>5, <1>8, FundsAreIntegers, WorthIsInteger DEF PaidFrom
<1>15. closed = 0 => taken.left = n /\ taken.pieces = <<>> BY <1>2, <1>5, <1>8 DEF PaidFrom
<1>16. closed = 0 <=> taken.left = n BY <1>2, <1>8
<1> HIDE DEF row, closed
<1>17. rows \in Seq(Rows) BY <1>3, <1>13
<1>18. \A x \in Sides :
         Results(rows, x) = Results(r.realized, x)
                              + (IF x = other THEN PieceValue(taken.pieces) ELSE IF closed = 0 THEN 0 ELSE paid)
  <2> TAKE x \in Sides
  <2>1. CASE closed = 0
    <3>1. PieceValue(taken.pieces) = 0 BY <1>15, <2>1, NoPiecesNoValue
    <3> QED BY <1>14, <2>1, <3>1
  <2>2. CASE closed # 0
    <3>1. Results(Append(r.realized, row), x) = Results(r.realized, x) + BookedAs(row, x)
      BY <1>3, <1>13, ResultsGrow
    <3>2. BookedAs(row, x) = IF x = other THEN PieceValue(taken.pieces) ELSE paid BY <1>13 DEF BookedAs
    <3> QED BY <2>2, <3>1, <3>2
  <2> QED BY <2>1, <2>2
<1> HIDE DEF rows
<1>19. SameLots(r.lots, taken.lots, I) BY <1>3, <1>4, TakenIsSame
<1>20. /\ after \in Replays(I) /\ after.lots = taken.lots /\ after.realized = rows /\ after.seq = r.seq
  <2>1. after.lots = taken.lots /\ after.realized = rows /\ after.seq = r.seq BY DEF Replays
  <2>2. Touches(after, r, I) BY <1>17, <1>19, ChangeTouches
  <2> HIDE DEF after
  <2> QED BY <2>1, <2>2 DEF Touches
<1>21. Emptied(taken.lots) BY <1>5 DEF PaidFrom
<1> HIDE DEF after, s, other
<1>22. CASE taken.left = 0
  <2>1. s = after BY <1>6, <1>22
  <2>2. closed # 0 /\ paid = value BY <1>2, <1>10, <1>16, <1>22
  <2>3. ASSUME NEW x \in Sides PROVE Funds(s, x) = Funds(r, x) + (IF x = side THEN value ELSE 0)
    <3>1. Funds(s, x) = Worth(taken.lots, x) + Results(rows, x) BY <1>20, <2>1 DEF Funds
    <3>2. Funds(r, x) = Worth(r.lots, x) + Results(r.realized, x) BY DEF Funds
    <3> HIDE DEF value
    <3> QED BY <1>1, <1>11, <1>12, <1>14, <1>18, <2>2, <3>1, <3>2
  <2>4. Emptied(s.lots) BY <1>20, <1>21, <2>1
  <2> QED BY <2>3, <2>4 DEF Funded, s, f
<1>23. CASE taken.left > 0
  <2> DEFINE lot == Lot(f.inst, i, side, taken.left, val, r.seq + 1)
  <2>1. s = Opened(after, f.inst, i, side, taken.left, val) BY <1>6, <1>23
  <2>2. val \in Values BY <1>10 DEF Values
  <2>3. Opens(s, after, lot, I)
    BY <1>1, <1>8, <1>20, <2>1, <2>2, OpenedOpens
  <2>4. s.realized = rows
    <3>1. s.realized = after.realized BY <1>20, <2>1 DEF Opened, Replays
    <3> QED BY <1>20, <3>1
  <2>5. lot.side = side /\ lot.val = val /\ lot.qty = taken.left BY DEF Lot
  <2> HIDE DEF lot
  <2>6. s.lots = Append(taken.lots, lot) /\ lot \in LotsOf(I) BY <1>20, <2>3 DEF Opens
  <2>7. Emptied(s.lots) /\ \A x : Worth(s.lots, x) = Worth(taken.lots, x) + (IF side = x THEN Known(val) ELSE 0)
    <3>1. lot.qty # 0 BY <1>8, <1>23, <2>5
    <3> QED BY <1>8, <1>21, <2>5, <2>6, <3>1, WorthOpened
  <2>8. Known(val) = val
    <3>1. Unknown \notin Int BY LedgerAssumption
    <3> QED BY <1>10, <3>1 DEF Known
  <2>9. closed = 0 => val = value BY <1>10, <1>16
  <2>10. ASSUME NEW x \in Sides PROVE Funds(s, x) = Funds(r, x) + (IF x = side THEN value ELSE 0)
    <3>1. Funds(s, x) = Worth(taken.lots, x) + (IF side = x THEN val ELSE 0) + Results(rows, x)
      BY <2>4, <2>7, <2>8 DEF Funds
    <3>2. Funds(r, x) = Worth(r.lots, x) + Results(r.realized, x) BY DEF Funds
    <3> HIDE DEF value
    <3> QED BY <1>1, <1>10, <1>11, <1>12, <1>14, <1>18, <2>9, <3>1, <3>2
  <2> QED BY <2>7, <2>10 DEF Funded, s, f
<1> QED BY <1>8, <1>22, <1>23 DEF s, f

\* What two steps book is booked by both.
LEMMA FundedTwice ==
  ASSUME NEW I, NEW r \in Replays(I), NEW s \in Replays(I), NEW t \in Replays(I),
         NEW at, NEW a \in Int, NEW b \in Int, NEW c, c = a + b, Funded(s, r, at, a), Funded(t, s, at, b)
  PROVE  Funded(t, r, at, c)
<1>1. ASSUME NEW side \in Sides PROVE Funds(t, side) = Funds(r, side) + (IF side = at THEN c ELSE 0)
  <2>1. Funds(r, side) \in Int /\ Funds(s, side) \in Int BY FundsAreIntegers
  <2>2. Funds(s, side) = Funds(r, side) + (IF side = at THEN a ELSE 0) BY DEF Funded
  <2>3. Funds(t, side) = Funds(s, side) + (IF side = at THEN b ELSE 0) BY DEF Funded
  <2> QED BY <2>1, <2>2, <2>3
<1> QED BY <1>1 DEF Funded

\* When only the lots change, so does what they are worth.
LEMMA FundsOfLots ==
  ASSUME NEW I, NEW r \in Replays(I), NEW lots, NEW side
  PROVE  /\ [r EXCEPT !.lots = lots].lots = lots
         /\ Funds([r EXCEPT !.lots = lots], side) = Worth(lots, side) + Results(r.realized, side)
<1>1. [r EXCEPT !.lots = lots].lots = lots /\ [r EXCEPT !.lots = lots].realized = r.realized BY DEF Replays
<1> QED BY <1>1 DEF Funds

\* Sums over the first terms.
LEMMA PrefixSums ==
  ASSUME NEW N \in Nat, NEW f, \A n \in 1..N : f[n] \in Int
  PROVE  /\ SumOver(f, 1..0) = 0
         /\ \A n \in 0..N : SumOver(f, 1..n) \in Int
         /\ \A n \in 1..N : SumOver(f, 1..n) = SumOver(f, 1..(n - 1)) + f[n]
<1>1. \A n \in 0..N : IsFiniteSet(1..n) BY FS_Interval
<1>2. SumOver(f, 1..0) = 0
  <2>1. 1..0 = {} OBVIOUS
  <2>2. SumOver(f, {}) = 0 BY SumUnfolds, FS_EmptySet
  <2> QED BY <2>1, <2>2
<1>3. ASSUME NEW n \in 0..N PROVE SumOver(f, 1..n) \in Int
  <2>1. \A x \in 1..n : f[x] \in Int OBVIOUS
  <2> QED BY <1>1, <2>1, SumIsInteger
<1>4. ASSUME NEW n \in 1..N PROVE SumOver(f, 1..n) = SumOver(f, 1..(n - 1)) + f[n]
  <2>1. (1..n) \ {n} = 1..(n - 1) /\ n - 1 \in 0..N /\ n \in 0..N OBVIOUS
  <2> DEFINE S == 1..n
  <2>2. IsFiniteSet(S) /\ n \in S /\ \A x \in S : f[x] \in Int BY <1>1, <2>1
  <2> HIDE DEF S
  <2>3. SumOver(f, S) = f[n] + SumOver(f, S \ {n}) BY <2>2, SumSplits
  <2>4. SumOver(f, 1..n) = f[n] + SumOver(f, 1..(n - 1)) BY <2>1, <2>3 DEF S
  <2>5. SumOver(f, 1..(n - 1)) \in Int /\ f[n] \in Int BY <1>3, <2>1
  <2> QED BY <2>4, <2>5
<1> QED BY <1>2, <1>3, <1>4

\* What carried lots are worth.
LEMMA ValueOfParts ==
  ASSUME NEW parts \in CarriedLots
  PROVE  /\ Len(parts) \in Nat /\ DOMAIN parts = 1..Len(parts)
         /\ \A n \in 1..Len(parts) : parts[n] \in [src : Nat, qty : Nat, val : Int]
         /\ \A n \in 1..Len(parts) : parts[n].val \in Int /\ Known(parts[n].val) = parts[n].val
         /\ PieceValue(parts) = SumOver([n \in 1..Len(parts) |-> parts[n].val], 1..Len(parts))
         /\ PieceValue(parts) \in Int
<1> DEFINE T == [src : Nat, qty : Nat, val : Int]
           N == Len(parts)
           f == [n \in 1..N |-> parts[n].val]
           g == [n \in 1..N |-> Known(parts[n].val)]
<1>1. /\ N \in Nat /\ DOMAIN parts = 1..N /\ \A n \in 1..N : parts[n] \in T
  <2>1. parts \in Seq(T) BY DEF CarriedLots
  <2> HIDE DEF T
  <2> QED BY <2>1
<1>2. \A n \in 1..N : parts[n].val \in Int /\ Known(parts[n].val) = parts[n].val
  <2> TAKE n \in 1..N
  <2>1. parts[n] \in T BY <1>1
  <2>2. parts[n].val \in Int BY <2>1
  <2>3. Unknown \notin Int BY LedgerAssumption
  <2> QED BY <2>2, <2>3 DEF Known
<1> HIDE DEF N
<1>3. \A n \in 1..N : g[n] = f[n] /\ f[n] \in Int BY <1>2
<1>4. IsFiniteSet(1..N) BY <1>1, FS_Interval
<1>5. PieceValue(parts) = SumOver(g, 1..N)
  <2>1. ValueOf(parts, 1..N) = SumOver(g, 1..N) BY <1>4, ValueIsSum
  <2> QED BY <1>1, <2>1 DEF PieceValue
<1>6. SumOver(g, 1..N) = SumOver(f, 1..N) /\ SumOver(f, 1..N) \in Int
  <2> HIDE DEF f, g
  <2> QED BY <1>3, <1>4, SumsOfEquals, SumIsInteger
<1> QED BY <1>1, <1>2, <1>5, <1>6 DEF N

\* A lot of unknown value is known to be worth nothing.
LEMMA OpeningPays ==
  ASSUME NEW I, NEW r \in Replays(I), Emptied(r.lots), NEW inst \in I, NEW src \in Nat, NEW qty \in Nat,
         NEW val \in Values, qty = 0 => Known(val) = 0
  PROVE  Funded(Opened(r, inst, src, "long", qty, val), r, "long", Known(val))
<1> DEFINE s == Opened(r, inst, src, "long", qty, val)
           lot == Lot(inst, src, "long", qty, val, r.seq + 1)
<1>1. Opens(s, r, lot, I)
  <2>1. "long" \in Sides BY DEF Sides
  <2> QED BY <2>1, OpenedOpens
<1>2. s.realized = r.realized BY DEF Opened, Replays
<1>3. lot.side = "long" /\ lot.val = val /\ lot.qty = qty BY DEF Lot
<1> HIDE DEF lot, s
<1>4. s.lots = Append(r.lots, lot) /\ lot \in LotsOf(I) /\ r.lots \in Seq(LotsOf(I)) BY <1>1 DEF Opens, Replays
<1>5. Emptied(s.lots) BY <1>3, <1>4, WorthOpened
<1>6. ASSUME NEW side \in Sides
      PROVE  Funds(s, side) = Funds(r, side) + (IF side = "long" THEN Known(val) ELSE 0)
  <2>1. Worth(s.lots, side) = Worth(r.lots, side) + (IF lot.side = side THEN Known(lot.val) ELSE 0)
    BY <1>4, WorthOpened
  <2>2. Worth(r.lots, side) \in Int /\ Results(r.realized, side) \in Int BY FundsAreIntegers
  <2>3. Known(val) \in Int BY KnownIsInteger
  <2> QED BY <1>2, <1>3, <2>1, <2>2, <2>3 DEF Funds
<1> QED BY <1>5, <1>6 DEF Funded, s

\* A split changes what lots hold, not what they are worth.
LEMMA SplitPays ==
  ASSUME NEW I, NEW r \in Replays(I), Emptied(r.lots), NEW f, IsFact(f, I), SplitOf(f, r.lots)
  PROVE  Funded([r EXCEPT !.lots = Scaled(r.lots, f.inst, f.ratio)], r, "long", 0)
<1> DEFINE lots == Scaled(r.lots, f.inst, f.ratio)
           s == [r EXCEPT !.lots = lots]
<1>1. r.lots \in Seq(LotsOf(I)) /\ f.ratio[1] \in Nat \ {0} /\ f.ratio[2] \in Nat \ {0} BY DEF Replays, IsFact
<1>2. ScaledBy(lots, r.lots, f.inst, f.ratio, I) BY <1>1, ScaledScales
<1> HIDE DEF lots
<1>3. SameLots(r.lots, lots, I) /\ \A j \in DOMAIN r.lots : lots[j].val = r.lots[j].val BY <1>2 DEF ScaledBy
<1>4. \A side : Worth(lots, side) = Worth(r.lots, side) BY <1>1, <1>3, WorthKept
<1>5. s.lots = lots /\ \A side : Funds(s, side) = Worth(lots, side) + Results(r.realized, side)
  BY FundsOfLots
<1> HIDE DEF s
<1>6. \A side : Funds(s, side) = Funds(r, side) /\ Funds(r, side) \in Int
  BY <1>4, <1>5, FundsAreIntegers DEF Funds
<1>7. Emptied(lots)
  <2>1. DOMAIN lots = DOMAIN r.lots BY <1>3 DEF SameLots
  <2> SUFFICES ASSUME NEW j \in DOMAIN r.lots, lots[j].qty = 0 PROVE Known(lots[j].val) = 0
    BY <2>1 DEF Emptied
  <2> DEFINE q == r.lots[j].qty
             p == f.ratio[1]
             d == f.ratio[2]
  <2>2. q \in Nat /\ p \in Nat \ {0} /\ d \in Nat \ {0} BY <1>1, WorthIsInteger
  <2>3. q = 0
    <3>1. CASE r.lots[j].inst = f.inst
      <4>1. (q * p) % d = 0 BY <3>1 DEF SplitOf
      <4>2. (q * p) \div d = 0 BY <1>2, <3>1 DEF ScaledBy
      <4> DEFINE x == q * p
      <4>3. x \in Nat BY <2>2
      <4>4. x % d = 0 /\ x \div d = 0 BY <4>1, <4>2
      <4> HIDE DEF x, q, p, d
      <4>5. x = 0
        <5>1. (x \div d) * d = x BY <2>2, <4>3, <4>4, WholeQuotient
        <5> QED BY <2>2, <4>4, <5>1
      <4>6. q * p = 0 BY <4>5 DEF x
      <4> QED BY <2>2, <4>6
    <3>2. CASE r.lots[j].inst # f.inst
      <4>1. lots[j] = r.lots[j] BY <1>2, <3>2 DEF ScaledBy
      <4> QED BY <4>1
    <3> QED BY <3>1, <3>2
  <2>4. Known(r.lots[j].val) = 0 BY <2>3 DEF Emptied
  <2> QED BY <1>3, <2>4
<1>8. Emptied(s.lots) BY <1>5, <1>7
<1> QED BY <1>6, <1>8 DEF Funded, s, lots

\* Giving away a lot takes its value out of the long side.
LEMMA GiveOnePays ==
  ASSUME NEW I, NEW r \in Replays(I), Emptied(r.lots), NEW from, NEW p \in [src : Nat, qty : Nat, val : Int],
         GiveOne(r, from, p).ok
  PROVE  r.ok /\ Funded(GiveOne(r, from, p), r, "long", -p.val)
<1> DEFINE lots == r.lots
           n == p.qty
           taken == Take(lots, OrderedFrom(lots, from, p.src), n)
           s == Given(r, taken, p.val)
<1>1. lots \in Seq(LotsOf(I)) /\ n \in Nat BY DEF Replays
<1>2. PaidFrom(lots, taken, "long", n)
  <2> HIDE DEF lots, n
  <2> QED BY <1>1, SourcePays
<1>3. r.ok /\ GiveOne(r, from, p) = s BY DEF GiveOne
<1> HIDE DEF taken, n
<1>4. ~Raise(r).ok BY RaiseTouches
<1>5. PieceValue(taken.pieces) = p.val /\ s = [r EXCEPT !.lots = taken.lots] BY <1>3, <1>4 DEF Given
<1>6. s.lots = taken.lots /\ \A side : Funds(s, side) = Worth(taken.lots, side) + Results(r.realized, side)
  BY <1>5, FundsOfLots
<1>7. Emptied(s.lots) BY <1>2, <1>6 DEF PaidFrom
<1>8. ASSUME NEW side \in Sides PROVE Funds(s, side) = Funds(r, side) + (IF side = "long" THEN -p.val ELSE 0)
  <2>1. Worth(taken.lots, side) = Worth(lots, side) - (IF side = "long" THEN p.val ELSE 0)
    BY <1>2, <1>5 DEF PaidFrom
  <2>2. Worth(lots, side) \in Int /\ Results(r.realized, side) \in Int BY FundsAreIntegers
  <2>3. p.val \in Int OBVIOUS
  <2>4. Funds(r, side) = Worth(lots, side) + Results(r.realized, side) BY DEF Funds
  <2>5. Funds(s, side) = Worth(taken.lots, side) + Results(r.realized, side) BY <1>6
  <2> DEFINE v == p.val
  <2> HIDE DEF s, lots, v
  <2> QED BY <2>1, <2>2, <2>3, <2>4, <2>5 DEF v
<1> QED BY <1>3, <1>7, <1>8 DEF Funded

\* The giving side of a transfer loses what the parts are worth.
LEMMA GivePays ==
  ASSUME NEW I, NEW r \in Replays(I), Emptied(r.lots), NEW fact, fact.parts \in CarriedLots, GiveLots(r, fact).ok
  PROVE  Funded(GiveLots(r, fact), r, "long", -PieceValue(fact.parts))
<1> DEFINE N == Len(fact.parts)
           parts == fact.parts
           from == fact.inst
           f == [n \in 1..N |-> parts[n].val]
           worth(n) == SumOver(f, 1..n)
<1>1. PICK run : GiveRun(run, r, fact.inst, fact.parts, I) /\ GiveLots(r, fact) = run[Len(fact.parts)]
  BY GiveRuns
<1> DEFINE Q == {n \in 0..N : run[n].ok => Funded(run[n], r, "long", -worth(n))}
<1>2. /\ N \in Nat /\ \A n \in 1..N : parts[n] \in [src : Nat, qty : Nat, val : Int]
      /\ \A n \in 1..N : parts[n].val \in Int
      /\ PieceValue(parts) = worth(N)
  BY ValueOfParts
<1>3. /\ run \in [0..N -> {t \in Replays(I) : Touches(t, r, I)}] /\ run[0] = r
      /\ \A n \in 1..N : run[n] = GiveOne(run[n - 1], from, parts[n])
  BY <1>1 DEF GiveRun
<1>4. \A n \in 0..N : run[n] \in Replays(I) BY <1>3
<1> HIDE DEF N
<1>5. /\ worth(0) = 0 /\ (\A n \in 0..N : worth(n) \in Int)
      /\ \A n \in 1..N : worth(n) = worth(n - 1) + parts[n].val
  <2>1. \A n \in 1..N : f[n] = parts[n].val /\ f[n] \in Int BY <1>2
  <2> HIDE DEF f, parts
  <2>2. /\ SumOver(f, 1..0) = 0
        /\ \A n \in 0..N : SumOver(f, 1..n) \in Int
        /\ \A n \in 1..N : SumOver(f, 1..n) = SumOver(f, 1..(n - 1)) + f[n]
    BY <1>2, <2>1, PrefixSums
  <2> QED BY <2>1, <2>2
<1> HIDE DEF worth, parts, from
<1>6. 0 \in Q
  <2>1. \A side : Funds(r, side) = Funds(r, side) + 0 BY FundsAreIntegers
  <2>2. -worth(0) = 0 BY <1>5
  <2>3. Funded(r, r, "long", -worth(0)) BY <2>1, <2>2 DEF Funded
  <2> QED BY <1>2, <1>3, <2>3
<1>7. ASSUME NEW n \in 1..N, n - 1 \in Q
      PROVE  n \in Q
  <2> SUFFICES ASSUME run[n].ok
               PROVE  Funded(run[n], r, "long", -worth(n))
    BY <1>2
  <2> DEFINE t == run[n - 1]
             u == run[n]
             p == parts[n]
             a == -worth(n - 1)
             b == -p.val
             c == -worth(n)
  <2>1. n - 1 \in 0..N /\ n \in 0..N BY <1>2
  <2>2. t \in Replays(I) /\ u \in Replays(I) /\ p \in [src : Nat, qty : Nat, val : Int] /\ u = GiveOne(t, from, p)
    BY <1>2, <1>3, <1>4, <2>1
  <2>3. worth(n - 1) \in Int /\ p.val \in Int /\ worth(n) = worth(n - 1) + p.val BY <1>2, <1>5, <2>1
  <2>4. a \in Int /\ b \in Int /\ c = a + b
    <3> HIDE DEF p
    <3> QED BY <2>3
  <2>5. t.ok => Funded(t, r, "long", a) BY <1>7
  <2>6. GiveOne(t, from, p).ok BY <2>2
  <2> HIDE DEF t, u, p, a, c
  <2>7. t.ok
    <3>1. t.ok BY <2>2, <2>6 DEF GiveOne
    <3> QED BY <3>1
  <2>8. Emptied(t.lots) BY <2>5, <2>7 DEF Funded
  <2>9. Funded(u, t, "long", b) BY <2>2, <2>6, <2>8, GiveOnePays
  <2> HIDE DEF b
  <2>10. Funded(u, r, "long", c) BY <2>2, <2>4, <2>5, <2>7, <2>9, FundedTwice
  <2> QED BY <2>10 DEF u, c
<1>8. \A n \in 0..N : n \in Q
  <2>1. \A n \in 1..N : n - 1 \in Q => n \in Q BY <1>7
  <2> HIDE DEF Q
  <2> QED BY <1>2, <1>6, <2>1, CountUp
<1>9. N \in Q BY <1>2, <1>8
<1> QED BY <1>1, <1>2, <1>9 DEF N, parts

\* The receiving side gains it; a part that holds nothing is none.
LEMMA ReceivePays ==
  ASSUME NEW I, NEW r \in Replays(I), Emptied(r.lots), NEW fact, fact.inst \in I, fact.parts \in CarriedLots,
         \A n \in DOMAIN fact.parts : fact.parts[n].qty > 0
  PROVE  Funded(ReceiveLots(r, fact), r, "long", PieceValue(fact.parts))
<1> DEFINE N == Len(fact.parts)
           M == Len(r.lots)
           parts == fact.parts
           s == ReceiveLots(r, fact)
           all == s.lots
           g == [n \in 1..N |-> parts[n].val]
           new == {M + n : n \in 1..N}
<1>1. ReceivedAfter(s, r, fact, I) BY ReceiveReceives
<1>2. s.realized = r.realized BY DEF ReceiveLots, Replays
<1> HIDE DEF s
<1>3. /\ r.lots \in Seq(LotsOf(I)) /\ all \in Seq(LotsOf(I)) /\ M \in Nat /\ N \in Nat
      /\ DOMAIN r.lots = 1..M /\ DOMAIN parts = 1..N /\ DOMAIN all = 1..(M + N)
      /\ \A j \in 1..M : all[j] = r.lots[j]
  BY <1>1 DEF Replays, ReceivedAfter, CarriedLots
<1>4. ASSUME NEW n \in 1..N
      PROVE  all[M + n].side = "long" /\ all[M + n].qty = parts[n].qty /\ all[M + n].val = parts[n].val
  <2>1. all[M + n] = Lot(fact.inst, parts[n].src, "long", parts[n].qty, parts[n].val, r.seq + n)
    BY <1>1, <1>3 DEF ReceivedAfter
  <2> DEFINE x == Lot(fact.inst, parts[n].src, "long", parts[n].qty, parts[n].val, r.seq + n)
  <2>2. x.side = "long" /\ x.qty = parts[n].qty /\ x.val = parts[n].val BY DEF Lot
  <2> HIDE DEF x
  <2>3. all[M + n] = x BY <2>1 DEF x
  <2> QED BY <2>2, <2>3
<1>5. /\ \A n \in 1..N : parts[n].val \in Int /\ Known(parts[n].val) = parts[n].val
      /\ PieceValue(parts) = SumOver(g, 1..N) /\ PieceValue(parts) \in Int
  BY ValueOfParts
<1>6. \A n \in 1..N : parts[n].qty > 0 BY <1>3
<1> HIDE DEF N, M, parts
<1>7. \A j \in 1..(M + N) : j \in 1..M \/ \E n \in 1..N : j = M + n
  <2> TAKE j \in 1..(M + N)
  <2>1. CASE j <= M BY <1>3, <2>1
  <2>2. CASE j > M
    <3>1. j - M \in 1..N /\ j = M + (j - M) BY <1>3, <2>2
    <3> QED BY <3>1
  <2> QED BY <1>3, <2>1, <2>2
<1>8. new \cap (1..M) = {} /\ new \subseteq 1..(M + N) BY <1>3
<1>9. Emptied(all)
  <2> SUFFICES ASSUME NEW j \in 1..(M + N), all[j].qty = 0 PROVE Known(all[j].val) = 0
    BY <1>3 DEF Emptied
  <2>1. CASE j \in 1..M BY <1>3, <2>1 DEF Emptied
  <2>2. ASSUME NEW n \in 1..N, j = M + n PROVE FALSE
    <3>1. parts[n].qty = 0 BY <1>4, <2>2
    <3>2. parts[n].qty > 0 BY <1>6
    <3> QED BY <3>1, <3>2
  <2> QED BY <1>7, <2>1, <2>2
<1>10. ASSUME NEW side \in Sides
       PROVE  Worth(all, side) = Worth(r.lots, side) + (IF side = "long" THEN PieceValue(parts) ELSE 0)
  <2> DEFINE S == OfSide(r.lots, side)
             T == OfSide(all, side)
             f == [j \in T |-> Known(all[j].val)]
             h == [n \in 1..N |-> M + n]
  <2>1. /\ IsFiniteSet(S) /\ S \in SUBSET (1..M) /\ IsFiniteSet(T) /\ T \in SUBSET (1..(M + N))
        /\ \A j \in 1..M : r.lots[j].val \in Values
        /\ \A j \in 1..(M + N) : all[j].val \in Values
    BY <1>3, WorthIsInteger
  <2>2. T = IF side = "long" THEN S \cup new ELSE S
    <3>1. S = {j \in 1..M : all[j].side = side} BY <1>3 DEF OfSide
    <3>2. T = {j \in 1..(M + N) : all[j].side = side} BY <1>3 DEF OfSide
    <3>3. \A j \in new : all[j].side = "long" BY <1>4
    <3>4. \A j \in 1..(M + N) : j \in 1..M \/ j \in new BY <1>7
    <3>5. \A j \in 1..M : j \in 1..(M + N) BY <1>3
    <3> HIDE DEF new, S, T
    <3>6. CASE side = "long" BY <1>8, <3>1, <3>2, <3>3, <3>4, <3>5, <3>6
    <3>7. CASE side # "long" BY <1>8, <3>1, <3>2, <3>3, <3>4, <3>5, <3>7
    <3> QED BY <3>6, <3>7
  <2> HIDE DEF T
  <2>3. \A j \in T : f[j] \in Int BY <2>1, KnownIsInteger
  <2>4. S \subseteq T BY <2>2
  <2>5. ValueOf(r.lots, S) = SumOver(f, S) /\ SumOver(f, S) \in Int
    <3> DEFINE e == [j \in S |-> Known(r.lots[j].val)]
    <3>1. \A j \in S : e[j] = f[j] /\ f[j] \in Int BY <1>3, <2>1, <2>3, <2>4
    <3>2. ValueOf(r.lots, S) = SumOver(e, S) BY <2>1, ValueIsSum
    <3>3. SumOver(e, S) = SumOver(f, S) /\ SumOver(f, S) \in Int
      <4> HIDE DEF e, f, S
      <4> QED BY <2>1, <3>1, SumsOfEquals, SumIsInteger
    <3> QED BY <3>2, <3>3
  <2>6. ValueOf(all, T) = SumOver(f, T) BY <2>1, ValueIsSum
  <2> HIDE DEF S
  <2>7. CASE side = "long"
    <3>1. T = S \cup new BY <2>2, <2>7
    <3>2. IsFiniteSet(1..N) /\ IsFiniteSet(new)
      <4>1. IsFiniteSet(1..N)
        <5>1. N \in Int /\ 1 \in Int BY <1>3
        <5> QED BY ONLY <5>1, FS_Interval
      <4>2. new \in SUBSET T BY <3>1
      <4> HIDE DEF new
      <4> QED BY <2>1, <4>1, <4>2, FS_Subset
    <3>3. \A n \in 1..N : g[n] \in Int /\ f[h[n]] = g[n]
      <4> TAKE n \in 1..N
      <4>1. M + n \in T BY <3>1
      <4> QED BY <1>4, <1>5, <4>1
    <3>4. new = {h[n] : n \in 1..N} /\ \A x, y \in 1..N : h[x] = h[y] => x = y
      <4>1. \A n \in 1..N : h[n] = M + n OBVIOUS
      <4>2. \A x, y \in 1..N : M + x = M + y => x = y BY <1>3
      <4> HIDE DEF h
      <4>3. new = {h[n] : n \in 1..N} BY <4>1
      <4> QED BY <4>1, <4>2, <4>3
    <3>5. S \cap new = {} BY <1>8, <2>1
    <3> HIDE DEF f, g, h, new
    <3>6. SumOver(f, {h[n] : n \in 1..N}) = SumOver(g, 1..N)
      <4> DEFINE K == 1..N
      <4>1. IsFiniteSet(K) /\ (\A x, y \in K : h[x] = h[y] => x = y) /\ \A n \in K : g[n] \in Int /\ f[h[n]] = g[n]
        BY <3>2, <3>3, <3>4
      <4> HIDE DEF K
      <4>2. SumOver(f, {h[n] : n \in K}) = SumOver(g, K) BY <4>1, SumOfImage
      <4> QED BY <4>2 DEF K
    <3>7. SumOver(f, new) = PieceValue(parts) BY <1>5, <3>4, <3>6
    <3>8. SumOver(f, S \cup new) = SumOver(f, S) + SumOver(f, new)
      <4>1. \A x \in S \cup new : f[x] \in Int BY <2>3, <3>1
      <4> QED BY <2>1, <3>2, <3>5, <4>1, SumOfUnion
    <3> QED BY <2>5, <2>6, <2>7, <3>1, <3>7, <3>8 DEF Worth, S, T
  <2>8. CASE side # "long"
    <3>1. T = S BY <2>2, <2>8
    <3> QED BY <2>5, <2>6, <2>8, <3>1 DEF Worth, S, T
  <2> QED BY <2>7, <2>8
<1>11. ASSUME NEW side \in Sides
       PROVE  Funds(s, side) = Funds(r, side) + (IF side = "long" THEN PieceValue(parts) ELSE 0)
  <2>1. Worth(r.lots, side) \in Int /\ Results(r.realized, side) \in Int BY FundsAreIntegers
  <2>2. Worth(s.lots, side) = Worth(r.lots, side) + (IF side = "long" THEN PieceValue(parts) ELSE 0) BY <1>10
  <2> QED BY <1>2, <1>5, <2>1, <2>2 DEF Funds
<1> QED BY <1>9, <1>11 DEF Funded, s, parts

\* Value goes out of an open lot of the long side as it goes off what is to be taken.
LEMMA ReduceOnePays ==
  ASSUME NEW I, NEW lots \in Seq(LotsOf(I)), NEW t \in Reductions(lots, I), NEW j \in DOMAIN lots
  PROVE  LET u == ReduceOne(t, j)
         IN  /\ \A i \in DOMAIN lots : i # j => u.lots[i] = t.lots[i]
             /\ Known(u.lots[j].val) - u.left = Known(t.lots[j].val) - t.left
<1> DEFINE lot == t.lots[j]
           part == IF lot.val <= t.left THEN lot.val ELSE t.left
           rest == [lot EXCEPT !.val = lot.val - part]
           u == [t EXCEPT !.lots = [t.lots EXCEPT ![j] = rest], !.left = t.left - part]
           v == [t EXCEPT !.known = FALSE]
           x == ReduceOne(t, j)
<1>1. /\ t \in [lots : [DOMAIN lots -> LotsOf(I)], left : Int, known : BOOLEAN]
      /\ t.lots \in [DOMAIN lots -> LotsOf(I)] /\ t.left \in Int /\ lot \in LotsOf(I)
  BY DEF Reductions
<1>2. v.lots = t.lots /\ v.left = t.left BY <1>1
<1>3. x = IF t.left = 0 THEN t ELSE IF lot.val = Unknown THEN v ELSE u
  <2> DEFINE w == [t EXCEPT !.lots[j].val = t.lots[j].val - part, !.left = t.left - part]
  <2>1. ReduceOne(t, j) = IF t.left = 0 THEN t ELSE IF lot.val = Unknown THEN v ELSE w
    BY DEF ReduceOne
  <2>2. w = u BY <1>1
  <2> HIDE DEF u, v, w
  <2>3. x = IF t.left = 0 THEN t ELSE IF lot.val = Unknown THEN v ELSE u BY <2>1, <2>2
  <2> QED BY <2>3
<1>4. lot.val \in Values /\ Known(lot.val) \in Int
  <2>1. lot.val \in Values BY <1>1, LotFields
  <2> QED BY <2>1, KnownIsInteger
<1> HIDE DEF v
<1> SUFFICES /\ \A i \in DOMAIN lots : i # j => x.lots[i] = t.lots[i]
             /\ Known(x.lots[j].val) - x.left = Known(t.lots[j].val) - t.left
  OBVIOUS
<1>5. CASE t.left = 0 \/ lot.val = Unknown
  <2>1. x.lots = t.lots /\ x.left = t.left
    <3> HIDE DEF x, u
    <3> QED BY <1>2, <1>3, <1>5
  <2> HIDE DEF x
  <2> QED BY <2>1
<1>6. CASE ~(t.left = 0 \/ lot.val = Unknown)
  <2>1. x = u BY <1>3, <1>6
  <2>2. lot.val \in Int BY <1>4, <1>6 DEF Values
  <2>3. part \in Int BY <1>1, <2>2
  <2> HIDE DEF part
  <2>4. rest.val = lot.val - part BY <1>1 DEF LotsOf
  <2>5. u.lots = [t.lots EXCEPT ![j] = rest] /\ u.left = t.left - part BY <1>1
  <2> HIDE DEF rest, u
  <2>6. u.lots[j] = rest /\ \A i \in DOMAIN lots : i # j => u.lots[i] = t.lots[i] BY <1>1, <2>5
  <2>7. Known(lot.val - part) = lot.val - part /\ Known(lot.val) = lot.val
    <3>1. Unknown \notin Int BY LedgerAssumption
    <3>2. lot.val - part \in Int BY <2>2, <2>3
    <3> QED BY <2>2, <3>1, <3>2 DEF Known
  <2> HIDE DEF x
  <2>8. Known(x.lots[j].val) = lot.val - part /\ x.left = t.left - part BY <2>1, <2>4, <2>5, <2>6, <2>7
  <2> DEFINE a == Known(x.lots[j].val)
             b == x.left
             c == t.left
             d == lot.val
  <2>9. a = d - part /\ b = c - part /\ d \in Int /\ c \in Int BY <1>1, <2>2, <2>8
  <2> HIDE DEF a, b, c, d
  <2>10. a - b = d - c BY <2>3, <2>9
  <2>11. Known(x.lots[j].val) - x.left = Known(t.lots[j].val) - t.left BY <2>7, <2>10 DEF a, b, c, d
  <2> QED BY <2>1, <2>6, <2>11
<1> QED BY <1>5, <1>6

\* The long side loses what is taken; closed lots and the short side are left alone.
Reduced(t, lots, value) ==
  /\ \A i \in DOMAIN lots : lots[i].qty = 0 \/ lots[i].side # "long" => t.lots[i].val = lots[i].val
  /\ ValueOf(t.lots, OfSide(lots, "long")) - t.left = ValueOf(lots, OfSide(lots, "long")) - value

\* The basis a spin-off takes from its parent leaves the long lots.
LEMMA ReducedPays ==
  ASSUME NEW I, NEW lots \in Seq(LotsOf(I)), NEW inst, NEW value \in Int
  PROVE  Reduced(ReducedBasis(lots, inst, value), lots, value)
<1> DEFINE order == Ordered(lots, inst, "long", "fifo")
           M == Len(order)
           S == OfSide(lots, "long")
<1>1. /\ order \in Seq(DOMAIN lots) /\ \A k \in DOMAIN order : order[k] \in Open(lots, inst, "long")
      /\ \E run : ReduceRun(run, I, lots, order, value) /\ ReducedBasis(lots, inst, value) = run[Len(order)]
  BY ReducedRuns
<1>2. PICK run : ReduceRun(run, I, lots, order, value) /\ ReducedBasis(lots, inst, value) = run[M]
  BY <1>1
<1> HIDE DEF order
<1> DEFINE Q == {k \in 0..M : Reduced(run[k], lots, value)}
<1>3. M \in Nat /\ DOMAIN order = 1..M /\ \A k \in 1..M : order[k] \in DOMAIN lots /\ order[k] \in Open(lots, inst, "long")
  BY <1>1
<1>4. IsFiniteSet(S) /\ S \in SUBSET DOMAIN lots /\ \A j \in DOMAIN lots : lots[j].val \in Values
  BY WorthIsInteger
<1>5. ValueOf(lots, S) \in Int
  <2>1. Worth(lots, "long") \in Int BY WorthIsInteger
  <2> QED BY <2>1 DEF Worth
<1>6. 0 \in Q
  <2>1. run[0].lots = lots /\ run[0].left = value BY <1>2 DEF ReduceRun
  <2>2. Reduced(run[0], lots, value) BY <2>1 DEF Reduced
  <2> QED BY <1>3, <2>2
<1>7. ASSUME NEW k \in 1..M, k - 1 \in Q PROVE k \in Q
  <2> DEFINE t == run[k - 1]
             u == run[k]
             j == order[k]
  <2>1. t \in Reductions(lots, I) /\ u \in Reductions(lots, I) /\ u = ReduceOne(t, j)
    <3>1. k - 1 \in 0..M /\ k \in 0..M BY <1>3
    <3> QED BY <1>2, <3>1 DEF ReduceRun
  <2>2. j \in DOMAIN lots /\ lots[j].side = "long" /\ lots[j].qty > 0 /\ lots[j].qty \in Nat
    <3>1. j \in DOMAIN lots /\ j \in Open(lots, inst, "long") BY <1>3
    <3>2. lots[j].qty \in Nat BY <3>1, WorthIsInteger
    <3> QED BY <3>1, <3>2 DEF Open
  <2>3. Reduced(t, lots, value) BY <1>7
  <2> HIDE DEF t, u, j
  <2>4. /\ \A i \in DOMAIN lots : i # j => u.lots[i] = t.lots[i]
        /\ Known(u.lots[j].val) - u.left = Known(t.lots[j].val) - t.left
    BY <2>1, <2>2, ReduceOnePays
  <2>5. t.left \in Int /\ u.left \in Int /\ \A i \in DOMAIN lots : t.lots[i].val \in Values /\ u.lots[i].val \in Values
    <3>1. /\ t.left \in Int /\ u.left \in Int
          /\ \A i \in DOMAIN lots : t.lots[i] \in LotsOf(I) /\ u.lots[i] \in LotsOf(I)
      BY <2>1 DEF Reductions
    <3> QED BY <3>1, LotFields
  <2>6. Known(t.lots[j].val) \in Int /\ Known(u.lots[j].val) \in Int BY <2>2, <2>5, KnownIsInteger
  <2>7. j \in S BY <2>2 DEF OfSide
  <2> HIDE DEF S
  <2>8. /\ ValueOf(t.lots, S) \in Int /\ ValueOf(u.lots, S) \in Int
        /\ ValueOf(u.lots, S) = ValueOf(t.lots, S) + Known(u.lots[j].val) - Known(t.lots[j].val)
    <3> DEFINE before == t.lots
               after == u.lots
    <3>1. ValuesDifferAt(before, after, j, S) BY <1>4, <2>4, <2>5 DEF ValuesDifferAt
    <3> HIDE DEF before, after
    <3>2. /\ ValueOf(before, S) \in Int /\ ValueOf(after, S) \in Int
          /\ ValueOf(after, S) = ValueOf(before, S) + Known(after[j].val) - Known(before[j].val)
      BY <1>4, <2>7, <3>1, ValueChangesBy
    <3> QED BY <3>2 DEF before, after
  <2>9. ValueOf(u.lots, S) - u.left = ValueOf(lots, S) - value
    <3>1. ValueOf(t.lots, S) - t.left = ValueOf(lots, S) - value BY <2>3 DEF Reduced, S
    <3> DEFINE a == Known(t.lots[j].val)
               b == Known(u.lots[j].val)
               x == ValueOf(t.lots, S)
               y == ValueOf(u.lots, S)
               z == ValueOf(lots, S)
               c == t.left
               d == u.left
    <3>2. /\ a \in Int /\ b \in Int /\ c \in Int /\ d \in Int /\ x \in Int /\ z \in Int
          /\ b - d = a - c /\ y = x + b - a /\ x - c = z - value
      BY <1>5, <2>4, <2>5, <2>6, <2>8, <3>1
    <3> HIDE DEF a, b, x, y, z, c, d
    <3>3. y - d = z - value BY <3>2
    <3> QED BY <3>3 DEF y, z, d
  <2>10. \A i \in DOMAIN lots : lots[i].qty = 0 \/ lots[i].side # "long" => u.lots[i].val = lots[i].val
    <3> TAKE i \in DOMAIN lots
    <3> HAVE lots[i].qty = 0 \/ lots[i].side # "long"
    <3>1. i # j BY <2>2
    <3> QED BY <2>3, <2>4, <3>1 DEF Reduced
  <2>11. Reduced(u, lots, value) BY <2>9, <2>10 DEF Reduced, S
  <2> QED BY <2>11 DEF u
<1>8. \A k \in 0..M : k \in Q
  <2>1. \A k \in 1..M : k - 1 \in Q => k \in Q BY <1>7
  <2> HIDE DEF M, Q
  <2> QED BY <1>3, <1>6, <2>1, CountUp
<1>9. M \in Q BY <1>3, <1>8
<1> QED BY <1>2, <1>9

\* A spin-off moves part of the basis from the oldest lots of the parent to the new lot.
LEMMA SpinOffPays ==
  ASSUME NEW I, NEW r \in Replays(I), Emptied(r.lots), NEW i \in Nat, IsFact(facts[i], I),
         IsAllocation(facts[i].parts), facts[i].parts # <<>>, facts[i].gets > 0, SpinOff(r, i).ok
  PROVE  Funded(SpinOff(r, i), r, "long", 0)
<1> DEFINE carried == facts[i].parts[1].carried
           gets == facts[i].gets
           reduced == ReducedBasis(r.lots, facts[i].inst, carried)
           lots == reduced.lots
           m == [r EXCEPT !.lots = reduced.lots]
           s == SpinOff(r, i)
           lot == Lot(facts[i].dst, i, "long", gets, carried, m.seq + 1)
<1>1. carried \in Int /\ facts[i].dst \in I /\ gets \in Nat /\ gets > 0 BY DEF IsAllocation, IsFact
<1>2. r.lots \in Seq(LotsOf(I)) /\ r.realized \in Seq(Rows) BY DEF Replays
<1>3. reduced \in Reductions(r.lots, I) /\ Reduced(reduced, r.lots, carried)
  <2> HIDE DEF carried
  <2> QED BY <1>1, <1>2, ReducedReduces, ReducedPays
<1>4. s = IF ~reduced.known \/ reduced.left # 0 THEN Raise(r) ELSE ActionLot(m, i, carried)
  BY DEF SpinOff
<1> HIDE DEF reduced, carried
<1>5. SameLots(r.lots, lots, I) /\ (\A j \in DOMAIN r.lots : lots[j].qty = r.lots[j].qty) /\ DOMAIN lots = DOMAIN r.lots
  <2>1. SameLots(r.lots, lots, I) /\ \A j \in DOMAIN r.lots : lots[j].qty = r.lots[j].qty
    BY <1>2, <1>3, ReductionIsSame
  <2>2. DOMAIN lots = DOMAIN r.lots BY <1>2, <2>1 DEF SameLots
  <2> QED BY <2>1, <2>2
<1>6. reduced.left = 0 /\ s = ActionLot(m, i, carried)
  <2>1. ~Raise(r).ok BY RaiseTouches
  <2> HIDE DEF m
  <2> QED BY <1>4, <2>1
<1>7. m \in Replays(I) /\ m.lots = lots /\ m.realized = r.realized
  <2>1. Touches(m, r, I) BY <1>2, <1>5, ChangeTouches
  <2>2. m.lots = lots /\ m.realized = r.realized BY DEF Replays
  <2> HIDE DEF m
  <2> QED BY <2>1, <2>2 DEF Touches
<1>8. Opens(s, m, lot, I)
  <2> HIDE DEF m, s
  <2>1. carried \in Values BY <1>1 DEF Values
  <2> QED BY <1>1, <1>6, <1>7, <2>1, ActionLotOpens
<1>9. s.realized = m.realized BY <1>6, <1>7 DEF ActionLot, Replays
<1>10. lot.side = "long" /\ lot.qty = gets /\ lot.val = carried BY DEF Lot
<1> HIDE DEF m, s, lot, lots, gets
<1>11. s.lots = Append(lots, lot) /\ lot \in LotsOf(I) /\ lots \in Seq(LotsOf(I))
  BY <1>5, <1>7, <1>8 DEF Opens, SameLots
<1>12. \A side : OfSide(lots, side) = OfSide(r.lots, side) BY <1>5 DEF SameLots, OfSide
<1>13. Emptied(lots)
  <2> SUFFICES ASSUME NEW j \in DOMAIN r.lots, lots[j].qty = 0 PROVE Known(lots[j].val) = 0
    BY <1>5 DEF Emptied
  <2>1. r.lots[j].qty = 0 BY <1>5
  <2>2. lots[j].val = r.lots[j].val BY <1>3, <2>1 DEF Reduced, lots
  <2> QED BY <2>1, <2>2 DEF Emptied
<1>14. Worth(r.lots, "long") \in Int /\ Worth(r.lots, "short") \in Int BY <1>2, WorthIsInteger
<1>15. Worth(lots, "long") = Worth(r.lots, "long") - carried
  <2>1. /\ Worth(lots, "long") = ValueOf(lots, OfSide(r.lots, "long"))
        /\ Worth(r.lots, "long") = ValueOf(r.lots, OfSide(r.lots, "long"))
    BY <1>12 DEF Worth
  <2>2. Worth(lots, "long") \in Int BY <1>11, WorthIsInteger
  <2>3. ValueOf(lots, OfSide(r.lots, "long")) - 0 = ValueOf(r.lots, OfSide(r.lots, "long")) - carried
    BY <1>3, <1>6 DEF Reduced, lots
  <2> DEFINE x == ValueOf(lots, OfSide(r.lots, "long"))
             y == ValueOf(r.lots, OfSide(r.lots, "long"))
  <2>4. x \in Int /\ y \in Int /\ x - 0 = y - carried BY <1>14, <2>1, <2>2, <2>3
  <2> HIDE DEF x, y
  <2>5. x = y - carried BY <1>1, <2>4
  <2> QED BY <2>1, <2>5 DEF x, y
<1>16. Worth(lots, "short") = Worth(r.lots, "short")
  <2> DEFINE S == OfSide(r.lots, "short")
  <2>1. IsFiniteSet(S) /\ \A j \in S : r.lots[j].val \in Values
    BY <1>2, WorthIsInteger
  <2>2. \A j \in S : j \in DOMAIN r.lots /\ r.lots[j].side = "short" BY DEF OfSide
  <2>3. \A j \in S : lots[j].val = r.lots[j].val BY <1>3, <2>2 DEF Reduced, lots
  <2> HIDE DEF S
  <2>4. ValueOf(r.lots, S) = ValueOf(lots, S) BY <2>1, <2>3, ValuesAgree
  <2> QED BY <1>12, <2>4 DEF Worth, S
<1>17. Known(carried) = carried
  <2>1. Unknown \notin Int BY LedgerAssumption
  <2> QED BY <1>1, <2>1 DEF Known
<1>18. Emptied(s.lots)
  <2>1. lot.qty # 0 BY <1>1, <1>10
  <2>2. Emptied(Append(lots, lot)) BY <1>11, <1>13, <2>1, WorthOpened, ZenonT(30)
  <2> QED BY <1>11, <2>2
<1>19. ASSUME NEW side \in Sides PROVE Funds(s, side) = Funds(r, side) + 0
  <2>1. Worth(s.lots, side) = Worth(lots, side) + (IF side = "long" THEN carried ELSE 0)
    BY <1>10, <1>11, <1>17, WorthOpened
  <2>2. Results(r.realized, side) \in Int BY FundsAreIntegers
  <2>3. side = "long" \/ side = "short" BY DEF Sides
  <2>4. Worth(s.lots, side) = Worth(r.lots, side)
    BY <1>1, <1>14, <1>15, <1>16, <2>1, <2>3
  <2>5. Funds(s, side) = Funds(r, side) BY <1>7, <1>9, <2>4 DEF Funds
  <2>6. Funds(r, side) \in Int BY FundsAreIntegers
  <2> QED BY <2>5, <2>6
<1>20. \A side \in Sides : Funds(s, side) = Funds(r, side) + (IF side = "long" THEN 0 ELSE 0) BY <1>19
<1> QED BY <1>18, <1>20 DEF Funded, s

\* An exchange moves what is carried over to the new lot; what the rest was bought for is
\* closed by the cash.
LEMMA ExchangePays ==
  ASSUME NEW I, NEW r \in Replays(I), Emptied(r.lots), NEW i \in Nat, IsFact(facts[i], I),
         IsAllocation(facts[i].parts), facts[i].parts # <<>>, facts[i].value >= 0,
         facts[i].gets = 0 => facts[i].parts[1].carried = 0, Exchange(r, i).ok
  PROVE  Funded(Exchange(r, i), r, "short", facts[i].value)
<1> DEFINE part == facts[i].parts[1]
           n == part.qty
           val == part.val
           carried == part.carried
           value == facts[i].value
           gets == facts[i].gets
           taken == Take(r.lots, Ordered(r.lots, facts[i].inst, "long", "fifo"), n)
           toCash == part.val - part.carried
           row == [side |-> "long", qty |-> n, open |-> toCash, close |-> facts[i].value]
           rows == IF toCash = 0 THEN r.realized ELSE Append(r.realized, row)
           m == [r EXCEPT !.lots = taken.lots, !.realized = rows]
           bad == \/ taken.left # 0 \/ ~AllKnown(taken.pieces) \/ PieceValue(taken.pieces) # part.val
                  \/ toCash < 0 \/ (toCash = 0 /\ facts[i].value > 0)
           s == Exchange(r, i)
<1>1. /\ n \in Nat /\ val \in Int /\ carried \in Int
      /\ facts[i].dst \in I /\ gets \in Nat /\ value \in Int
  BY DEF IsAllocation, IsFact
<1>2. r.lots \in Seq(LotsOf(I)) /\ r.realized \in Seq(Rows) BY DEF Replays
<1>3. TakenFrom(r.lots, taken, Open(r.lots, facts[i].inst, "long"), "fifo", n, I) BY <1>1, <1>2, TakeOpen
<1>4. PaidFrom(r.lots, taken, "long", n) BY <1>1, <1>2, OpenPays
<1>5. s = IF bad THEN Raise(r) ELSE IF gets = 0 THEN m ELSE ActionLot(m, i, carried)
  BY DEF Exchange, Exchanged, Replays
<1> HIDE DEF taken, part
<1>6. toCash \in Int /\ toCash = val - carried BY <1>1
<1> HIDE DEF toCash
<1>7. /\ PieceValue(taken.pieces) = val /\ (toCash = 0 => ~(value > 0))
      /\ s = IF gets = 0 THEN m ELSE ActionLot(m, i, carried)
  <2>1. ~Raise(r).ok BY RaiseTouches
  <2>2. ~bad
    <3> HIDE DEF m, bad
    <3> QED BY <1>5, <2>1
  <2> HIDE DEF m
  <2> QED BY <1>5, <2>2
<1>8. toCash = 0 => value = 0 BY <1>1, <1>7
<1>9. row \in Rows /\ row.side = "long" /\ row.open = toCash /\ row.close = value BY <1>1, <1>6 DEF Rows, Sides
<1> HIDE DEF row
<1>10. rows \in Seq(Rows) BY <1>2, <1>9
<1>11. ASSUME NEW side \in Sides
       PROVE  Results(rows, side) = Results(r.realized, side) + (IF side = "long" THEN toCash ELSE value)
  <2>1. Results(r.realized, side) \in Int BY FundsAreIntegers
  <2>2. CASE toCash = 0
    <3>1. rows = r.realized BY <2>2
    <3>2. (IF side = "long" THEN toCash ELSE value) = 0 BY <1>8, <2>2
    <3> QED BY <2>1, <3>1, <3>2
  <2>3. CASE toCash # 0
    <3>1. rows = Append(r.realized, row) BY <2>3
    <3>2. Results(rows, side) = Results(r.realized, side) + BookedAs(row, side) BY <1>2, <1>9, <3>1, ResultsGrow
    <3>3. BookedAs(row, side) = IF side = "long" THEN toCash ELSE value BY <1>9 DEF BookedAs
    <3> QED BY <3>2, <3>3
  <2> QED BY <2>2, <2>3
<1> HIDE DEF rows, bad
<1>12. SameLots(r.lots, taken.lots, I) BY <1>2, <1>3, TakenIsSame
<1>13. m \in Replays(I) /\ m.lots = taken.lots /\ m.realized = rows
  <2>1. Touches(m, r, I) BY <1>10, <1>12, ChangeTouches
  <2>2. m.lots = taken.lots /\ m.realized = rows BY DEF Replays
  <2> HIDE DEF m
  <2> QED BY <2>1, <2>2 DEF Touches
<1>14. Emptied(taken.lots) /\ taken.lots \in Seq(LotsOf(I)) BY <1>3, <1>4 DEF PaidFrom, TakenFrom
<1>15. \A side \in Sides :
         /\ Worth(r.lots, side) \in Int /\ Results(r.realized, side) \in Int
         /\ Worth(taken.lots, side) = Worth(r.lots, side) - (IF side = "long" THEN val ELSE 0)
  BY <1>4, <1>7, FundsAreIntegers DEF PaidFrom
<1>16. ASSUME s.realized = rows, Emptied(s.lots),
              \A side \in Sides : Worth(s.lots, side) = Worth(taken.lots, side) + (IF side = "long" THEN carried ELSE 0)
       PROVE  Funded(s, r, "short", value)
  <2>1. ASSUME NEW side \in Sides PROVE Funds(s, side) = Funds(r, side) + (IF side = "short" THEN value ELSE 0)
    <3>1. side = "long" \/ side = "short" BY DEF Sides
    <3> DEFINE a == Worth(s.lots, side)
               b == Worth(taken.lots, side)
               c == Worth(r.lots, side)
               d == Results(rows, side)
               e == Results(r.realized, side)
    <3>2. /\ c \in Int /\ e \in Int
          /\ a = b + (IF side = "long" THEN carried ELSE 0)
          /\ b = c - (IF side = "long" THEN val ELSE 0)
          /\ d = e + (IF side = "long" THEN toCash ELSE value)
      BY <1>11, <1>15, <1>16
    <3>3. Funds(s, side) = a + d /\ Funds(r, side) = c + e BY <1>16 DEF Funds
    <3> HIDE DEF a, b, c, d, e, val, carried, value, s
    <3>4. a + d = c + e + (IF side = "short" THEN value ELSE 0) BY <1>1, <1>6, <3>1, <3>2
    <3> QED BY <3>3, <3>4
  <2> QED BY <1>16, <2>1 DEF Funded
<1>17. CASE gets = 0
  <2>1. s = m /\ carried = 0 BY <1>7, <1>17 DEF part
  <2> HIDE DEF m, s
  <2>2. s.lots = taken.lots /\ s.realized = rows BY <1>13, <2>1
  <2>3. \A side \in Sides : Worth(taken.lots, side) \in Int BY <1>14, WorthIsInteger
  <2>4. \A side \in Sides : Worth(s.lots, side) = Worth(taken.lots, side) + (IF side = "long" THEN carried ELSE 0)
    BY <2>1, <2>2, <2>3
  <2>5. Emptied(s.lots) BY <1>14, <2>2
  <2> QED BY <1>16, <2>2, <2>4, <2>5 DEF s
<1>18. CASE gets # 0
  <2> DEFINE lot == Lot(facts[i].dst, i, "long", gets, carried, m.seq + 1)
  <2>1. s = ActionLot(m, i, carried) BY <1>7, <1>18
  <2>2. Opens(s, m, lot, I)
    <3> HIDE DEF m, s
    <3>1. carried \in Values BY <1>1 DEF Values
    <3> QED BY <1>1, <1>13, <2>1, <3>1, ActionLotOpens
  <2>3. s.realized = rows
    <3>1. s.realized = m.realized BY <1>13, <2>1 DEF ActionLot, Replays
    <3> QED BY <1>13, <3>1
  <2>4. lot.side = "long" /\ lot.qty = gets /\ lot.val = carried BY DEF Lot
  <2> HIDE DEF m, s, lot
  <2>5. s.lots = Append(taken.lots, lot) /\ lot \in LotsOf(I) BY <1>13, <2>2 DEF Opens
  <2>6. Known(carried) = carried
    <3>1. Unknown \notin Int BY LedgerAssumption
    <3> QED BY <1>1, <3>1 DEF Known
  <2>7. \A side \in Sides : Worth(s.lots, side) = Worth(taken.lots, side) + (IF side = "long" THEN carried ELSE 0)
    BY <1>14, <2>4, <2>5, <2>6, WorthOpened
  <2>8. Emptied(s.lots) BY <1>14, <1>18, <2>4, <2>5, WorthOpened
  <2> QED BY <1>16, <2>3, <2>7, <2>8 DEF s
<1> QED BY <1>17, <1>18 DEF s

\* What a fact pays into the report of an account on the long side, or receives on
\* the short one; a transfer carries the value of its lots from one account to
\* the other.
MoneyOf(f, acc, side) ==
  IF f.kind = "transfer" /\ side = "long"
  THEN (IF f.to = acc THEN PieceValue(f.parts) ELSE 0) - (IF f.acc = acc THEN PieceValue(f.parts) ELSE 0)
  ELSE IF f.acc = acc /\ f.kind \in Paying(side) THEN f.value ELSE 0

\* A step that accounts for the money of a fact.
Accounts(s, r, f, acc) ==
  /\ Emptied(s.lots)
  /\ \A side \in Sides : Funds(s, side) = Funds(r, side) + MoneyOf(f, acc, side)

\* A step that pays on one side accounts for a fact that does.
LEMMA FundedAccounts ==
  ASSUME NEW s, NEW r, NEW at, NEW amount, Funded(s, r, at, amount), NEW f, NEW acc,
         \A side \in Sides : MoneyOf(f, acc, side) = IF side = at THEN amount ELSE 0
  PROVE  Accounts(s, r, f, acc)
BY DEF Funded, Accounts

\* A corporate action with a basis allocation accounts for its cash.
LEMMA ActionAccounts ==
  ASSUME NEW I, NEW i \in Nat, NEW f, f = facts[i], IsFact(f, I), f.kind \in Actions, HasLegs(f, TRUE),
         NEW acc, f.acc = acc, NEW r \in Replays(I), Emptied(r.lots), ApplyAction(r, i).ok
  PROVE  Accounts(ApplyAction(r, i), r, f, acc)
<1>1. /\ f.parts # <<>> /\ IsAllocation(f.parts) /\ f.value >= 0 /\ f.value \in Int /\ f.gets \in Nat
      /\ f.kind = "spin_off" => f.gets > 0
      /\ f.kind # "spin_off" /\ f.gets = 0 => f.parts[1].carried = 0
  BY DEF HasLegs, IsFact, Actions
<1>2. CASE f.kind = "spin_off"
  <2>1. ApplyAction(r, i) = SpinOff(r, i) BY <1>1, <1>2 DEF ApplyAction
  <2>2. Funded(SpinOff(r, i), r, "long", 0)
    <3>1. SpinOff(r, i).ok BY <2>1
    <3> QED BY <1>1, <1>2, <3>1, SpinOffPays
  <2>3. \A side \in Sides : MoneyOf(f, acc, side) = IF side = "long" THEN 0 ELSE 0
    BY <1>2 DEF MoneyOf, Paying, Sides
  <2> QED BY <2>1, <2>2, <2>3, FundedAccounts
<1>3. CASE f.kind # "spin_off"
  <2>1. ApplyAction(r, i) = Exchange(r, i) BY <1>1, <1>3 DEF ApplyAction
  <2>2. Funded(Exchange(r, i), r, "short", f.value)
    <3>1. Exchange(r, i).ok BY <2>1
    <3> QED BY <1>1, <1>3, <3>1, ExchangePays
  <2>3. \A side \in Sides : MoneyOf(f, acc, side) = IF side = "short" THEN f.value ELSE 0
    BY <1>3 DEF MoneyOf, Paying, Sides, Actions
  <2> QED BY <2>1, <2>2, <2>3, FundedAccounts
<1> QED BY <1>2, <1>3

\* Both sides of a transfer account for the basis it carries.
LEMMA TransferAccounts ==
  ASSUME NEW I, NEW f, IsFact(f, I), f.kind = "transfer", NEW allocated, HasLegs(f, allocated),
         \A n \in DOMAIN f.parts : f.parts[n].qty > 0,
         NEW acc \in {f.acc, f.to}, NEW r \in Replays(I), Emptied(r.lots)
  PROVE  /\ f.acc = acc /\ GiveLots(r, f).ok => Accounts(GiveLots(r, f), r, f, acc)
         /\ f.acc # acc => Accounts(ReceiveLots(r, f), r, f, acc)
<1>1. f.acc # f.to /\ f.parts \in CarriedLots /\ f.inst \in I BY DEF HasLegs, IsFact
<1>2. PieceValue(f.parts) \in Int BY <1>1, ValueOfParts
<1>3. ASSUME f.acc = acc, GiveLots(r, f).ok
      PROVE  Accounts(GiveLots(r, f), r, f, acc)
  <2>1. Funded(GiveLots(r, f), r, "long", -PieceValue(f.parts)) BY <1>1, <1>3, GivePays
  <2>2. \A side \in Sides : MoneyOf(f, acc, side) = IF side = "long" THEN -PieceValue(f.parts) ELSE 0
    BY <1>1, <1>2, <1>3 DEF MoneyOf, Paying, Sides
  <2> QED BY <2>1, <2>2, FundedAccounts
<1>4. ASSUME f.acc # acc
      PROVE  Accounts(ReceiveLots(r, f), r, f, acc)
  <2>1. Funded(ReceiveLots(r, f), r, "long", PieceValue(f.parts)) BY <1>1, ReceivePays
  <2>2. \A side \in Sides : MoneyOf(f, acc, side) = IF side = "long" THEN PieceValue(f.parts) ELSE 0
    BY <1>1, <1>2, <1>4 DEF MoneyOf, Paying, Sides
  <2> QED BY <2>1, <2>2, FundedAccounts
<1> QED BY <1>3, <1>4

\* A trade whose lots share its value without a remainder, or are not shared.
Whole(f, lots, side, method) ==
  LET n    == Size(f)
      left == Take(lots, Ordered(lots, f.inst, OpposedSide(side), method), n).left
  IN  left = 0 \/ left = n \/ f.value % n = 0

\* Every fact that an account sees pays what it should, in the replay that it is
\* a step of.
LEMMA StepAccounts ==
  ASSUME NEW I, AreFacts(I), NEW i \in DOMAIN facts, NEW f, f = facts[i], HasLegs(f, TRUE),
         NEW acc \in {f.acc, f.to}, NEW method, NEW short, NEW r \in Replays(I), Emptied(r.lots),
         f.kind = "split" => SplitOf(f, r.lots),
         f.kind = "transfer" => \A n \in DOMAIN f.parts : f.parts[n].qty > 0,
         f.kind = "buy" => Whole(f, r.lots, "long", method),
         f.kind = "sell" /\ (Covered(r, i) \/ short) => Whole(f, r.lots, "short", method),
         LotStep(acc, method, short, r, i).ok
  PROVE  Accounts(LotStep(acc, method, short, r, i), r, f, acc)
<1> DEFINE s == LotStep(acc, method, short, r, i)
<1>1. IsFact(f, I) /\ i \in Nat BY FactAt
<1>2. f.kind \in {"buy", "sell", "split", "transfer", "move"} \cup Actions /\ f.qty \in Int /\ f.value \in Int
      /\ f.inst \in I
  BY <1>1 DEF IsFact
<1>3. f.kind # "transfer" => f.acc = acc /\ f.to = acc
  BY DEF HasLegs
<1>5. ~Raise(r).ok BY RaiseTouches
<1>6. CASE f.kind \in {"buy", "sell"}
  <2> DEFINE side == IF f.kind = "buy" THEN "long" ELSE "short"
  <2>0. f.kind = "sell" => Covered(r, i) \/ short
    <3>1. f.kind = "sell" /\ ~Covered(r, i) /\ ~short => s = Raise(r) BY <1>6 DEF LotStep
    <3>2. s.ok OBVIOUS
    <3> HIDE DEF s
    <3> QED BY <1>5, <3>1, <3>2
  <2>1. s = Trade(r, i, side, method) BY <1>5, <1>6 DEF LotStep
  <2>2. side \in Sides BY DEF Sides
  <2>3. Whole(f, r.lots, side, method) BY <1>6, <2>0
  <2>4. facts[i].kind \in {"buy", "sell"} BY <1>6
  <2>5. \A at \in Sides : MoneyOf(f, acc, at) = IF at = side THEN f.value ELSE 0
    BY <1>3, <1>6 DEF MoneyOf, Paying, Sides
  <2> HIDE DEF side, s
  <2>6. Funded(Trade(r, i, side, method), r, side, facts[i].value)
    BY <2>2, <2>3, <2>4, TradePays DEF Whole
  <2>7. Funded(s, r, side, f.value) BY <2>1, <2>6
  <2>8. Accounts(s, r, f, acc) BY <2>5, <2>7, FundedAccounts
  <2> QED BY <2>8 DEF s
<1>7. CASE f.kind = "split"
  <2>1. s = [r EXCEPT !.lots = Scaled(r.lots, f.inst, f.ratio)] BY <1>7 DEF LotStep
  <2>2. Funded([r EXCEPT !.lots = Scaled(r.lots, f.inst, f.ratio)], r, "long", 0)
    BY <1>1, <1>7, SplitPays
  <2>3. \A side \in Sides : MoneyOf(f, acc, side) = IF side = "long" THEN 0 ELSE 0
    BY <1>7 DEF MoneyOf, Paying, Sides
  <2> QED BY <2>1, <2>2, <2>3, FundedAccounts
<1>8. CASE f.kind = "transfer"
  <2>1. s = IF f.acc = acc THEN GiveLots(r, f) ELSE ReceiveLots(r, f) BY <1>8 DEF LotStep
  <2>2. /\ f.acc = acc /\ GiveLots(r, f).ok => Accounts(GiveLots(r, f), r, f, acc)
        /\ f.acc # acc => Accounts(ReceiveLots(r, f), r, f, acc)
    BY <1>1, <1>8, TransferAccounts
  <2> QED BY <2>1, <2>2
<1>9. CASE f.kind = "move"
  <2>1. f.qty >= 0 /\ s = Opened(r, f.inst, i, "long", f.qty, Unknown)
    <3>1. s = IF f.qty < 0 THEN Raise(r) ELSE Opened(r, f.inst, i, "long", f.qty, Unknown) BY <1>9 DEF LotStep
    <3>2. s.ok OBVIOUS
    <3> HIDE DEF s
    <3>3. ~(f.qty < 0) BY <1>5, <3>1, <3>2
    <3> QED BY <1>2, <3>1, <3>3
  <2>2. f.qty \in Nat BY <1>2, <2>1
  <2>3. Known(Unknown) = 0 /\ Unknown \in Values BY DEF Known, Values
  <2>4. Funded(Opened(r, f.inst, i, "long", f.qty, Unknown), r, "long", Known(Unknown))
    BY <1>1, <1>2, <2>2, <2>3, OpeningPays
  <2>5. \A side \in Sides : MoneyOf(f, acc, side) = IF side = "long" THEN Known(Unknown) ELSE 0
    BY <1>9, <2>3 DEF MoneyOf, Paying, Sides
  <2> QED BY <2>1, <2>4, <2>5, FundedAccounts
<1>10. CASE f.kind \in Actions
  <2>1. s = ApplyAction(r, i) BY <1>10 DEF LotStep, Actions
  <2>2. ApplyAction(r, i).ok BY <2>1
  <2>3. f.acc = acc BY <1>3, <1>10 DEF Actions
  <2>4. Accounts(ApplyAction(r, i), r, f, acc)
    BY <1>1, <1>10, <2>2, <2>3, ActionAccounts
  <2> QED BY <2>1, <2>4
<1> QED BY <1>2, <1>6, <1>7, <1>8, <1>9, <1>10

\* A replay without shorts has none to close.
LEMMA BuyTakesNone ==
  ASSUME NEW I, NEW lots \in Seq(LotsOf(I)), \A j \in DOMAIN lots : lots[j].side = "long",
         NEW inst, NEW method, NEW n \in Nat
  PROVE  Take(lots, Ordered(lots, inst, "short", method), n).left = n
<1> DEFINE none == Open(lots, inst, "short")
           o == InOrder(lots, none, method)
           N == Len(lots)
<1>1. N \in Nat /\ lots \in [1..N -> LotsOf(I)] /\ DOMAIN lots = 1..N OBVIOUS
<1>2. none = {} BY DEF Open
<1>3. Ordered(lots, inst, "short", method) = o BY DEF Ordered
<1>4. none \in SUBSET {j \in 1..N : lots[j].qty > 0} BY <1>2
<1>5. Unknown \notin Int BY LedgerAssumption
<1> HIDE DEF none, N, o
<1>6. /\ o \in Seq(1..N) /\ \A m \in DOMAIN o : o[m] \in none
      /\ \A j \in none : \E m \in DOMAIN o : o[m] = j
      /\ \A m, l \in DOMAIN o : m < l => o[m] # o[l] /\ Prefers(lots, method, o[m], o[l])
  BY <1>1, <1>4, <1>5, OrderOfLots DEF o
<1>7. DOMAIN o = {} BY <1>2, <1>6
<1>8. o = <<>> BY <1>6, <1>7
<1>9. Take(lots, o, n) = [lots |-> lots, pieces |-> <<>>, left |-> n]
  <2>1. o \in Seq(1..N) /\ n \in Nat BY <1>6
  <2> QED BY ONLY <1>1, <1>8, <2>1, TakeOfNone
<1> QED BY <1>3, <1>9

\* Without shorts a trade is whole: a buy only opens, a sell that is covered only closes.
LEMMA LongTradesAreWhole ==
  ASSUME NEW I, AreFacts(I), NEW i \in DOMAIN facts, NEW f, f = facts[i],
         NEW r \in Replays(I), NoShorts(r), NEW method
  PROVE  /\ f.kind = "buy" => Whole(f, r.lots, "long", method)
         /\ f.kind = "sell" /\ Covered(r, i) => Whole(f, r.lots, "short", method)
<1>1. IsFact(f, I) BY FactAt
<1>2. r.lots \in Seq(LotsOf(I)) BY DEF Replays
<1>3. ASSUME f.kind = "buy"
      PROVE  Whole(f, r.lots, "long", method)
  <2>1. Size(f) \in Nat BY <1>1, <1>3 DEF IsFact, Size
  <2>2. OpposedSide("long") = "short" BY DEF OpposedSide
  <2>3. Take(r.lots, Ordered(r.lots, f.inst, "short", method), Size(f)).left = Size(f)
    BY <1>2, <2>1, BuyTakesNone DEF NoShorts
  <2> QED BY <2>2, <2>3 DEF Whole
<1>4. ASSUME f.kind = "sell", Covered(r, i)
      PROVE  Whole(f, r.lots, "short", method)
  <2>1. Size(f) \in Nat /\ Size(f) = -f.qty BY <1>1, <1>4 DEF IsFact, Size
  <2>2. OpposedSide("short") = "long" BY DEF OpposedSide
  <2>3. Total(r.lots, f.inst, "long") >= Size(f) BY <1>4, <2>1 DEF Covered
  <2>4. Take(r.lots, Ordered(r.lots, f.inst, "long", method), Size(f)).left = 0
    BY <1>2, <2>1, <2>3, CoveredTakesAll
  <2> QED BY <2>2, <2>4 DEF Whole
<1> QED BY <1>3, <1>4

\* An action opens long lots only.
LEMMA ActionStaysLong ==
  ASSUME NEW I, NEW r \in Replays(I), NEW s, NEW mid, NEW f, NEW i, ActionOf(s, r, mid, f, i, I), NoShorts(r)
  PROVE  NoShorts(s)
<1>1. /\ SameLots(r.lots, mid, I) /\ mid \in Seq(LotsOf(I))
      /\ \/ s.lots = mid
         \/ \E val : s.lots = Append(mid, Lot(f.dst, i, "long", f.gets, val, r.seq + 1))
  BY DEF ActionOf
<1>2. DOMAIN mid = 1..Len(r.lots) /\ DOMAIN r.lots = 1..Len(r.lots) /\ Len(mid) = Len(r.lots) /\ Len(mid) \in Nat
  BY <1>1 DEF SameLots, Replays
<1>3. \A j \in DOMAIN mid : mid[j].side = "long" BY <1>1, <1>2 DEF SameLots, NoShorts
<1>4. CASE s.lots = mid BY <1>3, <1>4 DEF NoShorts
<1>5. ASSUME NEW val, s.lots = Append(mid, Lot(f.dst, i, "long", f.gets, val, r.seq + 1))
      PROVE  NoShorts(s)
  <2> DEFINE lot == Lot(f.dst, i, "long", f.gets, val, r.seq + 1)
  <2>1. lot.side = "long" BY DEF Lot
  <2>2. s.lots = Append(mid, lot) BY <1>5
  <2> HIDE DEF lot
  <2>3. DOMAIN s.lots = 1..(Len(mid) + 1) /\ s.lots[Len(mid) + 1] = lot
        /\ \A j \in 1..Len(mid) : s.lots[j] = mid[j]
    BY <1>1, <2>2
  <2> QED BY <1>2, <1>3, <2>1, <2>3 DEF NoShorts
<1> QED BY <1>1, <1>4, <1>5

\* Where shorts are not allowed, no step opens one.
LEMMA StepStaysLong ==
  ASSUME NEW I, AreFacts(I), NEW i \in DOMAIN facts, NEW f, f = facts[i], NEW acc, NEW method,
         NEW r \in Replays(I), NoShorts(r), LotStep(acc, method, FALSE, r, i).ok
  PROVE  NoShorts(LotStep(acc, method, FALSE, r, i))
<1> DEFINE s == LotStep(acc, method, FALSE, r, i)
<1>1. IsFact(f, I) /\ i \in Nat BY FactAt
<1>2. f.kind \in {"buy", "sell", "split", "transfer", "move"} \cup Actions /\ f.qty \in Int /\ f.inst \in I
      /\ f.ratio[1] \in Nat \ {0} /\ f.ratio[2] \in Nat \ {0}
  BY <1>1 DEF IsFact
<1>3. ~Raise(r).ok BY RaiseTouches
<1>4. CASE f.kind \in {"buy", "sell"}
  <2> DEFINE side == IF f.kind = "buy" THEN "long" ELSE "short"
             taken == Take(r.lots, Ordered(r.lots, facts[i].inst, OpposedSide(side), method), Size(facts[i]))
  <2>1. f.kind = "sell" => Covered(r, i)
    <3>1. f.kind = "sell" /\ ~Covered(r, i) => s = Raise(r) BY <1>4 DEF LotStep
    <3>2. s.ok OBVIOUS
    <3> HIDE DEF s
    <3> QED BY <1>3, <3>1, <3>2
  <2>2. s = Trade(r, i, side, method) BY <1>4, <2>1 DEF LotStep
  <2>3. side \in Sides BY DEF Sides
  <2>4. facts[i].kind \in {"buy", "sell"} BY <1>4
  <2>5. TradeOf(Trade(r, i, side, method), r, taken, facts[i], i, side, method, I)
    <3> HIDE DEF side
    <3> QED BY <2>3, <2>4, TradeTrades
  <2>6. f.kind = "sell" => taken.left = 0
    <3> SUFFICES ASSUME f.kind = "sell" PROVE taken.left = 0 OBVIOUS
    <3>1. r.lots \in Seq(LotsOf(I)) BY DEF Replays
    <3>2. Size(f) \in Nat /\ Size(f) = -f.qty BY <1>1 DEF IsFact, Size
    <3>3. Total(r.lots, f.inst, "long") >= Size(f) BY <2>1, <3>2 DEF Covered
    <3>4. Take(r.lots, Ordered(r.lots, f.inst, "long", method), Size(f)).left = 0
      BY <3>1, <3>2, <3>3, CoveredTakesAll
    <3> QED BY <3>4 DEF OpposedSide
  <2>7. r.lots \in Seq(LotsOf(I)) BY DEF Replays
  <2> HIDE DEF taken
  <2>8. SameLots(r.lots, taken.lots, I) BY <2>5, <2>7, TakenIsSame DEF TradeOf
  <2> DEFINE mid == [r EXCEPT !.lots = taken.lots]
  <2>9. NoShorts(mid) /\ mid.lots = taken.lots /\ mid \in Replays(I)
    <3>1. mid.lots = taken.lots BY DEF Replays
    <3>2. mid \in Replays(I) BY <2>8 DEF SameLots, Replays
    <3> HIDE DEF mid
    <3> QED BY <2>8, <3>1, <3>2, SameLotsStayLong
  <2> HIDE DEF mid, side
  <2>10. CASE s.lots = taken.lots BY <2>9, <2>10 DEF NoShorts
  <2>11. ASSUME NEW val, s.lots = Append(taken.lots, Lot(f.inst, i, side, taken.left, val, r.seq + 1)), taken.left > 0
         PROVE  NoShorts(s)
    <3>1. side = "long" BY <1>4, <2>6, <2>11 DEF side
    <3>2. Lot(f.inst, i, side, taken.left, val, r.seq + 1).side = "long" BY <3>1 DEF Lot
    <3> HIDE DEF s
    <3> QED BY <2>9, <2>11, <3>2, OpenedStaysLong
  <2>12. \/ s.lots = taken.lots
         \/ taken.left > 0 /\ \E val : s.lots = Append(taken.lots, Lot(f.inst, i, side, taken.left, val, r.seq + 1))
    BY <2>2, <2>5 DEF TradeOf
  <2> QED BY <2>10, <2>11, <2>12
<1>5. CASE f.kind = "split"
  <2>1. s = [r EXCEPT !.lots = Scaled(r.lots, f.inst, f.ratio)] BY <1>5 DEF LotStep
  <2>2. Touches(s, r, I)
    <3>1. Touches([r EXCEPT !.lots = Scaled(r.lots, f.inst, f.ratio)], r, I) BY <1>2, SplitTouches
    <3> QED BY <2>1, <3>1
  <2> HIDE DEF s
  <2>3. NoShorts(s) BY <2>2, SameLotsStayLong DEF Touches
  <2> QED BY <2>3 DEF s
<1>6. CASE f.kind = "transfer"
  <2>1. s = IF f.acc = acc THEN GiveLots(r, f) ELSE ReceiveLots(r, f) BY <1>6 DEF LotStep
  <2>2. f.parts \in CarriedLots BY <1>1, <1>6 DEF IsFact
  <2>3. Touches(GiveLots(r, f), r, I) /\ ReceivedAfter(ReceiveLots(r, f), r, f, I)
    BY <1>2, <2>2, GiveLotsTouches, ReceiveReceives
  <2>4. NoShorts(GiveLots(r, f)) BY <2>3, SameLotsStayLong DEF Touches
  <2>5. NoShorts(ReceiveLots(r, f)) BY <2>2, <2>3, ReceivedStaysLong
  <2> QED BY <2>1, <2>4, <2>5
<1>7. CASE f.kind = "move"
  <2>1. s = IF f.qty < 0 THEN Raise(r) ELSE Opened(r, f.inst, i, "long", f.qty, Unknown) BY <1>7 DEF LotStep
  <2>2. s = Opened(r, f.inst, i, "long", f.qty, Unknown) /\ f.qty >= 0
    <3>1. s.ok OBVIOUS
    <3> HIDE DEF s
    <3>2. ~(f.qty < 0) BY <1>3, <2>1, <3>1
    <3> QED BY <1>2, <2>1, <3>2
  <2> DEFINE lot == Lot(f.inst, i, "long", f.qty, Unknown, r.seq + 1)
  <2>3. s.lots = Append(r.lots, lot) BY <2>2 DEF Opened, Replays
  <2>4. lot.side = "long" BY DEF Lot
  <2> HIDE DEF s, lot
  <2>5. NoShorts(s) BY <2>3, <2>4, OpenedStaysLong
  <2> QED BY <2>5 DEF s
<1>8. CASE f.kind \in Actions
  <2>1. s = ApplyAction(r, i) /\ IsAllocation(f.parts) /\ f.value \in Int
    BY <1>1, <1>8 DEF LotStep, Actions, IsFact
  <2>2. CASE f.parts = <<>>
    <3>1. s = SettleInCash(r, i) BY <2>1, <2>2 DEF ApplyAction
    <3>2. Touches(SettleInCash(r, i), r, I) BY <1>1, <2>1, SettleTouches
    <3>3. NoShorts(SettleInCash(r, i)) BY <3>2, SameLotsStayLong DEF Touches
    <3> QED BY <3>1, <3>3
  <2>3. CASE f.parts # <<>> /\ f.kind = "spin_off"
    <3>1. s = SpinOff(r, i) BY <2>1, <2>3 DEF ApplyAction
    <3>2. SpinOff(r, i).ok BY <3>1
    <3>3. PICK mid : ActionOf(SpinOff(r, i), r, mid, facts[i], i, I)
      BY <1>1, <2>1, <2>3, <3>2, SpinOffSpins
    <3>4. NoShorts(SpinOff(r, i)) BY <3>3, ActionStaysLong
    <3> QED BY <3>1, <3>4
  <2>4. CASE f.parts # <<>> /\ f.kind # "spin_off"
    <3>1. s = Exchange(r, i) BY <2>1, <2>4 DEF ApplyAction
    <3>2. Exchange(r, i).ok BY <3>1
    <3>3. \E mid : ActionOf(Exchange(r, i), r, mid, facts[i], i, I)
      BY <1>1, <2>1, <2>4, <3>2, ExchangeExchanges
    <3>4. NoShorts(Exchange(r, i)) BY <3>3, ActionStaysLong
    <3> QED BY <3>1, <3>4
  <2> QED BY <2>2, <2>3, <2>4
<1> QED BY <1>2, <1>4, <1>5, <1>6, <1>7, <1>8

\* Every lot that a transfer carries has a quantity.
LEMMA TransfersCarry ==
  ASSUME LedgerInv, NEW i \in DOMAIN facts, NEW f, f = facts[i], f.kind = "transfer"
  PROVE  \A n \in DOMAIN f.parts : f.parts[n].qty > 0
<1> DEFINE I == book.instruments
           past == Before(f.acc, i)
           B == {j \in DOMAIN facts : j < i /\ f.acc \in {facts[j].acc, facts[j].to} /\ facts[j].eff <= facts[i].eff}
           r == ReplayFifo(f.acc, past)
           n == -f.qty
           taken == Take(r.lots, Ordered(r.lots, f.inst, "long", "fifo"), n)
<1>1. HistoryInv /\ FactsFit /\ AreFacts(I) BY DEF LedgerInv, BookInv
<1>2. past \in Seq(DOMAIN facts)
  <2>1. B \in SUBSET DOMAIN facts /\ past = InEffect(B) BY DEF Before
  <2> HIDE DEF B, past
  <2> QED BY <1>1, <2>1, HistoryOf
<1>3. TransferFits(f, past) BY <1>1 DEF FactsFit, Fits
<1>4. n \in Nat
  <2>1. IsFact(f, I) BY <1>1, FactAt
  <2> QED BY <2>1 DEF IsFact
<1>5. f.parts = taken.pieces BY <1>3 DEF TransferFits
<1> HIDE DEF past, n
<1>6. r.lots \in Seq(LotsOf(I))
  <2>1. PICK run : FifoRun(run, I, f.acc, past) /\ r = run[Len(past)] BY <1>1, <1>2, ReplayFifoRuns
  <2>2. Len(past) \in 0..Len(past) BY <1>2
  <2> HIDE DEF r
  <2> QED BY <2>1, <2>2 DEF FifoRun, Sounds, Replays
<1> HIDE DEF r
<1>7. PaidFrom(r.lots, taken, "long", n) BY <1>4, <1>6, OpenPays
<1> HIDE DEF taken
<1> QED BY <1>5, <1>7 DEF PaidFrom

\* An empty report has no money.
LEMMA NoneFunded ==
  /\ Emptied(EmptyReplay.lots) /\ NoShorts(EmptyReplay)
  /\ \A side \in Sides : Funds(EmptyReplay, side) = 0
<1>1. EmptyReplay.lots = <<>> /\ EmptyReplay.realized = <<>> BY DEF EmptyReplay
<1>2. DOMAIN <<>> = {} /\ IsFiniteSet({}) BY FS_EmptySet
<1>3. \A f : SumOver(f, {}) = 0 BY <1>2, SumUnfolds
<1>4. ASSUME NEW side \in Sides
      PROVE  Funds(EmptyReplay, side) = 0
  <2>1. OfSide(<<>>, side) = {} BY <1>2 DEF OfSide
  <2>2. Worth(<<>>, side) = 0
    <3>1. ValueOf(<<>>, {}) = SumOver([j \in {} |-> Known(<<>>[j].val)], {}) BY <1>2, ValueIsSum
    <3> QED BY <1>3, <2>1, <3>1 DEF Worth
  <2>3. Results(<<>>, side) = 0
    <3>1. Results(<<>>, side) = SumOver([n \in DOMAIN <<>> |-> BookedAs(<<>>[n], side)], DOMAIN <<>>)
      BY <1>2, ResultsAreSum
    <3> QED BY <1>2, <1>3, <3>1
  <2> QED BY <1>1, <2>2, <2>3 DEF Funds
<1> QED BY <1>1, <1>2, <1>4 DEF Emptied, NoShorts

\* What a fact pays is an integer.
LEMMA MoneyOfIsInteger ==
  ASSUME NEW I, NEW f, IsFact(f, I), NEW acc, NEW side
  PROVE  MoneyOf(f, acc, side) \in Int
<1>1. f.value \in Int BY DEF IsFact
<1>2. f.kind = "transfer" => PieceValue(f.parts) \in Int
  <2>1. f.kind = "transfer" => f.parts \in CarriedLots BY DEF IsFact
  <2> QED BY <2>1, ValueOfParts
<1> QED BY <1>1, <1>2 DEF MoneyOf

\* The value of every trade is a whole number for each of its units: integers
\* stand for Decimal, and \div for a division that leaves no remainder.
WholePrices ==
  \A i \in DOMAIN facts : facts[i].kind \in {"buy", "sell"} => facts[i].value % Size(facts[i]) = 0

\* A report that accounts for what its history has paid and received.
AccountsFor(r, flows, m) ==
  /\ Emptied(r.lots)
  /\ ~book.short => NoShorts(r)
  /\ \A side \in Sides : Funds(r, side) = SumOver(flows[side], 1..m)

\* What each fact of a history pays into an account.
FlowsOf(h, acc) == [side \in Sides |-> [n \in 1..Len(h) |-> MoneyOf(facts[h[n]], acc, side)]]

\* Every replay of a visible history accounts for all its facts so far.
LEMMA RunAccounts ==
  ASSUME LedgerInv, book.allocated, NothingBackdatedBeforeDerived, WholePrices \/ ~book.short,
         NEW acc, NEW asOf \in Nat, NEW method \in book.methods, NEW h, h = Visible(acc, asOf, today),
         NEW I, I = book.instruments, NEW run, LotsRun(run, I, acc, h, method, book.short),
         NEW flows, flows = FlowsOf(h, acc)
  PROVE  \A m \in 0..Len(h) : run[m].ok => AccountsFor(run[m], flows, m)
<1> DEFINE N == Len(h)
           Q == {m \in 0..N : run[m].ok => AccountsFor(run[m], flows, m)}
           short == book.short
<1>1. HistoryInv /\ FactsFit /\ AreFacts(I) /\ book \in Books BY DEF LedgerInv, BookInv
<1>2. h \in Seq(DOMAIN facts) /\ \A n \in DOMAIN h : acc \in {facts[h[n]].acc, facts[h[n]].to}
  BY <1>1, VisibleIsHistory
<1>3. N \in Nat /\ DOMAIN h = 1..N BY <1>2
<1>4. book.allocated = TRUE /\ short \in BOOLEAN
  <2>1. IsBook(book) BY <1>1, LedgerAssumption
  <2> QED BY <2>1 DEF IsBook
<1>5. /\ run \in [0..N -> Sounds(I)] /\ run[0] = EmptyReplay
      /\ \A n \in 1..N :
           run[n] = IF run[n - 1].ok THEN LotStep(acc, method, short, run[n - 1], h[n]) ELSE run[n - 1]
  BY DEF LotsRun
<1>6. \A m \in 0..N : run[m] \in Replays(I) BY <1>5 DEF Sounds
<1>7. \A m \in 0..N : run[m].ok => Explained(run[m], h, m, acc, I) BY RunExplains
<1>8. \A side \in Sides : /\ SumOver(flows[side], 1..0) = 0
                          /\ \A m \in 0..N : SumOver(flows[side], 1..m) \in Int
                          /\ \A m \in 1..N : SumOver(flows[side], 1..m)
                                               = SumOver(flows[side], 1..(m - 1)) + MoneyOf(facts[h[m]], acc, side)
  <2> SUFFICES ASSUME NEW side \in Sides
               PROVE  /\ SumOver(flows[side], 1..0) = 0
                      /\ \A m \in 0..N : SumOver(flows[side], 1..m) \in Int
                      /\ \A m \in 1..N : SumOver(flows[side], 1..m)
                                           = SumOver(flows[side], 1..(m - 1)) + MoneyOf(facts[h[m]], acc, side)
    OBVIOUS
  <2> DEFINE g == flows[side]
  <2>1. \A n \in 1..N : g[n] = MoneyOf(facts[h[n]], acc, side) BY DEF FlowsOf
  <2>2. \A n \in 1..N : g[n] \in Int
    <3> SUFFICES ASSUME NEW n \in 1..N PROVE g[n] \in Int OBVIOUS
    <3>1. h[n] \in DOMAIN facts BY <1>2, <1>3
    <3>2. IsFact(facts[h[n]], I) BY <1>1, <3>1, FactAt
    <3> QED BY <2>1, <3>2, MoneyOfIsInteger
  <2> HIDE DEF g, N
  <2>3. /\ SumOver(g, 1..0) = 0
        /\ \A n \in 0..N : SumOver(g, 1..n) \in Int
        /\ \A n \in 1..N : SumOver(g, 1..n) = SumOver(g, 1..(n - 1)) + g[n]
    BY <1>3, <2>2, PrefixSums
  <2> QED BY <2>1, <2>3 DEF g
<1>9. 0 \in Q BY <1>3, <1>5, <1>8, NoneFunded DEF AccountsFor
<1>10. ASSUME NEW m \in 1..N, m - 1 \in Q
       PROVE  m \in Q
  <2> SUFFICES ASSUME run[m].ok
               PROVE  AccountsFor(run[m], flows, m)
    BY <1>3
  <2> DEFINE r == run[m - 1]
             i == h[m]
             f == facts[i]
             s == LotStep(acc, method, short, r, i)
  <2>1. m - 1 \in 0..N /\ m \in 0..N /\ m \in DOMAIN h BY <1>3
  <2>2. r \in Replays(I) BY <1>6, <2>1
  <2>3. r.ok /\ run[m] = s BY <1>5
  <2>4. i \in DOMAIN facts /\ acc \in {f.acc, f.to} BY <1>2, <2>1
  <2>5. HasLegs(f, TRUE)
    <3> HIDE DEF i
    <3>1. HasLegs(f, book.allocated) BY <1>1, <2>4 DEF FactsFit
    <3> QED BY <1>4, <3>1
  <2>6. Explained(r, h, m - 1, acc, I) /\ AccountsFor(r, flows, m - 1) BY <1>7, <1>10, <2>1, <2>3
  <2>7. r = ReplayLots(acc, SubSeq(h, 1, m - 1), method, short)
    BY <1>1, <1>2, <2>1, LotsOfPrefix
  <2>8. IsFact(f, I) BY <1>1, <2>4, FactAt
  <2>9. ASSUME f.kind = "split"
        PROVE  SplitOf(f, r.lots)
    <3>1. f.acc = acc BY <2>4, <2>5, <2>9 DEF HasLegs
    <3>2. Net(r.lots, f.inst) = Held(SubSeq(h, 1, m - 1), acc, f.inst) BY <2>6, <2>8 DEF IsFact, Explained
    <3>3. f = facts[h[m]] OBVIOUS
    <3> HIDE DEF f, r
    <3> QED BY <2>7, <2>9, <3>1, <3>2, <3>3, SplitsFit
  <2>10. f.kind = "transfer" => \A n \in DOMAIN f.parts : f.parts[n].qty > 0
    <3> HIDE DEF i
    <3> QED BY <2>4, TransfersCarry
  <2>11. /\ f.kind = "buy" => Whole(f, r.lots, "long", method)
         /\ f.kind = "sell" /\ (Covered(r, i) \/ short) => Whole(f, r.lots, "short", method)
    <3>1. CASE short
      <4>1. f.kind \in {"buy", "sell"} => f.value % Size(f) = 0 BY <2>4, <3>1 DEF WholePrices
      <4> HIDE DEF f, r, i
      <4> QED BY <4>1 DEF Whole
    <3>2. CASE ~short
      <4>1. NoShorts(r) BY <2>6, <3>2 DEF AccountsFor
      <4>2. f = facts[i] OBVIOUS
      <4> HIDE DEF f, r, i, short
      <4> QED BY <1>1, <2>2, <2>4, <3>2, <4>1, <4>2, LongTradesAreWhole
    <3> QED BY <1>4, <3>1, <3>2
  <2>12. s.ok /\ Emptied(r.lots) BY <2>3, <2>6 DEF AccountsFor
  <2>13. f = facts[i] OBVIOUS
  <2> HIDE DEF r, i, f
  <2>14. Accounts(s, r, f, acc)
    BY ONLY <1>1, <2>2, <2>4, <2>5, <2>9, <2>10, <2>11, <2>12, <2>13, StepAccounts
  <2>15. ~short => NoShorts(s)
    <3> SUFFICES ASSUME ~short PROVE NoShorts(s) OBVIOUS
    <3>1. s = LotStep(acc, method, FALSE, r, i) BY <1>4
    <3>2. NoShorts(r) BY <2>6 DEF AccountsFor
    <3>3. LotStep(acc, method, FALSE, r, i).ok BY <2>12, <3>1
    <3>4. NoShorts(LotStep(acc, method, FALSE, r, i)) BY ONLY <1>1, <2>2, <2>4, <2>13, <3>2, <3>3, StepStaysLong
    <3> QED BY <3>1, <3>4
  <2> HIDE DEF s
  <2>16. ASSUME NEW side \in Sides
         PROVE  Funds(s, side) = SumOver(flows[side], 1..m)
    <3>1. Funds(s, side) = Funds(r, side) + MoneyOf(f, acc, side) BY <2>14 DEF Accounts
    <3>2. Funds(r, side) = SumOver(flows[side], 1..(m - 1)) BY <2>6 DEF AccountsFor
    <3>3. SumOver(flows[side], 1..m) = SumOver(flows[side], 1..(m - 1)) + MoneyOf(f, acc, side)
      BY <1>8 DEF f, i
    <3> QED BY <3>1, <3>2, <3>3
  <2>17. Emptied(s.lots) BY <2>14 DEF Accounts
  <2> QED BY <2>3, <2>15, <2>16, <2>17 DEF AccountsFor
<1>11. \A m \in 0..N : m \in Q
  <2> HIDE DEF Q, N
  <2> QED BY <1>3, <1>9, <1>10, CountUp
<1> QED BY <1>11

\* ... and so does every report, as its open lots and results.
LEMMA ReportAccounts ==
  ASSUME LedgerInv, book.allocated, NothingBackdatedBeforeDerived, WholePrices \/ ~book.short,
         NEW acc, NEW method \in book.methods, NEW h, h = Visible(acc, today, today),
         NEW r, r = Report(acc, today, today, method), r.ok, NEW side \in Sides
  PROVE  Money(r, side) = SumOver(FlowsOf(h, acc)[side], 1..Len(h))
<1>1. PICK I : I = book.instruments OBVIOUS
<1>2. HistoryInv /\ AreFacts(I) BY <1>1 DEF LedgerInv, BookInv
<1>3. h \in Seq(DOMAIN facts) BY <1>2, VisibleIsHistory
<1>4. today \in Nat BY <1>2 DEF HistoryInv
<1>5. PICK run : /\ LotsRun(run, I, acc, h, method, book.short)
                 /\ ReplayLots(acc, h, method, book.short) = run[Len(h)]
  BY <1>2, <1>3, ReplayLotsRuns
<1>6. PICK flows : flows = FlowsOf(h, acc) OBVIOUS
<1>7. \A m \in 0..Len(h) : run[m].ok => AccountsFor(run[m], flows, m)
  BY <1>1, <1>4, <1>5, <1>6, RunAccounts
<1>8. Len(h) \in 0..Len(h) BY <1>3
<1>9. r = run[Len(h)] BY <1>5 DEF Report
<1>10. AccountsFor(r, flows, Len(h)) BY <1>7, <1>8, <1>9
<1>11. r.lots \in Seq(LotsOf(I)) BY <1>5, <1>8, <1>9 DEF LotsRun, Sounds, Replays
<1>12. Basis(r.lots, side) = Worth(r.lots, side) BY <1>10, <1>11, BasisIsWorth DEF AccountsFor
<1> QED BY <1>6, <1>10, <1>12 DEF Money, Funds, AccountsFor

\* A sum with one term that may not be zero is that term.
LEMMA SumAtOne ==
  ASSUME NEW S, IsFiniteSet(S), NEW f, \A x \in S : f[x] \in Int, NEW a \in S, \A x \in S \ {a} : f[x] = 0
  PROVE  SumOver(f, S) = f[a]
<1>1. SumOver(f, S) = f[a] + SumOver(f, S \ {a}) BY SumSplits
<1>2. SumOver(f, S \ {a}) = 0
  <2> DEFINE T == S \ {a}
  <2>1. IsFiniteSet(T) /\ {} \in SUBSET T /\ \A x \in T : f[x] \in Int /\ f[x] = 0 BY FS_RemoveElement
  <2> HIDE DEF T
  <2>2. SumOver(f, T) = SumOver(f, {}) BY <2>1, SumWithoutZeros
  <2>3. SumOver(f, {}) = 0 BY FS_EmptySet, SumUnfolds
  <2> QED BY <2>2, <2>3 DEF T
<1> QED BY <1>1, <1>2

\* ... and with two.
LEMMA SumAtTwo ==
  ASSUME NEW S, IsFiniteSet(S), NEW f, \A x \in S : f[x] \in Int, NEW a \in S, NEW b \in S, a # b,
         \A x \in S \ {a, b} : f[x] = 0
  PROVE  SumOver(f, S) = f[a] + f[b]
<1> DEFINE T == S \ {a}
<1>1. SumOver(f, S) = f[a] + SumOver(f, T) BY SumSplits
<1>2. IsFiniteSet(T) /\ b \in T /\ \A x \in T : f[x] \in Int BY FS_RemoveElement
<1>3. \A x \in T \ {b} : f[x] = 0 OBVIOUS
<1> HIDE DEF T
<1>4. SumOver(f, T) = f[b] BY <1>2, <1>3, SumAtOne
<1> QED BY <1>1, <1>4

\* What the facts of a history pay into an account is what all facts pay into it:
\* the others pay nothing.
LEMMA HistoryPays ==
  ASSUME LedgerInv, NEW acc, NEW side \in Sides, NEW h, h = Visible(acc, today, today)
  PROVE  SumOver(FlowsOf(h, acc)[side], 1..Len(h))
           = SumOver([i \in DOMAIN facts |-> MoneyOf(facts[i], acc, side)], DOMAIN facts)
<1> DEFINE S == DOMAIN facts
           g == [i \in S |-> MoneyOf(facts[i], acc, side)]
           f == FlowsOf(h, acc)[side]
           N == Len(h)
           T == {h[n] : n \in 1..N}
<1>1. HistoryInv /\ AreFacts(book.instruments) BY DEF LedgerInv, BookInv
<1>2. /\ h \in Seq(S)
      /\ \A i \in S : acc \in {facts[i].acc, facts[i].to} /\ facts[i].eff <= today /\ facts[i].known <= today
                      => \E n \in DOMAIN h : h[n] = i
      /\ \A m, n \in DOMAIN h : m < n => Earlier(h[m], h[n])
  BY <1>1, VisibleIsHistory
<1>3. N \in Nat /\ DOMAIN h = 1..N /\ \A n \in 1..N : h[n] \in S BY <1>2
<1>4. IsFiniteSet(1..N) BY ONLY <1>3, FS_Interval
<1>5. IsFiniteSet(S) /\ \A i \in S : i \in Nat /\ facts[i].eff \in Nat
  <2>1. DOMAIN facts = 1..Len(facts) /\ Len(facts) \in Nat BY <1>1 DEF HistoryInv
  <2>2. IsFiniteSet(1..Len(facts)) BY ONLY <2>1, FS_Interval
  <2> QED BY <1>1, <2>1, <2>2 DEF HistoryInv
<1>6. \A i \in S : g[i] \in Int
  <2> SUFFICES ASSUME NEW i \in S PROVE g[i] \in Int OBVIOUS
  <2>1. IsFact(facts[i], book.instruments) BY <1>1, FactAt
  <2> QED BY <2>1, MoneyOfIsInteger
<1>7. \A n \in 1..N : f[n] = g[h[n]] BY <1>3 DEF FlowsOf
<1>8. \A m, n \in 1..N : h[m] = h[n] => m = n
  <2> SUFFICES ASSUME NEW m \in 1..N, NEW n \in 1..N, h[m] = h[n], m # n PROVE FALSE OBVIOUS
  <2>1. \A i \in S : ~Earlier(i, i) BY <1>5 DEF Earlier
  <2>2. m < n \/ n < m BY <1>3
  <2>3. Earlier(h[m], h[n]) \/ Earlier(h[n], h[m]) BY <1>2, <1>3, <2>2
  <2> QED BY <1>3, <2>1, <2>3
<1>9. \A i \in S \ T : g[i] = 0
  <2> SUFFICES ASSUME NEW i \in S, i \notin T PROVE g[i] = 0 OBVIOUS
  <2>1. facts[i].eff <= today /\ facts[i].known <= today BY <1>1 DEF HistoryInv
  <2>2. facts[i].acc # acc /\ facts[i].to # acc BY <1>2, <1>3, <2>1
  <2> QED BY <2>2 DEF MoneyOf
<1>10. T \in SUBSET S BY <1>3
<1> HIDE DEF f, g, N, S, T
<1>11. SumOver(g, {h[x] : x \in 1..N}) = SumOver(f, 1..N)
  <2> DEFINE D == 1..N
  <2>1. \A x \in D : f[x] \in Int /\ g[h[x]] = f[x] BY <1>3, <1>6, <1>7
  <2>2. \A x, y \in D : h[x] = h[y] => x = y BY <1>8
  <2>3. IsFiniteSet(D) BY <1>4
  <2> HIDE DEF D
  <2>4. SumOver(g, {h[x] : x \in D}) = SumOver(f, D) BY ONLY <2>1, <2>2, <2>3, SumOfImage
  <2> QED BY <2>4 DEF D
<1>12. SumOver(g, S) = SumOver(g, T) BY <1>5, <1>6, <1>9, <1>10, SumWithoutZeros
<1> QED BY <1>11, <1>12 DEF f, g, N, S, T

\* Over all accounts, a fact pays its value if it pays at all: what one account
\* gives by a transfer another one receives.
LEMMA FactPays ==
  ASSUME LedgerInv, NEW i \in DOMAIN facts, NEW f, f = facts[i], NEW side \in Sides
  PROVE  SumOver([acc \in book.accounts |-> MoneyOf(f, acc, side)], book.accounts)
           = IF f.kind \in Paying(side) THEN f.value ELSE 0
<1> DEFINE A == book.accounts
           g == [acc \in A |-> MoneyOf(f, acc, side)]
<1>1. HistoryInv /\ FactsFit /\ AreFacts(book.instruments) /\ book \in Books BY DEF LedgerInv, BookInv
<1>2. IsFiniteSet(A) BY <1>1, LedgerAssumption DEF IsBook
<1>3. IsFact(f, book.instruments) BY <1>1, FactAt
<1>4. f.acc \in A /\ f.to \in A BY <1>1 DEF HistoryInv
<1>5. HasLegs(f, book.allocated) BY <1>1 DEF FactsFit
<1>6. f.value \in Int BY <1>3 DEF IsFact
<1>7. \A acc \in A : g[acc] \in Int BY <1>3, MoneyOfIsInteger
<1>8. CASE f.kind = "transfer" /\ side = "long"
  <2>1. f.acc # f.to BY <1>5, <1>8 DEF HasLegs
  <2>2. \A acc \in A \ {f.acc, f.to} : g[acc] = 0 BY <1>8 DEF MoneyOf
  <2>3. PieceValue(f.parts) \in Int
    <3>1. f.parts \in CarriedLots BY <1>3, <1>8 DEF IsFact
    <3> QED BY <3>1, ValueOfParts
  <2>4. g[f.acc] = -PieceValue(f.parts) /\ g[f.to] = PieceValue(f.parts)
    BY <1>4, <1>8, <2>1, <2>3 DEF MoneyOf
  <2>5. f.kind \notin Paying(side) BY <1>8 DEF Paying
  <2> HIDE DEF A, g
  <2>6. SumOver(g, A) = g[f.acc] + g[f.to] BY ONLY <1>2, <1>4, <1>7, <2>1, <2>2, SumAtTwo
  <2>7. SumOver(g, A) = 0 BY <2>3, <2>4, <2>6
  <2> QED BY <2>5, <2>7 DEF A, g
<1>9. CASE ~(f.kind = "transfer" /\ side = "long")
  <2>1. \A acc \in A \ {f.acc} : g[acc] = 0 BY <1>9 DEF MoneyOf
  <2>2. g[f.acc] = IF f.kind \in Paying(side) THEN f.value ELSE 0 BY <1>4, <1>9 DEF MoneyOf
  <2> HIDE DEF A, g
  <2>3. SumOver(g, A) = g[f.acc] BY ONLY <1>2, <1>4, <1>7, <2>1, SumAtOne
  <2> QED BY <2>2, <2>3 DEF A, g
<1> QED BY <1>8, <1>9

\* What is booked on a side, as the property adds it up.
BookedOn(side) ==
  MapThenSumSet(LAMBDA i : IF facts[i].kind \in Paying(side) THEN facts[i].value ELSE 0, DOMAIN facts)

\* It is a sum over the facts.
LEMMA BookedIsSum ==
  ASSUME IsFiniteSet(DOMAIN facts), NEW side
  PROVE  BookedOn(side) = SumOver([i \in DOMAIN facts |-> IF facts[i].kind \in Paying(side) THEN facts[i].value ELSE 0],
                                  DOMAIN facts)
<1> DEFINE S == DOMAIN facts
           b(i) == IF facts[i].kind \in Paying(side) THEN facts[i].value ELSE 0
           f == [i \in S |-> b(i)]
           Totals(g) == g = [s \in SUBSET S |-> IF s = {} THEN 0
                             ELSE b(CHOOSE x \in s : TRUE) + g[s \ {CHOOSE x \in s : TRUE}]]
<1>1. BookedOn(side) = (CHOOSE g : Totals(g))[S]
  BY DEF BookedOn, MapThenSumSet, MapThenFoldSet
<1> HIDE DEF b
<1>2. \A g : Totals(g) <=> IsSum(g, f, S)
  <2>1. \A s \in SUBSET S : s # {} => f[First(s)] = b(First(s))
    BY FirstIsElement
  <2> HIDE DEF f
  <2> QED BY <2>1 DEF IsSum, First
<1>3. \E g : Totals(g)
  <2> HIDE DEF Totals, f
  <2> QED BY <1>2, SumExists
<1>4. IsSum(CHOOSE g : Totals(g), f, S)
  <2> HIDE DEF Totals, f
  <2> QED BY <1>2, <1>3
<1>5. BookedOn(side) = SumOver(f, S)
  <2> HIDE DEF Totals, f, S
  <2>1. S \in SUBSET S OBVIOUS
  <2> QED BY <1>1, <1>4, <2>1, FoldIsSum DEF S
<1> QED BY <1>5 DEF b, f

\* The money in some reports.
MoneyIn(report, S, side) == MapThenSumSet(LAMBDA acc : Money(report[acc], side), S)

\* It is a sum over the reports.
LEMMA MoneyIsSum ==
  ASSUME NEW S, IsFiniteSet(S), NEW report, NEW side
  PROVE  MoneyIn(report, S, side) = SumOver([acc \in S |-> Money(report[acc], side)], S)
<1> DEFINE b(acc) == Money(report[acc], side)
           f == [acc \in S |-> b(acc)]
           all == MoneyIn(report, S, side)
           Totals(g) == g = [s \in SUBSET S |-> IF s = {} THEN 0
                             ELSE b(CHOOSE x \in s : TRUE) + g[s \ {CHOOSE x \in s : TRUE}]]
<1>1. all = (CHOOSE g : Totals(g))[S]
  BY DEF MoneyIn, MapThenSumSet, MapThenFoldSet
<1> HIDE DEF b
<1>2. \A g : Totals(g) <=> IsSum(g, f, S)
  <2>1. \A s \in SUBSET S : s # {} => f[First(s)] = b(First(s))
    BY FirstIsElement
  <2> HIDE DEF f
  <2> QED BY <2>1 DEF IsSum, First
<1>3. \E g : Totals(g)
  <2> HIDE DEF Totals, f
  <2> QED BY <1>2, SumExists
<1>4. IsSum(CHOOSE g : Totals(g), f, S)
  <2> HIDE DEF Totals, f
  <2> QED BY <1>2, <1>3
<1>5. all = SumOver(f, S)
  <2> HIDE DEF Totals, f, all
  <2>1. S \in SUBSET S OBVIOUS
  <2> QED BY <1>1, <1>4, <2>1, FoldIsSum
<1> QED BY <1>5 DEF b, f

\* Everything that was paid or received on a side is in some report.
LEMMA ReportsAccount ==
  ASSUME LedgerInv, book.allocated, NothingBackdatedBeforeDerived, WholePrices \/ ~book.short,
         NEW method \in book.methods, NEW side \in Sides,
         NEW report, report = [acc \in book.accounts |-> Report(acc, today, today, method)],
         \A acc \in book.accounts : report[acc].ok
  PROVE  BookedOn(side) = MoneyIn(report, book.accounts, side)
<1> DEFINE A == book.accounts
           S == DOMAIN facts
           f == [acc \in A |-> [i \in S |-> MoneyOf(facts[i], acc, side)]]
           rows == [acc \in A |-> Money(report[acc], side)]
           columns == [i \in S |-> IF facts[i].kind \in Paying(side) THEN facts[i].value ELSE 0]
<1>1. HistoryInv /\ AreFacts(book.instruments) /\ book \in Books BY DEF LedgerInv, BookInv
<1>2. IsFiniteSet(A) BY <1>1, LedgerAssumption DEF IsBook
<1>3. IsFiniteSet(S)
  <2>1. DOMAIN facts = 1..Len(facts) /\ Len(facts) \in Nat BY <1>1 DEF HistoryInv
  <2>2. IsFiniteSet(1..Len(facts)) BY ONLY <2>1, FS_Interval
  <2> QED BY <2>1, <2>2
<1>4. \A acc \in A, i \in S : f[acc][i] \in Int
  <2> SUFFICES ASSUME NEW acc \in A, NEW i \in S PROVE MoneyOf(facts[i], acc, side) \in Int OBVIOUS
  <2>1. IsFact(facts[i], book.instruments) BY <1>1, FactAt
  <2> QED BY <2>1, MoneyOfIsInteger
<1>5. \A acc \in A : rows[acc] = SumOver(f[acc], S)
  <2> SUFFICES ASSUME NEW acc \in A PROVE Money(report[acc], side) = SumOver(f[acc], S) OBVIOUS
  <2>1. PICK h : h = Visible(acc, today, today) OBVIOUS
  <2>2. PICK r : r = report[acc] /\ r = Report(acc, today, today, method) /\ r.ok OBVIOUS
  <2>3. Money(r, side) = SumOver(FlowsOf(h, acc)[side], 1..Len(h)) BY <2>1, <2>2, ReportAccounts
  <2>4. SumOver(FlowsOf(h, acc)[side], 1..Len(h))
          = SumOver([i \in DOMAIN facts |-> MoneyOf(facts[i], acc, side)], DOMAIN facts)
    BY <2>1, HistoryPays
  <2>5. f[acc] = [i \in DOMAIN facts |-> MoneyOf(facts[i], acc, side)] OBVIOUS
  <2> QED BY <2>2, <2>3, <2>4, <2>5
<1>6. \A i \in S : columns[i] = SumOver(Column(f, A, i), A)
  <2> SUFFICES ASSUME NEW i \in S PROVE columns[i] = SumOver(Column(f, A, i), A) OBVIOUS
  <2>1. SumOver([acc \in A |-> MoneyOf(facts[i], acc, side)], A)
          = IF facts[i].kind \in Paying(side) THEN facts[i].value ELSE 0
    BY FactPays
  <2>2. Column(f, A, i) = [acc \in A |-> MoneyOf(facts[i], acc, side)] BY DEF Column
  <2> QED BY <2>1, <2>2
<1>7. BookedOn(side) = SumOver(columns, S) BY <1>3, BookedIsSum
<1>8. MoneyIn(report, A, side) = SumOver(rows, A)
  BY <1>2, MoneyIsSum
<1> HIDE DEF A, S, f, rows, columns
<1>9. SumOver(rows, A) = SumOver(columns, S) BY ONLY <1>2, <1>3, <1>4, <1>5, <1>6, SumsSwap
<1> QED BY <1>7, <1>8, <1>9 DEF A

\* No money appears or disappears: in every ledger with basis allocations in which
\* no fact was backdated before one that was worked out from the history, and in
\* which a trade that closes lots and opens another one divides its value without
\* a remainder, everything that was paid or received is, over all accounts and
\* under every method, in the open lots and the results that replay_lots reports.
THEOREM MoneyIsKept ==
  LedgerSpec => [](book.allocated /\ NothingBackdatedBeforeDerived /\ (WholePrices \/ ~book.short) => MoneyAccounted)
<1>1. LedgerInv =>
        (book.allocated /\ NothingBackdatedBeforeDerived /\ (WholePrices \/ ~book.short) => MoneyAccounted)
  <2> DEFINE R(method) == [acc \in book.accounts |-> Report(acc, today, today, method)]
  <2> SUFFICES ASSUME LedgerInv, book.allocated, NothingBackdatedBeforeDerived, WholePrices \/ ~book.short,
                      NEW method \in book.methods, \A acc \in book.accounts : R(method)[acc].ok,
                      NEW side \in Sides
               PROVE  BookedOn(side) = MoneyIn(R(method), book.accounts, side)
    BY DEF MoneyAccounted, BookedOn, MoneyIn, Sides
  <2>1. PICK report : report = R(method) OBVIOUS
  <2>2. \A acc \in book.accounts : report[acc].ok BY <2>1
  <2>3. BookedOn(side) = MoneyIn(report, book.accounts, side) BY <2>1, <2>2, ReportsAccount
  <2> QED BY <2>1, <2>3
<1> QED BY <1>1, LedgerInvHolds, PTL

===============================================================================
