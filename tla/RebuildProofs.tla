---------------------------- MODULE RebuildProofs ----------------------------
(***************************************************************************)
(* Theorems about the rebuild, for any accounts, files and uses of a home. *)
(*                                                                         *)
(* A verdict is right.  The ids that a rebuild draws are given by New, so   *)
(* the target can be described batch by batch, without the order in which  *)
(* they were replayed: a row of the target is its envelope with the ids of *)
(* the target, kept as a service keeps it today (Kept).                    *)
(*                                                                         *)
(* A clean rebuild is whole, and is found consistent.  Every row has a     *)
(* Twin, and a home of twins answers every question of a service as the    *)
(* home does: so what was accepted is accepted again, in its turn, and     *)
(* the target is the set of the twins of the rows replayed so far.         *)
(***************************************************************************)
EXTENDS Rebuild, SetLemmas, SequenceTheorems, WellFoundedInduction, TLAPS

-----------------------------------------------------------------------------
(* Rows *)

AsRow(op, id, refs, eff, known, rec, val) ==
  [op |-> op, id |-> id, refs |-> refs, eff |-> eff, known |-> known,
   rec |-> rec, val |-> val]

IsRow(e) == e = AsRow(e.op, e.id, e.refs, e.eff, e.known, e.rec, e.val)

\* What an envelope says of its references and of what a service looks at.
Shape(e) ==
  /\ e.op \in {"ledger.import_csv"} \cup MarketOps => e.refs = NoRefs
  /\ e.op = "ledger.import_csv" => e.val.file \in Files
  /\ e.op = "research.create_contradiction" =>
       e.refs = [a |-> e.refs.a, b |-> e.refs.b] /\ {e.refs.a, e.refs.b} \subseteq Int
  /\ e.op \in VersionOps => e.val = [rules |-> e.val.rules, number |-> e.val.number]

\* What a service keeps of an envelope, but for the numbers that it gives.
Kept(e, now) ==
  CASE e.op = "research.create_contradiction" ->
         [e EXCEPT !.refs = [a |-> Min({e.refs.a, e.refs.b}),
                             b |-> Max({e.refs.a, e.refs.b})]]
    [] e.op = "ledger.import_csv" ->
         [e EXCEPT !.eff = IF e.val.file.dated THEN e.val.file.eff ELSE now,
                   !.known = IF e.val.file.dated THEN e.val.file.eff ELSE now,
                   !.rec = now]
    [] e.op \in MarketOps \cup {"ledger.record_correction"} -> [e EXCEPT !.rec = now]
    [] OTHER -> e

\* The rows whose numbers are not looked at.
Numbered == {"research.revise_thesis"}

-----------------------------------------------------------------------------
(* The source *)

Pair(e) == <<e.val.account, e.val.file>>

IsCsv(i) == log[i].op = "ledger.import_csv"

\* The batches that imported the file into the account before.
Earlier(i) == {j \in 1..(i - 1) : IsCsv(j) /\ Pair(log[j]) = Pair(log[i])}

LogInv ==
  /\ log \in Seq({log[i] : i \in DOMAIN log})
  /\ \A i \in DOMAIN log :
       IsRow(log[i]) /\ log[i].id = i /\ log[i].rec = i /\ Shape(log[i])

\* A row is what was kept of its batch, and a file is booked with its first batch.
HomeInv ==
  /\ \A r \in home :
       /\ r.id \in DOMAIN log
       /\ IsRow(r) /\ r.op = log[r.id].op /\ r.rec = r.id
       /\ r.op \notin Numbered => r = Kept(log[r.id], r.id)
  /\ \A i \in DOMAIN log : IsCsv(i) /\ Earlier(i) = {} => \E r \in home : r.id = i
  /\ \A r \in home : r.op = "ledger.import_csv" => Earlier(r.id) = {}

-----------------------------------------------------------------------------
(* The target *)

New(i) == 2 * End + order * i

Renamed(e) ==
  [e EXCEPT !.id = New(e.id), !.refs = [k \in DOMAIN e.refs |-> New(e.refs[k])]]

Replayed(i, t) ==
  /\ IsRow(t) /\ t.op = log[i].op /\ t.id = New(i)
  /\ t.op = "research.link" => t.rec = i
  /\ t.op \notin Numbered \cup {"research.link"} => t = Kept(Renamed(log[i]), Today)

\* Nothing has been replayed yet.
Idle == at = 0 /\ target = {} /\ mapping = <<>> /\ seen = {} /\ warnings = {}

TargetInv ==
  /\ order \in {1, -1}
  /\ at \in 0..Len(log)
  /\ pc = "open" => Idle
  /\ \A i \in DOMAIN mapping :
       /\ i \in 1..at
       /\ mapping[i] = New(i)
       /\ log[i].op # "research.link" =>
            \A k \in DOMAIN log[i].refs : log[i].refs[k] \in DOMAIN mapping
       /\ \E t \in target : Replayed(i, t)
       /\ IsCsv(i) => Earlier(i) = {}
  /\ \A t \in target : \E i \in DOMAIN mapping : Replayed(i, t)
  /\ \A i \in 1..at :
       IF IsCsv(i) THEN Earlier(i) = {} => i \in DOMAIN mapping
                   ELSE i \in DOMAIN mapping \cup warnings
  /\ seen = {Pair(log[i]) : i \in {j \in 1..at : IsCsv(j)}}

\* The verdict is about the homes as they are.
VerdictInv ==
  verdict = "consistent" => pc = "done" /\ at = Len(log) /\ Consistent

RebuildInv == LogInv /\ HomeInv /\ TargetInv /\ VerdictInv

-----------------------------------------------------------------------------
(* Lemmas about rows *)

LEMMA SeqAppended ==
  ASSUME NEW S, NEW s \in Seq(S), NEW e
  PROVE  /\ Len(s) \in Nat /\ DOMAIN s = 1..Len(s)
         /\ Len(Append(s, e)) = Len(s) + 1
         /\ DOMAIN Append(s, e) = 1..(Len(s) + 1)
         /\ \A i \in 1..Len(s) : Append(s, e)[i] = s[i]
         /\ Append(s, e)[Len(s) + 1] = e
         /\ Append(s, e) \in Seq({Append(s, e)[i] : i \in DOMAIN Append(s, e)})
PROOF
  <1> DEFINE T == S \cup {e}
             t == Append(s, e)
  <1>1. s \in Seq(T) /\ e \in T
    OBVIOUS
  <1>2. /\ t \in Seq(T)
        /\ Len(t) = Len(s) + 1
        /\ \A i \in 1..Len(s) : t[i] = s[i]
        /\ t[Len(s) + 1] = e
        /\ Len(s) \in Nat
    BY <1>1
  <1>3. DOMAIN t = 1..(Len(s) + 1) /\ DOMAIN s = 1..Len(s)
    BY <1>2
  <1>4. t \in Seq({t[i] : i \in DOMAIN t})
    BY <1>2, <1>3
  <1> QED BY <1>2, <1>3, <1>4

LEMMA RowChanged ==
  ASSUME NEW e, IsRow(e), NEW x
  PROVE  /\ [e EXCEPT !.id = x] = AsRow(e.op, x, e.refs, e.eff, e.known, e.rec, e.val)
         /\ [e EXCEPT !.rec = x] = AsRow(e.op, e.id, e.refs, e.eff, e.known, x, e.val)
         /\ [e EXCEPT !.val = x] = AsRow(e.op, e.id, e.refs, e.eff, e.known, e.rec, x)
         /\ [e EXCEPT !.refs = x] = AsRow(e.op, e.id, x, e.eff, e.known, e.rec, e.val)
PROOF
  <1>1. PICK op, id, refs, eff, known, rec, val :
          e = [op |-> op, id |-> id, refs |-> refs, eff |-> eff,
               known |-> known, rec |-> rec, val |-> val]
    BY DEF IsRow, AsRow
  <1>2. /\ e.op = op /\ e.id = id /\ e.refs = refs /\ e.eff = eff
        /\ e.known = known /\ e.rec = rec /\ e.val = val
    BY <1>1
  <1>3. [e EXCEPT !.id = x] = AsRow(op, x, refs, eff, known, rec, val)
    BY <1>1 DEF AsRow
  <1>4. [e EXCEPT !.rec = x] = AsRow(op, id, refs, eff, known, x, val)
    BY <1>1 DEF AsRow
  <1>5. [e EXCEPT !.val = x] = AsRow(op, id, refs, eff, known, rec, x)
    BY <1>1 DEF AsRow
  <1>6. [e EXCEPT !.refs = x] = AsRow(op, id, x, eff, known, rec, val)
    BY <1>1 DEF AsRow
  <1> QED BY <1>2, <1>3, <1>4, <1>5, <1>6

LEMMA NamesChanged ==
  ASSUME NEW e, IsRow(e), NEW x, NEW y
  PROVE  [e EXCEPT !.id = x, !.refs = y] = AsRow(e.op, x, y, e.eff, e.known, e.rec, e.val)
PROOF
  <1>1. PICK op, id, refs, eff, known, rec, val :
          e = [op |-> op, id |-> id, refs |-> refs, eff |-> eff,
               known |-> known, rec |-> rec, val |-> val]
    BY DEF IsRow, AsRow
  <1>2. e.op = op /\ e.eff = eff /\ e.known = known /\ e.rec = rec /\ e.val = val
    BY <1>1
  <1>3. [e EXCEPT !.id = x, !.refs = y] = AsRow(op, x, y, eff, known, rec, val)
    <2>0. [e EXCEPT !.id = x] = AsRow(op, x, refs, eff, known, rec, val)
      BY <1>1 DEF AsRow
    <2>1. [e EXCEPT !.id = x, !.refs = y] = [[e EXCEPT !.id = x] EXCEPT !.refs = y]
      BY Zenon
    <2>2. [AsRow(op, x, refs, eff, known, rec, val) EXCEPT !.refs = y]
            = AsRow(op, x, y, eff, known, rec, val)
      BY DEF AsRow
    <2> QED BY <2>0, <2>1, <2>2
  <1> QED BY <1>2, <1>3

LEMMA TimesChanged ==
  ASSUME NEW e, IsRow(e), NEW x, NEW y, NEW z
  PROVE  [e EXCEPT !.eff = x, !.known = y, !.rec = z]
           = AsRow(e.op, e.id, e.refs, x, y, z, e.val)
PROOF
  <1>1. PICK op, id, refs, eff, known, rec, val :
          e = [op |-> op, id |-> id, refs |-> refs, eff |-> eff,
               known |-> known, rec |-> rec, val |-> val]
    BY DEF IsRow, AsRow
  <1>2. e.op = op /\ e.id = id /\ e.refs = refs /\ e.val = val
    BY <1>1
  <1>3. [e EXCEPT !.eff = x, !.known = y, !.rec = z] = AsRow(op, id, refs, x, y, z, val)
    <2>1. [e EXCEPT !.eff = x, !.known = y, !.rec = z]
            = [[[e EXCEPT !.eff = x] EXCEPT !.known = y] EXCEPT !.rec = z]
      BY Zenon
    <2>2. [e EXCEPT !.eff = x] = AsRow(op, id, refs, x, known, rec, val)
      BY <1>1 DEF AsRow
    <2>3. [AsRow(op, id, refs, x, known, rec, val) EXCEPT !.known = y]
            = AsRow(op, id, refs, x, y, rec, val)
      BY DEF AsRow
    <2>4. [AsRow(op, id, refs, x, y, rec, val) EXCEPT !.rec = z]
            = AsRow(op, id, refs, x, y, z, val)
      BY DEF AsRow
    <2> QED BY <2>1, <2>2, <2>3, <2>4
  <1> QED BY <1>2, <1>3

LEMMA AsRowIsRow ==
  ASSUME NEW op, NEW id, NEW refs, NEW eff, NEW known, NEW rec, NEW val
  PROVE  LET r == AsRow(op, id, refs, eff, known, rec, val)
         IN /\ IsRow(r)
            /\ r.op = op /\ r.id = id /\ r.refs = refs /\ r.eff = eff
            /\ r.known = known /\ r.rec = rec /\ r.val = val
PROOF BY DEF IsRow, AsRow

LEMMA MinMaxOfTwo ==
  ASSUME NEW a \in Int, NEW b \in Int
  PROVE  /\ Min({a, b}) = IF a <= b THEN a ELSE b
         /\ Max({a, b}) = IF a <= b THEN b ELSE a
PROOF BY DEF Min, Max

\* What a service keeps is a row of the same batch.
LEMMA KeptWhole ==
  ASSUME NEW e, IsRow(e), NEW now
  PROVE  /\ IsRow(Kept(e, now))
         /\ Kept(e, now).op = e.op /\ Kept(e, now).id = e.id /\ Kept(e, now).val = e.val
         /\ e.rec = now => Kept(e, now).rec = now
         /\ e.op \notin LedgerOps \cup MarketOps => Kept(e, now).rec = e.rec
         /\ e.op \in (LedgerOps \cup MarketOps) \ {"ledger.record_corporate_action"} =>
              Kept(e, now).rec = now
         /\ Kept(e, now).refs =
              IF e.op = "research.create_contradiction"
                THEN [a |-> Min({e.refs.a, e.refs.b}), b |-> Max({e.refs.a, e.refs.b})]
                ELSE e.refs
         /\ e.op = "ledger.import_csv" /\ e.val.file.dated =>
              Kept(e, now).eff = e.val.file.eff /\ Kept(e, now).known = e.val.file.eff
         /\ e.op # "ledger.import_csv" =>
              Kept(e, now).eff = e.eff /\ Kept(e, now).known = e.known
PROOF
  <1> DEFINE eff == IF e.val.file.dated THEN e.val.file.eff ELSE now
             refs == [a |-> Min({e.refs.a, e.refs.b}), b |-> Max({e.refs.a, e.refs.b})]
  <1>1. CASE e.op = "research.create_contradiction"
    <2>0. Kept(e, now) = [e EXCEPT !.refs = refs]
      BY <1>1 DEF Kept, MarketOps
    <2> HIDE DEF refs
    <2>1. Kept(e, now) = AsRow(e.op, e.id, refs, e.eff, e.known, e.rec, e.val)
      BY <2>0, RowChanged
    <2>2. /\ IsRow(Kept(e, now))
          /\ Kept(e, now).op = e.op /\ Kept(e, now).id = e.id /\ Kept(e, now).val = e.val
          /\ Kept(e, now).refs = refs /\ Kept(e, now).rec = e.rec
          /\ Kept(e, now).eff = e.eff /\ Kept(e, now).known = e.known
      BY <2>1, AsRowIsRow
    <2> QED BY <1>1, <2>2 DEF refs, LedgerOps, MarketOps
  <1>2. CASE e.op = "ledger.import_csv"
    <2>0. Kept(e, now) = [e EXCEPT !.eff = eff, !.known = eff, !.rec = now]
      BY <1>2 DEF Kept, MarketOps
    <2> HIDE DEF eff
    <2>1. \A t : [e EXCEPT !.eff = t, !.known = t, !.rec = now]
                   = AsRow(e.op, e.id, e.refs, t, t, now, e.val)
      <3> TAKE t
      <3> QED BY TimesChanged
    <2>2. Kept(e, now) = AsRow(e.op, e.id, e.refs, eff, eff, now, e.val)
      BY <2>0, <2>1
    <2>3. /\ IsRow(Kept(e, now))
          /\ Kept(e, now).op = e.op /\ Kept(e, now).id = e.id /\ Kept(e, now).val = e.val
          /\ Kept(e, now).refs = e.refs /\ Kept(e, now).rec = now
          /\ Kept(e, now).eff = eff /\ Kept(e, now).known = eff
      BY <2>2, AsRowIsRow
    <2> QED BY <1>2, <2>3 DEF eff, LedgerOps
  <1>3. CASE e.op \in MarketOps \cup {"ledger.record_correction"}
    <2>1. Kept(e, now) = AsRow(e.op, e.id, e.refs, e.eff, e.known, now, e.val)
      BY <1>3, RowChanged DEF Kept, MarketOps
    <2> QED BY <1>3, <2>1, AsRowIsRow DEF LedgerOps, MarketOps
  <1>4. CASE e.op \notin MarketOps \cup {"ledger.record_correction", "ledger.import_csv",
                                         "research.create_contradiction"}
    <2>1. Kept(e, now) = e
      BY <1>4 DEF Kept, MarketOps
    <2> QED BY <1>4, <2>1 DEF LedgerOps, MarketOps
  <1> QED BY <1>1, <1>2, <1>3, <1>4

LEMMA KeptRow ==
  ASSUME NEW e, IsRow(e), NEW now
  PROVE  /\ IsRow(Kept(e, now))
         /\ Kept(e, now).op = e.op /\ Kept(e, now).id = e.id /\ Kept(e, now).val = e.val
         /\ e.rec = now => Kept(e, now).rec = now
         /\ e.op \notin LedgerOps \cup MarketOps => Kept(e, now).rec = e.rec
PROOF BY ZenonT(30), KeptWhole

LEMMA KeptRefs ==
  ASSUME NEW e, IsRow(e), NEW now
  PROVE  /\ e.op # "research.create_contradiction" => Kept(e, now).refs = e.refs
         /\ e.op = "research.create_contradiction" =>
              Kept(e, now).refs = [a |-> Min({e.refs.a, e.refs.b}),
                                   b |-> Max({e.refs.a, e.refs.b})]
PROOF BY KeptWhole

LEMMA KeptTimes ==
  ASSUME NEW e, IsRow(e), NEW now
  PROVE  /\ e.op = "ledger.import_csv" /\ e.val.file.dated =>
              Kept(e, now).eff = e.val.file.eff /\ Kept(e, now).known = e.val.file.eff
         /\ e.op # "ledger.import_csv" =>
              Kept(e, now).eff = e.eff /\ Kept(e, now).known = e.known
PROOF BY ZenonT(30), KeptWhole

LEMMA StoredIsKept ==
  ASSUME NEW h, NEW e, NEW now, e.op \notin VersionOps \cup Numbered
  PROVE  Stored(h, e, now) = Kept(e, now)
PROOF BY DEF Stored, Kept, VersionOps, Numbered, MarketOps

\* The services that number what they store change nothing else.
Renumbered(v, w) == \E n : v = [w EXCEPT !.number = n]

LEMMA NumberStored ==
  ASSUME NEW h, NEW e, IsRow(e), NEW now, e.op \in VersionOps \cup Numbered
  PROVE  /\ IsRow(Stored(h, e, now))
         /\ Stored(h, e, now).op = e.op /\ Stored(h, e, now).id = e.id
         /\ Stored(h, e, now).rec = e.rec /\ Stored(h, e, now).refs = e.refs
         /\ Stored(h, e, now).eff = e.eff /\ Stored(h, e, now).known = e.known
         /\ Renumbered(Stored(h, e, now).val, e.val)
PROOF
  <1>1. PICK n : Stored(h, e, now) = [e EXCEPT !.val.number = n]
    BY DEF Stored, VersionOps, Numbered, MarketOps
  <1> DEFINE val == [e.val EXCEPT !.number = n]
  <1>2. [e EXCEPT !.val.number = n] = [e EXCEPT !.val = val]
    BY Zenon
  <1>3. Renumbered(val, e.val)
    BY DEF Renumbered
  <1> HIDE DEF val
  <1>4. Stored(h, e, now) = AsRow(e.op, e.id, e.refs, e.eff, e.known, e.rec, val)
    BY <1>1, <1>2, RowChanged
  <1> DEFINE r == AsRow(e.op, e.id, e.refs, e.eff, e.known, e.rec, val)
  <1>5. /\ IsRow(r)
        /\ r.op = e.op /\ r.id = e.id /\ r.refs = e.refs /\ r.eff = e.eff
        /\ r.known = e.known /\ r.rec = e.rec /\ r.val = val
    BY AsRowIsRow
  <1> QED BY <1>3, <1>4, <1>5

LEMMA RenamedRow ==
  ASSUME NEW e, IsRow(e)
  PROVE  Renamed(e) = AsRow(e.op, New(e.id), [k \in DOMAIN e.refs |-> New(e.refs[k])],
                            e.eff, e.known, e.rec, e.val)
PROOF BY NamesChanged DEF Renamed

LEMMA MeaningOfRow ==
  ASSUME NEW r, IsRow(r)
  PROVE  /\ r.op = "research.create_contradiction" =>
              Meaning(r) = AsRow(r.op, r.id, {r.refs.a, r.refs.b}, r.eff, r.known, r.rec, r.val)
         /\ r.op \in LedgerOps \cup MarketOps =>
              Meaning(r) = AsRow(r.op, r.id, r.refs, r.eff, r.known, 0, r.val)
         /\ r.op \notin LedgerOps \cup MarketOps \cup {"research.create_contradiction"} =>
              Meaning(r) = AsRow(r.op, r.id, r.refs, r.eff, r.known, r.rec, r.val)
PROOF
  <1>1. CASE r.op = "research.create_contradiction"
    <2>1. Meaning(r) = [r EXCEPT !.refs = {r.refs.a, r.refs.b}]
      BY <1>1 DEF Meaning, LedgerOps, MarketOps
    <2> QED BY <1>1, <2>1, RowChanged DEF LedgerOps, MarketOps
  <1>2. CASE r.op \in LedgerOps \cup MarketOps
    <2>1. Meaning(r) = [r EXCEPT !.rec = 0]
      BY <1>2 DEF Meaning, LedgerOps, MarketOps
    <2> QED BY <1>2, <2>1, RowChanged DEF LedgerOps, MarketOps
  <1>3. CASE r.op \notin LedgerOps \cup MarketOps \cup {"research.create_contradiction"}
    <2>1. Meaning(r) = r
      BY <1>3 DEF Meaning, LedgerOps, MarketOps
    <2> QED BY <1>3, <2>1 DEF IsRow
  <1> QED BY <1>1, <1>2, <1>3

Alike(m, t) ==
  /\ IsRow(m) /\ IsRow(t)
  /\ m.op = t.op /\ m.id = t.id /\ m.eff = t.eff /\ m.known = t.known /\ m.val = t.val
  /\ m.op \in LedgerOps \cup MarketOps \/ m.rec = t.rec
  /\ IF m.op = "research.create_contradiction"
       THEN {m.refs.a, m.refs.b} = {t.refs.a, t.refs.b}
       ELSE m.refs = t.refs

LEMMA SameMeaning ==
  ASSUME NEW m, NEW t, Alike(m, t)
  PROVE  Meaning(m) = Meaning(t)
PROOF
  <1>1. CASE m.op = "research.create_contradiction"
    BY <1>1, MeaningOfRow DEF Alike, LedgerOps, MarketOps
  <1>2. CASE m.op \in LedgerOps \cup MarketOps
    BY <1>2, MeaningOfRow DEF Alike, LedgerOps, MarketOps
  <1>3. CASE m.op \notin LedgerOps \cup MarketOps \cup {"research.create_contradiction"}
    BY <1>3, MeaningOfRow DEF Alike
  <1> QED BY <1>1, <1>2, <1>3

\* The row that the source kept of a batch and the one that the target kept of it mean
\* the same, if the references of the batch were replayed before.
LEMMA ImageMeansReplayed ==
  ASSUME NEW i, NEW e, IsRow(e), Shape(e), e.id = i, e.op # "research.link",
         order \in Int,
         i \in DOMAIN mapping,
         \A k \in DOMAIN e.refs : e.refs[k] \in DOMAIN mapping,
         \A j \in DOMAIN mapping : mapping[j] = New(j),
         e.op = "ledger.import_csv" => e.val.file.dated
  PROVE  Meaning(Image(Kept(e, i))) = Meaning(Kept(Renamed(e), Today))
PROOF
  <1> DEFINE s == Kept(e, i)
             n == Renamed(e)
             t == Kept(n, Today)
             refs == [k \in DOMAIN e.refs |-> New(e.refs[k])]
             imaged == [k \in DOMAIN s.refs |->
                          IF s.refs[k] \in DOMAIN mapping THEN mapping[s.refs[k]]
                                                          ELSE s.refs[k]]
  <1>1. n = AsRow(e.op, New(i), refs, e.eff, e.known, e.rec, e.val)
    BY RenamedRow
  <1>2. /\ IsRow(n) /\ n.op = e.op /\ n.id = New(i) /\ n.refs = refs /\ n.eff = e.eff
        /\ n.known = e.known /\ n.rec = e.rec /\ n.val = e.val
    BY <1>1, AsRowIsRow
  <1>3. /\ IsRow(s) /\ s.op = e.op /\ s.id = i /\ s.val = e.val
    BY KeptRow
  <1>3a. e.op # "research.create_contradiction" => s.refs = e.refs
    BY KeptRefs
  <1>4. /\ IsRow(t) /\ t.op = e.op /\ t.id = New(i) /\ t.val = e.val
    <2> HIDE DEF n
    <2> QED BY <1>2, KeptRow
  <1>4a. e.op # "research.create_contradiction" => t.refs = refs
    <2> HIDE DEF n, refs
    <2> QED BY <1>2, KeptRefs
  <1>5. Image(s) = AsRow(e.op, New(i), imaged, s.eff, s.known, s.rec, e.val)
    <2>1. Image(s) = [s EXCEPT !.id = mapping[s.id], !.refs = imaged]
      BY DEF Image
    <2>2. mapping[s.id] = New(i)
      BY <1>3
    <2> HIDE DEF imaged, s
    <2>3. \A x : [s EXCEPT !.id = x, !.refs = imaged]
                   = AsRow(s.op, x, imaged, s.eff, s.known, s.rec, s.val)
      BY <1>3, NamesChanged
    <2> QED BY <1>3, <2>1, <2>2, <2>3
  <1> DEFINE m == Image(s)
  <1>5a. /\ IsRow(m)
         /\ m.op = e.op /\ m.id = New(i) /\ m.refs = imaged /\ m.eff = s.eff
         /\ m.known = s.known /\ m.rec = s.rec /\ m.val = e.val
    <2> HIDE DEF imaged, s
    <2> QED BY <1>5, AsRowIsRow
  <1>6. SUFFICES Meaning(m) = Meaning(t)
    OBVIOUS
  <1> HIDE DEF m
  <1>7. CASE e.op = "research.create_contradiction"
    <2> DEFINE a == e.refs.a
               b == e.refs.b
    <2>1. /\ e.refs = [a |-> a, b |-> b] /\ a \in Int /\ b \in Int
          /\ a \in DOMAIN mapping /\ b \in DOMAIN mapping
      BY <1>7 DEF Shape
    <2>2. refs = [a |-> New(a), b |-> New(b)] /\ New(a) \in Int /\ New(b) \in Int
      BY <2>1, RecordsAssumption DEF New
    <2>3. s.refs = [a |-> Min({a, b}), b |-> Max({a, b})]
          /\ s.eff = e.eff /\ s.known = e.known /\ s.rec = e.rec
      BY <1>7, KeptRow, KeptRefs, KeptTimes DEF MarketOps, LedgerOps
    <2>4. t.refs = [a |-> Min({New(a), New(b)}), b |-> Max({New(a), New(b)})]
          /\ t.eff = e.eff /\ t.known = e.known /\ t.rec = e.rec
      BY <1>2, <1>7, <2>2, KeptRow, KeptRefs, KeptTimes DEF MarketOps, LedgerOps
    <2>5. imaged = [a |-> New(Min({a, b})), b |-> New(Max({a, b}))]
      BY <2>1, <2>3, MinMaxOfTwo
    <2>8. {imaged.a, imaged.b} = {t.refs.a, t.refs.b}
      <3>1. imaged.a = New(Min({a, b})) /\ imaged.b = New(Max({a, b}))
        BY <2>5
      <3>2. t.refs.a = Min({New(a), New(b)}) /\ t.refs.b = Max({New(a), New(b)})
        BY <2>4
      <3>3. {New(Min({a, b})), New(Max({a, b}))} = {New(a), New(b)}
        <4>1. \/ Min({a, b}) = a /\ Max({a, b}) = b
              \/ Min({a, b}) = b /\ Max({a, b}) = a
          BY <2>1, MinMaxOfTwo
        <4> QED BY <4>1
      <3>4. {Min({New(a), New(b)}), Max({New(a), New(b)})} = {New(a), New(b)}
        BY <2>2, MinMaxOfTwo
      <3> QED BY <3>1, <3>2, <3>3, <3>4
    <2> HIDE DEF s, t, imaged, refs, n
    <2>9. m.eff = t.eff /\ m.known = t.known /\ m.rec = t.rec
      BY <1>5a, <2>3, <2>4
    <2>10. Alike(m, t)
      BY <1>4, <1>5a, <1>7, <2>8, <2>9 DEF Alike
    <2> QED BY <2>10, SameMeaning
  <1>8. CASE e.op # "research.create_contradiction"
    <2>1. imaged = refs
      BY <1>3a, <1>8
    <2>2. t.refs = refs
      BY <1>4a, <1>8
    <2>3. s.eff = t.eff /\ s.known = t.known
      BY <1>2, <1>8, KeptTimes
    <2>4. e.op \in LedgerOps \cup MarketOps \/ s.rec = t.rec
      BY <1>2, KeptRow
    <2> HIDE DEF s, t, imaged, refs, n
    <2>5. m.eff = t.eff /\ m.known = t.known /\ m.refs = t.refs
      BY <1>5a, <2>1, <2>2, <2>3
    <2>6. Alike(m, t)
      BY <1>4, <1>5a, <1>8, <2>4, <2>5 DEF Alike
    <2> QED BY <2>6, SameMeaning
  <1> QED BY <1>7, <1>8

-----------------------------------------------------------------------------
(* What a verdict says *)

LEMMA ImageRow ==
  ASSUME NEW r, IsRow(r)
  PROVE  /\ IsRow(Image(r))
         /\ Image(r).op = r.op /\ Image(r).id = mapping[r.id] /\ Image(r).rec = r.rec
PROOF
  <1> DEFINE refs == [k \in DOMAIN r.refs |->
                        IF r.refs[k] \in DOMAIN mapping THEN mapping[r.refs[k]] ELSE r.refs[k]]
  <1>1. Image(r) = [r EXCEPT !.id = mapping[r.id], !.refs = refs]
    BY DEF Image
  <1> HIDE DEF refs
  <1>2. Image(r) = AsRow(r.op, mapping[r.id], refs, r.eff, r.known, r.rec, r.val)
    BY <1>1, NamesChanged
  <1> QED BY <1>2, AsRowIsRow

\* Rows with the same contents and the same id are the same.
LEMMA SameRow ==
  ASSUME NEW r, IsRow(r), NEW t, IsRow(t),
         [r EXCEPT !.id = 0] = [t EXCEPT !.id = 0]
  PROVE  /\ r.rec = t.rec
         /\ r.id = t.id => r = t
PROOF
  <1>0. /\ [r EXCEPT !.id = 0] = AsRow(r.op, 0, r.refs, r.eff, r.known, r.rec, r.val)
        /\ [t EXCEPT !.id = 0] = AsRow(t.op, 0, t.refs, t.eff, t.known, t.rec, t.val)
    BY RowChanged
  <1>1. AsRow(r.op, 0, r.refs, r.eff, r.known, r.rec, r.val)
          = AsRow(t.op, 0, t.refs, t.eff, t.known, t.rec, t.val)
    BY <1>0
  <1>2. /\ r.op = t.op /\ r.refs = t.refs /\ r.eff = t.eff /\ r.known = t.known
        /\ r.rec = t.rec /\ r.val = t.val
    BY <1>1 DEF AsRow
  <1> QED BY <1>2 DEF IsRow

LEMMA RightVerdict ==
  ASSUME RebuildInv
  PROVE  VerdictTruthful
PROOF
  <1> SUFFICES ASSUME verdict = "consistent", Whole,
                      \A r \in Of(home, "ledger.import_csv") : r.val.file.dated
               PROVE  SameHome
    BY DEF VerdictTruthful
  <1> DEFINE Link == "research.link"
             Links(h) == {r \in h : r.op \in {Link}}
  <1>1. at = Len(log) /\ Consistent
    BY DEF RebuildInv, VerdictInv
  <1>2. /\ warnings = {}
        /\ \A r \in home \cup target : r.op \notin Numbered
        /\ Contents({Image(r) : r \in Links(home)}) = Contents(Links(target))
    BY <1>1 DEF Consistent, ResearchMatch, ThesisOps, Numbered, SameContents
  <1>3. /\ DOMAIN log = 1..at
        /\ order \in Int
        /\ \A i \in DOMAIN log : IsRow(log[i]) /\ log[i].id = i /\ Shape(log[i])
    BY <1>1 DEF RebuildInv, LogInv, TargetInv
  <1>4. \A r \in home :
          /\ r.id \in DOMAIN log /\ IsRow(r) /\ r.op = log[r.id].op /\ r.rec = r.id
          /\ r.op # Link => r = Kept(log[r.id], r.id)
    BY <1>2 DEF RebuildInv, HomeInv
  <1>5. \A r \in home : r.id \in DOMAIN mapping
    <2> TAKE r \in home
    <2>1. r.op = "ledger.import_csv" => Earlier(r.id) = {}
      BY DEF RebuildInv, HomeInv
    <2> QED BY <1>2, <1>3, <1>4, <2>1 DEF RebuildInv, TargetInv, IsCsv
  <1>6. \A i \in DOMAIN mapping :
          /\ i \in DOMAIN log /\ mapping[i] = New(i)
          /\ log[i].op # Link => \A k \in DOMAIN log[i].refs : log[i].refs[k] \in DOMAIN mapping
          /\ \E t \in target : Replayed(i, t)
          /\ \E r \in home : r.id = i
    <2> TAKE i \in DOMAIN mapping
    <2>1. /\ i \in DOMAIN log /\ mapping[i] = New(i)
          /\ log[i].op # Link => \A k \in DOMAIN log[i].refs : log[i].refs[k] \in DOMAIN mapping
          /\ \E t \in target : Replayed(i, t)
          /\ IsCsv(i) => Earlier(i) = {}
      BY <1>3 DEF RebuildInv, TargetInv
    <2>2. \E r \in home : r.id = i
      <3>1. CASE IsCsv(i)
        BY <2>1, <3>1 DEF RebuildInv, HomeInv
      <3>2. CASE ~IsCsv(i)
        BY <1>3, <2>1, <3>2 DEF Whole, IsCsv
      <3> QED BY <3>1, <3>2
    <2> QED BY <2>1, <2>2
  <1>7. \A t \in target : \E i \in DOMAIN mapping : Replayed(i, t)
    BY DEF RebuildInv, TargetInv
  <1>8. ASSUME NEW r \in home, NEW t \in target, Replayed(r.id, t), r.op # Link
        PROVE  Meaning(Image(r)) = Meaning(t)
    <2> DEFINE i == r.id
               e == log[i]
    <2>1. /\ IsRow(e) /\ Shape(e) /\ e.id = i /\ e.op = r.op /\ r = Kept(e, i)
          /\ i \in DOMAIN mapping
          /\ \A k \in DOMAIN e.refs : e.refs[k] \in DOMAIN mapping
          /\ \A j \in DOMAIN mapping : mapping[j] = New(j)
      BY <1>3, <1>4, <1>5, <1>6, <1>8
    <2>2. e.op = "ledger.import_csv" => e.val.file.dated
      <3>1. r.val = e.val
        BY <2>1, KeptRow
      <3> QED BY <2>1, <3>1 DEF Of
    <2>3. t = Kept(Renamed(e), Today)
      BY <1>2, <1>8, <2>1 DEF Replayed
    <2> HIDE DEF e
    <2>4. Meaning(Image(Kept(e, i))) = Meaning(Kept(Renamed(e), Today))
      BY <1>3, <1>8, <2>1, <2>2, ImageMeansReplayed
    <2> QED BY <2>1, <2>3, <2>4
  <1>9. \A r \in Links(home) : Image(r) \in target
    <2> TAKE r \in Links(home)
    <2>1. PICK t \in Links(target) : [Image(r) EXCEPT !.id = 0] = [t EXCEPT !.id = 0]
      <3>1. [Image(r) EXCEPT !.id = 0] \in Contents({Image(s) : s \in Links(home)})
        BY DEF Contents
      <3>2. [Image(r) EXCEPT !.id = 0] \in Contents(Links(target))
        BY <1>2, <3>1
      <3> QED BY <3>2 DEF Contents
    <2>2. PICK i \in DOMAIN mapping : Replayed(i, t)
      BY <1>7
    <2>3. IsRow(t) /\ t.rec = i /\ t.id = New(i)
      BY <2>2 DEF Replayed
    <2> DEFINE m == Image(r)
    <2>4. IsRow(m) /\ m.rec = r.id /\ m.id = New(r.id)
      BY <1>4, <1>5, <1>6, ImageRow
    <2>5. m.rec = t.rec /\ (m.id = t.id => m = t)
      <3> HIDE DEF m
      <3>1. [m EXCEPT !.id = 0] = [t EXCEPT !.id = 0]
        BY <2>1 DEF m
      <3> QED BY <2>3, <2>4, <3>1, SameRow
    <2> QED BY <2>3, <2>4, <2>5
  <1>10. \A t \in Links(target) : \E r \in home : t = Image(r)
    <2> TAKE t \in Links(target)
    <2>1. PICK r \in Links(home) : [Image(r) EXCEPT !.id = 0] = [t EXCEPT !.id = 0]
      <3>1. [t EXCEPT !.id = 0] \in Contents(Links(target))
        BY DEF Contents
      <3>2. [t EXCEPT !.id = 0] \in Contents({Image(s) : s \in Links(home)})
        BY <1>2, <3>1
      <3> QED BY <3>2 DEF Contents
    <2>2. PICK i \in DOMAIN mapping : Replayed(i, t)
      BY <1>7
    <2>3. IsRow(t) /\ t.rec = i /\ t.id = New(i)
      BY <2>2 DEF Replayed
    <2> DEFINE m == Image(r)
    <2>4. IsRow(m) /\ m.rec = r.id /\ m.id = New(r.id)
      BY <1>4, <1>5, <1>6, ImageRow
    <2>5. m.rec = t.rec /\ (m.id = t.id => m = t)
      <3> HIDE DEF m
      <3>1. [m EXCEPT !.id = 0] = [t EXCEPT !.id = 0]
        BY <2>1 DEF m
      <3> QED BY <2>3, <2>4, <3>1, SameRow
    <2> QED BY <2>3, <2>4, <2>5
  <1>11. {Meaning(Image(r)) : r \in home} \subseteq {Meaning(t) : t \in target}
    <2> SUFFICES ASSUME NEW r \in home
                 PROVE  \E t \in target : Meaning(Image(r)) = Meaning(t)
      OBVIOUS
    <2>1. CASE r.op = Link
      BY <1>9, <2>1
    <2>2. CASE r.op # Link
      <3>1. PICK t \in target : Replayed(r.id, t)
        BY <1>5, <1>6
      <3> QED BY <1>8, <2>2, <3>1
    <2> QED BY <2>1, <2>2
  <1>12. {Meaning(t) : t \in target} \subseteq {Meaning(Image(r)) : r \in home}
    <2> SUFFICES ASSUME NEW t \in target
                 PROVE  \E r \in home : Meaning(Image(r)) = Meaning(t)
      OBVIOUS
    <2>1. CASE t.op = Link
      BY <1>10, <2>1
    <2>2. CASE t.op # Link
      <3>1. PICK i \in DOMAIN mapping : Replayed(i, t)
        BY <1>7
      <3>2. PICK r \in home : r.id = i
        BY <1>6
      <3>3. r.op # Link
        BY <1>4, <2>2, <3>1, <3>2 DEF Replayed
      <3> QED BY <1>8, <3>1, <3>2, <3>3
    <2> QED BY <2>1, <2>2
  <1> QED BY <1>5, <1>11, <1>12 DEF SameHome, Known

-----------------------------------------------------------------------------
(* The writes of the source *)

LEMMA LogAppended ==
  ASSUME LogInv, NEW b, NEW n, n = Now, log' = Append(log, b),
         IsRow(b), b.id = Now, b.rec = Now, Shape(b)
  PROVE  /\ LogInv'
         /\ Len(log) \in Nat /\ Len(log') = Now /\ DOMAIN log = 1..Len(log)
         /\ DOMAIN log' = 1..Now
         /\ log'[Now] = b
         /\ \A i \in DOMAIN log :
              log'[i] = log[i] /\ IsCsv(i)' = IsCsv(i) /\ Earlier(i)' = Earlier(i)
         /\ Earlier(n)' = {j \in DOMAIN log : IsCsv(j) /\ Pair(log[j]) = Pair(b)}
PROOF
  <1>1. /\ Len(log) \in Nat /\ DOMAIN log = 1..Len(log)
        /\ Len(log') = Now
        /\ DOMAIN log' = 1..Now
        /\ \A i \in 1..Len(log) : log'[i] = log[i]
        /\ log'[Now] = b
        /\ log' \in Seq({log'[i] : i \in DOMAIN log'})
    BY SeqAppended DEF LogInv, Now
  <1>2. \A i \in 1..Now : i \in 1..Len(log) \/ i = Now
    BY <1>1 DEF Now
  <1>3. LogInv'
    BY <1>1, <1>2 DEF LogInv
  <1>4. \A i \in DOMAIN log : IsCsv(i)' = IsCsv(i)
    BY <1>1 DEF IsCsv
  <1>5. \A i \in DOMAIN log : Earlier(i)' = Earlier(i)
    <2> TAKE i \in DOMAIN log
    <2>1. \A j \in 1..(i - 1) : j \in DOMAIN log
      BY <1>1
    <2> QED BY <1>1, <1>4, <2>1 DEF Earlier
  <1>6. Earlier(n)' = {j \in DOMAIN log : IsCsv(j) /\ Pair(log[j]) = Pair(b)}
    <2>1. 1..(n - 1) = DOMAIN log
      BY <1>1 DEF Now
    <2> QED BY <1>1, <1>4, <2>1 DEF Earlier
  <1> QED BY <1>1, <1>3, <1>4, <1>5, <1>6

\* A batch is appended, and the rows that its service stores are added.
Adds(b, rows) ==
  /\ pc = "open"
  /\ IsRow(b) /\ b.id = Now /\ b.rec = Now /\ Shape(b)
  /\ \A r \in rows : /\ r.id = Now /\ IsRow(r) /\ r.op = b.op /\ r.rec = Now
                     /\ r.op \notin Numbered => r = Kept(b, Now)
  /\ b.op = "ledger.import_csv" =>
       (rows # {} <=> {j \in DOMAIN log : IsCsv(j) /\ Pair(log[j]) = Pair(b)} = {})
  /\ log' = Append(log, b)
  /\ home' = home \cup rows
  /\ UNCHANGED <<pc, report>>

LEMMA BatchAdded ==
  ASSUME RebuildInv, NEW b, NEW rows, Adds(b, rows)
  PROVE  RebuildInv'
PROOF
  <1> USE DEF Adds
  <1> DEFINE n == Now
             Same == {j \in DOMAIN log : IsCsv(j) /\ Pair(log[j]) = Pair(b)}
  <1>1. /\ LogInv'
        /\ Len(log) \in Nat /\ Len(log') = n /\ DOMAIN log = 1..Len(log)
        /\ DOMAIN log' = 1..n
        /\ log'[n] = b
        /\ \A i \in DOMAIN log :
             log'[i] = log[i] /\ IsCsv(i)' = IsCsv(i) /\ Earlier(i)' = Earlier(i)
    BY LogAppended DEF RebuildInv
  <1>2. PICK k : k = Now
    OBVIOUS
  <1>3. Earlier(k)' = Same /\ (IsCsv(k)' <=> b.op = "ledger.import_csv")
    <2>1. Earlier(k)' = Same
      BY <1>2, LogAppended DEF RebuildInv
    <2> QED BY <1>1, <1>2, <2>1 DEF IsCsv
  <1>4. \A i \in 1..n : i \in DOMAIN log \/ i = k
    BY <1>1, <1>2 DEF Now
  <1>5. HomeInv'
    <2>1. ASSUME NEW r \in home'
          PROVE  /\ r.id \in DOMAIN log'
                 /\ IsRow(r) /\ r.op = log'[r.id].op /\ r.rec = r.id
                 /\ r.op \notin Numbered => r = Kept(log'[r.id], r.id)
                 /\ r.op = "ledger.import_csv" => Earlier(r.id)' = {}
      <3>1. CASE r \in home
        <4>1. /\ r.id \in DOMAIN log
              /\ IsRow(r) /\ r.op = log[r.id].op /\ r.rec = r.id
              /\ r.op \notin Numbered => r = Kept(log[r.id], r.id)
              /\ r.op = "ledger.import_csv" => Earlier(r.id) = {}
          BY <3>1 DEF RebuildInv, HomeInv
        <4>2. r.id \in DOMAIN log' /\ log'[r.id] = log[r.id] /\ Earlier(r.id)' = Earlier(r.id)
          BY <1>1, <4>1 DEF Now
        <4> QED BY <4>1, <4>2
      <3>2. CASE r \in rows
        <4>1. /\ r.id = k /\ IsRow(r) /\ r.op = b.op /\ r.rec = k
              /\ r.op \notin Numbered => r = Kept(b, k)
          BY <1>2, <3>2
        <4>2. k \in DOMAIN log' /\ log'[k] = b
          BY <1>1, <1>2 DEF Now
        <4>3. r.op = "ledger.import_csv" => Earlier(k)' = {}
          BY <1>3, <3>2, <4>1
        <4> QED BY <4>1, <4>2, <4>3
      <3> QED BY <2>1, <3>1, <3>2
    <2>2. ASSUME NEW i \in DOMAIN log', IsCsv(i)', Earlier(i)' = {}
          PROVE  \E r \in home' : r.id = i
      <3>1. CASE i \in DOMAIN log
        <4>1. IsCsv(i) /\ Earlier(i) = {}
          BY <1>1, <2>2, <3>1
        <4> QED BY <3>1, <4>1 DEF RebuildInv, HomeInv
      <3>2. CASE i = k
        <4>1. rows # {}
          BY <1>3, <2>2, <3>2
        <4> QED BY <1>2, <3>2, <4>1
      <3> QED BY <1>1, <1>4, <3>1, <3>2
    <2> QED BY <2>1, <2>2 DEF HomeInv
  <1>6. TargetInv'
    <2>1. Idle /\ order \in {1, -1}
      BY DEF RebuildInv, TargetInv
    <2>2. Idle' /\ order' \in {1, -1} /\ pc' = "open"
      BY <2>1 DEF Idle, report
    <2> QED BY <1>1, <2>2 DEF TargetInv, Idle
  <1>7. VerdictInv'
    BY DEF RebuildInv, VerdictInv, report
  <1> QED BY <1>1, <1>5, <1>6, <1>7 DEF RebuildInv

\* A version is described by its rules and its number.
LEMMA EnvelopeShape ==
  ASSUME NEW e, IsRow(e), e.id = Now, e.rec = Now, Shape(e)
  PROVE  LET b == Envelope(e)
         IN /\ IsRow(b) /\ b.op = e.op /\ b.id = Now /\ b.rec = Now /\ Shape(b)
            /\ e.op \notin VersionOps => b = e
PROOF
  <1>1. CASE e.op \notin VersionOps
    BY <1>1 DEF Envelope
  <1>2. CASE e.op \in VersionOps
    <2> DEFINE b == Stored(home, e, Now)
    <2>1. Envelope(e) = b
      BY <1>2 DEF Envelope
    <2>2. /\ IsRow(b) /\ b.op = e.op /\ b.id = Now /\ b.rec = Now
      BY <1>2, NumberStored
    <2>2a. Renumbered(b.val, e.val)
      BY <1>2, NumberStored
    <2> HIDE DEF b
    <2>3. b.val = [rules |-> b.val.rules, number |-> b.val.number]
      <3>1. PICK n : b.val = [e.val EXCEPT !.number = n]
        BY <2>2a DEF Renumbered
      <3>2. PICK rules, number : e.val = [rules |-> rules, number |-> number]
        BY <1>2 DEF Shape
      <3>3. b.val = [rules |-> rules, number |-> n]
        BY <3>1, <3>2
      <3> QED BY <3>3
    <2>4. Shape(b)
      BY <1>2, <2>2, <2>3 DEF Shape, VersionOps, MarketOps
    <2> QED BY <1>2, <2>1, <2>2, <2>4
  <1> QED BY <1>1, <1>2

LEMMA Written ==
  ASSUME RebuildInv, NEW e, IsRow(e), e.id = Now, e.rec = Now, Shape(e),
         e.op # "ledger.import_csv", Write(e)
  PROVE  RebuildInv'
PROOF
  <1> DEFINE b == Envelope(e)
             r == Stored(home, e, Now)
  <1>1. /\ IsRow(b) /\ b.op = e.op /\ b.id = Now /\ b.rec = Now /\ Shape(b)
        /\ e.op \notin VersionOps => b = e
    BY EnvelopeShape
  <1>2. /\ pc = "open" /\ log' = Append(log, b) /\ home' = home \cup {r}
        /\ UNCHANGED <<pc, report>>
    BY DEF Write, Writable
  <1>3. /\ r.id = Now /\ IsRow(r) /\ r.op = b.op /\ r.rec = Now
        /\ r.op \notin Numbered => r = Kept(b, Now)
    <2>1. CASE e.op \in VersionOps
      <3>1. b = r
        BY <2>1 DEF Envelope
      <3> HIDE DEF b, r
      <3>2. Kept(b, Now) = b
        BY <1>1, <2>1 DEF Kept, VersionOps, MarketOps
      <3> QED BY <1>1, <3>1, <3>2
    <2>2. CASE e.op \in Numbered
      <3>1. r.id = e.id /\ IsRow(r) /\ r.op = e.op /\ r.rec = e.rec
        BY <2>2, NumberStored
      <3> QED BY <1>1, <2>2, <3>1
    <2>3. CASE e.op \notin VersionOps \cup Numbered
      <3>1. r = Kept(e, Now) /\ b = e
        BY <1>1, <2>3, StoredIsKept
      <3>2. LET k == Kept(e, Now)
            IN k.id = Now /\ IsRow(k) /\ k.op = e.op /\ k.rec = Now
        BY KeptRow
      <3> QED BY <3>1, <3>2
    <2> QED BY <2>1, <2>2, <2>3
  <1> HIDE DEF b, r
  <1>4. \A s \in {r} : /\ s.id = Now /\ IsRow(s) /\ s.op = b.op /\ s.rec = Now
                       /\ s.op \notin Numbered => s = Kept(b, Now)
    BY <1>3
  <1>5. b.op # "ledger.import_csv"
    BY <1>1
  <1>6. Adds(b, {r})
    BY <1>1, <1>2, <1>4, <1>5 DEF Adds
  <1> QED BY <1>6, BatchAdded

LEMMA HalfWritten ==
  ASSUME RebuildInv, NEW e, IsRow(e), e.id = Now, e.rec = Now, Shape(e),
         e.op # "ledger.import_csv", HalfWrite(e)
  PROVE  RebuildInv'
PROOF
  <1>1. /\ pc = "open" /\ log' = Append(log, e) /\ home' = home \cup {}
        /\ UNCHANGED <<pc, report>>
    BY DEF HalfWrite, Writable
  <1>2. Adds(e, {})
    BY <1>1 DEF Adds
  <1> QED BY <1>2, BatchAdded

LEMMA EventRow ==
  ASSUME NEW op, NEW refs, NEW eff, NEW known, NEW val
  PROVE  LET e == Event(op, refs, eff, known, val)
         IN /\ IsRow(e) /\ e.op = op /\ e.id = Now /\ e.rec = Now
            /\ e.refs = refs /\ e.val = val
PROOF BY DEF Event, IsRow, AsRow

\* An event of any operation but an import of transactions.
LEMMA EventWritten ==
  ASSUME RebuildInv,
         NEW op, NEW refs, NEW eff, NEW known, NEW val,
         op # "ledger.import_csv",
         op \in MarketOps => refs = NoRefs,
         op = "research.create_contradiction" =>
           refs = [a |-> refs.a, b |-> refs.b] /\ {refs.a, refs.b} \subseteq Int,
         op \in VersionOps => val = [rules |-> val.rules, number |-> val.number],
         \/ Write(Event(op, refs, eff, known, val))
         \/ HalfWrite(Event(op, refs, eff, known, val))
  PROVE  RebuildInv'
PROOF
  <1> DEFINE e == Event(op, refs, eff, known, val)
  <1>1. /\ IsRow(e) /\ e.op = op /\ e.id = Now /\ e.rec = Now
        /\ e.refs = refs /\ e.val = val
    BY EventRow
  <1>2. Write(e) \/ HalfWrite(e)
    OBVIOUS
  <1> HIDE DEF e
  <1>3. Shape(e)
    BY <1>1 DEF Shape
  <1> QED BY <1>1, <1>2, <1>3, Written, HalfWritten

\* The operations of whose references and values a service looks at nothing here.
Described == {"ledger.import_csv", "research.create_contradiction"} \cup MarketOps \cup VersionOps

LEMMA PlainWritten ==
  ASSUME RebuildInv,
         NEW op, NEW refs, NEW eff, NEW known, NEW val,
         op \notin Described,
         \/ Write(Event(op, refs, eff, known, val))
         \/ HalfWrite(Event(op, refs, eff, known, val))
  PROVE  RebuildInv'
PROOF BY EventWritten DEF Described

LEMMA PlainWrites ==
  ASSUME RebuildInv,
         \/ CreatePortfolio \/ SetMembership \/ CrashInPortfolio
         \/ CreatePlan \/ CreateDecision \/ LinkPolicy \/ LinkTransaction \/ Review
         \/ RecordCorrection \/ IngestText \/ CreateClaim \/ CreateThesis
         \/ ReviseThesis \/ LinkResearch
  PROVE  RebuildInv'
PROOF
  <1> USE DEF Described, MarketOps, VersionOps
  <1>1. CASE CreatePortfolio
    BY <1>1, PlainWritten DEF CreatePortfolio
  <1>2. CASE SetMembership
    BY <1>2, PlainWritten DEF SetMembership, Membership
  <1>3. CASE CrashInPortfolio
    <2>1. CASE HalfWrite(Event("portfolio.create", NoRefs, Now, Now, <<>>))
      BY <2>1, PlainWritten
    <2>2. CASE \E p \in Ids(home, "portfolio.create"), a \in Accounts, eff \in book.dates :
                 HalfWrite(Membership(p, a, "add", eff, Now))
      BY <2>2, PlainWritten DEF Membership
    <2> QED BY <1>3, <2>1, <2>2 DEF CrashInPortfolio
  <1>4. CASE CreatePlan
    BY <1>4, PlainWritten DEF CreatePlan
  <1>5. CASE CreateDecision
    BY <1>5, PlainWritten DEF CreateDecision
  <1>6. CASE LinkPolicy
    BY <1>6, PlainWritten DEF LinkPolicy
  <1>7. CASE LinkTransaction
    BY <1>7, PlainWritten DEF LinkTransaction
  <1>8. CASE Review
    BY <1>8, PlainWritten DEF Review
  <1>9. CASE RecordCorrection
    BY <1>9, PlainWritten DEF RecordCorrection, Correction
  <1>10. CASE IngestText
    BY <1>10, PlainWritten DEF IngestText
  <1>11. CASE CreateClaim
    BY <1>11, PlainWritten DEF CreateClaim
  <1>12. CASE CreateThesis
    BY <1>12, PlainWritten DEF CreateThesis
  <1>13. CASE ReviseThesis
    BY <1>13, PlainWritten DEF ReviseThesis
  <1>14. CASE LinkResearch
    BY <1>14, PlainWritten DEF LinkResearch
  <1> QED BY <1>1, <1>2, <1>3, <1>4, <1>5, <1>6, <1>7, <1>8, <1>9, <1>10, <1>11,
             <1>12, <1>13, <1>14

LEMMA DescribedWrites ==
  ASSUME RebuildInv,
         \/ CreatePolicy \/ AddVersion \/ CreateContradiction
         \/ ImportMarket \/ ImportSnapshot
  PROVE  RebuildInv'
PROOF
  <1> USE DEF MarketOps, VersionOps
  <1>1. CASE CreatePolicy
    BY <1>1, EventWritten DEF CreatePolicy
  <1>2. CASE AddVersion
    BY <1>2, EventWritten DEF AddVersion
  <1>3. CASE CreateContradiction
    <2>1. PICK a \in Ids(home, "research.create_claim"), b \in Ids(home, "research.create_claim") :
            Write(Event("research.create_contradiction", [a |-> a, b |-> b], Now, Now, <<>>))
      BY <1>3 DEF CreateContradiction
    <2>2. a \in Int /\ b \in Int
      BY <2>1, SeqAppended DEF RebuildInv, LogInv, HomeInv, Ids, Of
    <2> QED BY <2>1, <2>2, EventWritten
  <1>4. CASE ImportMarket
    BY <1>4, EventWritten DEF ImportMarket
  <1>5. CASE ImportSnapshot
    BY <1>5, EventWritten DEF ImportSnapshot
  <1> QED BY <1>1, <1>2, <1>3, <1>4, <1>5

LEMMA FirstExists ==
  ASSUME NEW T, T \subseteq Nat, T # {}
  PROVE  \E x \in T : \A y \in T : ~(y < x)
PROOF
  <1>1. PICK x \in T : \A y \in T : ~(<<y, x>> \in OpToRel(<, Nat))
    BY NatLessThanWellFounded, WFMin
  <1>2. \A y \in T : <<y, x>> \in OpToRel(<, Nat) <=> y < x
    BY DEF OpToRel
  <1> QED BY <1>1, <1>2

\* A row of a file has the account and the file of its batch.
LEMMA CsvRows ==
  ASSUME RebuildInv, NEW r \in home, r.op = "ledger.import_csv"
  PROVE  r.id \in DOMAIN log /\ IsCsv(r.id) /\ r.val = log[r.id].val
PROOF
  <1>1. r.id \in DOMAIN log /\ r.op = log[r.id].op /\ r = Kept(log[r.id], r.id)
    BY DEF RebuildInv, HomeInv, Numbered
  <1>2. Kept(log[r.id], r.id).val = log[r.id].val
    BY <1>1, KeptRow DEF RebuildInv, LogInv
  <1> QED BY <1>1, <1>2 DEF IsCsv

\* Every file that was imported has its row, from the first batch that imported it.
LEMMA FileHasRow ==
  ASSUME RebuildInv, NEW n \in DOMAIN log, IsCsv(n)
  PROVE  \E r \in home : r.op = "ledger.import_csv" /\ Pair(r) = Pair(log[n])
PROOF
  <1> DEFINE Same == {j \in DOMAIN log : IsCsv(j) /\ Pair(log[j]) = Pair(log[n])}
  <1>1. DOMAIN log = 1..Len(log) /\ Len(log) \in Nat
    BY SeqAppended DEF RebuildInv, LogInv
  <1>2. PICK i \in Same : \A j \in Same : ~(j < i)
    <2>1. Same \subseteq Nat /\ Same # {}
      BY <1>1
    <2> HIDE DEF Same
    <2> QED BY <2>1, FirstExists
  <1>3. Earlier(i) = {}
    BY <1>1, <1>2 DEF Earlier
  <1>4. PICK r \in home : r.id = i
    BY <1>2, <1>3 DEF RebuildInv, HomeInv
  <1>5. r.op = "ledger.import_csv"
    BY <1>2, <1>4 DEF RebuildInv, HomeInv, IsCsv
  <1>6. Pair(r) = Pair(log[i])
    BY <1>4, <1>5, CsvRows DEF Pair
  <1> QED BY <1>2, <1>5, <1>6

LEMMA Imports ==
  ASSUME RebuildInv, ImportCsv
  PROVE  RebuildInv'
PROOF
  <1>1. PICK a \in Accounts, f \in Files :
          LET e == Event("ledger.import_csv", NoRefs, Now, Now,
                         [account |-> a, file |-> f, amount |-> f.amount])
          IN /\ Writable(e.op)
             /\ log' = Append(log, e)
             /\ home' = home \cup (IF Imported(home, a, f) = {} THEN {Stored(home, e, Now)} ELSE {})
             /\ UNCHANGED <<book, pc, report>>
    BY DEF ImportCsv
  <1> DEFINE val == [account |-> a, file |-> f, amount |-> f.amount]
             e == Event("ledger.import_csv", NoRefs, Now, Now, val)
             Same == {j \in DOMAIN log : IsCsv(j) /\ Pair(log[j]) = Pair(e)}
             rows == IF Imported(home, a, f) = {} THEN {Stored(home, e, Now)} ELSE {}
  <1>2. /\ IsRow(e) /\ e.op = "ledger.import_csv" /\ e.id = Now /\ e.rec = Now
        /\ e.refs = NoRefs /\ e.val = val
    BY EventRow
  <1>3. Pair(e) = <<a, f>> /\ e.val.file = f
    BY <1>2 DEF Pair
  <1>4. /\ pc = "open" /\ log' = Append(log, e) /\ home' = home \cup rows
        /\ UNCHANGED <<pc, report>>
    BY <1>1 DEF Writable
  <1> HIDE DEF e
  <1>5. Shape(e)
    BY <1>2, <1>3 DEF Shape, MarketOps, VersionOps
  <1>6. Stored(home, e, Now) = Kept(e, Now)
    BY <1>2, StoredIsKept DEF VersionOps, Numbered
  <1>7. \A r \in rows : /\ r.id = Now /\ IsRow(r) /\ r.op = e.op /\ r.rec = Now
                        /\ r.op \notin Numbered => r = Kept(e, Now)
    BY <1>2, <1>6, KeptRow
  <1>8. Imported(home, a, f) = {} <=> Same = {}
    <2>1. ASSUME NEW r \in Imported(home, a, f)
          PROVE  r.id \in Same
      <3>1. r \in home /\ r.op = "ledger.import_csv" /\ Pair(r) = <<a, f>>
        BY DEF Imported, Of, Pair
      <3>2. r.id \in DOMAIN log /\ IsCsv(r.id) /\ r.val = log[r.id].val
        BY <3>1, CsvRows
      <3> QED BY <1>3, <3>1, <3>2 DEF Pair
    <2>2. ASSUME NEW i \in Same
          PROVE  Imported(home, a, f) # {}
      <3>1. PICK r \in home : r.op = "ledger.import_csv" /\ Pair(r) = Pair(log[i])
        BY FileHasRow
      <3>2. r.val.account = a /\ r.val.file = f
        BY <1>3, <3>1 DEF Pair
      <3> QED BY <3>1, <3>2 DEF Imported, Of
    <2> QED BY <2>1, <2>2
  <1> HIDE DEF val
  <1>9. Adds(e, rows)
    BY <1>2, <1>4, <1>5, <1>7, <1>8 DEF Adds
  <1> QED BY <1>9, BatchAdded

LEMMA CorporateActions ==
  ASSUME RebuildInv, RecordCorporateAction
  PROVE  RebuildInv'
PROOF
  <1>1. PICK a \in Accounts :
          LET e == Event("ledger.record_corporate_action", NoRefs, Now, Now,
                         [account |-> a, amount |-> 1])
          IN /\ Writable(e.op)
             /\ log' = Append(log, e)
             /\ home' = home \cup {e}
             /\ UNCHANGED <<book, pc, report>>
    BY DEF RecordCorporateAction
  <1> DEFINE e == Event("ledger.record_corporate_action", NoRefs, Now, Now,
                        [account |-> a, amount |-> 1])
  <1>2. IsRow(e) /\ e.op = "ledger.record_corporate_action" /\ e.id = Now /\ e.rec = Now
    BY EventRow
  <1>3. /\ pc = "open" /\ log' = Append(log, e) /\ home' = home \cup {e}
        /\ UNCHANGED <<pc, report>>
    BY <1>1 DEF Writable
  <1> HIDE DEF e
  <1>4. Shape(e) /\ Kept(e, Now) = e
    BY <1>2 DEF Shape, Kept, MarketOps, VersionOps
  <1>5. Adds(e, {e})
    BY <1>2, <1>3, <1>4 DEF Adds
  <1> QED BY <1>5, BatchAdded

-----------------------------------------------------------------------------
(* The steps of the rebuild *)

LEMMA SameSource ==
  ASSUME RebuildInv, UNCHANGED <<source, order>>
  PROVE  /\ LogInv' /\ HomeInv'
         /\ \A i : IsCsv(i)' = IsCsv(i) /\ Earlier(i)' = Earlier(i) /\ New(i)' = New(i)
         /\ \A i, t : Replayed(i, t)' = Replayed(i, t)
PROOF
  <1>1. log' = log /\ home' = home /\ order' = order
    BY DEF source
  <1>2. \A i : IsCsv(i)' = IsCsv(i) /\ Earlier(i)' = Earlier(i) /\ New(i)' = New(i)
    BY <1>1 DEF IsCsv, Earlier, New
  <1>3. LogInv' /\ HomeInv'
    BY SMTT(30), <1>1, <1>2 DEF RebuildInv, LogInv, HomeInv
  <1>4. \A i, t : Replayed(i, t)' = Replayed(i, t)
    BY <1>1 DEF Replayed, Renamed, New
  <1> QED BY <1>2, <1>3, <1>4

\* What the log says of the batch whose turn it is.
LEMMA BatchRow ==
  ASSUME RebuildInv, Replaying
  PROVE  /\ at \in Nat /\ at + 1 \in DOMAIN log /\ at + 1 \in Nat
         /\ IsRow(Batch) /\ Batch.id = at + 1 /\ Batch.rec = at + 1 /\ Shape(Batch)
         /\ NewId = New(at + 1)
         /\ IsCsv(at + 1) <=> Batch.op = "ledger.import_csv"
PROOF
  <1>1. DOMAIN log = 1..Len(log) /\ Len(log) \in Nat
    BY SeqAppended DEF RebuildInv, LogInv
  <1>2. at \in Nat /\ at + 1 \in DOMAIN log
    BY <1>1 DEF RebuildInv, TargetInv, Replaying
  <1>3. IsRow(Batch) /\ Batch.id = at + 1 /\ Batch.rec = at + 1 /\ Shape(Batch)
    BY <1>2 DEF RebuildInv, LogInv, Batch
  <1> QED BY <1>2, <1>3 DEF NewId, New, IsCsv, Batch

\* A batch is replayed.
LEMMA BatchReplayed ==
  ASSUME RebuildInv, Replaying, NEW row, Replayed(at + 1, row),
         target' = target \cup {row}, Remember(Batch), Advance,
         UNCHANGED <<source, pc, order, warnings, verdict>>,
         Batch.op # "research.link" => \A k \in DOMAIN Batch.refs : Batch.refs[k] \in DOMAIN mapping,
         IF Batch.op = "ledger.import_csv"
           THEN Earlier(at + 1) = {} /\ seen' = seen \cup {Pair(Batch)}
           ELSE seen' = seen
  PROVE  RebuildInv'
PROOF
  <1> DEFINE n == at + 1
  <1>1. /\ at \in Nat /\ n \in DOMAIN log /\ n \in Nat
        /\ Batch.id = n /\ NewId = New(n)
        /\ IsCsv(n) <=> Batch.op = "ledger.import_csv"
    BY BatchRow
  <1>2. /\ LogInv' /\ HomeInv'
        /\ \A i : IsCsv(i)' = IsCsv(i) /\ Earlier(i)' = Earlier(i) /\ New(i)' = New(i)
        /\ \A i, t : Replayed(i, t)' = Replayed(i, t)
    BY SameSource
  <1>3. /\ log' = log /\ pc' = pc /\ pc = "replay" /\ order' = order
        /\ warnings' = warnings /\ verdict' = verdict /\ at' = n
        /\ n <= Len(log)
    BY <1>1 DEF source, Advance, Replaying
  <1>4. /\ DOMAIN mapping' = DOMAIN mapping \cup {n}
        /\ \A i \in DOMAIN mapping : i # n => mapping'[i] = mapping[i]
        /\ mapping'[n] = New(n)
    BY <1>1 DEF Remember
  <1>5. TargetInv'
    <2>1. \A i \in DOMAIN mapping : i \in 1..at /\ i # n
      BY <1>1 DEF RebuildInv, TargetInv
    <2>2. ASSUME NEW i \in DOMAIN mapping'
          PROVE  /\ i \in 1..n
                 /\ mapping'[i] = New(i)
                 /\ log[i].op # "research.link" =>
                      \A k \in DOMAIN log[i].refs : log[i].refs[k] \in DOMAIN mapping'
                 /\ \E t \in target' : Replayed(i, t)
                 /\ IsCsv(i) => Earlier(i) = {}
      <3>1. CASE i \in DOMAIN mapping
        <4>1. /\ i \in 1..at
              /\ mapping[i] = New(i)
              /\ log[i].op # "research.link" =>
                   \A k \in DOMAIN log[i].refs : log[i].refs[k] \in DOMAIN mapping
              /\ \E t \in target : Replayed(i, t)
              /\ IsCsv(i) => Earlier(i) = {}
          BY <3>1 DEF RebuildInv, TargetInv
        <4> QED BY <1>1, <1>4, <2>1, <3>1, <4>1
      <3>2. CASE i = n
        <4>1. log[i] = Batch
          BY <3>2 DEF Batch
        <4> QED BY <1>1, <1>4, <3>2, <4>1
      <3> QED BY <1>4, <2>2, <3>1, <3>2
    <2>3. ASSUME NEW t \in target'
          PROVE  \E i \in DOMAIN mapping' : Replayed(i, t)
      <3>1. CASE t \in target
        BY <1>4, <3>1 DEF RebuildInv, TargetInv
      <3>2. CASE t = row
        BY <1>4, <3>2
      <3> QED BY <2>3, <3>1, <3>2
    <2>4. ASSUME NEW i \in 1..n
          PROVE  IF IsCsv(i) THEN Earlier(i) = {} => i \in DOMAIN mapping'
                             ELSE i \in DOMAIN mapping' \cup warnings'
      <3>1. CASE i = n
        BY <1>4, <3>1
      <3>2. CASE i # n
        <4>1. i \in 1..at
          BY <1>1, <2>4, <3>2
        <4> QED BY <1>3, <1>4, <4>1 DEF RebuildInv, TargetInv
      <3> QED BY <3>1, <3>2
    <2>5. seen' = {Pair(log[i]) : i \in {j \in 1..n : IsCsv(j)}}
      <3>1. seen = {Pair(log[i]) : i \in {j \in 1..at : IsCsv(j)}}
        BY DEF RebuildInv, TargetInv
      <3>2. 1..n = 1..at \cup {n} /\ log[n] = Batch
        BY <1>1 DEF Batch
      <3> QED BY <1>1, <3>1, <3>2
    <2>6. order' \in {1, -1} /\ n \in 0..Len(log)
      BY <1>1, <1>3 DEF RebuildInv, TargetInv
    <2>7. /\ at' \in 0..Len(log')
          /\ pc' # "open"
      BY <1>3, <2>6
    <2>8. \A i \in DOMAIN mapping' :
            /\ i \in 1..at'
            /\ mapping'[i] = New(i)'
            /\ log'[i].op # "research.link" =>
                 \A k \in DOMAIN log'[i].refs : log'[i].refs[k] \in DOMAIN mapping'
            /\ \E t \in target' : Replayed(i, t)'
            /\ IsCsv(i)' => Earlier(i)' = {}
      BY <1>2, <1>3, <2>2
    <2>9. \A t \in target' : \E i \in DOMAIN mapping' : Replayed(i, t)'
      BY <1>2, <2>3
    <2>10. \A i \in 1..at' :
             IF IsCsv(i)' THEN Earlier(i)' = {} => i \in DOMAIN mapping'
                          ELSE i \in DOMAIN mapping' \cup warnings'
      BY <1>2, <1>3, <2>4
    <2>11. seen' = {Pair(log'[i]) : i \in {j \in 1..at' : IsCsv(j)'}}
      BY <1>2, <1>3, <2>5
    <2> QED BY <2>6, <2>7, <2>8, <2>9, <2>10, <2>11 DEF TargetInv, Pair
  <1>6. VerdictInv'
    BY <1>3 DEF RebuildInv, VerdictInv
  <1> QED BY <1>2, <1>5, <1>6 DEF RebuildInv

\* A batch is passed over: the file was imported before, or it is refused.
LEMMA BatchPassed ==
  ASSUME RebuildInv, Replaying, Advance,
         UNCHANGED <<source, pc, order, verdict, target, mapping, seen>>,
         warnings \subseteq warnings',
         IF Batch.op = "ledger.import_csv"
           THEN Pair(Batch) \in seen ELSE at + 1 \in warnings'
  PROVE  RebuildInv'
PROOF
  <1> DEFINE n == at + 1
  <1>1. /\ at \in Nat /\ n \in DOMAIN log /\ n \in Nat
        /\ IsCsv(n) <=> Batch.op = "ledger.import_csv"
    BY BatchRow
  <1>2. /\ LogInv' /\ HomeInv'
        /\ \A i : IsCsv(i)' = IsCsv(i) /\ Earlier(i)' = Earlier(i) /\ New(i)' = New(i)
        /\ \A i, t : Replayed(i, t)' = Replayed(i, t)
    BY SameSource
  <1>3. /\ log' = log /\ pc' = pc /\ pc = "replay" /\ order' = order
        /\ verdict' = verdict /\ at' = n /\ target' = target /\ mapping' = mapping
        /\ seen' = seen
        /\ n <= Len(log)
    BY <1>1 DEF source, Advance, Replaying
  <1>4. 1..n = 1..at \cup {n} /\ log[n] = Batch
    BY <1>1 DEF Batch
  <1>5. seen = {Pair(log[i]) : i \in {j \in 1..at : IsCsv(j)}}
    BY DEF RebuildInv, TargetInv
  <1>6. IsCsv(n) => Earlier(n) # {} /\ Pair(Batch) \in seen
    <2> SUFFICES ASSUME IsCsv(n)
                 PROVE  Earlier(n) # {} /\ Pair(Batch) \in seen
      OBVIOUS
    <2>1. PICK j \in 1..at : IsCsv(j) /\ Pair(Batch) = Pair(log[j])
      BY <1>1, <1>5
    <2>2. j \in 1..(n - 1)
      BY <1>1
    <2> QED BY <1>1, <1>4, <2>1, <2>2 DEF Earlier
  <1>7. TargetInv'
    <2>1. order' \in {1, -1} /\ at' \in 0..Len(log') /\ pc' # "open"
      BY <1>1, <1>3 DEF RebuildInv, TargetInv
    <2>2. ASSUME NEW i \in DOMAIN mapping
          PROVE  /\ i \in 1..n
                 /\ mapping[i] = New(i)
                 /\ log[i].op # "research.link" =>
                      \A k \in DOMAIN log[i].refs : log[i].refs[k] \in DOMAIN mapping
                 /\ \E t \in target : Replayed(i, t)
                 /\ IsCsv(i) => Earlier(i) = {}
      BY <1>4 DEF RebuildInv, TargetInv
    <2>3. \A i \in 1..n : IF IsCsv(i) THEN Earlier(i) = {} => i \in DOMAIN mapping
                                      ELSE i \in DOMAIN mapping \cup warnings'
      <3>1. \A i \in 1..at : IF IsCsv(i) THEN Earlier(i) = {} => i \in DOMAIN mapping
                                         ELSE i \in DOMAIN mapping \cup warnings
        BY DEF RebuildInv, TargetInv
      <3> QED BY <1>1, <1>4, <1>6, <3>1
    <2>4. \A t \in target : \E i \in DOMAIN mapping : Replayed(i, t)
      BY DEF RebuildInv, TargetInv
    <2>5. seen = {Pair(log[i]) : i \in {j \in 1..n : IsCsv(j)}}
      BY <1>4, <1>5, <1>6
    <2>6. \A i \in DOMAIN mapping' :
            /\ i \in 1..at'
            /\ mapping'[i] = New(i)'
            /\ log'[i].op # "research.link" =>
                 \A k \in DOMAIN log'[i].refs : log'[i].refs[k] \in DOMAIN mapping'
            /\ \E t \in target' : Replayed(i, t)'
            /\ IsCsv(i)' => Earlier(i)' = {}
      BY <1>2, <1>3, <2>2
    <2>7. \A t \in target' : \E i \in DOMAIN mapping' : Replayed(i, t)'
      BY <1>2, <1>3, <2>4
    <2>8. \A i \in 1..at' :
            IF IsCsv(i)' THEN Earlier(i)' = {} => i \in DOMAIN mapping'
                         ELSE i \in DOMAIN mapping' \cup warnings'
      BY <1>2, <1>3, <2>3
    <2>9. seen' = {Pair(log'[i]) : i \in {j \in 1..at' : IsCsv(j)'}}
      BY <1>2, <1>3, <2>5
    <2> QED BY <2>1, <2>6, <2>7, <2>8, <2>9 DEF TargetInv, Pair
  <1>8. VerdictInv'
    BY <1>3 DEF RebuildInv, VerdictInv
  <1> QED BY <1>2, <1>7, <1>8 DEF RebuildInv

LEMMA SameComparison ==
  ASSUME UNCHANGED <<home, target, mapping, warnings>>, Consistent
  PROVE  Consistent'
PROOF
  <1>1. /\ \A r : Known(r)' = Known(r) /\ Image(r)' = Image(r)
        /\ \A r : Mirrored(r)' = Mirrored(r)
    BY DEF Known, Image, Mirrored
  <1>2. AccountsMatch => AccountsMatch'
    BY DEF AccountsMatch
  <1>3. PortfoliosMatch => PortfoliosMatch'
    BY DEF PortfoliosMatch
  <1>4. PoliciesMatch => PoliciesMatch'
    BY <1>1 DEF PoliciesMatch
  <1>5. PlansMatch => PlansMatch'
    BY <1>1 DEF PlansMatch
  <1>6. DecisionsMatch => DecisionsMatch'
    BY ZenonT(30), <1>1 DEF DecisionsMatch
  <1>7. \A ops : SameContents(ops) => SameContents(ops)'
    BY <1>1 DEF SameContents
  <1>8. ResearchMatch => ResearchMatch'
    BY <1>1, <1>7 DEF ResearchMatch
  <1> QED BY <1>2, <1>3, <1>4, <1>5, <1>6, <1>8 DEF Consistent

\* The rebuild begins, stops short or is compared: nothing is replayed.
LEMMA PhaseChanged ==
  ASSUME RebuildInv,
         \/ \E o \in {1, -1} : Start(o)
         \/ pc = "replay" /\ Abort
         \/ Compare
  PROVE  RebuildInv'
PROOF
  <1>1. CASE \E o \in {1, -1} : Start(o)
    <2>1. /\ Idle /\ pc = "open" /\ pc' = "replay" /\ order' \in {1, -1}
          /\ log' = log /\ home' = home /\ verdict' = verdict
          /\ UNCHANGED <<at, target, mapping, seen, warnings>>
      BY <1>1 DEF Start, source, RebuildInv, TargetInv
    <2>2. LogInv' /\ HomeInv'
      BY <2>1 DEF RebuildInv, LogInv, HomeInv, IsCsv, Earlier
    <2>3. at' = 0 /\ at' \in 0..Len(log') /\ mapping' = <<>> /\ target' = {} /\ seen' = {}
      BY <2>1 DEF Idle, RebuildInv, TargetInv
    <2>4. TargetInv'
      BY <2>1, <2>3 DEF TargetInv
    <2>5. VerdictInv'
      BY <2>1 DEF RebuildInv, VerdictInv
    <2> QED BY <2>2, <2>4, <2>5 DEF RebuildInv
  <1>2. CASE (pc = "replay" /\ Abort) \/ Compare
    <2>1. /\ UNCHANGED <<source, order, at, target, mapping, seen, warnings>>
          /\ pc = "replay"
          /\ \/ pc' = "done" /\ at = Len(log) /\ (verdict' = "consistent" => Consistent)
             \/ pc' = "aborted" /\ verdict' = verdict
      BY <1>2 DEF Abort, Compare
    <2>2. /\ LogInv' /\ HomeInv'
          /\ \A i : IsCsv(i)' = IsCsv(i) /\ Earlier(i)' = Earlier(i) /\ New(i)' = New(i)
          /\ \A i, t : Replayed(i, t)' = Replayed(i, t)
      BY <2>1, SameSource
    <2>3. TargetInv'
      <3>1. /\ log' = log /\ order' = order /\ at' = at /\ target' = target
            /\ mapping' = mapping /\ seen' = seen /\ warnings' = warnings /\ pc' # "open"
        BY <2>1 DEF source
      <3> QED BY <2>2, <3>1 DEF RebuildInv, TargetInv, Pair
    <2>4. VerdictInv'
      <3>1. Consistent => Consistent'
        BY <2>1, SameComparison DEF source
      <3>2. at' = at /\ Len(log') = Len(log) /\ verdict # "consistent"
        BY <2>1 DEF RebuildInv, VerdictInv, source
      <3> QED BY <2>1, <3>1, <3>2 DEF VerdictInv
    <2> QED BY <2>2, <2>3, <2>4 DEF RebuildInv
  <1> QED BY <1>1, <1>2

LEMMA RefsOfNone ==
  ASSUME NEW e, IsRow(e), e.refs = NoRefs
  PROVE  [e EXCEPT !.id = New(e.id)] = Renamed(e)
PROOF
  <1>1. [k \in DOMAIN e.refs |-> New(e.refs[k])] = e.refs
    BY DEF NoRefs
  <1>2. Renamed(e) = AsRow(e.op, New(e.id), e.refs, e.eff, e.known, e.rec, e.val)
    BY <1>1, RenamedRow
  <1>3. [e EXCEPT !.id = New(e.id)]
          = AsRow(e.op, New(e.id), e.refs, e.eff, e.known, e.rec, e.val)
    BY RowChanged
  <1> QED BY <1>2, <1>3

LEMMA RenamedParts ==
  ASSUME NEW e, IsRow(e)
  PROVE  /\ IsRow(Renamed(e))
         /\ Renamed(e).op = e.op /\ Renamed(e).id = New(e.id) /\ Renamed(e).rec = e.rec
         /\ Renamed(e).val = e.val
PROOF
  <1> DEFINE refs == [k \in DOMAIN e.refs |-> New(e.refs[k])]
  <1>1. Renamed(e) = AsRow(e.op, New(e.id), refs, e.eff, e.known, e.rec, e.val)
    BY RenamedRow
  <1> HIDE DEF refs
  <1> QED BY <1>1, AsRowIsRow

\* A batch that names nothing is stored as it is kept.
LEMMA NamelessReplayed ==
  ASSUME RebuildInv, Replaying, Batch.op \in {"ledger.import_csv", "market.import_csv"}
  PROVE  /\ Replayed(at + 1, Stored(target, [Batch EXCEPT !.id = NewId], Today))
         /\ DOMAIN Batch.refs = {}
PROOF
  <1> DEFINE n == Renamed(Batch)
             row == Stored(target, n, Today)
  <1>1. /\ IsRow(Batch) /\ Batch.id = at + 1 /\ Shape(Batch) /\ NewId = New(at + 1)
    BY BatchRow
  <1>2. Batch.refs = NoRefs
    BY <1>1 DEF Shape, MarketOps
  <1>3. [Batch EXCEPT !.id = NewId] = n
    BY <1>1, <1>2, RefsOfNone
  <1>4. IsRow(n) /\ n.op = Batch.op /\ n.id = New(at + 1)
    BY <1>1, RenamedParts
  <1> HIDE DEF n
  <1>5. row = Kept(n, Today)
    BY <1>4, StoredIsKept DEF VersionOps, Numbered
  <1>6. IsRow(Kept(n, Today)) /\ Kept(n, Today).op = n.op /\ Kept(n, Today).id = n.id
    BY <1>4, KeptRow
  <1> HIDE DEF row
  <1>7. Replayed(at + 1, row)
    BY <1>4, <1>5, <1>6 DEF Replayed, Batch, n
  <1> QED BY <1>2, <1>3, <1>7 DEF row, NoRefs

LEMMA CsvReplayed ==
  ASSUME RebuildInv, ReplayCsv
  PROVE  RebuildInv'
PROOF
  <1> DEFINE pair == <<Batch.val.account, Batch.val.file>>
             n == at + 1
             row == Stored(target, [Batch EXCEPT !.id = NewId], Today)
  <1>1. Replaying /\ Batch.op = "ledger.import_csv"
    BY DEF ReplayCsv
  <1>2. /\ n \in DOMAIN log /\ n \in Nat /\ at \in Nat /\ IsCsv(n) /\ IsRow(Batch)
        /\ Pair(Batch) = pair /\ log[n] = Batch
    BY <1>1, BatchRow DEF Pair, Batch
  <1>3. seen = {Pair(log[i]) : i \in {j \in 1..at : IsCsv(j)}}
    BY DEF RebuildInv, TargetInv
  <1>4. pair \in seen <=> Earlier(n) # {}
    BY <1>2, <1>3 DEF Earlier
  <1>5. AccountIds(Batch.val.file) # {}
    <2>1. PICK r \in home : r.op = "ledger.import_csv" /\ Pair(r) = pair
      BY <1>2, FileHasRow
    <2>2. r.val.file = Batch.val.file
      BY <2>1 DEF Pair
    <2> QED BY <2>1, <2>2 DEF AccountIds, Of
  <1>6. CASE pair \in seen /\ Skip
    BY <1>1, <1>2, <1>6, BatchPassed DEF Skip, Keep
  <1>7. CASE Abort
    BY <1>1, <1>7, PhaseChanged DEF Replaying
  <1>8. CASE /\ pair \notin seen
             /\ Advance
             /\ seen' = seen \cup {pair}
             /\ target' = target \cup {row}
             /\ Remember(Batch)
             /\ Keep
             /\ UNCHANGED warnings
    <2>1. Replayed(n, row) /\ DOMAIN Batch.refs = {}
      BY <1>1, NamelessReplayed
    <2> HIDE DEF row
    <2>2. /\ \A k \in DOMAIN Batch.refs : Batch.refs[k] \in DOMAIN mapping
          /\ Earlier(at + 1) = {} /\ seen' = seen \cup {Pair(Batch)}
          /\ UNCHANGED <<source, pc, order, warnings, verdict>>
      BY <1>2, <1>4, <1>8, <2>1 DEF Keep
    <2> QED BY <1>1, <1>8, <2>1, <2>2, BatchReplayed
  <1> QED BY <1>5, <1>6, <1>7, <1>8 DEF ReplayCsv

LEMMA MarketReplayed ==
  ASSUME RebuildInv, ReplayMarket
  PROVE  RebuildInv'
PROOF
  <1> DEFINE row == Stored(target, [Batch EXCEPT !.id = NewId], Today)
  <1>1. Replaying /\ Batch.op = "market.import_csv"
    BY DEF ReplayMarket
  <1>2. CASE Abort
    BY <1>1, <1>2, PhaseChanged DEF Replaying
  <1>3. CASE /\ target' = target \cup {row}
             /\ Remember(Batch)
             /\ Advance /\ Keep /\ UNCHANGED <<seen, warnings>>
    <2>1. Replayed(at + 1, row) /\ DOMAIN Batch.refs = {}
      BY <1>1, NamelessReplayed
    <2> HIDE DEF row
    <2>2. /\ \A k \in DOMAIN Batch.refs : Batch.refs[k] \in DOMAIN mapping
          /\ seen' = seen
          /\ UNCHANGED <<source, pc, order, warnings, verdict>>
      BY <1>3, <2>1 DEF Keep
    <2> QED BY <1>1, <1>3, <2>1, <2>2, BatchReplayed
  <1> QED BY <1>2, <1>3 DEF ReplayMarket

LEMMA EventReplayed ==
  ASSUME RebuildInv, ReplayEvent
  PROVE  RebuildInv'
PROOF
  <1> DEFINE m == Mapped(Batch)
             row == Stored(target, m, Today)
             n == at + 1
             refs == [k \in DOMAIN Batch.refs |->
                        IF Batch.op = "research.link"
                          THEN ResearchMapping(Batch.refs[k]) ELSE mapping[Batch.refs[k]]]
  <1>1. Replaying /\ Batch.op \notin {"ledger.import_csv", "market.import_csv"}
    BY DEF ReplayEvent
  <1>2. /\ at \in Nat /\ n \in DOMAIN log /\ log[n] = Batch
        /\ IsRow(Batch) /\ Batch.id = n /\ Batch.rec = n /\ Shape(Batch)
        /\ NewId = New(n)
    BY <1>1, BatchRow DEF Batch
  <1>3. CASE Abort
    BY <1>1, <1>3, PhaseChanged DEF Replaying
  <1>4. CASE Warn
    BY <1>1, <1>2, <1>4, BatchPassed DEF Warn, Keep
  <1>5. ASSUME Replayable(Batch), Unchanged(Batch, row), Replay(Batch),
               Advance, Keep, UNCHANGED <<seen, warnings>>
        PROVE  RebuildInv'
    <2>1. m = AsRow(Batch.op, New(n), refs, Batch.eff, Batch.known, Batch.rec, Batch.val)
      <3>1. m = [Batch EXCEPT !.id = New(n), !.refs = refs]
        BY <1>2 DEF Mapped
      <3> HIDE DEF refs, m
      <3> QED BY <1>2, <3>1, NamesChanged
    <2>2. /\ IsRow(m) /\ m.op = Batch.op /\ m.id = New(n) /\ m.rec = n
          /\ m.val = Batch.val
      <3> HIDE DEF refs, m
      <3> QED BY <1>2, <2>1, AsRowIsRow
    <2>3. ASSUME Batch.op # "research.link"
          PROVE  /\ \A k \in DOMAIN Batch.refs : Batch.refs[k] \in DOMAIN mapping
                 /\ m = Renamed(Batch)
      <3>1. \A k \in DOMAIN Batch.refs : Batch.refs[k] \in DOMAIN mapping
        BY <1>5, <2>3 DEF Replayable, Mappable
      <3>2. \A i \in DOMAIN mapping : mapping[i] = New(i)
        BY DEF RebuildInv, TargetInv
      <3>3. refs = [k \in DOMAIN Batch.refs |-> New(Batch.refs[k])]
        BY <2>3, <3>1, <3>2
      <3>4. Renamed(Batch) = AsRow(Batch.op, New(n), [k \in DOMAIN Batch.refs |-> New(Batch.refs[k])],
                                   Batch.eff, Batch.known, Batch.rec, Batch.val)
        BY <1>2, RenamedRow
      <3> QED BY <2>1, <3>1, <3>3, <3>4
    <2> HIDE DEF m
    <2>4. Replayed(n, row)
      <3>1. CASE m.op \notin VersionOps \cup Numbered
        <4>1. row = Kept(m, Today)
          BY <3>1, StoredIsKept
        <4>2. IsRow(row) /\ row.op = m.op /\ row.id = m.id
          BY <2>2, <4>1, KeptRow
        <4>3. m.op = "research.link" => row.rec = n
          BY <2>2, <4>1, KeptRow DEF LedgerOps, MarketOps
        <4> QED BY <1>2, <2>2, <2>3, <4>1, <4>2, <4>3 DEF Replayed
      <3>2. CASE m.op \in Numbered
        <4>1. IsRow(row) /\ row.op = m.op /\ row.id = m.id
          BY <2>2, <3>2, NumberStored
        <4> QED BY <1>2, <2>2, <3>2, <4>1 DEF Replayed, Numbered
      <3>3. CASE m.op \in VersionOps
        <4>1. /\ IsRow(row) /\ row.op = m.op /\ row.id = m.id /\ row.rec = m.rec
              /\ row.refs = m.refs /\ row.eff = m.eff /\ row.known = m.known
              /\ Renumbered(row.val, m.val)
          BY <2>2, <3>3, NumberStored
        <4>2. row.val.number = m.val.number
          BY <1>5, <2>2, <3>3 DEF Unchanged, VersionUnchanged
        <4> HIDE DEF row
        <4>3. row.val = m.val
          <5>1. PICK x : row.val = [m.val EXCEPT !.number = x]
            BY <4>1 DEF Renumbered
          <5>2. PICK rules, number : m.val = [rules |-> rules, number |-> number]
            BY <1>2, <2>2, <3>3 DEF Shape
          <5>3. row.val = [rules |-> rules, number |-> x]
            BY <5>1, <5>2
          <5> QED BY <4>2, <5>2, <5>3
        <4>4. row = m
          BY <2>2, <4>1, <4>3 DEF IsRow
        <4>5. Kept(m, Today) = m
          BY <3>3 DEF Kept, VersionOps, MarketOps
        <4> QED BY <1>2, <2>2, <2>3, <3>3, <4>4, <4>5 DEF Replayed, VersionOps
      <3> QED BY <3>1, <3>2, <3>3
    <2> HIDE DEF row
    <2>5. /\ Batch.op # "ledger.import_csv" /\ seen' = seen
          /\ UNCHANGED <<source, pc, order, warnings, verdict>>
          /\ target' = target \cup {row} /\ Remember(Batch)
      BY <1>1, <1>5 DEF Keep, Replay, row, m
    <2> QED BY <1>1, <1>5, <2>3, <2>4, <2>5, BatchReplayed
  <1> QED BY <1>3, <1>4, <1>5 DEF ReplayEvent

-----------------------------------------------------------------------------
(* The theorems *)

\* Whatever the home is used for, and wherever the rebuild stands: the log is the
\* history of the home, every row is what a service kept of its batch, and every row
\* of the target is the image of a batch that was replayed, in order.
THEOREM RebuildInvariant == Spec => []RebuildInv
PROOF
  <1>1. Init => RebuildInv
    <2> SUFFICES ASSUME Init
                 PROVE  RebuildInv
      OBVIOUS
    <2>1. log = <<>> /\ DOMAIN log = {} /\ Len(log) = 0 /\ \A S : log \in Seq(S)
      BY DEF Init
    <2>2. LogInv
      BY <2>1 DEF LogInv
    <2>3. HomeInv
      BY <2>1 DEF Init, HomeInv
    <2>4. TargetInv
      BY <2>1 DEF Init, TargetInv, Idle
    <2>5. VerdictInv
      BY DEF Init, VerdictInv
    <2> QED BY <2>2, <2>3, <2>4, <2>5 DEF RebuildInv
  <1>2. RebuildInv /\ [Next]_vars => RebuildInv'
    <2> SUFFICES ASSUME RebuildInv, [Next]_vars
                 PROVE  RebuildInv'
      OBVIOUS
    <2>1. CASE \/ CreatePortfolio \/ SetMembership \/ CrashInPortfolio
               \/ CreatePlan \/ CreateDecision \/ LinkPolicy \/ LinkTransaction \/ Review
               \/ RecordCorrection \/ IngestText \/ CreateClaim \/ CreateThesis
               \/ ReviseThesis \/ LinkResearch
      BY <2>1, PlainWrites
    <2>2. CASE \/ CreatePolicy \/ AddVersion \/ CreateContradiction
               \/ ImportMarket \/ ImportSnapshot
      BY <2>2, DescribedWrites
    <2>3. CASE ImportCsv
      BY <2>3, Imports
    <2>4. CASE RecordCorporateAction
      BY <2>4, CorporateActions
    <2>5. CASE (\E o \in {1, -1} : Start(o)) \/ Compare
      BY <2>5, PhaseChanged
    <2>6. CASE ReplayCsv
      BY <2>6, CsvReplayed
    <2>7. CASE ReplayMarket
      BY <2>7, MarketReplayed
    <2>8. CASE ReplayEvent
      BY <2>8, EventReplayed
    <2>9. CASE UNCHANGED vars
      <3>1. /\ UNCHANGED <<source, order>>
            /\ UNCHANGED <<pc, at, target, mapping, seen, warnings, verdict>>
        BY <2>9 DEF vars, source
      <3>2. /\ LogInv' /\ HomeInv'
            /\ \A i : IsCsv(i)' = IsCsv(i) /\ Earlier(i)' = Earlier(i) /\ New(i)' = New(i)
            /\ \A i, t : Replayed(i, t)' = Replayed(i, t)
        BY <3>1, SameSource
      <3>3. TargetInv'
        BY <3>1, <3>2 DEF RebuildInv, TargetInv, Pair, source, Idle
      <3>4. VerdictInv'
        BY <3>1, SameComparison DEF RebuildInv, VerdictInv, source
      <3> QED BY <3>2, <3>3, <3>4 DEF RebuildInv
    <2> QED BY <2>1, <2>2, <2>3, <2>4, <2>5, <2>6, <2>7, <2>8, <2>9 DEF Next
  <1> QED BY <1>1, <1>2, PTL DEF Spec

\* A report that says "consistent" is right: the target is the source under the
\* mapping of ids, with all of its history.
THEOREM VerdictsAreTruthful == Spec => []VerdictTruthful
PROOF BY RebuildInvariant, RightVerdict, PTL

-----------------------------------------------------------------------------
(* A home in the ids of the target *)

Pairing == "research.create_contradiction"

\* The operations whose rows are recorded when their home stores them.
Dated == LedgerOps \cup MarketOps

Operations ==
  {"portfolio.create", "portfolio.set_membership", "planning.create", "decision.create",
   "research.ingest_text", "research.create_claim", "research.link", Pairing}
    \cup LedgerOps \cup VersionOps \cup MarketOps \cup LinkOps \cup ThesisOps

\* What the row of an operation refers to.
HasRefs(e) ==
  /\ e.op \in {"portfolio.set_membership", "policy.create", "decision.create"} => "portfolio" \in DOMAIN e.refs
  /\ e.op \in {"policy.add_version", "planning.create"} => "policy" \in DOMAIN e.refs
  /\ e.op \in {"planning.create", "decision.link_policy"} => "version" \in DOMAIN e.refs
  /\ e.op \in LinkOps => "decision" \in DOMAIN e.refs
  /\ e.op = "decision.link_transaction" => "tx" \in DOMAIN e.refs
  /\ e.op = "research.create_claim" => "document" \in DOMAIN e.refs
  /\ e.op = "research.revise_thesis" => "thesis" \in DOMAIN e.refs
  /\ e.op = "research.link" => DOMAIN e.refs = {"from", "to"}
  /\ e.op = Pairing => e.refs = [a |-> e.refs.a, b |-> e.refs.b]

Timed(e) == e.id \in 1..(Today - 1) /\ e.rec = e.id /\ e.eff \in 0..End /\ e.known \in 0..End

\* What it refers to is in the home.
Grounded(h, e) ==
  /\ e.op \in Operations
  /\ HasRefs(e)
  /\ \A k \in DOMAIN e.refs : \E s \in h : s.id = e.refs[k]
  /\ e.op \in {"policy.add_version", "planning.create"} => e.refs.policy \in Ids(h, "policy.create")
  /\ e.op \in LedgerOps => e.val.amount \in Int

Good(h, e) == IsRow(e) /\ Timed(e) /\ Grounded(h, e)

\* A home whose rows are good and have ids of their own.
Sound(h) ==
  /\ IsFiniteSet(h)
  /\ \A r \in h : Good(h, r)
  /\ \A r, s \in h : r.id = s.id => r = s

TwinRefs(r) ==
  IF r.op = Pairing
  THEN [a |-> Min({New(r.refs.a), New(r.refs.b)}), b |-> Max({New(r.refs.a), New(r.refs.b)})]
  ELSE [k \in DOMAIN r.refs |-> New(r.refs[k])]

\* The row that the rebuild makes of a row.
Twin(r) ==
  AsRow(r.op, New(r.id), TwinRefs(r), r.eff, r.known, IF r.op \in Dated THEN Today ELSE r.rec, r.val)

Twins(S) == {Twin(r) : r \in S}

LEMMA TwinRow ==
  ASSUME NEW r
  PROVE  /\ IsRow(Twin(r))
         /\ Twin(r).op = r.op /\ Twin(r).id = New(r.id) /\ Twin(r).refs = TwinRefs(r)
         /\ Twin(r).eff = r.eff /\ Twin(r).known = r.known /\ Twin(r).val = r.val
         /\ r.op \notin Dated => Twin(r).rec = r.rec
         /\ r.op \in Dated => Twin(r).rec = Today
PROOF
  <1> DEFINE rec == IF r.op \in Dated THEN Today ELSE r.rec
             refs == TwinRefs(r)
  <1>1. Twin(r) = AsRow(r.op, New(r.id), refs, r.eff, r.known, rec, r.val)
    BY DEF Twin
  <1>2. /\ IsRow(Twin(r))
        /\ Twin(r).op = r.op /\ Twin(r).id = New(r.id) /\ Twin(r).refs = refs
        /\ Twin(r).eff = r.eff /\ Twin(r).known = r.known /\ Twin(r).val = r.val
        /\ Twin(r).rec = rec
    <2> HIDE DEF refs, rec
    <2> QED BY <1>1, AsRowIsRow
  <1> QED BY <1>2

LEMMA TwinNames ==
  ASSUME NEW r, r.op # Pairing
  PROVE  /\ DOMAIN Twin(r).refs = DOMAIN r.refs
         /\ \A k \in DOMAIN r.refs : Twin(r).refs[k] = New(r.refs[k])
PROOF BY TwinRow DEF TwinRefs

LEMMA NewIds ==
  ASSUME order \in {1, -1}
  PROVE  /\ \A i \in Int : New(i) \in Int
         /\ \A i, j \in Int : New(i) = New(j) => i = j
PROOF BY RecordsAssumption DEF New

\* The ids of the rows and those that they refer to.
LEMMA IdsOfRows ==
  ASSUME NEW h, Sound(h)
  PROVE  /\ \A r \in h : r.id \in Int /\ r.id \in Nat
         /\ \A r \in h : \A k \in DOMAIN r.refs : r.refs[k] \in Int
         /\ \A op : \A i \in Ids(h, op) : i \in Int
         /\ \A e : Good(h, e) => e.id \in Int /\ \A k \in DOMAIN e.refs : e.refs[k] \in Int
PROOF
  <1> USE RecordsAssumption, RebuildAssumption
  <1>1. \A r \in h : r.id \in Int /\ r.id \in Nat
    BY DEF Sound, Good, Timed
  <1>2. \A e : Good(h, e) => e.id \in Int /\ \A k \in DOMAIN e.refs : e.refs[k] \in Int
    BY <1>1 DEF Good, Timed, Grounded
  <1> QED BY <1>1, <1>2 DEF Sound, Ids, Of

\* Rows with twins of the same id are the same.
LEMMA TwinsDiffer ==
  ASSUME order \in {1, -1}, NEW h, Sound(h)
  PROVE  \A r, s \in h : New(r.id) = New(s.id) => r = s
PROOF BY NewIds, IdsOfRows DEF Sound

\* What is selected by what a twin has in common with its row.
LEMMA TwinsOfOp ==
  ASSUME NEW h, NEW op
  PROVE  /\ Of(Twins(h), op) = Twins(Of(h, op))
         /\ Ids(Twins(h), op) = {New(i) : i \in Ids(h, op)}
PROOF BY TwinRow DEF Of, Ids, Twins

LEMMA TwinsVisible ==
  ASSUME NEW S, NEW eff, NEW known
  PROVE  Visible(Twins(S), eff, known) = Twins(Visible(S, eff, known))
PROOF BY TwinRow DEF Visible, Twins

-----------------------------------------------------------------------------
(* The newest row *)

LEMMA LastExists ==
  ASSUME NEW S, S # {}, NEW f, NEW top \in Nat, \A x \in S : f[x] \in 0..top
  PROVE  \E x \in S : \A y \in S : f[y] <= f[x]
PROOF
  <1> DEFINE T == {top - f[x] : x \in S}
  <1>1. T \subseteq Nat /\ T # {}
    OBVIOUS
  <1>2. PICK m \in T : \A n \in T : ~(n < m)
    <2> HIDE DEF T
    <2> QED BY <1>1, FirstExists
  <1>3. PICK x \in S : m = top - f[x]
    BY <1>2
  <1>4. \A y \in S : f[y] <= f[x]
    <2> TAKE y \in S
    <2>1. ~(top - f[y] < m)
      BY <1>2
    <2>2. f[x] \in 0..top /\ f[y] \in 0..top
      OBVIOUS
    <2> QED BY <1>3, <2>1, <2>2
  <1> QED BY <1>4

\* Rows of different times of recording are in a strict order, and one is the newest.
LEMMA NewestExists ==
  ASSUME NEW S, S # {}, \A r \in S : Timed(r), \A r, s \in S : r.id = s.id => r = s
  PROVE  /\ Newest(S) \in S
         /\ \A s \in S \ {Newest(S)} : Supersedes(Newest(S), s)
PROOF
  <1> USE RecordsAssumption, RebuildAssumption
  <1>0. \A r \in S : r.eff \in 0..End /\ r.known \in 0..End /\ r.rec \in 0..End /\ r.rec = r.id
    BY DEF Timed
  <1> DEFINE eff == [r \in S |-> r.eff]
  <1>1. PICK a \in S : \A r \in S : r.eff <= a.eff
    <2>1. PICK a \in S : \A r \in S : eff[r] <= eff[a]
      <3>1. \A r \in S : eff[r] \in 0..End
        BY <1>0
      <3> HIDE DEF eff
      <3> QED BY <3>1, LastExists
    <2> QED BY <2>1
  <1> DEFINE A == {r \in S : r.eff = a.eff}
             known == [r \in A |-> r.known]
  <1>2. PICK b \in A : \A r \in A : r.known <= b.known
    <2>1. PICK b \in A : \A r \in A : known[r] <= known[b]
      <3>1. A # {} /\ \A r \in A : known[r] \in 0..End
        BY <1>0
      <3> HIDE DEF known, A
      <3> QED BY <3>1, LastExists
    <2> QED BY <2>1
  <1> DEFINE B == {r \in A : r.known = b.known}
             rec == [r \in B |-> r.rec]
  <1>3. PICK c \in B : \A r \in B : r.rec <= c.rec
    <2>1. PICK c \in B : \A r \in B : rec[r] <= rec[c]
      <3>1. B # {} /\ \A r \in B : rec[r] \in 0..End
        BY <1>0
      <3> HIDE DEF rec, B
      <3> QED BY <3>1, LastExists
    <2> QED BY <2>1
  <1>4. \A s \in S \ {c} : Supersedes(c, s)
    <2> TAKE s \in S \ {c}
    <2>1. c \in S /\ c.eff = a.eff /\ c.known = b.known /\ s.rec # c.rec
      BY <1>0, <1>1, <1>2, <1>3
    <2>2. s.eff <= c.eff /\ (s.eff = c.eff => s.known <= c.known)
          /\ (s.eff = c.eff /\ s.known = c.known => s.rec <= c.rec)
      BY <1>1, <1>2, <1>3, <2>1
    <2>3. /\ s.eff \in Int /\ s.known \in Int /\ s.rec \in Int
          /\ c.eff \in Int /\ c.known \in Int /\ c.rec \in Int
      BY <1>0, <2>1
    <2> QED BY <2>1, <2>2, <2>3 DEF Supersedes
  <1> QED BY <1>3, <1>4 DEF Newest

\* There is no other.
LEMMA NewestIsOne ==
  ASSUME NEW S, \A r \in S : r.eff \in Int /\ r.known \in Int /\ r.rec \in Int,
         NEW n \in S, \A s \in S \ {n} : Supersedes(n, s)
  PROVE  Newest(S) = n
PROOF
  <1>1. ASSUME NEW m \in S, \A s \in S \ {m} : Supersedes(m, s)
        PROVE  m = n
    <2> SUFFICES ASSUME m # n PROVE FALSE
      OBVIOUS
    <2>1. Supersedes(m, n) /\ Supersedes(n, m)
      BY <1>1
    <2>2. /\ m.eff \in Int /\ m.known \in Int /\ m.rec \in Int
          /\ n.eff \in Int /\ n.known \in Int /\ n.rec \in Int
      OBVIOUS
    <2> QED BY <2>1, <2>2 DEF Supersedes
  <1> QED BY <1>1 DEF Newest

LEMMA NewestTwin ==
  ASSUME NEW h, Sound(h), NEW S \in SUBSET h, S # {}, \A r \in S : r.op \notin Dated
  PROVE  Newest(S) \in S /\ Newest(Twins(S)) = Twin(Newest(S))
PROOF
  <1> USE RecordsAssumption, RebuildAssumption
  <1> DEFINE n == Newest(S)
  <1>1. /\ \A r \in S : Timed(r)
        /\ \A r, s \in S : r.id = s.id => r = s
    BY DEF Sound, Good
  <1>2. n \in S /\ \A s \in S \ {n} : Supersedes(n, s)
    BY <1>1, NewestExists
  <1>3. \A r \in S : Twin(r).eff = r.eff /\ Twin(r).known = r.known /\ Twin(r).rec = r.rec
    BY TwinRow
  <1>4. \A t \in Twins(S) : t.eff \in Int /\ t.known \in Int /\ t.rec \in Int
    BY <1>1, <1>3 DEF Twins, Timed
  <1> HIDE DEF n
  <1>5. \A t \in Twins(S) \ {Twin(n)} : Supersedes(Twin(n), t)
    BY <1>2, <1>3 DEF Twins, Supersedes
  <1>6. Newest(Twins(S)) = Twin(n)
    <2>1. Twin(n) \in Twins(S)
      BY <1>2 DEF Twins
    <2> QED BY <1>4, <1>5, <2>1, NewestIsOne
  <1> QED BY <1>2, <1>6 DEF n

-----------------------------------------------------------------------------
(* What the target answers *)

LEMMA MembershipTwins ==
  ASSUME order \in {1, -1}, NEW h, Sound(h), NEW p \in Int, NEW a
  PROVE  MembershipOf(Twins(h), New(p), a) = Twins(MembershipOf(h, p, a))
PROOF
  <1>1. ASSUME NEW r \in h, r.op = "portfolio.set_membership"
        PROVE  /\ Twin(r).op = r.op /\ Twin(r).val = r.val
               /\ Twin(r).refs.portfolio = New(p) <=> r.refs.portfolio = p
    <2>1. "portfolio" \in DOMAIN r.refs /\ r.refs["portfolio"] \in Int
      BY <1>1, IdsOfRows DEF Sound, Good, Grounded, HasRefs
    <2>2. Twin(r).refs["portfolio"] = New(r.refs["portfolio"])
      BY <1>1, <2>1, TwinNames DEF Pairing
    <2> QED BY <2>1, <2>2, NewIds, TwinRow
  <1> QED BY <1>1, TwinRow DEF MembershipOf, Of, Twins

LEMMA MembersOfTwins ==
  ASSUME order \in {1, -1}, NEW h, Sound(h), NEW p \in Int, NEW eff, NEW known
  PROVE  Members(Twins(h), New(p), eff, known) = Members(h, p, eff, known)
PROOF
  <1>1. ASSUME NEW a \in Accounts
        PROVE  a \in Members(Twins(h), New(p), eff, known) <=> a \in Members(h, p, eff, known)
    <2> DEFINE S == Visible(MembershipOf(h, p, a), eff, known)
               T == Visible(MembershipOf(Twins(h), New(p), a), eff, known)
    <2>1. T = Twins(S)
      BY MembershipTwins, TwinsVisible
    <2>2. S \in SUBSET h /\ \A r \in S : r.op \notin Dated
      BY DEF Visible, MembershipOf, Of, Dated, LedgerOps, MarketOps
    <2>3. /\ a \in Members(Twins(h), New(p), eff, known) <=> T # {} /\ Newest(T).val.action = "add"
          /\ a \in Members(h, p, eff, known) <=> S # {} /\ Newest(S).val.action = "add"
      BY DEF Members
    <2> HIDE DEF S, T
    <2>4. CASE S = {}
      BY <2>1, <2>3, <2>4 DEF Twins
    <2>5. CASE S # {}
      <3>1. Newest(T) = Twin(Newest(S))
        BY <2>1, <2>2, <2>5, NewestTwin
      <3>2. T # {} /\ Newest(T).val = Newest(S).val
        BY <2>1, <2>5, <3>1, TwinRow DEF Twins
      <3> QED BY <2>3, <2>5, <3>2
    <2> QED BY <2>4, <2>5
  <1> QED BY <1>1 DEF Members

\* Amounts are added up over rows, and a row has one twin.
LEMMA AmountsAreSum ==
  ASSUME NEW S, IsFiniteSet(S)
  PROVE  MapThenSumSet(LAMBDA r : r.val.amount, S) = SumOver([r \in S |-> r.val.amount], S)
PROOF
  <1> DEFINE f == [r \in S |-> r.val.amount]
             Totals(g) == g = [s \in SUBSET S |-> IF s = {} THEN 0
                               ELSE (CHOOSE x \in s : TRUE).val.amount + g[s \ {CHOOSE x \in s : TRUE}]]
  <1>1. MapThenSumSet(LAMBDA r : r.val.amount, S) = (CHOOSE g : Totals(g))[S]
    BY DEF MapThenSumSet, MapThenFoldSet
  <1>2. \A g : Totals(g) <=> IsSum(g, f, S)
    <2>1. \A s \in SUBSET S : s # {} => f[First(s)] = First(s).val.amount
      BY FirstIsElement
    <2> HIDE DEF f
    <2> QED BY <2>1 DEF IsSum, First
  <1>3. \E g : Totals(g)
    <2> HIDE DEF Totals, f
    <2> QED BY <1>2, SumExists
  <1>4. IsSum(CHOOSE g : Totals(g), f, S)
    <2> HIDE DEF Totals, f
    <2> QED BY <1>2, <1>3
  <1> HIDE DEF Totals, f
  <1>5. (CHOOSE g : Totals(g))[S] = SumOver(f, S)
    BY <1>4, FoldIsSum
  <1> QED BY <1>1, <1>5 DEF f

LEMMA BalanceOfTwins ==
  ASSUME order \in {1, -1}, NEW h, Sound(h), NEW a, NEW eff, NEW known
  PROVE  /\ Balance(Twins(h), a, eff, known) = Balance(h, a, eff, known)
         /\ Balance(h, a, eff, known) \in Int
PROOF
  <1> DEFINE Booked(k) == {r \in k : r.op \in LedgerOps /\ r.val.account = a}
             S == Visible(Booked(h), eff, known)
             T == Visible(Booked(Twins(h)), eff, known)
             twin == [r \in S |-> Twin(r)]
             f == [r \in S |-> r.val.amount]
             g == [t \in T |-> t.val.amount]
  <1>1. T = Twins(S)
    <2>1. Booked(Twins(h)) = Twins(Booked(h))
      BY TwinRow DEF Twins
    <2> HIDE DEF Booked
    <2> QED BY <2>1, TwinsVisible
  <1>2. S \in SUBSET h /\ IsFiniteSet(S) /\ \A r \in S : r.val.amount \in Int
    <2>1. S \in SUBSET h
      BY DEF Visible
    <2>2. \A r \in S : r.val.amount \in Int
      BY DEF Sound, Good, Grounded, Visible
    <2> HIDE DEF S
    <2> QED BY <2>1, <2>2, FS_Subset DEF Sound
  <1>3. Balance(h, a, eff, known) = MapThenSumSet(LAMBDA r : r.val.amount, S)
        /\ Balance(Twins(h), a, eff, known) = MapThenSumSet(LAMBDA r : r.val.amount, T)
    BY DEF Balance
  <1> HIDE DEF S, T
  <1>4. T = {twin[r] : r \in S}
    BY <1>1 DEF Twins
  <1>5. IsFiniteSet(T)
    <2> HIDE DEF twin
    <2> QED BY <1>2, <1>4, ImageIsFinite
  <1>6. \A r, s \in S : twin[r] = twin[s] => r = s
    BY <1>2, TwinRow, TwinsDiffer
  <1>7. \A r \in S : f[r] \in Int /\ g[twin[r]] = f[r]
    BY <1>1, <1>2, TwinRow DEF Twins
  <1>8. Balance(h, a, eff, known) = SumOver(f, S) /\ Balance(Twins(h), a, eff, known) = SumOver(g, T)
    BY <1>2, <1>3, <1>5, AmountsAreSum
  <1> HIDE DEF f, g, twin
  <1>9. SumOver(g, T) = SumOver(f, S)
    BY <1>2, <1>4, <1>6, <1>7, SumOfImage
  <1>10. SumOver(f, S) \in Int
    BY <1>2, <1>7, SumIsInteger
  <1> QED BY <1>8, <1>9, <1>10

LEMMA RowTwin ==
  ASSUME order \in {1, -1}, NEW h, Sound(h), NEW r \in h
  PROVE  Row(h, r.id) = r /\ Row(Twins(h), New(r.id)) = Twin(r)
PROOF
  <1>1. Row(h, r.id) = r
    <2>1. \A s \in h : s.id = r.id => s = r
      BY DEF Sound
    <2> QED BY <2>1 DEF Row
  <1>2. Row(Twins(h), New(r.id)) = Twin(r)
    <2>1. \A t \in Twins(h) : t.id = New(r.id) => t = Twin(r)
      BY TwinRow, TwinsDiffer DEF Twins
    <2>2. Twin(r) \in Twins(h) /\ Twin(r).id = New(r.id)
      BY TwinRow DEF Twins
    <2> QED BY <2>1, <2>2 DEF Row
  <1> QED BY <1>1, <1>2

LEMMA PolicyTwin ==
  ASSUME order \in {1, -1}, NEW h, Sound(h), NEW e, Good(h, e), e.op \in VersionOps
  PROVE  /\ PolicyOf(e) \in Int /\ PolicyOf(Twin(e)) = New(PolicyOf(e))
         /\ e \in h => PolicyOf(e) \in Ids(h, "policy.create")
PROOF
  <1>1. Twin(e).op = e.op /\ Twin(e).id = New(e.id)
    BY TwinRow
  <1>2. CASE e.op = "policy.create"
    BY <1>1, <1>2, IdsOfRows DEF PolicyOf, Ids, Of
  <1>3. CASE e.op = "policy.add_version"
    <2>1. "policy" \in DOMAIN e.refs /\ e.refs["policy"] \in Ids(h, "policy.create")
      BY <1>3 DEF Good, Grounded, HasRefs
    <2>2. Twin(e).refs["policy"] = New(e.refs["policy"])
      BY <1>3, <2>1, TwinNames DEF Pairing
    <2> QED BY <1>1, <1>3, <2>1, <2>2, IdsOfRows DEF PolicyOf
  <1> QED BY <1>2, <1>3 DEF VersionOps

LEMMA VersionTwins ==
  ASSUME order \in {1, -1}, NEW h, Sound(h), NEW p \in Int
  PROVE  /\ VersionsOf(Twins(h), New(p)) = Twins(VersionsOf(h, p))
         /\ \A eff, known : InForce(Twins(h), New(p), eff, known) = Twins(InForce(h, p, eff, known))
PROOF
  <1>1. VersionsOf(Twins(h), New(p)) = Twins(VersionsOf(h, p))
    <2>1. \A r \in h : Twin(r).op = r.op
      BY TwinRow
    <2>2. \A r \in h : r.op \in VersionOps => (PolicyOf(Twin(r)) = New(p) <=> PolicyOf(r) = p)
      BY PolicyTwin, NewIds DEF Sound
    <2> QED BY <2>1, <2>2 DEF VersionsOf, Twins
  <1> QED BY <1>1, TwinsVisible DEF InForce

LEMMA PortfolioTwin ==
  ASSUME order \in {1, -1}, NEW h, Sound(h), NEW p \in Ids(h, "policy.create")
  PROVE  /\ PortfolioOf(h, p) \in Int
         /\ PortfolioOf(Twins(h), New(p)) = New(PortfolioOf(h, p))
PROOF
  <1>1. PICK r \in h : r.op = "policy.create" /\ p = r.id
    BY DEF Ids, Of
  <1>2. Row(h, p) = r /\ Row(Twins(h), New(p)) = Twin(r)
    BY <1>1, RowTwin
  <1>3. "portfolio" \in DOMAIN r.refs /\ r.refs["portfolio"] \in Int
    BY <1>1, IdsOfRows DEF Sound, Good, Grounded, HasRefs
  <1>4. Twin(r).refs["portfolio"] = New(r.refs["portfolio"])
    BY <1>1, <1>3, TwinNames DEF Pairing
  <1> QED BY <1>2, <1>3, <1>4 DEF PortfolioOf

LEMMA BalancesAreSum ==
  ASSUME NEW S, IsFiniteSet(S), NEW h, NEW eff, NEW known
  PROVE  MapThenSumSet(LAMBDA a : Balance(h, a, eff, known), S)
           = SumOver([a \in S |-> Balance(h, a, eff, known)], S)
PROOF
  <1> DEFINE f == [a \in S |-> Balance(h, a, eff, known)]
             Totals(g) == g = [s \in SUBSET S |-> IF s = {} THEN 0
                                 ELSE Balance(h, CHOOSE x \in s : TRUE, eff, known)
                                        + g[s \ {CHOOSE x \in s : TRUE}]]
  <1>1. MapThenSumSet(LAMBDA a : Balance(h, a, eff, known), S) = (CHOOSE g : Totals(g))[S]
    BY DEF MapThenSumSet, MapThenFoldSet
  <1>2. \A g : Totals(g) <=> IsSum(g, f, S)
    <2>1. \A s \in SUBSET S : s # {} => f[First(s)] = Balance(h, First(s), eff, known)
      BY FirstIsElement
    <2> HIDE DEF f
    <2> QED BY <2>1 DEF IsSum, First
  <1>3. \E g : Totals(g)
    <2> HIDE DEF Totals, f
    <2> QED BY <1>2, SumExists
  <1>4. IsSum(CHOOSE g : Totals(g), f, S)
    <2> HIDE DEF Totals, f
    <2> QED BY <1>2, <1>3
  <1> HIDE DEF Totals, f
  <1>5. (CHOOSE g : Totals(g))[S] = SumOver(f, S)
    BY <1>4, FoldIsSum
  <1> QED BY <1>1, <1>5 DEF f

LEMMA ComparisonOfTwins ==
  ASSUME order \in {1, -1}, NEW h, Sound(h), NEW p \in Ids(h, "policy.create"),
         NEW v \in h, NEW eff, NEW known
  PROVE  Comparison(Twins(h), New(p), New(v.id), eff, known) = Comparison(h, p, v.id, eff, known)
PROOF
  <1> DEFINE T == Twins(h)
             M == Members(h, PortfolioOf(h, p), eff, known)
             Prices(l) == {r.val.rows : r \in Visible({s \in l : s.op \in MarketOps}, eff, known)}
  <1>1. Row(T, New(v.id)).val.rules = Row(h, v.id).val.rules
    BY RowTwin, TwinRow
  <1>2. Members(T, PortfolioOf(T, New(p)), eff, known) = M
    BY PortfolioTwin, MembersOfTwins
  <1>3. MapThenSumSet(LAMBDA a : Balance(T, a, eff, known), M)
          = MapThenSumSet(LAMBDA a : Balance(h, a, eff, known), M)
    <2>1. IsFiniteSet(M)
      BY FS_Subset, RecordsAssumption DEF Members
    <2>2. [a \in M |-> Balance(T, a, eff, known)] = [a \in M |-> Balance(h, a, eff, known)]
      BY BalanceOfTwins
    <2> HIDE DEF M, T
    <2>3. MapThenSumSet(LAMBDA a : Balance(T, a, eff, known), M)
            = SumOver([a \in M |-> Balance(T, a, eff, known)], M)
      BY <2>1, BalancesAreSum
    <2>4. MapThenSumSet(LAMBDA a : Balance(h, a, eff, known), M)
            = SumOver([a \in M |-> Balance(h, a, eff, known)], M)
      BY <2>1, BalancesAreSum
    <2> QED BY <2>2, <2>3, <2>4, Zenon
  <1>4. Prices(T) = Prices(h)
    <2>1. {s \in T : s.op \in MarketOps} = Twins({s \in h : s.op \in MarketOps})
      BY TwinRow DEF Twins
    <2>2. PICK S : S = {s \in h : s.op \in MarketOps}
      OBVIOUS
    <2>3. Visible(Twins(S), eff, known) = Twins(Visible(S, eff, known))
      BY TwinsVisible
    <2>4. \A V : {t.val.rows : t \in Twins(V)} = {r.val.rows : r \in V}
      BY TwinRow DEF Twins
    <2>5. Prices(T) = {t.val.rows : t \in Visible(Twins(S), eff, known)}
          /\ Prices(h) = {r.val.rows : r \in Visible(S, eff, known)}
      BY <2>1, <2>2
    <2> QED BY <2>3, <2>4, <2>5
  <1> HIDE DEF T, M
  <1>5. Comparison(T, New(p), New(v.id), eff, known)
          = [rules |-> Row(T, New(v.id)).val.rules,
             total |-> MapThenSumSet(LAMBDA a : Balance(T, a, eff, known), M),
             prices |-> Prices(T)]
    BY <1>2 DEF Comparison
  <1>6. Comparison(h, p, v.id, eff, known)
          = [rules |-> Row(h, v.id).val.rules,
             total |-> MapThenSumSet(LAMBDA a : Balance(h, a, eff, known), M),
             prices |-> Prices(h)]
    BY DEF Comparison, M
  <1> HIDE DEF Prices
  <1> QED BY <1>1, <1>3, <1>4, <1>5, <1>6 DEF T

LEMMA TwinsCounted ==
  ASSUME order \in {1, -1}, NEW h, Sound(h), NEW S \in SUBSET h
  PROVE  Cardinality(Twins(S)) = Cardinality(S)
PROOF
  <1> DEFINE twin == [r \in S |-> Twin(r)]
  <1>1. \A r, s \in S : twin[r] = twin[s] => r = s
    BY TwinRow, TwinsDiffer
  <1>2. twin \in Surjection(S, Twins(S)) /\ twin \in Injection(S, Twins(S))
    BY <1>1 DEF Surjection, Injection, IsInjective, Twins
  <1>3. IsFiniteSet(S)
    BY FS_Subset DEF Sound
  <1> QED BY <1>2, <1>3, FS_Surjection

-----------------------------------------------------------------------------
(* What a service makes of an event in the ids of the target *)

LEMMA RenamedWhole ==
  ASSUME NEW e, IsRow(e)
  PROVE  /\ IsRow(Renamed(e))
         /\ Renamed(e).op = e.op /\ Renamed(e).id = New(e.id) /\ Renamed(e).rec = e.rec
         /\ Renamed(e).val = e.val /\ Renamed(e).eff = e.eff /\ Renamed(e).known = e.known
         /\ DOMAIN Renamed(e).refs = DOMAIN e.refs
         /\ \A k \in DOMAIN e.refs : Renamed(e).refs[k] = New(e.refs[k])
         /\ e.op \notin Dated \cup {Pairing} => Renamed(e) = Twin(e)
PROOF
  <1> DEFINE refs == [k \in DOMAIN e.refs |-> New(e.refs[k])]
  <1>1. Renamed(e) = AsRow(e.op, New(e.id), refs, e.eff, e.known, e.rec, e.val)
    BY RenamedRow
  <1>2. DOMAIN refs = DOMAIN e.refs /\ \A k \in DOMAIN e.refs : refs[k] = New(e.refs[k])
    OBVIOUS
  <1>3. e.op \notin Dated \cup {Pairing} => Renamed(e) = Twin(e)
    BY <1>1 DEF Twin, TwinRefs
  <1> HIDE DEF refs
  <1>4. /\ IsRow(Renamed(e))
        /\ Renamed(e).op = e.op /\ Renamed(e).id = New(e.id) /\ Renamed(e).rec = e.rec
        /\ Renamed(e).val = e.val /\ Renamed(e).eff = e.eff /\ Renamed(e).known = e.known
        /\ Renamed(e).refs = refs
    BY <1>1, AsRowIsRow
  <1> QED BY <1>2, <1>3, <1>4

\* The target keeps the twin of what the home kept, but for numbers.
LEMMA KeptTwin ==
  ASSUME order \in {1, -1}, NEW h, Sound(h), NEW e, Good(h, e), NEW now,
         e.op # "ledger.record_corporate_action",
         e.op = "ledger.import_csv" => e.val.file.dated
  PROVE  Kept(Renamed(e), Today) = Twin(Kept(e, now))
PROOF
  <1> DEFINE m == Renamed(e)
             r == Kept(e, now)
             t == Kept(m, Today)
  <1>1. /\ IsRow(m)
        /\ m.op = e.op /\ m.id = New(e.id) /\ m.rec = e.rec
        /\ m.val = e.val /\ m.eff = e.eff /\ m.known = e.known
        /\ DOMAIN m.refs = DOMAIN e.refs
        /\ \A k \in DOMAIN e.refs : m.refs[k] = New(e.refs[k])
        /\ m.refs = [k \in DOMAIN e.refs |-> New(e.refs[k])]
    <2>1. IsRow(e)
      BY DEF Good
    <2>2. m.refs = [k \in DOMAIN e.refs |-> New(e.refs[k])]
      <3> DEFINE refs == [k \in DOMAIN e.refs |-> New(e.refs[k])]
      <3>1. m = AsRow(e.op, New(e.id), refs, e.eff, e.known, e.rec, e.val)
        BY <2>1, RenamedRow
      <3> HIDE DEF refs, m
      <3>2. m.refs = refs
        BY <3>1, AsRowIsRow
      <3> QED BY <3>2 DEF refs
    <2> QED BY <2>1, <2>2, RenamedWhole
  <1> HIDE DEF m
  <1>2. /\ IsRow(t) /\ t.op = e.op /\ t.id = New(e.id) /\ t.val = e.val
        /\ t.eff = r.eff /\ t.known = r.known
        /\ t.rec = IF e.op \in Dated THEN Today ELSE e.rec
    <2>1. /\ IsRow(t) /\ t.op = m.op /\ t.id = m.id /\ t.val = m.val
          /\ m.op \in Dated => t.rec = Today
          /\ m.op \notin Dated => t.rec = m.rec
          /\ m.op = "ledger.import_csv" => t.eff = m.val.file.eff /\ t.known = m.val.file.eff
          /\ m.op # "ledger.import_csv" => t.eff = m.eff /\ t.known = m.known
      <3>1. /\ IsRow(t) /\ t.op = m.op /\ t.id = m.id /\ t.val = m.val
            /\ m.op \notin LedgerOps \cup MarketOps => t.rec = m.rec
        BY <1>1, KeptRow
      <3>3. m.op \in (LedgerOps \cup MarketOps) \ {"ledger.record_corporate_action"} => t.rec = Today
        <4> USE <1>1
        <4> QED BY KeptWhole
      <3>2. /\ m.op = "ledger.import_csv" => t.eff = m.val.file.eff /\ t.known = m.val.file.eff
            /\ m.op # "ledger.import_csv" => t.eff = m.eff /\ t.known = m.known
        BY <1>1, KeptTimes
      <3> HIDE DEF t
      <3> QED BY <1>1, <3>1, <3>2, <3>3 DEF Dated
    <2>2. /\ e.op = "ledger.import_csv" => r.eff = e.val.file.eff /\ r.known = e.val.file.eff
          /\ e.op # "ledger.import_csv" => r.eff = e.eff /\ r.known = e.known
      BY ZenonT(30), KeptWhole DEF Good
    <2> HIDE DEF t, r
    <2> QED BY <1>1, <2>1, <2>2
  <1>3. /\ r.op = e.op /\ r.id = e.id /\ r.val = e.val
        /\ e.op \notin Dated => r.rec = e.rec
    <2>1. IsRow(e)
      BY DEF Good
    <2>2. /\ r.op = e.op /\ r.id = e.id /\ r.val = e.val
          /\ e.op \notin LedgerOps \cup MarketOps => r.rec = e.rec
      BY <2>1, KeptRow
    <2> HIDE DEF r
    <2> QED BY <2>2 DEF Dated
  <1>4. t.refs = TwinRefs(r)
    <2>1. CASE e.op = Pairing
      <3> DEFINE a == e.refs.a
                 b == e.refs.b
      <3>1. e.refs = [a |-> a, b |-> b]
        BY <2>1 DEF Good, Grounded, HasRefs
      <3>2. "a" \in DOMAIN e.refs /\ "b" \in DOMAIN e.refs
        BY <3>1
      <3>3. m.refs["a"] = New(a) /\ m.refs["b"] = New(b)
        BY <1>1, <3>2
      <3>4. a \in Int /\ b \in Int /\ New(a) \in Int /\ New(b) \in Int
        BY <3>2, IdsOfRows, NewIds
      <3>5. t.refs = [a |-> Min({New(a), New(b)}), b |-> Max({New(a), New(b)})]
        BY <1>1, <2>1, <3>3, KeptWhole DEF Pairing
      <3>6. r.refs = [a |-> Min({a, b}), b |-> Max({a, b})]
        BY <2>1, KeptWhole DEF Pairing, Good
      <3>7. {New(Min({a, b})), New(Max({a, b}))} = {New(a), New(b)}
        <4>1. \/ Min({a, b}) = a /\ Max({a, b}) = b
              \/ Min({a, b}) = b /\ Max({a, b}) = a
          BY <3>4, MinMaxOfTwo
        <4> QED BY <4>1
      <3>8. TwinRefs(r) = [a |-> Min({New(Min({a, b})), New(Max({a, b}))}),
                           b |-> Max({New(Min({a, b})), New(Max({a, b}))})]
        BY <1>3, <2>1, <3>6 DEF TwinRefs
      <3> QED BY <3>5, <3>7, <3>8
    <2>2. CASE e.op # Pairing
      <3>0. IsRow(e) /\ e.op # "research.create_contradiction"
        BY <2>2 DEF Good, Pairing
      <3>1. r.refs = e.refs /\ t.refs = m.refs
        BY <1>1, <3>0, KeptRefs
      <3> QED BY <1>1, <1>3, <2>2, <3>1 DEF TwinRefs
    <2> QED BY <2>1, <2>2
  <1> HIDE DEF t, r
  <1>5. t = AsRow(t.op, t.id, t.refs, t.eff, t.known, t.rec, t.val)
    BY <1>2 DEF IsRow
  <1> QED BY <1>2, <1>3, <1>4, <1>5 DEF Twin, t, r, m

LEMMA NumberTwin ==
  ASSUME NEW e, IsRow(e), e.op \notin Dated \cup {Pairing}, NEW n
  PROVE  Twin([e EXCEPT !.val.number = n]) = [Renamed(e) EXCEPT !.val.number = n]
PROOF
  <1> DEFINE val == [e.val EXCEPT !.number = n]
             refs == [k \in DOMAIN e.refs |-> New(e.refs[k])]
             m == Renamed(e)
             r == [e EXCEPT !.val.number = n]
  <1>1. m = AsRow(e.op, New(e.id), refs, e.eff, e.known, e.rec, e.val)
    BY RenamedRow
  <1>2. IsRow(m) /\ m.op = e.op /\ m.id = New(e.id) /\ m.refs = refs /\ m.eff = e.eff
        /\ m.known = e.known /\ m.rec = e.rec /\ m.val = e.val
    <2> HIDE DEF refs, m
    <2> QED BY <1>1, AsRowIsRow
  <1> HIDE DEF m
  <1>3. [m EXCEPT !.val.number = n] = AsRow(e.op, New(e.id), refs, e.eff, e.known, e.rec, val)
    <2>1. [m EXCEPT !.val.number = n] = [m EXCEPT !.val = [m.val EXCEPT !.number = n]]
      BY Zenon
    <2> HIDE DEF refs, val
    <2>2. \A x : [m EXCEPT !.val = x] = AsRow(m.op, m.id, m.refs, m.eff, m.known, m.rec, x)
      BY <1>2, RowChanged
    <2> QED BY <1>2, <2>1, <2>2 DEF val
  <1>4. r = AsRow(e.op, e.id, e.refs, e.eff, e.known, e.rec, val)
    <2>1. r = [e EXCEPT !.val = val]
      BY Zenon
    <2> HIDE DEF r, val
    <2> QED BY <2>1, RowChanged
  <1>5. /\ r.op = e.op /\ r.id = e.id /\ r.refs = e.refs /\ r.eff = e.eff
        /\ r.known = e.known /\ r.rec = e.rec /\ r.val = val
    <2> HIDE DEF r, val
    <2> QED BY <1>4, AsRowIsRow
  <1> HIDE DEF r, val
  <1>6. Twin(r) = AsRow(e.op, New(e.id), refs, e.eff, e.known, e.rec, val)
    BY <1>5 DEF Twin, TwinRefs
  <1> QED BY <1>3, <1>6 DEF m, r

LEMMA StoredTwin ==
  ASSUME order \in {1, -1}, NEW h, Sound(h), NEW e, Good(h, e), NEW now,
         e.op # "ledger.record_corporate_action",
         e.op = "ledger.import_csv" => e.val.file.dated
  PROVE  Stored(Twins(h), Renamed(e), Today) = Twin(Stored(h, e, now))
PROOF
  <1> DEFINE m == Renamed(e)
             T == Twins(h)
  <1>1. IsRow(e) /\ m.op = e.op
    BY RenamedWhole DEF Good
  <1>2. CASE e.op \notin VersionOps \cup Numbered
    BY <1>1, <1>2, KeptTwin, StoredIsKept
  <1>3. CASE e.op \in VersionOps
    <2>1. e.op \notin Dated \cup {Pairing}
      BY <1>3 DEF VersionOps, Dated, LedgerOps, MarketOps, Pairing
    <2>2. m = Twin(e) /\ PolicyOf(m) = New(PolicyOf(e)) /\ PolicyOf(e) \in Int
      BY <1>1, <1>3, <2>1, RenamedWhole, PolicyTwin
    <2>3. Cardinality(VersionsOf(T, PolicyOf(m))) = Cardinality(VersionsOf(h, PolicyOf(e)))
      <3>1. VersionsOf(h, PolicyOf(e)) \in SUBSET h
        BY DEF VersionsOf
      <3> QED BY <2>2, <3>1, VersionTwins, TwinsCounted
    <2>4. /\ Stored(h, e, now) = [e EXCEPT !.val.number = Cardinality(VersionsOf(h, PolicyOf(e))) + 1]
          /\ Stored(T, m, Today) = [m EXCEPT !.val.number = Cardinality(VersionsOf(T, PolicyOf(m))) + 1]
      BY <1>1, <1>3 DEF Stored, VersionOps, MarketOps
    <2> QED BY <1>1, <2>1, <2>3, <2>4, NumberTwin
  <1>4. CASE e.op \in Numbered
    <2> DEFINE Revisions(k, x) == {r \in Of(k, x.op) : r.refs.thesis = x.refs.thesis}
    <2>1. e.op = "research.revise_thesis" /\ e.op \notin Dated \cup {Pairing}
      BY <1>4 DEF Numbered, Dated, LedgerOps, MarketOps, Pairing
    <2>2. Cardinality(Revisions(T, m)) = Cardinality(Revisions(h, e))
      <3>1. "thesis" \in DOMAIN e.refs /\ e.refs["thesis"] \in Int
        BY <2>1, IdsOfRows DEF Good, Grounded, HasRefs
      <3>2. m.refs["thesis"] = New(e.refs["thesis"])
        BY <1>1, <3>1, RenamedWhole
      <3>3. \A r \in Of(h, e.op) : /\ "thesis" \in DOMAIN r.refs /\ r.refs["thesis"] \in Int
                                   /\ Twin(r).refs["thesis"] = New(r.refs["thesis"])
        <4> TAKE r \in Of(h, e.op)
        <4>1. r \in h /\ r.op = e.op
          BY DEF Of
        <4>2. "thesis" \in DOMAIN r.refs /\ r.refs["thesis"] \in Int
          BY <2>1, <4>1, IdsOfRows DEF Sound, Good, Grounded, HasRefs
        <4> QED BY <2>1, <4>1, <4>2, TwinNames DEF Pairing
      <3>4. \A r \in Of(h, e.op) : Twin(r).refs.thesis = m.refs.thesis <=> r.refs.thesis = e.refs.thesis
        BY <3>1, <3>2, <3>3, NewIds
      <3>5. Revisions(T, m) = Twins(Revisions(h, e))
        <4>1. Of(T, m.op) = Twins(Of(h, e.op))
          BY <1>1, TwinsOfOp
        <4> HIDE DEF m, T
        <4> QED BY <3>4, <4>1 DEF Twins
      <3>6. Revisions(h, e) \in SUBSET h
        BY DEF Of
      <3> HIDE DEF Revisions, m, T
      <3> QED BY <3>5, <3>6, TwinsCounted
    <2>3. /\ Stored(h, e, now) = [e EXCEPT !.val.number = Cardinality(Revisions(h, e)) + 2]
          /\ Stored(T, m, Today) = [m EXCEPT !.val.number = Cardinality(Revisions(T, m)) + 2]
      BY <1>1, <2>1 DEF Stored, VersionOps, MarketOps
    <2> HIDE DEF Revisions
    <2> QED BY <1>1, <2>1, <2>2, <2>3, NumberTwin
  <1> QED BY <1>2, <1>3, <1>4

\* What is referred to is found under its new id.
LEMMA FoundTwin ==
  ASSUME order \in {1, -1}, NEW h, Sound(h), NEW e, Good(h, e), NEW k \in DOMAIN e.refs
  PROVE  /\ e.refs[k] \in Int /\ Renamed(e).refs[k] = New(e.refs[k])
         /\ \A op : e.refs[k] \in Ids(h, op) => Renamed(e).refs[k] \in Ids(Twins(h), op)
         /\ \A r \in h : r.id = e.refs[k] => Twin(r) \in Twins(h) /\ Twin(r).id = Renamed(e).refs[k]
PROOF
  <1>1. e.refs[k] \in Int /\ Renamed(e).refs[k] = New(e.refs[k])
    BY IdsOfRows, RenamedWhole DEF Good
  <1> QED BY <1>1, TwinsOfOp, TwinRow DEF Twins

\* The check of each operation.
LEMMA AcceptsEach ==
  ASSUME NEW h, NEW e, NEW now
  PROVE  /\ e.op = "portfolio.create" => Accepts(h, e, now)
         /\ e.op = "portfolio.set_membership" => (Accepts(h, e, now) <=> CanSetMembership(h, e))
         /\ e.op = "policy.create" => (Accepts(h, e, now) <=> CanCreatePolicy(h, e))
         /\ e.op = "policy.add_version" => (Accepts(h, e, now) <=> CanAddVersion(h, e))
         /\ e.op = "planning.create" => (Accepts(h, e, now) <=> CanCreatePlan(h, e))
         /\ e.op = "decision.create" => (Accepts(h, e, now) <=> CanCreateDecision(h, e))
         /\ e.op = "decision.link_policy" => (Accepts(h, e, now) <=> CanLinkPolicy(h, e))
         /\ e.op = "decision.link_transaction" => (Accepts(h, e, now) <=> CanLinkTransaction(h, e))
         /\ e.op = "decision.review" => (Accepts(h, e, now) <=> CanReview(h, e))
         /\ e.op = "ledger.record_correction" => (Accepts(h, e, now) <=> CanCorrect(h, e, now))
         /\ e.op \in {"research.ingest_text", "research.create_thesis"} => (Accepts(h, e, now) <=> CanIngest(h, e))
         /\ e.op = "research.create_claim" => (Accepts(h, e, now) <=> CanCreateClaim(h, e))
         /\ e.op = "research.create_contradiction" => (Accepts(h, e, now) <=> CanCreateContradiction(h, e))
         /\ e.op = "research.revise_thesis" => (Accepts(h, e, now) <=> CanReviseThesis(h, e))
         /\ e.op = "research.link" => (Accepts(h, e, now) <=> CanLinkResearch(h, e))
         /\ e.op \in MarketOps => (Accepts(h, e, now) <=> CanImportMarket(h, e))
PROOF BY DEF Accepts, MarketOps

LEMMA PortfoliosAcceptTwin ==
  ASSUME order \in {1, -1}, NEW h, Sound(h), NEW e, Good(h, e), NEW now,
         e.op \in {"portfolio.create", "portfolio.set_membership", "policy.create", "policy.add_version",
                   "planning.create"},
         Accepts(h, e, now)
  PROVE  Accepts(Twins(h), Renamed(e), Today)
PROOF
  <1> DEFINE m == Renamed(e)
             T == Twins(h)
  <1>1. /\ m.op = e.op /\ m.rec = e.rec /\ m.val = e.val /\ m.eff = e.eff /\ m.known = e.known
    BY RenamedWhole DEF Good
  <1>2. /\ e.op \in {"portfolio.set_membership", "policy.create"} => "portfolio" \in DOMAIN e.refs
        /\ e.op \in {"policy.add_version", "planning.create"} => "policy" \in DOMAIN e.refs
    BY DEF Good, Grounded, HasRefs
  <1>3. \A k \in DOMAIN e.refs :
          /\ e.refs[k] \in Int /\ m.refs[k] = New(e.refs[k])
          /\ \A op : e.refs[k] \in Ids(h, op) => m.refs[k] \in Ids(T, op)
    BY FoundTwin
  <1> SUFFICES Accepts(T, m, Today)
    OBVIOUS
  <1> HIDE DEF m, T
  <1>4. CASE e.op = "portfolio.create"
    BY <1>1, <1>4, AcceptsEach
  <1>5. CASE e.op = "portfolio.set_membership"
    <2>1. CanSetMembership(h, e)
      BY <1>5, AcceptsEach
    <2>2. e.refs["portfolio"] \in Int /\ m.refs["portfolio"] = New(e.refs["portfolio"])
          /\ m.refs["portfolio"] \in Ids(T, "portfolio.create")
      BY <1>2, <1>3, <1>5, <2>1 DEF CanSetMembership
    <2>3. Members(T, m.refs.portfolio, m.eff, m.known) = Members(h, e.refs.portfolio, e.eff, e.known)
      BY <1>1, <2>2, MembersOfTwins DEF T
    <2>4. CanSetMembership(T, m)
      BY <1>1, <2>1, <2>2, <2>3 DEF CanSetMembership
    <2> QED BY <1>1, <1>5, <2>4, AcceptsEach
  <1>6. CASE e.op = "policy.create"
    <2>1. CanCreatePolicy(h, e)
      BY <1>6, AcceptsEach
    <2>2. CanCreatePolicy(T, m)
      BY <1>1, <1>2, <1>3, <1>6, <2>1 DEF CanCreatePolicy
    <2> QED BY <1>1, <1>6, <2>2, AcceptsEach
  <1>7. CASE e.op = "policy.add_version"
    <2>1. CanAddVersion(h, e)
      BY <1>7, AcceptsEach
    <2>2. CanAddVersion(T, m)
      BY <1>1, <1>2, <1>3, <1>7, <2>1 DEF CanAddVersion
    <2> QED BY <1>1, <1>7, <2>2, AcceptsEach
  <1>8. CASE e.op = "planning.create"
    <2>1. CanCreatePlan(h, e)
      BY <1>8, AcceptsEach
    <2>2. e.refs["policy"] \in Int /\ m.refs["policy"] = New(e.refs["policy"])
          /\ m.refs["policy"] \in Ids(T, "policy.create")
      BY <1>2, <1>3, <1>8, <2>1 DEF CanCreatePlan
    <2>3. InForce(T, m.refs.policy, m.eff, m.known) = Twins(InForce(h, e.refs.policy, e.eff, e.known))
      BY <1>1, <2>2, VersionTwins DEF T
    <2>4. InForce(T, m.refs.policy, m.eff, m.known) # {}
      BY <2>1, <2>3 DEF CanCreatePlan, Twins
    <2>5. CanCreatePlan(T, m)
      BY <2>2, <2>4 DEF CanCreatePlan
    <2> QED BY <1>1, <1>8, <2>5, AcceptsEach
  <1> QED BY <1>4, <1>5, <1>6, <1>7, <1>8

LEMMA DecisionsAcceptTwin ==
  ASSUME order \in {1, -1}, NEW h, Sound(h), NEW e, Good(h, e), NEW now,
         e.op \in {"decision.create"} \cup LinkOps,
         Accepts(h, e, now)
  PROVE  Accepts(Twins(h), Renamed(e), Today)
PROOF
  <1> DEFINE m == Renamed(e)
             T == Twins(h)
  <1>1. /\ m.op = e.op /\ m.rec = e.rec /\ m.val = e.val /\ m.eff = e.eff /\ m.known = e.known
        /\ DOMAIN m.refs = DOMAIN e.refs
    BY RenamedWhole DEF Good
  <1>2. /\ e.op = "decision.create" => "portfolio" \in DOMAIN e.refs
        /\ e.op \in LinkOps => "decision" \in DOMAIN e.refs
        /\ e.op = "decision.link_policy" => "version" \in DOMAIN e.refs
        /\ e.op = "decision.link_transaction" => "tx" \in DOMAIN e.refs
    BY DEF Good, Grounded, HasRefs
  <1>3. \A k \in DOMAIN e.refs :
          /\ e.refs[k] \in Int /\ m.refs[k] = New(e.refs[k])
          /\ \A op : e.refs[k] \in Ids(h, op) => m.refs[k] \in Ids(T, op)
          /\ \A r \in h : r.id = e.refs[k] => Twin(r) \in T /\ Twin(r).id = m.refs[k]
    BY FoundTwin
  <1> SUFFICES Accepts(T, m, Today)
    OBVIOUS
  <1> HIDE DEF m, T
  <1>4. \A r : Twin(r).op = r.op /\ Twin(r).eff = r.eff /\ Twin(r).known = r.known /\ Twin(r).val = r.val
    BY TwinRow
  <1>5. \A v \in h : v.op \in VersionOps =>
          /\ PortfolioOf(h, PolicyOf(v)) \in Int
          /\ PortfolioOf(T, PolicyOf(Twin(v))) = New(PortfolioOf(h, PolicyOf(v)))
    BY PolicyTwin, PortfolioTwin DEF Sound, T
  <1>6. \A d \in h : d.op = "decision.create" =>
          d.refs.portfolio \in Int /\ Twin(d).refs.portfolio = New(d.refs.portfolio)
    <2> TAKE d \in h
    <2> HAVE d.op = "decision.create"
    <2>1. "portfolio" \in DOMAIN d.refs /\ d.refs["portfolio"] \in Int
      BY IdsOfRows DEF Sound, Good, Grounded, HasRefs
    <2> QED BY <2>1, TwinNames DEF Pairing
  <1>7. \A p \in h : p.op = "planning.create" =>
          /\ PortfolioOf(h, p.refs.policy) \in Int
          /\ PortfolioOf(T, Twin(p).refs.policy) = New(PortfolioOf(h, p.refs.policy))
    <2> TAKE p \in h
    <2> HAVE p.op = "planning.create"
    <2>1. "policy" \in DOMAIN p.refs /\ p.refs["policy"] \in Ids(h, "policy.create")
      BY DEF Sound, Good, Grounded, HasRefs
    <2>2. Twin(p).refs["policy"] = New(p.refs["policy"])
      BY <2>1, TwinNames DEF Pairing
    <2> QED BY <2>1, <2>2, PortfolioTwin DEF T
  <1>8. CASE e.op = "decision.create"
    <2>1. CanCreateDecision(h, e)
      BY <1>8, AcceptsEach
    <2>2. /\ m.refs["portfolio"] \in Ids(T, "portfolio.create")
          /\ m.refs["portfolio"] = New(e.refs["portfolio"])
      BY <1>2, <1>3, <1>8, <2>1 DEF CanCreateDecision
    <2>3. ASSUME "version" \in DOMAIN m.refs
          PROVE  \E v \in T : /\ v.op \in VersionOps /\ v.id = m.refs.version
                              /\ PortfolioOf(T, PolicyOf(v)) = m.refs.portfolio
                              /\ v.eff <= m.eff /\ v.known <= m.known
      <3>1. PICK v \in h : /\ v.op \in VersionOps /\ v.id = e.refs["version"]
                           /\ PortfolioOf(h, PolicyOf(v)) = e.refs["portfolio"]
                           /\ v.eff <= e.eff /\ v.known <= e.known
        BY <1>1, <2>1, <2>3 DEF CanCreateDecision
      <3>2. Twin(v) \in T /\ Twin(v).id = m.refs["version"]
        BY <1>1, <1>3, <2>3, <3>1
      <3>3. PortfolioOf(T, PolicyOf(Twin(v))) = m.refs["portfolio"]
        BY <1>5, <2>2, <3>1
      <3> QED BY <1>1, <1>4, <3>1, <3>2, <3>3
    <2>4. ASSUME "plan" \in DOMAIN m.refs
          PROVE  \E p \in Of(T, "planning.create") :
                   p.id = m.refs.plan /\ PortfolioOf(T, p.refs.policy) = m.refs.portfolio
      <3>1. PICK p \in h : /\ p.op = "planning.create" /\ p.id = e.refs["plan"]
                           /\ PortfolioOf(h, p.refs.policy) = e.refs["portfolio"]
        BY <1>1, <2>1, <2>4 DEF CanCreateDecision, Of
      <3>2. Twin(p) \in T /\ Twin(p).id = m.refs["plan"]
        BY <1>1, <1>3, <2>4, <3>1
      <3>3. PortfolioOf(T, Twin(p).refs.policy) = m.refs["portfolio"]
        BY <1>7, <2>2, <3>1
      <3> QED BY <1>4, <3>1, <3>2, <3>3 DEF Of
    <2>5. CanCreateDecision(T, m)
      BY <2>2, <2>3, <2>4 DEF CanCreateDecision
    <2> QED BY <1>1, <1>8, <2>5, AcceptsEach
  <1>9. CASE e.op = "decision.link_policy"
    <2>1. PICK d \in h, v \in h :
            /\ d.op = "decision.create" /\ d.id = e.refs["decision"]
            /\ v.op \in VersionOps /\ v.id = e.refs["version"]
            /\ PortfolioOf(h, PolicyOf(v)) = d.refs.portfolio
      BY <1>9, AcceptsEach DEF CanLinkPolicy, Of
    <2>2. /\ Twin(d) \in Of(T, "decision.create") /\ Twin(d).id = m.refs["decision"]
          /\ Twin(v) \in T /\ Twin(v).op \in VersionOps /\ Twin(v).id = m.refs["version"]
      BY <1>2, <1>3, <1>4, <1>9, <2>1 DEF Of, LinkOps
    <2>3. PortfolioOf(T, PolicyOf(Twin(v))) = Twin(d).refs.portfolio
      BY <1>5, <1>6, <2>1
    <2>4. CanLinkPolicy(T, m)
      BY <2>2, <2>3 DEF CanLinkPolicy
    <2> QED BY <1>1, <1>9, <2>4, AcceptsEach
  <1>10. CASE e.op = "decision.link_transaction"
    <2>1. PICK d \in h, t \in h :
            /\ d.op = "decision.create" /\ d.id = e.refs["decision"]
            /\ t.op \in LedgerOps /\ t.id = e.refs["tx"]
            /\ t.val.account \in Members(h, d.refs.portfolio, t.eff, t.known)
      BY <1>10, AcceptsEach DEF CanLinkTransaction, Of
    <2>2. /\ Twin(d) \in Of(T, "decision.create") /\ Twin(d).id = m.refs["decision"]
          /\ Twin(t) \in T /\ Twin(t).op \in LedgerOps /\ Twin(t).id = m.refs["tx"]
      BY <1>2, <1>3, <1>4, <1>10, <2>1 DEF Of, LinkOps
    <2>3. Members(T, Twin(d).refs.portfolio, t.eff, t.known) = Members(h, d.refs.portfolio, t.eff, t.known)
      BY <1>6, <2>1, MembersOfTwins DEF T
    <2>4. CanLinkTransaction(T, m)
      BY <1>4, <2>1, <2>2, <2>3 DEF CanLinkTransaction
    <2> QED BY <1>1, <1>10, <2>4, AcceptsEach
  <1>11. CASE e.op = "decision.review"
    <2>1. CanReview(h, e)
      BY <1>11, AcceptsEach
    <2>2. CanReview(T, m)
      BY <1>2, <1>3, <1>11, <2>1 DEF CanReview, LinkOps
    <2> QED BY <1>1, <1>11, <2>2, AcceptsEach
  <1> QED BY <1>8, <1>9, <1>10, <1>11 DEF LinkOps

LEMMA OthersAcceptTwin ==
  ASSUME order \in {1, -1}, NEW h, Sound(h), NEW e, Good(h, e), NEW now \in 0..Today,
         e.op \in {"ledger.record_correction"} \cup MarketOps \cup ThesisOps
                   \cup {"research.ingest_text", "research.create_claim", Pairing, "research.link"},
         Accepts(h, e, now)
  PROVE  Accepts(Twins(h), Renamed(e), Today)
PROOF
  <1> DEFINE m == Renamed(e)
             T == Twins(h)
  <1>1. /\ m.op = e.op /\ m.rec = e.rec /\ m.val = e.val /\ m.eff = e.eff /\ m.known = e.known
        /\ DOMAIN m.refs = DOMAIN e.refs
    BY RenamedWhole DEF Good
  <1>2. /\ e.op = "research.create_claim" => "document" \in DOMAIN e.refs
        /\ e.op = "research.revise_thesis" => "thesis" \in DOMAIN e.refs
        /\ e.op = "research.link" => "from" \in DOMAIN e.refs /\ "to" \in DOMAIN e.refs
        /\ e.op = Pairing => "a" \in DOMAIN e.refs /\ "b" \in DOMAIN e.refs
    BY DEF Good, Grounded, HasRefs
  <1>3. \A k \in DOMAIN e.refs :
          /\ e.refs[k] \in Int /\ m.refs[k] = New(e.refs[k])
          /\ \A op : e.refs[k] \in Ids(h, op) => m.refs[k] \in Ids(T, op)
          /\ \A r \in h : r.id = e.refs[k] => Twin(r) \in T /\ Twin(r).id = m.refs[k]
    BY FoundTwin
  <1>4. e.known \in Nat
    BY RecordsAssumption DEF Good, Timed
  <1>5. \A t \in T : \E r \in h : t = Twin(r)
    BY DEF Twins
  <1> SUFFICES Accepts(T, m, Today)
    OBVIOUS
  <1> HIDE DEF m, T
  <1>6. \A r : Twin(r).op = r.op /\ Twin(r).val = r.val
    BY TwinRow
  <1>7. CASE e.op = "ledger.record_correction"
    <2>1. CanCorrect(h, e, now)
      BY <1>7, AcceptsEach
    <2>2. m.known <= Today
      BY <1>1, <1>4, <2>1, RebuildAssumption, RecordsAssumption DEF CanCorrect
    <2>3. ASSUME "tx" \in DOMAIN m.refs
          PROVE  \E t \in T : t.op \in LedgerOps /\ t.id = m.refs.tx /\ t.val.account = m.val.account
      <3>1. PICK r \in h : r.op \in LedgerOps /\ r.id = e.refs["tx"] /\ r.val.account = e.val.account
        BY <1>1, <2>1, <2>3 DEF CanCorrect
      <3>2. Twin(r) \in T /\ Twin(r).id = m.refs["tx"]
        BY <1>1, <1>3, <2>3, <3>1
      <3> QED BY <1>1, <1>6, <3>1, <3>2
    <2>4. CanCorrect(T, m, Today)
      BY <1>1, <2>1, <2>2, <2>3 DEF CanCorrect, CanCorrectEarly
    <2> QED BY <1>1, <1>7, <2>4, AcceptsEach
  <1>8. CASE e.op \in MarketOps
    <2>1. CanImportMarket(h, e)
      BY <1>8, AcceptsEach
    <2>2. CanImportMarket(T, m)
      BY <1>1, <1>5, <1>6, <2>1 DEF CanImportMarket
    <2> QED BY <1>1, <1>8, <2>2, AcceptsEach
  <1>9. CASE e.op \in {"research.ingest_text", "research.create_thesis"}
    <2>1. CanIngest(h, e)
      BY <1>9, AcceptsEach
    <2>2. CanIngest(T, m)
      BY <1>1, <2>1 DEF CanIngest
    <2> QED BY <1>1, <1>9, <2>2, AcceptsEach
  <1>10. CASE e.op = "research.create_claim"
    <2>1. CanCreateClaim(h, e)
      BY <1>10, AcceptsEach
    <2>2. CanCreateClaim(T, m)
      BY <1>1, <1>2, <1>3, <1>10, <2>1 DEF CanCreateClaim
    <2> QED BY <1>1, <1>10, <2>2, AcceptsEach
  <1>11. CASE e.op = Pairing
    <2>1. CanCreateContradiction(h, e)
      BY <1>11, AcceptsEach DEF Pairing
    <2>2. /\ m.refs["a"] = New(e.refs["a"]) /\ m.refs["b"] = New(e.refs["b"])
          /\ e.refs["a"] \in Int /\ e.refs["b"] \in Int
      BY <1>2, <1>3, <1>11
    <2>3. m.refs["a"] # m.refs["b"]
      BY <2>1, <2>2, NewIds DEF CanCreateContradiction
    <2>4. CanCreateContradiction(T, m)
      BY <1>1, <1>2, <1>3, <1>11, <2>1, <2>3 DEF CanCreateContradiction
    <2> QED BY <1>1, <1>11, <2>4, AcceptsEach DEF Pairing
  <1>12. CASE e.op = "research.revise_thesis"
    <2>1. CanReviseThesis(h, e)
      BY <1>12, AcceptsEach
    <2>2. CanReviseThesis(T, m)
      BY <1>1, <1>2, <1>3, <1>12, <2>1 DEF CanReviseThesis
    <2> QED BY <1>1, <1>12, <2>2, AcceptsEach
  <1>13. CASE e.op = "research.link"
    <2> DEFINE Nodes(l) == {s \in l : s.op \in NodeOps \cup LedgerOps \cup {"decision.create"}}
    <2>1. CanLinkResearch(h, e)
      BY <1>13, AcceptsEach
    <2>2. ASSUME NEW k \in {"from", "to"}
          PROVE  m.refs[k] \in {r.id : r \in Nodes(T)}
      <3>1. k \in DOMAIN e.refs /\ e.refs[k] \in {r.id : r \in Nodes(h)}
        BY <1>2, <1>13, <2>1 DEF CanLinkResearch
      <3>2. PICK r \in Nodes(h) : r.id = e.refs[k]
        BY <3>1
      <3>3. Twin(r) \in T /\ Twin(r).id = m.refs[k] /\ Twin(r).op = r.op
        BY <1>3, <1>6, <3>1, <3>2
      <3> QED BY <3>2, <3>3
    <2>3. CanLinkResearch(T, m)
      <3>1. m.refs.from \in {r.id : r \in Nodes(T)} /\ m.refs.to \in {r.id : r \in Nodes(T)}
        BY <2>2
      <3> QED BY <1>1, <2>1, <3>1 DEF CanLinkResearch
    <2> QED BY <1>1, <1>13, <2>3, AcceptsEach
  <1> QED BY <1>7, <1>8, <1>9, <1>10, <1>11, <1>12, <1>13 DEF ThesisOps

-----------------------------------------------------------------------------
(* The history of the home *)

\* The rows that were there when the batch came.
Before(i) == {r \in home : r.id < i}

\* A plan says what its policy came to.
Compared(h, e) ==
  e.op = "planning.create" =>
    \E v \in {Newest(InForce(h, e.refs.policy, e.eff, e.known))} :
      e.refs.version = v.id /\ e.val = Comparison(h, e.refs.policy, v.id, e.eff, e.known)

\* The row that a service made of a batch, in the home as it was.
Made(h, e, r) ==
  /\ Good(h, r) /\ Good(h, e)
  /\ r.op \notin {"ledger.import_csv", "ledger.record_corporate_action"} =>
       Accepts(h, e, r.id) /\ r = Stored(h, e, r.id)
  /\ Compared(h, r)

HistoryInv ==
  /\ IsFiniteSet(home)
  /\ book \in Books /\ Len(log) < Today
  /\ \A r \in home : Made(Before(r.id), log[r.id], r)

LEMMA GoodGrows ==
  ASSUME NEW h, NEW k, h \subseteq k, NEW e, Good(h, e)
  PROVE  Good(k, e)
PROOF BY DEF Good, Grounded, Ids, Of

\* The rows of the home have ids of their own, and refer to rows before them.
LEMMA HistoryIsSound ==
  ASSUME RebuildInv, HistoryInv
  PROVE  /\ \A r \in home : r.id \in DOMAIN log /\ r.id \in Nat
         /\ \A r, s \in home : r.id = s.id => r = s
         /\ Sound(home)
         /\ \A n \in Nat : Sound(Before(n))
PROOF
  <1>1. \A r \in home : r.id \in DOMAIN log /\ r.id \in Nat
    BY SeqAppended DEF RebuildInv, HomeInv, LogInv
  <1>2. ASSUME NEW r \in home, NEW s \in home, r.id = s.id
        PROVE  r = s
    <2>1. r.op = log[r.id].op /\ s.op = log[r.id].op
      BY <1>2 DEF RebuildInv, HomeInv
    <2>2. CASE r.op \in Numbered
      <3>1. r.op \notin {"ledger.import_csv", "ledger.record_corporate_action"}
        BY <2>2 DEF Numbered
      <3>2. r = Stored(Before(r.id), log[r.id], r.id) /\ s = Stored(Before(s.id), log[s.id], s.id)
        BY <2>1, <3>1 DEF HistoryInv, Made
      <3> QED BY <1>2, <3>2
    <2>3. CASE r.op \notin Numbered
      <3>1. r = Kept(log[r.id], r.id) /\ s = Kept(log[s.id], s.id)
        BY <2>1, <2>3 DEF RebuildInv, HomeInv
      <3> QED BY <1>2, <3>1
    <2> QED BY <2>2, <2>3
  <1>3. \A r \in home : Good(Before(r.id), r)
    BY DEF HistoryInv, Made
  <1>4. \A r \in home : Before(r.id) \subseteq home
    BY DEF Before
  <1>5. Sound(home)
    <2>1. \A r \in home : Good(home, r)
      BY <1>3, <1>4, GoodGrows
    <2> QED BY <1>2, <2>1 DEF Sound, HistoryInv
  <1>6. ASSUME NEW n \in Nat
        PROVE  Sound(Before(n))
    <2>1. ASSUME NEW r \in Before(n)
          PROVE  r \in home /\ Before(r.id) \subseteq Before(n)
      BY <1>1 DEF Before
    <2>2. \A r \in Before(n) : Good(Before(n), r)
      BY <1>3, <2>1, GoodGrows
    <2>3. IsFiniteSet(Before(n))
      BY FS_Subset DEF HistoryInv, Before
    <2> QED BY <1>2, <2>1, <2>2, <2>3 DEF Sound
  <1> QED BY <1>1, <1>2, <1>5, <1>6

\* What is stored of a batch is as good as the batch.
LEMMA StoredIsGood ==
  ASSUME NEW h, Sound(h), NEW e, Good(h, e), NEW now, now = e.id,
         e.op = "ledger.import_csv" => e.val.file \in Files
  PROVE  Good(h, Stored(h, e, now))
PROOF
  <1> DEFINE r == Stored(h, e, now)
  <1> USE RecordsAssumption, RebuildAssumption
  <1>1. IsRow(e) /\ Timed(e) /\ Grounded(h, e)
    BY DEF Good
  <1>2. CASE e.op \in VersionOps \cup Numbered
    <2>1. /\ IsRow(r) /\ r.op = e.op /\ r.id = e.id /\ r.rec = e.rec /\ r.refs = e.refs
          /\ r.eff = e.eff /\ r.known = e.known
      BY <1>1, <1>2, NumberStored
    <2> HIDE DEF r
    <2>2. Timed(r)
      BY <1>1, <2>1 DEF Timed
    <2>3. Grounded(h, r)
      BY <1>1, <1>2, <2>1 DEF Grounded, HasRefs, LedgerOps, VersionOps, Numbered
    <2> QED BY <2>1, <2>2, <2>3 DEF Good, r
  <1>3. CASE e.op \notin VersionOps \cup Numbered
    <2>1. r = Kept(e, now)
      BY <1>3, StoredIsKept
    <2> HIDE DEF r
    <2>2. /\ IsRow(r) /\ r.op = e.op /\ r.id = e.id /\ r.val = e.val /\ r.rec = e.rec
      BY <1>1, <2>1, KeptRow DEF Timed
    <2>3. Timed(r)
      <3>1. CASE e.op = "ledger.import_csv"
        <4>1. r = [e EXCEPT !.eff = IF e.val.file.dated THEN e.val.file.eff ELSE now,
                            !.known = IF e.val.file.dated THEN e.val.file.eff ELSE now,
                            !.rec = now]
          BY <2>1, <3>1 DEF Kept, MarketOps
        <4> DEFINE eff == IF e.val.file.dated THEN e.val.file.eff ELSE now
        <4>2. eff \in 0..End
          BY <1>1, <3>1 DEF Timed
        <4>3. r = [e EXCEPT !.eff = eff, !.known = eff, !.rec = now]
          BY <4>1
        <4> HIDE DEF eff
        <4>4. r = AsRow(e.op, e.id, e.refs, eff, eff, now, e.val)
          BY <1>1, <4>3, TimesChanged
        <4>5. r.eff = eff /\ r.known = eff
          BY <4>4, AsRowIsRow
        <4> QED BY <1>1, <2>2, <4>2, <4>5 DEF Timed
      <3>2. CASE e.op # "ledger.import_csv"
        <4>1. r.eff = e.eff /\ r.known = e.known
          BY <1>1, <2>1, <3>2, KeptTimes
        <4> QED BY <1>1, <2>2, <4>1 DEF Timed
      <3> QED BY <3>1, <3>2
    <2>4. Grounded(h, r)
      <3>1. CASE e.op = Pairing
        <4> DEFINE a == e.refs.a
                   b == e.refs.b
        <4>1. e.refs = [a |-> a, b |-> b]
          BY <1>1, <3>1 DEF Grounded, HasRefs
        <4>2. "a" \in DOMAIN e.refs /\ "b" \in DOMAIN e.refs
          BY <4>1
        <4>3. a \in Int /\ b \in Int
          BY <4>2, IdsOfRows
        <4>4. r.refs = [a |-> Min({a, b}), b |-> Max({a, b})]
          BY <1>1, <2>1, <3>1, KeptRefs DEF Pairing
        <4>5. {Min({a, b}), Max({a, b})} \subseteq {e.refs["a"], e.refs["b"]}
          BY ZenonT(30), <4>3, MinMaxOfTwo
        <4>6. \A k \in DOMAIN r.refs : r.refs[k] \in {e.refs["a"], e.refs["b"]}
          BY <4>4, <4>5
        <4>7. \A k \in DOMAIN r.refs : \E s \in h : s.id = r.refs[k]
          BY <1>1, <4>2, <4>6 DEF Grounded
        <4>8. HasRefs(r)
          BY <2>2, <3>1, <4>4 DEF HasRefs, Pairing, LinkOps
        <4> QED BY <1>1, <2>2, <3>1, <4>7, <4>8 DEF Grounded, Pairing, LedgerOps
      <3>2. CASE e.op # Pairing
        <4>1. r.refs = e.refs
          BY <1>1, <2>1, <3>2, KeptRefs DEF Pairing
        <4> QED BY <1>1, <2>2, <3>2, <4>1 DEF Grounded, HasRefs
      <3> QED BY <3>1, <3>2
    <2> QED BY <2>2, <2>3, <2>4 DEF Good, r
  <1> QED BY <1>2, <1>3

\* Rows are added after all others, and nothing else changes.
LEMMA HistoryAdded ==
  ASSUME RebuildInv, HistoryInv, NEW b, NEW rows, IsFiniteSet(rows),
         Len(log) < book.batches, UNCHANGED book,
         log' = Append(log, b), home' = home \cup rows,
         \A r \in rows : r.id = Now /\ Made(home, b, r)
  PROVE  HistoryInv'
PROOF
  <1>1. /\ Len(log) \in Nat /\ DOMAIN log = 1..Len(log)
        /\ Len(log') = Now /\ log'[Now] = b
        /\ \A i \in DOMAIN log : log'[i] = log[i]
    BY SeqAppended DEF RebuildInv, LogInv, Now
  <1>2. \A r \in home : r.id \in DOMAIN log
    BY DEF RebuildInv, HomeInv
  <1>3. \A i \in DOMAIN log : Before(i)' = Before(i)
    BY <1>1, <1>2 DEF Before, Now
  <1>4. PICK k : k = Now
    OBVIOUS
  <1>5. Before(k)' = home
    BY <1>1, <1>2, <1>4 DEF Before, Now
  <1>6. ASSUME NEW r \in home'
        PROVE  Made(Before(r.id)', log'[r.id], r)
    <2>1. CASE r \in home
      <3>1. Made(Before(r.id), log[r.id], r)
        BY <2>1 DEF HistoryInv
      <3> QED BY <1>1, <1>2, <1>3, <2>1, <3>1
    <2>2. CASE r \in rows
      <3>1. r.id = k /\ Made(home, b, r)
        BY <1>4, <2>2
      <3> QED BY <1>1, <1>4, <1>5, <3>1
    <2> QED BY <1>6, <2>1, <2>2
  <1>7. IsFiniteSet(home')
    BY FS_Union DEF HistoryInv
  <1>8. book' \in Books /\ Len(log') < Today
    <2>1. book.batches \in 1..(Today - 1) /\ Today \in Nat
      BY RebuildAssumption, RecordsAssumption DEF HistoryInv
    <2> QED BY <1>1, <2>1 DEF HistoryInv, Now
  <1>9. \A r \in home' : Made(Before(r.id), log[r.id], r)'
    BY <1>6 DEF Before
  <1> QED BY <1>7, <1>8, <1>9 DEF HistoryInv

LEMMA SameNumber ==
  ASSUME NEW e, IsRow(e), NEW n
  PROVE  LET r == [e EXCEPT !.val.number = n]
         IN /\ r.op = e.op /\ r.id = e.id /\ r.refs = e.refs /\ r.eff = e.eff
            /\ r.known = e.known /\ r.rec = e.rec
            /\ [r EXCEPT !.val.number = n] = r
PROOF
  <1> DEFINE val == [e.val EXCEPT !.number = n]
             r == [e EXCEPT !.val.number = n]
  <1>1. r = AsRow(e.op, e.id, e.refs, e.eff, e.known, e.rec, val)
    <2>1. r = [e EXCEPT !.val = val]
      BY Zenon
    <2> HIDE DEF val, r
    <2> QED BY <2>1, RowChanged
  <1>2. [val EXCEPT !.number = n] = val
    BY Zenon
  <1> HIDE DEF r, val
  <1>3. /\ IsRow(r)
        /\ r.op = e.op /\ r.id = e.id /\ r.refs = e.refs /\ r.eff = e.eff
        /\ r.known = e.known /\ r.rec = e.rec /\ r.val = val
    BY <1>1, AsRowIsRow
  <1>4. [r EXCEPT !.val.number = n] = r
    <2>1. [r EXCEPT !.val.number = n] = [r EXCEPT !.val = [r.val EXCEPT !.number = n]]
      BY Zenon
    <2>2. [r EXCEPT !.val = r.val] = AsRow(r.op, r.id, r.refs, r.eff, r.known, r.rec, r.val)
      BY <1>3, RowChanged
    <2>3. [r EXCEPT !.val.number = n] = [r EXCEPT !.val = r.val]
      BY <1>2, <1>3, <2>1
    <2> QED BY <1>3, <2>2, <2>3 DEF IsRow
  <1> QED BY <1>3, <1>4 DEF r

\* A write that is accepted makes its row of its batch.
LEMMA HistoryWritten ==
  ASSUME RebuildInv, HistoryInv,
         NEW e, Good(home, e), e.id = Now,
         e.op \notin {"ledger.import_csv", "ledger.record_corporate_action"},
         Compared(home, e), Write(e)
  PROVE  HistoryInv'
PROOF
  <1> DEFINE b == Envelope(e)
             r == Stored(home, e, Now)
  <1>1. /\ Accepts(home, e, Now) /\ Len(log) < book.batches
        /\ log' = Append(log, b) /\ home' = home \cup {r} /\ UNCHANGED book
    BY DEF Write, Writable
  <1>2. IsRow(e) /\ e.rec = Now
    BY DEF Good, Timed
  <1>3. Good(home, r)
    BY HistoryIsSound, StoredIsGood
  <1>4. r.id = Now /\ r.op = e.op
    <2>1. CASE e.op \in VersionOps \cup Numbered
      BY <1>2, <2>1, NumberStored
    <2>2. CASE e.op \notin VersionOps \cup Numbered
      BY <1>2, <2>2, StoredIsKept, KeptRow
    <2> QED BY <2>1, <2>2
  <1>5. Made(home, b, r)
    <2>1. CASE e.op \in VersionOps
      <3> DEFINE p == PolicyOf(e)
                 n == Cardinality(VersionsOf(home, p)) + 1
      <3>1. b = r /\ r = [e EXCEPT !.val.number = n]
        BY <2>1 DEF Envelope, Stored, VersionOps, MarketOps
      <3>2. /\ b.op = e.op /\ b.id = e.id /\ b.refs = e.refs /\ b.eff = e.eff
            /\ b.known = e.known /\ b.rec = e.rec
            /\ [b EXCEPT !.val.number = n] = b
        <4> HIDE DEF n
        <4>1. b = [e EXCEPT !.val.number = n]
          BY <3>1
        <4> HIDE DEF b, r
        <4> QED BY <1>2, <4>1, SameNumber
      <3> HIDE DEF b, r
      <3>3. PolicyOf(b) = p
        BY <3>2 DEF PolicyOf
      <3>4. Stored(home, b, Now) = [b EXCEPT !.val.number = n]
        BY <2>1, <3>2, <3>3 DEF Stored, VersionOps, MarketOps
      <3>5. Accepts(home, b, Now)
        <4>1. CASE e.op = "policy.create"
          <5>1. CanCreatePolicy(home, e)
            BY <1>1, <4>1, AcceptsEach
          <5>2. CanCreatePolicy(home, b)
            BY <3>2, <5>1 DEF CanCreatePolicy
          <5> QED BY <3>2, <4>1, <5>2, AcceptsEach
        <4>2. CASE e.op = "policy.add_version"
          <5>1. CanAddVersion(home, e)
            BY <1>1, <4>2, AcceptsEach
          <5>2. CanAddVersion(home, b)
            BY <3>2, <5>1 DEF CanAddVersion
          <5> QED BY <3>2, <4>2, <5>2, AcceptsEach
        <4> QED BY <2>1, <4>1, <4>2 DEF VersionOps
      <3>6. Compared(home, r)
        BY <1>4, <2>1 DEF Compared, VersionOps
      <3> QED BY <1>3, <1>4, <3>1, <3>2, <3>4, <3>5, <3>6 DEF Made
    <2>2. CASE e.op \notin VersionOps
      <3>1. b = e
        BY <2>2 DEF Envelope
      <3>2. Compared(home, r)
        <4>1. CASE e.op = "planning.create"
          <5>1. r = e
            BY <4>1 DEF Stored, VersionOps, MarketOps
          <5> QED BY <5>1
        <4>2. CASE e.op # "planning.create"
          BY <1>4, <4>2 DEF Compared
        <4> QED BY <4>1, <4>2
      <3> QED BY <1>1, <1>3, <1>4, <3>1, <3>2 DEF Made
    <2> QED BY <2>1, <2>2
  <1> HIDE DEF b, r
  <1>6. IsFiniteSet({r}) /\ \A s \in {r} : s.id = Now /\ Made(home, b, s)
    BY <1>4, <1>5, FS_Singleton
  <1> QED BY <1>1, <1>6, HistoryAdded

LEMMA HistoryHalfWritten ==
  ASSUME RebuildInv, HistoryInv, NEW e, HalfWrite(e)
  PROVE  HistoryInv'
PROOF
  <1>1. /\ Len(log) < book.batches /\ log' = Append(log, e) /\ home' = home \cup {}
        /\ UNCHANGED book
    BY DEF HalfWrite, Writable
  <1> QED BY <1>1, FS_EmptySet, HistoryAdded

\* The times at which a batch is recorded, and those that it says.
LEMMA TimesOfBooks ==
  ASSUME RebuildInv, HistoryInv, Len(log) < book.batches
  PROVE  /\ Now \in 1..(Today - 1) /\ Now \in 0..End
         /\ Times \subseteq 0..End
         /\ book.dates \subseteq 0..End
         /\ 1 \in 0..End
PROOF
  <1>1. /\ Len(log) \in Nat /\ book.batches \in 1..(Today - 1) /\ Today \in 1..End
        /\ book.dates \subseteq 1..End /\ End \in Nat
    BY SeqAppended, RebuildAssumption, RecordsAssumption DEF RebuildInv, LogInv, HistoryInv
  <1> QED BY <1>1 DEF Now, Times

\* An event is good if it says what its operation says, and of what is there.
LEMMA EventIsGood ==
  ASSUME NEW op, NEW refs, NEW eff, NEW known, NEW val,
         Now \in 1..(Today - 1), eff \in 0..End, known \in 0..End,
         Grounded(home, AsRow(op, Now, refs, eff, known, Now, val))
  PROVE  /\ Good(home, Event(op, refs, eff, known, val))
         /\ Event(op, refs, eff, known, val).op = op
         /\ Event(op, refs, eff, known, val).id = Now
PROOF
  <1> DEFINE e == AsRow(op, Now, refs, eff, known, Now, val)
  <1>1. Event(op, refs, eff, known, val) = e
    BY DEF Event, AsRow
  <1>2. /\ IsRow(e)
        /\ e.op = op /\ e.id = Now /\ e.eff = eff /\ e.known = known /\ e.rec = Now
    BY AsRowIsRow
  <1> HIDE DEF e
  <1>3. Timed(e)
    BY <1>2 DEF Timed
  <1> QED BY <1>1, <1>2, <1>3 DEF Good, e

LEMMA EventKept ==
  ASSUME RebuildInv, HistoryInv,
         NEW op, NEW refs, NEW eff \in book.dates \cup Times, NEW known \in Times, NEW val,
         op \notin {"ledger.import_csv", "ledger.record_corporate_action"},
         Grounded(home, AsRow(op, Now, refs, eff, known, Now, val)),
         op = "planning.create" => Compared(home, Event(op, refs, eff, known, val)),
         Write(Event(op, refs, eff, known, val))
  PROVE  HistoryInv'
PROOF
  <1> DEFINE e == Event(op, refs, eff, known, val)
  <1>1. Len(log) < book.batches
    BY DEF Write, Writable
  <1>2. Now \in 1..(Today - 1) /\ eff \in 0..End /\ known \in 0..End
    BY <1>1, TimesOfBooks
  <1>3. Good(home, e) /\ e.op = op /\ e.id = Now
    BY <1>2, EventIsGood
  <1>4. Write(e) /\ (op = "planning.create" => Compared(home, e))
    OBVIOUS
  <1> HIDE DEF e
  <1>5. Compared(home, e)
    BY <1>3, <1>4 DEF Compared
  <1> QED BY <1>3, <1>4, <1>5, HistoryWritten

LEMMA PortfolioHistory ==
  ASSUME RebuildInv, HistoryInv,
         CreatePortfolio \/ SetMembership \/ CrashInPortfolio \/ CreatePolicy \/ AddVersion
  PROVE  HistoryInv'
PROOF
  <1> USE DEF Grounded, HasRefs, AsRow, Ids, Of, Operations, LinkOps, LedgerOps, VersionOps, MarketOps, ThesisOps,
             Pairing
  <1>0. Now \in Times
    BY DEF Times
  <1>1. CASE CreatePortfolio
    <2>1. Grounded(home, AsRow("portfolio.create", Now, NoRefs, Now, Now, Now, <<>>))
      BY DEF NoRefs
    <2> QED BY <1>0, <1>1, <2>1, EventKept DEF CreatePortfolio
  <1>2. CASE SetMembership
    <2>1. PICK p \in Ids(home, "portfolio.create"), a \in Accounts, action \in {"add", "remove"},
               eff \in book.dates, known \in Times : Write(Membership(p, a, action, eff, known))
      BY <1>2 DEF SetMembership
    <2>2. Grounded(home, AsRow("portfolio.set_membership", Now, [portfolio |-> p], eff, known, Now,
                               [account |-> a, action |-> action]))
      OBVIOUS
    <2> QED BY <2>1, <2>2, EventKept DEF Membership
  <1>3. CASE CrashInPortfolio
    BY <1>3, HistoryHalfWritten DEF CrashInPortfolio
  <1>4. CASE CreatePolicy
    <2>1. PICK p \in Ids(home, "portfolio.create"), eff \in book.dates :
            Write(Event("policy.create", [portfolio |-> p], eff, Now, [rules |-> "first", number |-> 0]))
      BY <1>4 DEF CreatePolicy
    <2>2. Grounded(home, AsRow("policy.create", Now, [portfolio |-> p], eff, Now, Now,
                               [rules |-> "first", number |-> 0]))
      OBVIOUS
    <2> QED BY <1>0, <2>1, <2>2, EventKept
  <1>5. CASE AddVersion
    <2>1. PICK p \in Ids(home, "policy.create"), eff \in book.dates, known \in Times :
            Write(Event("policy.add_version", [policy |-> p], eff, known, [rules |-> "other", number |-> 0]))
      BY <1>5 DEF AddVersion
    <2>2. Grounded(home, AsRow("policy.add_version", Now, [policy |-> p], eff, known, Now,
                               [rules |-> "other", number |-> 0]))
      OBVIOUS
    <2> QED BY <2>1, <2>2, EventKept
  <1> QED BY <1>1, <1>2, <1>3, <1>4, <1>5

LEMMA DecisionHistory ==
  ASSUME RebuildInv, HistoryInv,
         CreatePlan \/ CreateDecision \/ LinkPolicy \/ LinkTransaction \/ Review
  PROVE  HistoryInv'
PROOF
  <1> USE DEF Grounded, HasRefs, AsRow, Ids, Of, Operations, LinkOps, LedgerOps, VersionOps, MarketOps, ThesisOps,
             Pairing
  <1>0. Now \in Times
    BY DEF Times
  <1>1. CASE CreatePlan
    <2>0. PICK p \in Ids(home, "policy.create"), eff \in book.dates, known \in Times :
            \E v \in {Newest(s) : s \in {InForce(home, p, eff, known)} \ {{}}} :
              Write(Event("planning.create", [policy |-> p, version |-> v.id], eff, known,
                          Comparison(home, p, v.id, eff, known)))
      BY <1>1 DEF CreatePlan
    <2>1. PICK v \in {Newest(s) : s \in {InForce(home, p, eff, known)} \ {{}}} :
            Write(Event("planning.create", [policy |-> p, version |-> v.id], eff, known,
                        Comparison(home, p, v.id, eff, known)))
      BY <2>0
    <2> DEFINE S == InForce(home, p, eff, known)
               val == Comparison(home, p, v.id, eff, known)
    <2>2. S # {} /\ v = Newest(S)
      OBVIOUS
    <2>3. v \in home
      <3>1. S \subseteq home
        BY DEF InForce, Visible, VersionsOf
      <3>2. (\A r \in S : Timed(r)) /\ (\A r, s \in S : r.id = s.id => r = s)
        BY <3>1, HistoryIsSound DEF Sound, Good
      <3> HIDE DEF S
      <3> QED BY <2>2, <3>1, <3>2, NewestExists
    <2> HIDE DEF val
    <2>4. Grounded(home, AsRow("planning.create", Now, [policy |-> p, version |-> v.id], eff, known, Now, val))
      BY <2>3
    <2>5. Compared(home, Event("planning.create", [policy |-> p, version |-> v.id], eff, known, val))
      BY <2>2 DEF Compared, Event, val
    <2> QED BY <2>1, <2>4, <2>5, EventKept DEF val
  <1>2. CASE CreateDecision
    <2>1. PICK p \in Ids(home, "portfolio.create"), eff \in book.dates :
            \/ Write(Event("decision.create", [portfolio |-> p], eff, Now, <<>>))
            \/ \E v \in {r \in home : r.op \in VersionOps} :
                 Write(Event("decision.create", [portfolio |-> p, version |-> v.id], eff, Now, <<>>))
            \/ \E l \in Ids(home, "planning.create") :
                 Write(Event("decision.create", [portfolio |-> p, plan |-> l], eff, Now, <<>>))
      BY <1>2 DEF CreateDecision
    <2>2. CASE Write(Event("decision.create", [portfolio |-> p], eff, Now, <<>>))
      <3>1. Grounded(home, AsRow("decision.create", Now, [portfolio |-> p], eff, Now, Now, <<>>))
        OBVIOUS
      <3> QED BY <1>0, <2>2, <3>1, EventKept
    <2>3. ASSUME NEW v \in home,
                 Write(Event("decision.create", [portfolio |-> p, version |-> v.id], eff, Now, <<>>))
          PROVE  HistoryInv'
      <3>1. Grounded(home, AsRow("decision.create", Now, [portfolio |-> p, version |-> v.id], eff, Now, Now, <<>>))
        OBVIOUS
      <3> QED BY <1>0, <2>3, <3>1, EventKept
    <2>4. ASSUME NEW l \in Ids(home, "planning.create"),
                 Write(Event("decision.create", [portfolio |-> p, plan |-> l], eff, Now, <<>>))
          PROVE  HistoryInv'
      <3>1. Grounded(home, AsRow("decision.create", Now, [portfolio |-> p, plan |-> l], eff, Now, Now, <<>>))
        OBVIOUS
      <3> QED BY <1>0, <2>4, <3>1, EventKept
    <2> QED BY <2>1, <2>2, <2>3, <2>4
  <1>3. CASE LinkPolicy
    <2>1. PICK d \in Ids(home, "decision.create"), v \in home :
            Write(Event("decision.link_policy", [decision |-> d, version |-> v.id], Now, Now, <<>>))
      BY <1>3 DEF LinkPolicy
    <2>2. Grounded(home, AsRow("decision.link_policy", Now, [decision |-> d, version |-> v.id], Now, Now, Now, <<>>))
      OBVIOUS
    <2> QED BY <1>0, <2>1, <2>2, EventKept
  <1>4. CASE LinkTransaction
    <2>1. PICK d \in Ids(home, "decision.create"), t \in home :
            Write(Event("decision.link_transaction", [decision |-> d, tx |-> t.id], Now, Now, <<>>))
      BY <1>4 DEF LinkTransaction
    <2>2. Grounded(home, AsRow("decision.link_transaction", Now, [decision |-> d, tx |-> t.id], Now, Now, Now, <<>>))
      OBVIOUS
    <2> QED BY <1>0, <2>1, <2>2, EventKept
  <1>5. CASE Review
    <2>1. PICK d \in Ids(home, "decision.create") :
            Write(Event("decision.review", [decision |-> d], Now, Now, <<>>))
      BY <1>5 DEF Review
    <2>2. Grounded(home, AsRow("decision.review", Now, [decision |-> d], Now, Now, Now, <<>>))
      OBVIOUS
    <2> QED BY <1>0, <2>1, <2>2, EventKept
  <1> QED BY <1>1, <1>2, <1>3, <1>4, <1>5

LEMMA LedgerHistory ==
  ASSUME RebuildInv, HistoryInv,
         \/ ImportCsv \/ RecordCorrection \/ RecordCorporateAction \/ ImportMarket \/ ImportSnapshot
  PROVE  HistoryInv'
PROOF
  <1> USE DEF Grounded, HasRefs, AsRow, Operations, LinkOps, LedgerOps, VersionOps, MarketOps, ThesisOps, Pairing
  <1>0. Now \in Times /\ 1 \in Times
    BY DEF Times
  <1>1. CASE ImportCsv
    <2>1. PICK a \in Accounts, f \in Files :
            LET e == Event("ledger.import_csv", NoRefs, Now, Now,
                           [account |-> a, file |-> f, amount |-> f.amount])
            IN /\ Writable(e.op)
               /\ log' = Append(log, e)
               /\ home' = home \cup (IF Imported(home, a, f) = {} THEN {Stored(home, e, Now)} ELSE {})
               /\ UNCHANGED <<book, pc, report>>
      BY <1>1 DEF ImportCsv
    <2> DEFINE val == [account |-> a, file |-> f, amount |-> f.amount]
               e == Event("ledger.import_csv", NoRefs, Now, Now, val)
               r == Stored(home, e, Now)
               rows == IF Imported(home, a, f) = {} THEN {r} ELSE {}
    <2>2. Len(log) < book.batches /\ UNCHANGED book /\ log' = Append(log, e) /\ home' = home \cup rows
      BY <2>1 DEF Writable
    <2>3. Now \in 1..(Today - 1) /\ Now \in 0..End
      BY <2>2, TimesOfBooks
    <2>4. val.file = f /\ val.amount \in Int
      BY RecordsAssumption
    <2>5. e.val = val
      BY DEF Event
    <2> HIDE DEF val
    <2>6. Grounded(home, AsRow("ledger.import_csv", Now, NoRefs, Now, Now, Now, val))
      BY <2>4 DEF NoRefs
    <2>7. Good(home, e) /\ e.op = "ledger.import_csv" /\ e.id = Now
      BY <2>3, <2>6, EventIsGood
    <2> HIDE DEF e
    <2>8. Good(home, r)
      BY <2>4, <2>5, <2>7, HistoryIsSound, StoredIsGood
    <2>9. r.op = "ledger.import_csv" /\ r.id = Now
      BY <2>7, StoredIsKept, KeptRow DEF VersionOps, Numbered, Good
    <2> HIDE DEF r
    <2>10. Made(home, e, r)
      BY <2>7, <2>8, <2>9 DEF Made, Compared
    <2>11. IsFiniteSet(rows) /\ \A s \in rows : s.id = Now /\ Made(home, e, s)
      BY <2>9, <2>10, FS_Singleton, FS_EmptySet
    <2> HIDE DEF rows
    <2> QED BY <2>2, <2>11, HistoryAdded
  <1>2. CASE RecordCorrection
    <2>1. PICK a \in Accounts, known \in Times \cup {Now + 1},
               refs \in {NoRefs} \cup {[tx |-> t.id] : t \in {r \in home : r.op \in LedgerOps}} :
            \/ Write(Correction(a, refs, known))
            \/ HalfWrite(Correction(a, refs, known))
      BY <1>2 DEF RecordCorrection
    <2>2. CASE Write(Correction(a, refs, known))
      <3>1. Accepts(home, Correction(a, refs, known), Now) /\ Len(log) < book.batches
        BY <2>2 DEF Write, Writable
      <3>2. Correction(a, refs, known).op = "ledger.record_correction"
            /\ Correction(a, refs, known).known = known
        BY DEF Correction, Event
      <3>3. known <= Now
        BY <3>1, <3>2, AcceptsEach DEF CanCorrect
      <3>4. known \in Times
        <4>1. Now \in 0..End
          BY <3>1, TimesOfBooks
        <4> QED BY <3>3, <4>1
      <3>5. Grounded(home, AsRow("ledger.record_correction", Now, refs, Now, known, Now,
                                 [account |-> a, amount |-> 2]))
        <4>1. \A k \in DOMAIN refs : \E s \in home : s.id = refs[k]
          <5>1. CASE refs = NoRefs
            BY <5>1 DEF NoRefs
          <5>2. ASSUME NEW t \in home, refs = [tx |-> t.id]
                PROVE  \A k \in DOMAIN refs : \E s \in home : s.id = refs[k]
            BY <5>2
          <5> QED BY <5>1, <5>2
        <4> QED BY <4>1
      <3> QED BY <1>0, <2>2, <3>4, <3>5, EventKept DEF Correction
    <2> QED BY <2>1, <2>2, HistoryHalfWritten
  <1>3. CASE RecordCorporateAction
    <2>1. PICK a \in Accounts :
            LET e == Event("ledger.record_corporate_action", NoRefs, Now, Now,
                           [account |-> a, amount |-> 1])
            IN /\ Writable(e.op)
               /\ log' = Append(log, e)
               /\ home' = home \cup {e}
               /\ UNCHANGED <<book, pc, report>>
      BY <1>3 DEF RecordCorporateAction
    <2> DEFINE val == [account |-> a, amount |-> 1]
               e == Event("ledger.record_corporate_action", NoRefs, Now, Now, val)
    <2>2. Len(log) < book.batches /\ UNCHANGED book /\ log' = Append(log, e) /\ home' = home \cup {e}
      BY <2>1 DEF Writable
    <2>3. Now \in 1..(Today - 1) /\ Now \in 0..End
      BY <2>2, TimesOfBooks
    <2>4. Grounded(home, AsRow("ledger.record_corporate_action", Now, NoRefs, Now, Now, Now, val))
      BY DEF NoRefs
    <2>5. Good(home, e) /\ e.op = "ledger.record_corporate_action" /\ e.id = Now
      BY <2>3, <2>4, EventIsGood
    <2> HIDE DEF e
    <2>6. Made(home, e, e)
      BY <2>5 DEF Made, Compared
    <2>7. IsFiniteSet({e}) /\ \A s \in {e} : s.id = Now /\ Made(home, e, s)
      BY <2>5, <2>6, FS_Singleton
    <2> QED BY <2>2, <2>7, HistoryAdded
  <1>4. CASE ImportMarket
    <2>1. PICK captured \in book.prices, rows \in book.prices :
            Write(Event("market.import_csv", NoRefs, 1, 1,
                        [version |-> captured, captured |-> captured, rows |-> rows]))
      BY <1>4 DEF ImportMarket
    <2>2. Grounded(home, AsRow("market.import_csv", Now, NoRefs, 1, 1, Now,
                               [version |-> captured, captured |-> captured, rows |-> rows]))
      BY DEF NoRefs
    <2> QED BY <1>0, <2>1, <2>2, EventKept
  <1>5. CASE ImportSnapshot
    <2>1. PICK rows \in book.prices :
            Write(Event("market.import_snapshot", NoRefs, 1, 1,
                        [version |-> rows, captured |-> rows, rows |-> rows]))
      BY <1>5 DEF ImportSnapshot
    <2>2. Grounded(home, AsRow("market.import_snapshot", Now, NoRefs, 1, 1, Now,
                               [version |-> rows, captured |-> rows, rows |-> rows]))
      BY DEF NoRefs
    <2> QED BY <1>0, <2>1, <2>2, EventKept
  <1> QED BY <1>1, <1>2, <1>3, <1>4, <1>5

LEMMA ResearchHistory ==
  ASSUME RebuildInv, HistoryInv,
         \/ IngestText \/ CreateClaim \/ CreateContradiction
         \/ CreateThesis \/ ReviseThesis \/ LinkResearch
  PROVE  HistoryInv'
PROOF
  <1> USE DEF Grounded, HasRefs, AsRow, Ids, Of, Operations, LinkOps, LedgerOps, VersionOps, MarketOps, ThesisOps,
             Pairing
  <1>0. Now \in Times
    BY DEF Times
  <1>1. CASE IngestText
    <2>1. PICK known \in Times : Write(Event("research.ingest_text", NoRefs, known, known, <<>>))
      BY <1>1 DEF IngestText
    <2>2. Grounded(home, AsRow("research.ingest_text", Now, NoRefs, known, known, Now, <<>>))
      BY DEF NoRefs
    <2> QED BY <2>1, <2>2, EventKept
  <1>2. CASE CreateClaim
    <2>1. PICK d \in Ids(home, "research.ingest_text"), known \in Times :
            Write(Event("research.create_claim", [document |-> d], known, known, <<>>))
      BY <1>2 DEF CreateClaim
    <2>2. Grounded(home, AsRow("research.create_claim", Now, [document |-> d], known, known, Now, <<>>))
      OBVIOUS
    <2> QED BY <2>1, <2>2, EventKept
  <1>3. CASE CreateContradiction
    <2>1. PICK a \in Ids(home, "research.create_claim"), b \in Ids(home, "research.create_claim") :
            Write(Event("research.create_contradiction", [a |-> a, b |-> b], Now, Now, <<>>))
      BY <1>3 DEF CreateContradiction
    <2>2. Grounded(home, AsRow("research.create_contradiction", Now, [a |-> a, b |-> b], Now, Now, Now, <<>>))
      OBVIOUS
    <2> QED BY <1>0, <2>1, <2>2, EventKept
  <1>4. CASE CreateThesis
    <2>1. PICK known \in Times :
            Write(Event("research.create_thesis", NoRefs, known, known, [number |-> 1]))
      BY <1>4 DEF CreateThesis
    <2>2. Grounded(home, AsRow("research.create_thesis", Now, NoRefs, known, known, Now, [number |-> 1]))
      BY DEF NoRefs
    <2> QED BY <2>1, <2>2, EventKept
  <1>5. CASE ReviseThesis
    <2>1. PICK t \in Ids(home, "research.create_thesis"), known \in Times :
            Write(Event("research.revise_thesis", [thesis |-> t], known, known, [number |-> 0]))
      BY <1>5 DEF ReviseThesis
    <2>2. Grounded(home, AsRow("research.revise_thesis", Now, [thesis |-> t], known, known, Now, [number |-> 0]))
      OBVIOUS
    <2> QED BY <2>1, <2>2, EventKept
  <1>6. CASE LinkResearch
    <2>1. PICK f \in home, t \in home :
            Write(Event("research.link", [from |-> f.id, to |-> t.id], Now, Now, <<>>))
      BY <1>6 DEF LinkResearch
    <2>2. Grounded(home, AsRow("research.link", Now, [from |-> f.id, to |-> t.id], Now, Now, Now, <<>>))
      OBVIOUS
    <2> QED BY <1>0, <2>1, <2>2, EventKept
  <1> QED BY <1>1, <1>2, <1>3, <1>4, <1>5, <1>6

-----------------------------------------------------------------------------
(* A clean rebuild *)

\* So far the target is the source in its own ids, and nothing was refused.
CleanInv ==
  /\ pc = "done" => at = Len(log)
  /\ Whole /\ Supported =>
     /\ pc # "aborted" /\ warnings = {}
     /\ DOMAIN mapping = {r.id : r \in Before(at + 1)}
     /\ target = Twins(Before(at + 1))

\* The row of a batch, and what the target makes of the batch.
LEMMA RowOfBatch ==
  ASSUME RebuildInv, HistoryInv, Supported, NEW r \in home
  PROVE  LET h == Before(r.id)
             e == log[r.id]
         IN /\ Sound(h) /\ Good(h, e) /\ Good(h, r) /\ e.op = r.op /\ e.id = r.id
            /\ r.id \in Nat
            /\ r.op \notin Numbered => r = Kept(e, r.id) /\ r.val = e.val
            /\ r.op \notin Numbered /\ r.op \notin {"ledger.import_csv"} =>
                 r.eff = e.eff /\ r.known = e.known
            /\ r.op \notin {"ledger.import_csv", "ledger.record_corporate_action"} => Accepts(h, e, r.id)
            /\ Compared(h, r)
            /\ r.op # Pairing => r.refs = e.refs
            /\ order \in {1, -1}
            /\ Stored(Twins(h), Renamed(e), Today) = Twin(r)
            /\ Before(r.id + 1) = h \cup {r}
PROOF
  <1> DEFINE n == r.id
             h == Before(n)
             e == log[n]
  <1>1. n \in DOMAIN log /\ n \in Nat /\ r.op = e.op /\ e.id = n /\ IsRow(e) /\ order \in {1, -1}
    BY HistoryIsSound DEF RebuildInv, HomeInv, LogInv, TargetInv
  <1>2. Sound(h) /\ Made(h, e, r)
    BY <1>1, HistoryIsSound DEF HistoryInv
  <1>3. r.op \notin Numbered => r = Kept(e, n)
    BY DEF RebuildInv, HomeInv
  <1>4. r.op \notin Numbered => r.val = e.val
    BY <1>1, <1>3, KeptRow
  <1>5. r.op \notin Numbered /\ r.op # "ledger.import_csv" => r.eff = e.eff /\ r.known = e.known
    BY <1>1, <1>3, KeptTimes
  <1>6. r.op # Pairing => r.refs = e.refs
    <2>1. CASE r.op \in Numbered
      <3>1. r = Stored(h, e, n)
        BY <1>2, <2>1 DEF Made, Numbered
      <3> QED BY <1>1, <2>1, <3>1, NumberStored
    <2>2. CASE r.op \notin Numbered
      <3>1. IsRow(e) /\ r = Kept(e, n)
        BY <1>1, <1>3, <2>2
      <3>2. r.op # Pairing => e.op # "research.create_contradiction"
        BY <1>1 DEF Pairing
      <3> HIDE DEF e, n
      <3>3. e.op # "research.create_contradiction" => Kept(e, n).refs = e.refs
        BY <3>1, KeptRefs
      <3> QED BY <3>1, <3>2, <3>3
    <2> QED BY <2>1, <2>2
  <1>7. r.op # "ledger.record_corporate_action"
        /\ (r.op = "ledger.import_csv" => r.val.file.dated)
    BY DEF Supported
  <1>8. r = Stored(h, e, n)
    <2>1. CASE r.op = "ledger.import_csv"
      BY ZenonT(30), <1>1, <1>3, <2>1, StoredIsKept DEF VersionOps, Numbered
    <2>2. CASE r.op # "ledger.import_csv"
      BY <1>2, <1>7, <2>2 DEF Made
    <2> QED BY <2>1, <2>2
  <1>9. Stored(Twins(h), Renamed(e), Today) = Twin(r)
    <2>1. e.op = "ledger.import_csv" => e.val.file.dated
      BY <1>1, <1>4, <1>7 DEF Numbered
    <2>2. Stored(Twins(h), Renamed(e), Today) = Twin(Stored(h, e, n))
      <3> HIDE DEF h, e
      <3> QED BY <1>1, <1>2, <1>7, <2>1, StoredTwin DEF Made
    <2> QED BY <1>8, <2>2
  <1>10. Before(n + 1) = h \cup {r}
    <2>1. \A s \in home : s.id \in Nat /\ (s.id = n => s = r)
      BY HistoryIsSound
    <2>2. \A s \in home : s.id < n + 1 <=> s.id < n \/ s.id = n
      BY <1>1, <2>1
    <2> QED BY <2>1, <2>2 DEF Before
  <1>11. r.op \notin {"ledger.import_csv", "ledger.record_corporate_action"} => Accepts(h, e, n)
    BY <1>2 DEF Made
  <1> HIDE DEF h, e
  <1>12. Good(h, e) /\ Good(h, r) /\ Compared(h, r)
    BY <1>2 DEF Made
  <1> QED BY <1>1, <1>2, <1>3, <1>4, <1>5, <1>6, <1>9, <1>10, <1>11, <1>12 DEF h, e

\* Whatever the service accepted is accepted again.
LEMMA AcceptedAgain ==
  ASSUME order \in {1, -1}, NEW h, Sound(h), NEW e, Good(h, e), NEW now \in 0..Today,
         e.op \notin {"ledger.import_csv", "ledger.record_corporate_action"},
         Accepts(h, e, now)
  PROVE  Accepts(Twins(h), Renamed(e), Today)
PROOF
  <1>1. e.op \in Operations
    BY DEF Good, Grounded
  <1>2. CASE e.op \in {"portfolio.create", "portfolio.set_membership", "policy.create", "policy.add_version",
                       "planning.create"}
    BY <1>2, PortfoliosAcceptTwin
  <1>3. CASE e.op \in {"decision.create"} \cup LinkOps
    BY <1>3, DecisionsAcceptTwin
  <1>4. CASE e.op \in {"ledger.record_correction"} \cup MarketOps \cup ThesisOps
                        \cup {"research.ingest_text", "research.create_claim", Pairing, "research.link"}
    BY <1>4, OthersAcceptTwin
  <1> QED BY <1>1, <1>2, <1>3, <1>4 DEF Operations, LedgerOps, VersionOps

\* A batch is mapped to the ids that were drawn.
LEMMA MappedIsRenamed ==
  ASSUME RebuildInv, HistoryInv, CleanInv, Whole, Supported, Replaying,
         NEW r \in home, r.id = at + 1
  PROVE  Mappable(Batch) /\ Mapped(Batch) = Renamed(Batch)
PROOF
  <1> DEFINE h == Before(r.id)
             e == Batch
  <1>1. /\ e = log[r.id] /\ IsRow(e) /\ e.id = at + 1 /\ NewId = New(at + 1)
    BY BatchRow DEF Batch
  <1>2. Good(h, e) /\ e.op = r.op /\ (r.op # Pairing => r.refs = e.refs) /\ Sound(h)
    BY <1>1, RowOfBatch
  <1>3. DOMAIN mapping = {s.id : s \in h} /\ \A i \in DOMAIN mapping : mapping[i] = New(i)
    BY DEF CleanInv, RebuildInv, TargetInv
  <1>4. \A k \in DOMAIN e.refs : e.refs[k] \in DOMAIN mapping
    BY <1>2, <1>3 DEF Good, Grounded
  <1>5. ASSUME e.op = "research.link"
        PROVE  \A k \in DOMAIN e.refs : ResearchMapping(e.refs[k]) = New(e.refs[k])
    <2>1. DOMAIN e.refs = {"from", "to"}
      BY <1>2, <1>5 DEF Good, Grounded, HasRefs
    <2>2. {Row(home, r.refs.from).op, Row(home, r.refs.to).op} \subseteq NodeOps
      BY <1>2, <1>5 DEF Supported
    <2>3. r.refs = e.refs
      BY <1>2, <1>5 DEF Pairing
    <2>4. Row(home, e.refs["from"]).op \in NodeOps /\ Row(home, e.refs["to"]).op \in NodeOps
      BY <2>2, <2>3
    <2> QED BY <1>3, <1>4, <2>1, <2>4 DEF ResearchMapping
  <1> DEFINE refs == [k \in DOMAIN e.refs |->
                        IF e.op = "research.link" THEN ResearchMapping(e.refs[k]) ELSE mapping[e.refs[k]]]
  <1>6. refs = [k \in DOMAIN e.refs |-> New(e.refs[k])]
    BY <1>3, <1>4, <1>5
  <1>7. Mapped(e) = [e EXCEPT !.id = NewId, !.refs = refs]
    BY DEF Mapped
  <1>8. Renamed(e) = [e EXCEPT !.id = New(e.id), !.refs = refs]
    BY <1>6 DEF Renamed
  <1>9. Mapped(e) = Renamed(e)
    <2> HIDE DEF refs
    <2> QED BY <1>1, <1>7, <1>8
  <1> QED BY <1>4, <1>9 DEF Mappable

\* The row that comes of it passes the checks of the rebuild.
LEMMA NothingChanged ==
  ASSUME RebuildInv, HistoryInv, CleanInv, Whole, Supported, Replaying,
         NEW r \in home, r.id = at + 1
  PROVE  Unchanged(Batch, Twin(r))
PROOF
  <1> DEFINE h == Before(r.id)
             e == Batch
             t == Twin(r)
  <1>1. e = log[r.id]
    BY BatchRow DEF Batch
  <1>2. /\ Sound(h) /\ Good(h, e) /\ Good(h, r) /\ e.op = r.op /\ order \in {1, -1}
        /\ r.op \notin Numbered => r.val = e.val
        /\ r.op \notin Numbered /\ r.op \notin {"ledger.import_csv"} => r.eff = e.eff /\ r.known = e.known
        /\ r.op \notin {"ledger.import_csv", "ledger.record_corporate_action"} => Accepts(h, e, r.id)
        /\ Compared(h, r)
        /\ r.op # Pairing => r.refs = e.refs
    BY <1>1, RowOfBatch
  <1>3. target = Twins(h)
    BY DEF CleanInv
  <1>4. VersionUnchanged(e, t)
    BY <1>2, TwinRow DEF VersionUnchanged, VersionOps, Numbered
  <1>5. PlanUnchanged(e, t)
    <2> SUFFICES ASSUME e.op = "planning.create"
                 PROVE  PlanUnchanged(e, t)
      BY DEF PlanUnchanged
    <2>1. r.op # Pairing /\ r.op \notin Dated /\ r.op \notin Numbered /\ r.op = "planning.create"
          /\ r.op \notin {"ledger.import_csv", "ledger.record_corporate_action"}
      BY <1>2 DEF Pairing, Dated, LedgerOps, MarketOps, Numbered
    <2> DEFINE p == e.refs.policy
               S == InForce(h, p, e.eff, e.known)
               w == Newest(S)
    <2>2. p \in Ids(h, "policy.create") /\ S # {}
      <3>1. CanCreatePlan(h, e)
        BY <1>2, <2>1, AcceptsEach
      <3> QED BY <3>1 DEF CanCreatePlan
    <2>3. p \in Int
      BY <1>2, <2>2, IdsOfRows
    <2>4. S \in SUBSET h /\ \A s \in S : s.op \notin Dated
      BY DEF InForce, Visible, VersionsOf, VersionOps, Dated, LedgerOps, MarketOps
    <2>5. w \in S /\ Newest(Twins(S)) = Twin(w)
      <3> HIDE DEF S, h
      <3> QED BY <1>2, <2>2, <2>4, NewestTwin
    <2>6. r.refs = e.refs /\ r.eff = e.eff /\ r.known = e.known /\ r.val = e.val
      BY <1>2, <2>1
    <2>7. "policy" \in DOMAIN r.refs /\ "version" \in DOMAIN r.refs
      BY <1>2, <2>1 DEF Good, Grounded, HasRefs
    <2>8. t.refs["policy"] = New(r.refs["policy"]) /\ t.refs["version"] = New(r.refs["version"])
      BY <2>1, <2>7, TwinNames
    <2>9. InForce(target, t.refs.policy, e.eff, e.known) = Twins(S)
      <3>1. t.refs.policy = New(p)
        BY <2>6, <2>8
      <3> HIDE DEF p, h
      <3>2. InForce(Twins(h), New(p), e.eff, e.known) = Twins(InForce(h, p, e.eff, e.known))
        BY <1>2, <2>3, VersionTwins
      <3> QED BY <1>3, <3>1, <3>2
    <2>10. r.refs.version = w.id /\ r.val = Comparison(h, p, w.id, e.eff, e.known)
      BY <1>2, <2>1, <2>6 DEF Compared
    <2>11. Comparison(target, t.refs.policy, Twin(w).id, e.eff, e.known) = e.val
      <3>1. w \in h
        BY <2>4, <2>5
      <3>2. t.refs.policy = New(p) /\ Twin(w).id = New(w.id)
        BY <2>6, <2>8, TwinRow
      <3> HIDE DEF h, p, w
      <3>3. Comparison(Twins(h), New(p), New(w.id), e.eff, e.known) = Comparison(h, p, w.id, e.eff, e.known)
        BY <1>2, <2>2, <3>1, ComparisonOfTwins
      <3> QED BY <1>3, <2>6, <2>10, <3>2, <3>3
    <2>12. t.refs.version = Twin(w).id
      BY <2>8, <2>10, TwinRow
    <2> HIDE DEF S, w, t
    <2> QED BY <2>5, <2>9, <2>11, <2>12 DEF PlanUnchanged
  <1> QED BY <1>4, <1>5 DEF Unchanged

\* A batch whose row was rebuilt.
LEMMA CleanReplay ==
  ASSUME RebuildInv, HistoryInv, CleanInv, Replaying,
         UNCHANGED <<source, pc, order, warnings>>, Advance,
         NEW r, Whole /\ Supported => r \in home /\ r.id = at + 1,
         Whole /\ Supported => target' = target \cup {Twin(r)}, Remember(Batch)
  PROVE  CleanInv'
PROOF
  <1>1. /\ log' = log /\ home' = home /\ pc' = "replay" /\ order' = order /\ warnings' = warnings
        /\ at' = at + 1 /\ at \in Nat /\ Batch.id = at + 1
    BY BatchRow DEF source, Advance, Replaying
  <1>2. /\ Whole' = Whole /\ Supported' = Supported
        /\ \A i : Before(i)' = Before(i)
        /\ \A s : Twin(s)' = Twin(s)
        /\ \A S : Twins(S)' = Twins(S)
    BY <1>1 DEF Whole, Supported, AccountIds, Row, Of, Before, Twins, Twin, TwinRefs, New
  <1> SUFFICES ASSUME Whole, Supported
               PROVE  /\ warnings = {}
                      /\ DOMAIN mapping' = {s.id : s \in Before(at + 1 + 1)}
                      /\ target' = Twins(Before(at + 1 + 1))
    BY <1>1, <1>2 DEF CleanInv
  <1>3. Before(at + 1 + 1) = Before(at + 1) \cup {r}
    BY RowOfBatch
  <1>4. DOMAIN mapping' = DOMAIN mapping \cup {at + 1}
    BY <1>1 DEF Remember
  <1> QED BY <1>3, <1>4 DEF CleanInv, Twins

LEMMA CleanCsv ==
  ASSUME RebuildInv, HistoryInv, CleanInv, ReplayCsv
  PROVE  CleanInv'
PROOF
  <1> DEFINE pair == <<Batch.val.account, Batch.val.file>>
             n == at + 1
             row == Stored(target, [Batch EXCEPT !.id = NewId], Today)
  <1>1. Replaying /\ Batch.op = "ledger.import_csv"
    BY DEF ReplayCsv
  <1>2. /\ n \in DOMAIN log /\ n \in Nat /\ at \in Nat /\ IsCsv(n) /\ IsRow(Batch) /\ Shape(Batch)
        /\ Pair(Batch) = pair /\ log[n] = Batch /\ Batch.id = n /\ NewId = New(n)
    BY <1>1, BatchRow DEF Pair, Batch
  <1>3. pair \in seen <=> Earlier(n) # {}
    <2>1. seen = {Pair(log[i]) : i \in {j \in 1..at : IsCsv(j)}}
      BY DEF RebuildInv, TargetInv
    <2>2. n - 1 = at /\ Pair(log[n]) = pair
      BY <1>2
    <2>3. Earlier(n) = {j \in 1..at : IsCsv(j) /\ Pair(log[j]) = pair}
      BY <2>2 DEF Earlier
    <2> QED
      BY <2>1, <2>3
  <1>4. PICK s \in home : s.op = "ledger.import_csv" /\ Pair(s) = pair
    BY <1>2, FileHasRow
  <1>5. s.val.file = Batch.val.file
    BY <1>4 DEF Pair
  <1>6. CASE pair \in seen /\ Skip
    <2>1. \A r \in home : r.id # n
      <3>1. ASSUME NEW r \in home, r.id = n
            PROVE  FALSE
        <4>1. r.op = "ledger.import_csv"
          BY <1>1, <1>2, <3>1 DEF RebuildInv, HomeInv
        <4> QED BY <1>3, <1>6, <3>1, <4>1 DEF RebuildInv, HomeInv
      <3> QED BY <3>1
    <2>2. /\ log' = log /\ home' = home /\ pc' = "replay" /\ order' = order /\ warnings' = warnings
          /\ at' = n /\ target' = target /\ mapping' = mapping /\ pc = "replay"
      BY <1>1, <1>6 DEF Skip, Keep, Advance, source, Replaying
    <2>3. /\ Whole' = Whole /\ Supported' = Supported
          /\ \A i : Before(i)' = Before(i)
          /\ \A S : Twins(S)' = Twins(S)
      BY <2>2 DEF Whole, Supported, AccountIds, Row, Of, Before, Twins, Twin, TwinRefs, New
    <2>4. Before(n + 1) = Before(n)
      <3>1. \A r \in home : r.id \in Nat
        BY HistoryIsSound
      <3>2. \A r \in home : r.id < n + 1 <=> r.id < n
        BY <1>2, <2>1, <3>1
      <3> QED BY <3>2 DEF Before
    <2> QED BY <2>2, <2>3, <2>4 DEF CleanInv
  <1>7. CASE Cardinality(AccountIds(Batch.val.file)) > 1 /\ Abort
    <2>1. log' = log /\ home' = home /\ pc' = "aborted"
      BY <1>7 DEF Abort, source
    <2>2. Whole' = Whole /\ Supported' = Supported
      BY <2>1 DEF Whole, Supported, AccountIds, Row, Of
    <2>3. ~Supported
      <3>1. Supported => Cardinality(AccountIds(s.val.file)) = 1
        BY <1>4 DEF Supported
      <3> QED BY <1>5, <1>7, <3>1
    <2> QED BY <2>1, <2>2, <2>3 DEF CleanInv
  <1>8. CASE /\ pair \notin seen
             /\ Advance
             /\ target' = target \cup {row}
             /\ Remember(Batch)
             /\ Keep
             /\ UNCHANGED warnings
    <2>1. PICK r \in home : r.id = n
      BY <1>2, <1>3, <1>8 DEF RebuildInv, HomeInv
    <2>2. ASSUME Whole, Supported
          PROVE  row = Twin(r)
      <3>1. [Batch EXCEPT !.id = NewId] = Renamed(Batch)
        BY <1>1, <1>2, RefsOfNone DEF Shape
      <3>2. target = Twins(Before(n))
        BY <2>2 DEF CleanInv
      <3>3. Stored(Twins(Before(n)), Renamed(Batch), Today) = Twin(r)
        BY <1>2, <2>1, <2>2, RowOfBatch
      <3> QED BY <3>1, <3>2, <3>3
    <2> HIDE DEF row
    <2> QED BY <1>1, <1>8, <2>1, <2>2, CleanReplay DEF Keep
  <1>9. AccountIds(Batch.val.file) # {}
    BY <1>4, <1>5 DEF AccountIds, Of
  <1> QED BY <1>6, <1>7, <1>8, <1>9 DEF ReplayCsv

LEMMA CleanMarket ==
  ASSUME RebuildInv, HistoryInv, CleanInv, ReplayMarket
  PROVE  CleanInv'
PROOF
  <1> DEFINE n == at + 1
             row == Stored(target, [Batch EXCEPT !.id = NewId], Today)
  <1>1. Replaying /\ Batch.op = "market.import_csv"
    BY DEF ReplayMarket
  <1>2. /\ n \in DOMAIN log /\ n \in Nat /\ IsRow(Batch) /\ Shape(Batch)
        /\ log[n] = Batch /\ Batch.id = n /\ NewId = New(n)
    BY <1>1, BatchRow DEF Batch
  <1>3. ASSUME Whole, Supported
        PROVE  \E r \in home : r.id = n /\ row = Twin(r) /\ Batch.val.captured = Batch.val.rows
    <2>1. PICK r \in home : r.id = n
      BY <1>1, <1>2, <1>3 DEF Whole
    <2>2. r.op = Batch.op /\ r.val = Batch.val /\ Stored(Twins(Before(n)), Renamed(Batch), Today) = Twin(r)
      BY <1>1, <1>2, <1>3, <2>1, RowOfBatch DEF Numbered
    <2>3. r.val.captured = r.val.rows
      BY <1>1, <1>3, <2>2 DEF Supported
    <2>4. [Batch EXCEPT !.id = NewId] = Renamed(Batch)
      BY <1>1, <1>2, RefsOfNone DEF Shape, MarketOps
    <2>5. target = Twins(Before(n))
      BY <1>3 DEF CleanInv
    <2> QED BY <2>1, <2>2, <2>3, <2>4, <2>5
  <1>4. CASE Batch.val.captured # Batch.val.rows /\ Abort
    <2>1. log' = log /\ home' = home /\ pc' = "aborted"
      BY <1>4 DEF Abort, source
    <2>2. Whole' = Whole /\ Supported' = Supported
      BY <2>1 DEF Whole, Supported, AccountIds, Row, Of
    <2> QED BY <1>3, <1>4, <2>1, <2>2 DEF CleanInv
  <1>5. CASE /\ target' = target \cup {row}
             /\ Remember(Batch)
             /\ Advance /\ Keep /\ UNCHANGED <<seen, warnings>>
    <2> HIDE DEF row
    <2>1. PICK r : Whole /\ Supported => r \in home /\ r.id = n /\ row = Twin(r)
      BY <1>3
    <2> QED BY <1>1, <1>5, <2>1, CleanReplay DEF Keep
  <1> QED BY <1>4, <1>5 DEF ReplayMarket

LEMMA CleanEvent ==
  ASSUME RebuildInv, HistoryInv, CleanInv, ReplayEvent
  PROVE  CleanInv'
PROOF
  <1> DEFINE n == at + 1
             row == Stored(target, Mapped(Batch), Today)
  <1>1. Replaying /\ Batch.op \notin {"ledger.import_csv", "market.import_csv"}
    BY DEF ReplayEvent
  <1>2. n \in DOMAIN log /\ n \in Nat /\ log[n] = Batch /\ Batch.id = n
    BY <1>1, BatchRow DEF Batch
  <1>3. ASSUME Whole, Supported
        PROVE  \E r \in home : r.id = n /\ row = Twin(r) /\ Replayable(Batch) /\ Unchanged(Batch, row)
    <2>1. PICK r \in home : r.id = n
      BY <1>1, <1>2, <1>3 DEF Whole
    <2> DEFINE h == Before(n)
    <2>2. /\ Sound(h) /\ Good(h, Batch) /\ r.op = Batch.op /\ order \in {1, -1}
          /\ r.op \notin {"ledger.import_csv", "ledger.record_corporate_action"} => Accepts(h, Batch, n)
          /\ Stored(Twins(h), Renamed(Batch), Today) = Twin(r)
      BY <1>2, <1>3, <2>1, RowOfBatch
    <2>3. Batch.op \notin {"ledger.import_csv", "ledger.record_corporate_action", "market.import_snapshot"}
      BY <1>1, <1>3, <2>2 DEF Supported
    <2>4. target = Twins(h)
      BY <1>3 DEF CleanInv
    <2>5. Mappable(Batch) /\ Mapped(Batch) = Renamed(Batch)
      BY <1>1, <1>3, <2>1, MappedIsRenamed
    <2>6. Accepts(Twins(h), Renamed(Batch), Today)
      <3>1. n \in 0..Today
        BY <2>1, RebuildAssumption, RecordsAssumption DEF HistoryInv, Made, Good, Timed
      <3> HIDE DEF h, n
      <3> QED BY <2>2, <2>3, <3>1, AcceptedAgain
    <2>7. Replayable(Batch)
      BY <2>3, <2>4, <2>5, <2>6 DEF Replayable
    <2>8. row = Twin(r)
      BY <2>2, <2>4, <2>5
    <2>9. Unchanged(Batch, Twin(r))
      BY <1>1, <1>3, <2>1, NothingChanged
    <2> QED BY <2>1, <2>7, <2>8, <2>9
  <1>4. CASE (Replayable(Batch) /\ ~Unchanged(Batch, row) /\ Abort) \/ (~Replayable(Batch) /\ Warn)
    <2>1. log' = log /\ home' = home /\ pc' # "done"
      BY <1>1, <1>4 DEF Abort, Warn, Keep, source, Replaying
    <2>2. Whole' = Whole /\ Supported' = Supported
      BY <2>1 DEF Whole, Supported, AccountIds, Row, Of
    <2> HIDE DEF row
    <2> QED BY <1>3, <1>4, <2>1, <2>2 DEF CleanInv
  <1>5. CASE Replay(Batch) /\ Advance /\ Keep /\ UNCHANGED <<seen, warnings>>
    <2>0. target' = target \cup {row} /\ Remember(Batch)
      BY <1>5 DEF Replay
    <2> HIDE DEF row
    <2>1. PICK r : Whole /\ Supported => r \in home /\ r.id = n /\ row = Twin(r)
      BY <1>3
    <2> QED BY <1>1, <1>5, <2>0, <2>1, CleanReplay DEF Keep
  <1> QED BY <1>4, <1>5 DEF ReplayEvent

\* The source is written only before the rebuild.
LEMMA WritesAreOpen ==
  ASSUME \/ CreatePortfolio \/ SetMembership \/ CrashInPortfolio
         \/ CreatePolicy \/ AddVersion \/ CreatePlan
         \/ CreateDecision \/ LinkPolicy \/ LinkTransaction \/ Review
         \/ ImportCsv \/ RecordCorrection \/ RecordCorporateAction
         \/ ImportMarket \/ ImportSnapshot
         \/ IngestText \/ CreateClaim \/ CreateContradiction
         \/ CreateThesis \/ ReviseThesis \/ LinkResearch
  PROVE  pc' = "open"
PROOF
  <1> USE DEF Write, HalfWrite, Writable
  <1>1. CASE CreatePortfolio \/ SetMembership \/ CrashInPortfolio \/ CreatePolicy \/ AddVersion
    BY ZenonT(30), <1>1 DEF CreatePortfolio, SetMembership, CrashInPortfolio, CreatePolicy, AddVersion
  <1>2. CASE CreatePlan
    BY <1>2 DEF CreatePlan
  <1>3. CASE CreateDecision
    BY <1>3 DEF CreateDecision
  <1>4. CASE LinkPolicy \/ LinkTransaction \/ Review
    BY <1>4 DEF LinkPolicy, LinkTransaction, Review
  <1>5. CASE ImportCsv \/ RecordCorrection \/ RecordCorporateAction \/ ImportMarket \/ ImportSnapshot
    BY <1>5 DEF ImportCsv, RecordCorrection, RecordCorporateAction, ImportMarket, ImportSnapshot
  <1>6. CASE \/ IngestText \/ CreateClaim \/ CreateContradiction
             \/ CreateThesis \/ ReviseThesis \/ LinkResearch
    BY <1>6 DEF IngestText, CreateClaim, CreateContradiction, CreateThesis, ReviseThesis, LinkResearch
  <1> QED BY <1>1, <1>2, <1>3, <1>4, <1>5, <1>6

\* Before the rebuild, and when it begins, there is no target.
LEMMA CleanStart ==
  ASSUME RebuildInv', Idle', pc' \notin {"done", "aborted"}
  PROVE  CleanInv'
PROOF
  <1>1. \A r \in home' : r.id \in DOMAIN log'
    BY DEF RebuildInv, HomeInv
  <1>2. DOMAIN log' = 1..Len(log')
    BY SeqAppended DEF RebuildInv, LogInv
  <1>3. Before(at + 1)' = {}
    BY <1>1, <1>2 DEF Idle, Before
  <1>4. DOMAIN mapping' = {}
    BY DEF Idle
  <1> QED BY <1>3, <1>4 DEF Idle, CleanInv, Twins

\* Whatever was written, and wherever the rebuild stands: a row of the source was made
\* by its service of its batch, in the home of the rows before it; and a clean rebuild
\* has in its target just the twins of the rows of the batches that it has replayed.
THEOREM CleanRebuildInvariant == Spec => [](HistoryInv /\ CleanInv)
PROOF
  <1>1. Init => HistoryInv
    <2> SUFFICES ASSUME Init PROVE HistoryInv
      OBVIOUS
    <2>1. home = {} /\ Len(log) = 0 /\ book \in Books
      BY DEF Init
    <2>2. 0 < Today
      BY RebuildAssumption, RecordsAssumption
    <2> QED BY <2>1, <2>2, FS_EmptySet DEF HistoryInv
  <1>2. RebuildInv /\ HistoryInv /\ [Next]_vars => HistoryInv'
    <2> SUFFICES ASSUME RebuildInv, HistoryInv, [Next]_vars
                 PROVE  HistoryInv'
      OBVIOUS
    <2>1. CASE CreatePortfolio \/ SetMembership \/ CrashInPortfolio \/ CreatePolicy \/ AddVersion
      BY <2>1, PortfolioHistory
    <2>2. CASE CreatePlan \/ CreateDecision \/ LinkPolicy \/ LinkTransaction \/ Review
      BY <2>2, DecisionHistory
    <2>3. CASE ImportCsv \/ RecordCorrection \/ RecordCorporateAction \/ ImportMarket \/ ImportSnapshot
      BY <2>3, LedgerHistory
    <2>4. CASE \/ IngestText \/ CreateClaim \/ CreateContradiction
               \/ CreateThesis \/ ReviseThesis \/ LinkResearch
      BY <2>4, ResearchHistory
    <2>5. CASE \/ \E o \in {1, -1} : Start(o)
               \/ ReplayCsv \/ ReplayMarket \/ ReplayEvent \/ Compare \/ UNCHANGED vars
      <3>1. book' = book /\ log' = log /\ home' = home
        BY <2>5 DEF Start, ReplayCsv, ReplayMarket, ReplayEvent, Compare, vars, source, Keep, Abort, Skip, Warn
      <3> QED BY <3>1 DEF HistoryInv, Before
    <2> QED BY <2>1, <2>2, <2>3, <2>4, <2>5 DEF Next
  <1>3. Init => CleanInv
    <2> SUFFICES ASSUME Init PROVE CleanInv
      OBVIOUS
    <2>1. Before(at + 1) = {} /\ DOMAIN mapping = {}
      BY DEF Init, Before
    <2> QED BY <2>1 DEF Init, CleanInv, Twins
  <1>4. /\ RebuildInv /\ HistoryInv /\ CleanInv
        /\ RebuildInv'
        /\ [Next]_vars
        => CleanInv'
    <2> SUFFICES ASSUME RebuildInv, HistoryInv, CleanInv, RebuildInv', [Next]_vars
                 PROVE  CleanInv'
      OBVIOUS
    <2>1. CASE ReplayCsv
      BY <2>1, CleanCsv
    <2>2. CASE ReplayMarket
      BY <2>2, CleanMarket
    <2>3. CASE ReplayEvent
      BY <2>3, CleanEvent
    <2>4. CASE Compare \/ UNCHANGED vars
      <3>1. /\ UNCHANGED <<log, home, order, at, target, mapping, warnings>>
            /\ \/ pc' = pc
               \/ pc' = "done" /\ at = Len(log) /\ pc # "aborted"
        BY <2>4 DEF Compare, vars, source
      <3>2. /\ Whole' = Whole /\ Supported' = Supported
            /\ \A i : Before(i)' = Before(i)
            /\ \A S : Twins(S)' = Twins(S)
        BY <3>1 DEF Whole, Supported, AccountIds, Row, Of, Before, Twins, Twin, TwinRefs, New
      <3> QED BY <3>1, <3>2 DEF CleanInv
    <2>5. CASE \E o \in {1, -1} : Start(o)
      <3>1. Idle' /\ pc' = "replay"
        BY <2>5 DEF Start, RebuildInv, TargetInv, Idle
      <3> QED BY <3>1, CleanStart
    <2>6. CASE \/ CreatePortfolio \/ SetMembership \/ CrashInPortfolio
               \/ CreatePolicy \/ AddVersion \/ CreatePlan
               \/ CreateDecision \/ LinkPolicy \/ LinkTransaction \/ Review
               \/ ImportCsv \/ RecordCorrection \/ RecordCorporateAction
               \/ ImportMarket \/ ImportSnapshot
               \/ IngestText \/ CreateClaim \/ CreateContradiction
               \/ CreateThesis \/ ReviseThesis \/ LinkResearch
      <3>1. pc' = "open"
        BY <2>6, WritesAreOpen
      <3>2. Idle'
        BY <3>1 DEF RebuildInv, TargetInv
      <3> QED BY <3>1, <3>2, CleanStart
    <2> QED BY <2>1, <2>2, <2>3, <2>4, <2>5, <2>6 DEF Next
  <1> QED BY <1>1, <1>2, <1>3, <1>4, RebuildInvariant, PTL DEF Spec

-----------------------------------------------------------------------------
(* The target of a clean rebuild *)

\* Every row was rebuilt, and the target has nothing else.
Rebuilt ==
  /\ order \in {1, -1}
  /\ Sound(home)
  /\ \A r \in home : r.id \in DOMAIN mapping
  /\ \A i \in DOMAIN mapping : mapping[i] = New(i)
  /\ target = Twins(home)

LEMMA CleanIsRebuilt ==
  ASSUME RebuildInv, HistoryInv, CleanInv, Whole, Supported, at = Len(log)
  PROVE  Rebuilt
PROOF
  <1>1. Before(at + 1) = home
    <2>1. \A r \in home : r.id \in 1..Len(log)
      BY HistoryIsSound, SeqAppended DEF RebuildInv, LogInv
    <2>2. Len(log) \in Nat
      BY SeqAppended DEF RebuildInv, LogInv
    <2> QED BY <2>1, <2>2 DEF Before
  <1>2. target = Twins(home) /\ \A r \in home : r.id \in DOMAIN mapping
    BY <1>1 DEF CleanInv
  <1>3. order \in {1, -1} /\ \A i \in DOMAIN mapping : mapping[i] = New(i)
    BY DEF RebuildInv, TargetInv
  <1> QED BY <1>2, <1>3, HistoryIsSound DEF Rebuilt

\* The image of a row, as the comparison sees it, is its twin.
LEMMA ImageIsTwin ==
  ASSUME Rebuilt, NEW r \in home
  PROVE  /\ Alike(Image(r), Twin(r))
         /\ r.op \notin Dated \cup {Pairing} => Image(r) = Twin(r)
PROOF
  <1> DEFINE refs == [k \in DOMAIN r.refs |->
                        IF r.refs[k] \in DOMAIN mapping THEN mapping[r.refs[k]] ELSE r.refs[k]]
             m == Image(r)
             t == Twin(r)
  <1>1. IsRow(r) /\ \A k \in DOMAIN r.refs : r.refs[k] \in DOMAIN mapping
    BY DEF Rebuilt, Sound, Good, Grounded
  <1>2. refs = [k \in DOMAIN r.refs |-> New(r.refs[k])]
    BY <1>1 DEF Rebuilt
  <1>3. mapping[r.id] = New(r.id)
    BY DEF Rebuilt
  <1>4. m = [r EXCEPT !.id = mapping[r.id], !.refs = refs]
    BY DEF Image
  <1>5. m = AsRow(r.op, New(r.id), refs, r.eff, r.known, r.rec, r.val)
    <2> HIDE DEF refs, m
    <2> QED BY <1>1, <1>3, <1>4, NamesChanged
  <1>6. /\ IsRow(m) /\ m.op = r.op /\ m.id = New(r.id) /\ m.refs = refs
        /\ m.eff = r.eff /\ m.known = r.known /\ m.rec = r.rec /\ m.val = r.val
    <2> HIDE DEF refs, m
    <2> QED BY <1>5, AsRowIsRow
  <1>7. /\ IsRow(t) /\ t.op = r.op /\ t.id = New(r.id) /\ t.refs = TwinRefs(r)
        /\ t.eff = r.eff /\ t.known = r.known /\ t.val = r.val
        /\ r.op \notin Dated => t.rec = r.rec
    BY TwinRow
  <1>8. r.op # Pairing => TwinRefs(r) = refs
    BY <1>2 DEF TwinRefs
  <1>9. ASSUME r.op = Pairing
        PROVE  {m.refs.a, m.refs.b} = {t.refs.a, t.refs.b}
    <2> DEFINE a == r.refs.a
               b == r.refs.b
    <2>1. r.refs = [a |-> a, b |-> b]
      BY <1>9 DEF Rebuilt, Sound, Good, Grounded, HasRefs
    <2>2. "a" \in DOMAIN r.refs /\ "b" \in DOMAIN r.refs
      BY <2>1
    <2>3. r.refs["a"] \in Int /\ r.refs["b"] \in Int
      BY <2>2, IdsOfRows DEF Rebuilt
    <2>4. m.refs["a"] = New(r.refs["a"]) /\ m.refs["b"] = New(r.refs["b"])
      <3>1. refs["a"] = New(r.refs["a"]) /\ refs["b"] = New(r.refs["b"])
        BY <1>2, <2>2
      <3> HIDE DEF m, refs
      <3> QED BY <1>6, <3>1
    <2>5. TwinRefs(r) = [a |-> Min({New(a), New(b)}), b |-> Max({New(a), New(b)})]
      BY <1>9 DEF TwinRefs
    <2>6. New(a) \in Int /\ New(b) \in Int
      BY <2>3, NewIds DEF Rebuilt
    <2>7. {Min({New(a), New(b)}), Max({New(a), New(b)})} = {New(a), New(b)}
      BY <2>6, MinMaxOfTwo
    <2>8. t.refs.a = Min({New(a), New(b)}) /\ t.refs.b = Max({New(a), New(b)})
      <3> HIDE DEF t
      <3> QED BY <1>7, <2>5
    <2> HIDE DEF m, t
    <2> QED BY <2>4, <2>7, <2>8
  <1> HIDE DEF m, t, refs
  <1>10. Alike(m, t)
    BY <1>6, <1>7, <1>8, <1>9 DEF Alike, Dated, Pairing
  <1>11. r.op \notin Dated \cup {Pairing} => m = t
    BY <1>6, <1>7, <1>8 DEF IsRow
  <1> QED BY <1>10, <1>11 DEF m, t

LEMMA RebuiltIsSame ==
  ASSUME Rebuilt
  PROVE  SameHome
PROOF
  <1>1. \A r \in home : Known(r)
    BY DEF Rebuilt, Known
  <1>2. \A r \in home : Meaning(Image(r)) = Meaning(Twin(r))
    BY ImageIsTwin, SameMeaning
  <1>3. target = {Twin(r) : r \in home}
    BY DEF Rebuilt, Twins
  <1>4. {Meaning(Image(r)) : r \in home} = {Meaning(t) : t \in target}
    BY <1>2, <1>3
  <1> QED BY <1>1, <1>4 DEF SameHome

\* The comparison finds nothing: neither a thesis nor a contradiction is there.
LEMMA RebuiltIsConsistent ==
  ASSUME Rebuilt, warnings = {}, \A r \in home : r.op \notin ThesisOps \cup {Pairing}
  PROVE  Consistent
PROOF
  <1>1. order \in {1, -1} /\ Sound(home) /\ target = Twins(home)
    BY DEF Rebuilt
  <1>2. \A op, i : i \in Ids(home, op) => i \in Int /\ i \in DOMAIN mapping /\ mapping[i] = New(i)
    BY <1>1, IdsOfRows DEF Rebuilt, Ids, Of
  <1>3. \A r \in home : Known(r) /\ (r.op \notin Dated => Image(r) = Twin(r))
    BY ImageIsTwin DEF Rebuilt, Known
  <1>4. \A r \in home : r.op \notin Dated => Mirrored(r)
    BY <1>1, <1>3 DEF Mirrored, Twins
  <1>5. AccountsMatch
    BY <1>1, BalanceOfTwins DEF AccountsMatch
  <1>6. PortfoliosMatch
    BY <1>1, <1>2, MembersOfTwins DEF PortfoliosMatch
  <1>7. PoliciesMatch
    <2> SUFFICES ASSUME NEW p \in Ids(home, "policy.create")
                 PROVE  /\ p \in DOMAIN mapping
                        /\ \A v \in VersionsOf(home, p) : Known(v)
                        /\ VersionsOf(target, mapping[p]) = {Image(v) : v \in VersionsOf(home, p)}
      BY DEF PoliciesMatch
    <2>1. VersionsOf(Twins(home), New(p)) = Twins(VersionsOf(home, p))
      BY <1>1, <1>2, VersionTwins
    <2>2. \A v \in VersionsOf(home, p) : v \in home /\ v.op \notin Dated
      BY DEF VersionsOf, VersionOps, Dated, LedgerOps, MarketOps
    <2> QED BY <1>1, <1>2, <1>3, <2>1, <2>2 DEF Twins
  <1>8. PlansMatch
    BY <1>4 DEF PlansMatch, Of, Dated, LedgerOps, MarketOps
  <1>9. DecisionsMatch
    <2> SUFFICES ASSUME NEW d \in Of(home, "decision.create")
                 PROVE  /\ Mirrored(d)
                        /\ \A r \in LinksOf(home, d.id) : Known(r)
                        /\ Contents(LinksOf(target, mapping[d.id]))
                             = Contents({Image(r) : r \in LinksOf(home, d.id)})
      BY DEF DecisionsMatch
    <2>1. d \in home /\ d.id \in Int /\ mapping[d.id] = New(d.id) /\ Mirrored(d)
      BY <1>1, <1>4, IdsOfRows DEF Of, Rebuilt, Dated, LedgerOps, MarketOps
    <2>2. \A r \in home : r.op \in LinkOps =>
            /\ r.op \notin Dated
            /\ Twin(r).refs.decision = New(d.id) <=> r.refs.decision = d.id
      <3> SUFFICES ASSUME NEW r \in home, r.op \in LinkOps
                   PROVE  /\ r.op \notin Dated
                          /\ Twin(r).refs.decision = New(d.id) <=> r.refs.decision = d.id
        OBVIOUS
      <3>1. r.op # Pairing /\ r.op \notin Dated
        BY DEF LinkOps, Pairing, Dated, LedgerOps, MarketOps
      <3>2. "decision" \in DOMAIN r.refs /\ r.refs["decision"] \in Int
        BY <1>1, IdsOfRows DEF Sound, Good, Grounded, HasRefs
      <3>3. Twin(r).refs["decision"] = New(r.refs["decision"])
        BY <3>1, <3>2, TwinNames
      <3> QED BY <1>1, <2>1, <3>1, <3>2, <3>3, NewIds
    <2>3. LinksOf(Twins(home), New(d.id)) = {Image(r) : r \in LinksOf(home, d.id)}
      BY <1>3, <2>2, TwinRow DEF LinksOf, Twins
    <2>4. \A r \in LinksOf(home, d.id) : Known(r)
      BY <1>3 DEF LinksOf
    <2> QED BY <1>1, <2>1, <2>3, <2>4
  <1>10. ResearchMatch
    <2>1. ASSUME NEW op, op \notin Dated
          PROVE  SameContents({op})
      <3>1. {r \in target : r.op \in {op}} = {Image(r) : r \in {s \in home : s.op \in {op}}}
        BY <1>1, <1>3, <2>1, TwinRow DEF Twins
      <3> QED BY <1>3, <3>1 DEF SameContents
    <2>2. \A d \in Of(home, "research.ingest_text") : Mirrored(d)
      BY <1>4 DEF Of, Dated, LedgerOps, MarketOps
    <2>3. {r \in home \cup target : r.op \in ThesisOps} = {}
      BY <1>1, TwinRow DEF Twins
    <2> QED BY <2>1, <2>2, <2>3 DEF ResearchMatch, Dated, LedgerOps, MarketOps
  <1> QED BY <1>5, <1>6, <1>7, <1>8, <1>9, <1>10 DEF Consistent

\* A home whose every write was completed, and that uses only what the rebuild replays,
\* is rebuilt: no batch is refused where its turn comes, nothing aborts, and the target
\* is the source with all of its history.
THEOREM CleanRebuildsAreWhole == Spec => []CleanRebuildWhole
PROOF
  <1>1. RebuildInv /\ HistoryInv /\ CleanInv => CleanRebuildWhole
    <2> SUFFICES ASSUME RebuildInv, HistoryInv, CleanInv, Whole, Supported
                 PROVE  pc # "aborted" /\ warnings = {} /\ (pc = "done" => SameHome)
      BY DEF CleanRebuildWhole
    <2>1. pc = "done" => SameHome
      BY CleanIsRebuilt, RebuiltIsSame DEF CleanInv
    <2> QED BY <2>1 DEF CleanInv
  <1> QED BY <1>1, RebuildInvariant, CleanRebuildInvariant, PTL

\* The report of such a rebuild says "consistent", if there is neither a thesis nor a
\* contradiction: it raises no false alarm.
THEOREM CleanRebuildsAreConsistent == Spec => []NoFalseAlarm
PROOF
  <1>1. Init => NoFalseAlarm
    BY DEF Init, NoFalseAlarm
  <1>2. /\ RebuildInv /\ HistoryInv /\ CleanInv
        /\ NoFalseAlarm
        /\ [Next]_vars
        /\ RebuildInv'
        => NoFalseAlarm'
    <2> SUFFICES ASSUME RebuildInv, HistoryInv, CleanInv, NoFalseAlarm, [Next]_vars, RebuildInv',
                        pc' = "done", Whole', Supported',
                        \A r \in home' : r.op \notin ThesisOps \cup {Pairing}
                 PROVE  verdict' = "consistent"
      BY DEF NoFalseAlarm, Pairing
    <2>1. CASE Compare
      <3>1. log' = log /\ home' = home /\ at = Len(log)
            /\ verdict' = IF Consistent THEN "consistent" ELSE "inconsistent"
        BY <2>1 DEF Compare, source
      <3>2. Whole' = Whole /\ Supported' = Supported
        BY <3>1 DEF Whole, Supported, AccountIds, Row, Of
      <3>3. Consistent
        BY <3>1, <3>2, CleanIsRebuilt, RebuiltIsConsistent DEF CleanInv
      <3> QED BY <3>1, <3>3
    <2>2. CASE UNCHANGED vars
      <3>1. log' = log /\ home' = home /\ pc' = pc /\ verdict' = verdict
        BY <2>2 DEF vars
      <3>2. Whole' = Whole /\ Supported' = Supported
        BY <3>1 DEF Whole, Supported, AccountIds, Row, Of
      <3> QED BY <3>1, <3>2 DEF NoFalseAlarm, Pairing
    <2>3. CASE (\E o \in {1, -1} : Start(o)) \/ ReplayCsv \/ ReplayMarket \/ ReplayEvent
      BY <2>3 DEF Start, ReplayCsv, ReplayMarket, ReplayEvent, Replaying, Keep, Skip, Abort, Warn
    <2>4. CASE \/ CreatePortfolio \/ SetMembership \/ CrashInPortfolio
               \/ CreatePolicy \/ AddVersion \/ CreatePlan
               \/ CreateDecision \/ LinkPolicy \/ LinkTransaction \/ Review
               \/ ImportCsv \/ RecordCorrection \/ RecordCorporateAction
               \/ ImportMarket \/ ImportSnapshot
               \/ IngestText \/ CreateClaim \/ CreateContradiction
               \/ CreateThesis \/ ReviseThesis \/ LinkResearch
      BY <2>4, WritesAreOpen
    <2> QED BY <2>1, <2>2, <2>3, <2>4 DEF Next
  <1> QED BY <1>1, <1>2, RebuildInvariant, CleanRebuildInvariant, PTL DEF Spec
=============================================================================
