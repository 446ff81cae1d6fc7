----------------------------- MODULE HomeProofs -----------------------------
(***************************************************************************)
(* Theorems about the processes around a home: its schema, and its         *)
(* backups; the daemon that holds its lease, the calls that it serves and  *)
(* the plugin that it runs in a subprocess.                                *)
(*                                                                         *)
(* SchemaMigration: for every set of processes and programs, every number  *)
(* of statements and every database found, what is recorded as applied is  *)
(* applied, and as long as no two processes overlap the version only moves *)
(* forward.                                                                *)
(*                                                                         *)
(* BackupRestore: for every set of processes, artifacts and bundles, as    *)
(* long as restores had the home for themselves, bundles verify and a      *)
(* restore that comes to its end is whole, even if processes are killed;   *)
(* if none was killed, every restore is in the log, and every artifact     *)
(* that is cited is there unless another home's database was restored      *)
(* without its artifacts.                                                  *)
(***************************************************************************)
EXTENDS SchemaMigration, BackupRestore, DaemonLease, Confirmation, PluginRunner, TLAPS

-----------------------------------------------------------------------------
(* Schema migrations *)

\* The processes past the baseline.
Based == {"stamp", "meta", "check", "migrate", "open"}

\* What a process may rely on at each point of migrate(): up to where it has
\* got, the migrations are recorded, and since they were compared, as it has them.
Reached(p) ==
  /\ stage[p] \in Based => base
  /\ stage[p] = "baseline" => at[p] <= 1
  /\ stage[p] \in {"meta", "check"} => at[p] >= 1 /\ 2..at[p] \subseteq Recorded
  /\ stage[p] = "migrate" =>
       /\ at[p] >= 2
       /\ \A v \in 2..(at[p] - 1) : <<v, Contract[p][v]>> \in ledger
       /\ \A s \in 1..Statements : s < stmt[p] => <<at[p], Contract[p][at[p]], s>> \in applied
  /\ stage[p] = "open" => \A v \in 2..Supports[p] : <<v, Contract[p][v]>> \in ledger

AppliedInv ==
  /\ version > 0 => base
  /\ RecordedMeansApplied
  /\ \A p \in Openers : Reached(p)

\* A process applies only migrations that its program knows.
InRange == \A p \in Openers : stage[p] = "migrate" => at[p] \in 1..Supports[p]

\* What a row adds to the versions that have one.
LEMMA RowAdded ==
  ASSUME NEW v, NEW c, ledger' = ledger \cup {<<v, c>>}
  PROVE  Recorded' = Recorded \cup {v}
<1>1. ASSUME NEW row \in ledger' PROVE row[1] \in Recorded \cup {v}
  BY DEF Recorded
<1>2. ASSUME NEW row \in ledger PROVE row[1] \in Recorded'
  BY DEF Recorded
<1>3. v \in Recorded'
  <2>1. <<v, c>> \in ledger' /\ <<v, c>>[1] = v
    OBVIOUS
  <2> QED
    BY <2>1 DEF Recorded
<1>4. Recorded \subseteq Recorded'
  BY <1>2 DEF Recorded
<1>5. Recorded' \subseteq Recorded \cup {v}
  BY <1>1 DEF Recorded
<1> QED
  BY <1>3, <1>4, <1>5

\* A ledger that is as the program expects it has the program's own rows.
LEMMA ExpectedRow ==
  ASSUME NEW p \in Openers, ledger \subseteq Expected(p), NEW v \in Recorded
  PROVE  <<v, Contract[p][v]>> \in ledger /\ v \in 1..Supports[p]
BY DEF Recorded, Expected

\* Types and range are inductive together.
LEMMA MigrationTypes == MigrationSpec => [](MigrationTypeOK /\ InRange)
<1>1. MigrationInit => MigrationTypeOK /\ InRange
  <2> SUFFICES ASSUME MigrationInit PROVE MigrationTypeOK /\ InRange
    OBVIOUS
  <2>0. version \in Nat
    BY MigrationAssumption DEF MigrationInit
  <2>8. PICK was \in [1..version -> Contracts] : LeftBy(was)
    BY DEF MigrationInit
  <2>1. applied \subseteq Nat \X Contracts \X (1..Statements)
    BY <2>0, <2>8 DEF LeftBy
  <2>2. ledger \subseteq Nat \X Contracts
    BY <2>0, <2>8 DEF LeftBy
  <2>7. InRange
    BY DEF MigrationInit, InRange
  <2>3. stmt \in [Openers -> 1..(Statements + 1)]
    BY MigrationAssumption DEF MigrationInit
  <2>4. /\ stage \in [Openers -> Starting \cup {"idle", "open", "failed"}]
        /\ at \in [Openers -> Nat]
    BY DEF MigrationInit
  <2>5. base \in BOOLEAN
    <3>1. base = (version > 0)
      BY DEF MigrationInit
    <3>2. CASE version > 0
      BY <3>1, <3>2
    <3>3. CASE ~(version > 0)
      BY <3>1, <3>3
    <3> QED
      BY <3>2, <3>3
  <2>6. overlapped \in BOOLEAN /\ died \in BOOLEAN
    BY DEF MigrationInit
  <2> QED
    BY <2>0, <2>1, <2>2, <2>3, <2>4, <2>5, <2>6, <2>7 DEF MigrationTypeOK
<1>2. MigrationTypeOK /\ InRange /\ [MigrationNext]_schemaVars => MigrationTypeOK' /\ InRange'
  <2> SUFFICES ASSUME MigrationTypeOK, InRange, [MigrationNext]_schemaVars
               PROVE  MigrationTypeOK' /\ InRange'
    OBVIOUS
  <2> USE DEF MigrationTypeOK, InRange, Advance, Starting, schema
  <2>0. overlapped' \in BOOLEAN /\ died' \in BOOLEAN
    BY DEF MigrationNext, schemaVars
  <2>s. \A p \in Openers : /\ Supports[p] \in Nat \ {0}
                           /\ \A v \in 1..Supports[p] : Contract[p][v] \in Contracts
    BY MigrationAssumption
  <2>t. Statements \in Nat \ {0} /\ 1 \in 1..(Statements + 1)
    BY MigrationAssumption
  <2>1. ASSUME NEW p \in Openers, Start(p) PROVE MigrationTypeOK' /\ InRange'
    BY <2>0, <2>1 DEF Start
  <2>2. ASSUME NEW p \in Openers, Baseline(p) \/ Stamp(p) PROVE MigrationTypeOK' /\ InRange'
    <3>1. CASE Baseline(p)
      BY <2>0, <3>1 DEF Baseline
    <3>2. CASE Stamp(p)
      BY <2>0, <3>2 DEF Stamp
    <3> QED
      BY <2>2, <3>1, <3>2
  <2>8. ASSUME NEW p \in Openers, Meta(p) PROVE MigrationTypeOK' /\ InRange'
    <3>1. 1 \in Nat /\ Contract[p][1] \in Contracts
      BY <2>s
    <3>2. ledger' \subseteq Nat \X Contracts
      BY <2>8, <3>1 DEF Meta
    <3> QED
      BY <2>0, <2>8, <3>2 DEF Meta
  <2>3. ASSUME NEW p \in Openers, Check(p) PROVE MigrationTypeOK' /\ InRange'
    <3>1. /\ stage' \in [Openers -> Starting \cup {"idle", "open", "failed"}]
          /\ at' \in [Openers -> Nat] /\ stmt' \in [Openers -> 1..(Statements + 1)]
      <4>1. at[p] + 1 \in Nat
        OBVIOUS
      <4> QED
        BY <2>3, <2>t, <4>1 DEF Check, Proceed
    <3>2. ASSUME NEW q \in Openers, stage'[q] = "migrate" PROVE at'[q] \in 1..Supports[q]
      <4>1. CASE q = p
        BY <2>3, <2>s, <3>2, <4>1 DEF Check, Proceed
      <4>2. CASE q # p
        BY <2>3, <3>2, <4>2 DEF Check, Proceed
      <4> QED
        BY <4>1, <4>2
    <3> QED
      BY <2>0, <2>3, <3>1, <3>2 DEF Check
  <2>4. ASSUME NEW p \in Openers, Statement(p) PROVE MigrationTypeOK' /\ InRange'
    <3>1. at[p] \in 1..Supports[p] /\ stmt[p] \in 1..Statements
      BY <2>4, <2>t DEF Statement
    <3>2. Current(p) \in Nat \X Contracts \X (1..Statements)
      BY <2>s, <3>1 DEF Current
    <3>3. applied' \subseteq Nat \X Contracts \X (1..Statements)
      BY <2>4, <3>2 DEF Statement
    <3>4. /\ stage' \in [Openers -> Starting \cup {"idle", "open", "failed"}]
          /\ stmt' \in [Openers -> 1..(Statements + 1)]
          /\ \A q \in Openers : stage'[q] = "migrate" => stage[q] = "migrate"
      <4>1. stmt[p] + 1 \in 1..(Statements + 1)
        BY <2>t, <3>1
      <4> QED
        BY <2>4, <4>1 DEF Statement
    <3> QED
      BY <2>0, <2>4, <3>3, <3>4 DEF Statement
  <2>5. ASSUME NEW p \in Openers, Seal(p) PROVE MigrationTypeOK' /\ InRange'
    <3>1. at[p] \in 1..Supports[p] /\ at[p] \in Nat
      BY <2>5 DEF Seal
    <3>2. <<at[p], Contract[p][at[p]]>> \in Nat \X Contracts
      BY <2>s, <3>1
    <3>3. version' \in Nat /\ ledger' \subseteq Nat \X Contracts
      BY <2>5, <3>1, <3>2 DEF Seal
    <3>4. stage' \in [Openers -> Starting \cup {"idle", "open", "failed"}]
      BY <2>5 DEF Seal, Proceed
    <3>5. at' \in [Openers -> Nat] /\ stmt' \in [Openers -> 1..(Statements + 1)]
      <4>1. at[p] + 1 \in Nat
        OBVIOUS
      <4> QED
        BY <2>5, <2>t, <4>1 DEF Seal, Proceed
    <3>6. ASSUME NEW q \in Openers, stage'[q] = "migrate" PROVE at'[q] \in 1..Supports[q]
      <4>1. CASE q = p
        BY <2>5, <2>s, <3>1, <3>6, <4>1 DEF Seal, Proceed
      <4>2. CASE q # p
        BY <2>5, <3>6, <4>2 DEF Seal, Proceed
      <4> QED
        BY <4>1, <4>2
    <3> QED
      BY <2>0, <2>5, <3>3, <3>4, <3>5, <3>6 DEF Seal
  <2>6. ASSUME NEW p \in Openers, Busy(p) \/ Exit(p) \/ Die(p) PROVE MigrationTypeOK' /\ InRange'
    BY <2>0, <2>6 DEF Busy, Exit, Die
  <2>7. CASE UNCHANGED schemaVars
    BY <2>7 DEF schemaVars, opening
  <2> QED
    BY <2>0, <2>1, <2>2, <2>3, <2>4, <2>5, <2>6, <2>7, <2>8 DEF MigrationNext, Migrate
<1> QED
  BY <1>1, <1>2, PTL DEF MigrationSpec

\* The types of the state hold at every step.
THEOREM SchemaTypeOK == MigrationSpec => []MigrationTypeOK
BY MigrationTypes, PTL

\* The invariant is inductive.
LEMMA AppliedInvHolds == MigrationSpec => []AppliedInv
<1>1. MigrationInit => AppliedInv
  <2> SUFFICES ASSUME MigrationInit PROVE AppliedInv
    OBVIOUS
  <2>0. version \in Nat /\ base = (version > 0)
    BY MigrationAssumption DEF MigrationInit
  <2>1. version \in Nat /\ (version > 0 => base)
    <3>1. CASE version > 0
      BY <2>0, <3>1
    <3> QED
      BY <2>0, <3>1
  <2>2. PICK was \in [1..version -> Contracts] : LeftBy(was)
    BY DEF MigrationInit
  <2>3. \A row \in ledger, s \in 1..Statements : row[1] >= 2 => <<row[1], row[2], s>> \in applied
    BY <2>1, <2>2 DEF LeftBy
  <2>4. 2..version \subseteq Recorded
    <3> SUFFICES ASSUME NEW v \in 2..version PROVE v \in Recorded
      OBVIOUS
    <3>1. <<v, was[v]>> \in ledger /\ <<v, was[v]>>[1] = v
      BY <2>1, <2>2 DEF LeftBy
    <3> QED
      BY <3>1 DEF Recorded
  <2>5. \A p \in Openers : Reached(p)
    BY DEF Reached, Based, MigrationInit
  <2> QED
    BY <2>1, <2>3, <2>4, <2>5 DEF AppliedInv, RecordedMeansApplied
<1>2. MigrationTypeOK /\ InRange /\ AppliedInv /\ [MigrationNext]_schemaVars => AppliedInv'
  <2> SUFFICES ASSUME MigrationTypeOK, InRange, AppliedInv, [MigrationNext]_schemaVars
               PROVE  AppliedInv'
    OBVIOUS
  <2> USE DEF Advance, schema
  <2>s. \A p \in Openers : Reached(p) /\ Supports[p] \in Nat \ {0} /\ at[p] \in Nat /\ stmt[p] \in Nat
    BY MigrationAssumption DEF AppliedInv, MigrationTypeOK
  <2>t. Statements \in Nat
    BY MigrationAssumption
  \* A step that removes nothing need only be looked at for the process that takes it.
  <2>1. ASSUME NEW p \in Openers, Reached(p)',
               base => base', applied \subseteq applied', ledger \subseteq ledger',
               \A q \in Openers \ {p} : stage'[q] = stage[q] /\ at'[q] = at[q] /\ stmt'[q] = stmt[q]
        PROVE \A q \in Openers : Reached(q)'
    <3> TAKE q \in Openers
    <3>1. CASE q = p
      BY <2>1, <3>1
    <3>2. CASE q # p
      <4>1. Reached(q) /\ stage'[q] = stage[q] /\ at'[q] = at[q] /\ stmt'[q] = stmt[q]
        BY <2>1, <3>2 DEF AppliedInv
      <4>2. Recorded \subseteq Recorded'
        BY <2>1 DEF Recorded
      <4> QED
        BY <4>1, <4>2, <2>1 DEF Reached
    <3> QED
      BY <3>1, <3>2
  <2>2. ASSUME NEW p \in Openers, Start(p) PROVE AppliedInv'
    <3>1. Reached(p)'
      BY <2>2 DEF Start, Reached, AppliedInv, RecordedMeansApplied, MigrationTypeOK, Based, Recorded
    <3> QED
      BY <2>1, <2>2, <3>1 DEF Start, AppliedInv, RecordedMeansApplied, MigrationTypeOK, Recorded
  <2>3. ASSUME NEW p \in Openers, Baseline(p) PROVE AppliedInv'
    <3>1. Reached(p)'
      BY <2>3, <2>s DEF Baseline, Reached, MigrationTypeOK, Based
    <3> QED
      BY <2>1, <2>3, <3>1 DEF Baseline, AppliedInv, RecordedMeansApplied, MigrationTypeOK, Recorded
  <2>4. ASSUME NEW p \in Openers, Stamp(p) PROVE AppliedInv'
    <3>1. Reached(p)' /\ base'
      BY <2>4, <2>s DEF Stamp, Reached, MigrationTypeOK, Based
    <3>2. RecordedMeansApplied'
      BY <2>4 DEF Stamp, AppliedInv, RecordedMeansApplied, Recorded
    <3> QED
      BY <2>1, <2>4, <3>1, <3>2 DEF Stamp, AppliedInv, MigrationTypeOK
  <2>5. ASSUME NEW p \in Openers, Meta(p) PROVE AppliedInv'
    <3>1. ledger \subseteq ledger' /\ (\A row \in ledger' \ ledger : row[1] = 1)
      BY <2>5 DEF Meta
    <3>2. Recorded \subseteq Recorded'
      BY <3>1 DEF Recorded
    <3>3. Reached(p)'
      BY <2>5, <2>s, <3>2 DEF Meta, Reached, MigrationTypeOK, Based
    <3>4. RecordedMeansApplied'
      BY <2>5, <3>1, <3>2 DEF Meta, AppliedInv, RecordedMeansApplied
    <3> QED
      BY <2>1, <2>5, <3>1, <3>3, <3>4 DEF Meta, AppliedInv, MigrationTypeOK
  <2>6. ASSUME NEW p \in Openers, Check(p) PROVE AppliedInv'
    <3>1. ASSUME ledger \subseteq Expected(p) PROVE Reached(p)'
      <4>1. at[p] >= 1 /\ \A v \in 2..at[p] : <<v, Contract[p][v]>> \in ledger
        BY <2>6, <2>s, <3>1, ExpectedRow DEF Check, Reached
      <4>2. /\ stage'[p] = IF at[p] < Supports[p] THEN "migrate" ELSE "open"
            /\ at'[p] = at[p] + 1 /\ stmt'[p] = 1 /\ ledger' = ledger /\ base' = base
        BY <2>6, <3>1 DEF Check, Proceed, MigrationTypeOK
      <4>3. base
        BY <2>6, <2>s DEF Check, Reached, Based
      <4>4. CASE at[p] < Supports[p]
        <5>1. stage'[p] = "migrate" /\ at'[p] >= 2 /\ at'[p] - 1 = at[p]
          BY <2>s, <4>1, <4>2, <4>4
        <5>2. \A s \in 1..Statements : ~(s < stmt'[p])
          BY <2>t, <4>2
        <5>3. \A v \in 2..(at'[p] - 1) : <<v, Contract[p][v]>> \in ledger'
          BY <4>1, <4>2, <5>1
        <5> QED
          BY <4>2, <4>3, <5>1, <5>2, <5>3 DEF Reached, Based
      <4>5. CASE ~(at[p] < Supports[p])
        <5>1. stage'[p] = "open" /\ \A v \in 2..Supports[p] : v \in 2..at[p]
          BY <2>s, <4>2, <4>5
        <5>2. \A v \in 2..Supports[p] : <<v, Contract[p][v]>> \in ledger'
          BY <4>1, <4>2, <5>1
        <5> QED
          BY <4>2, <4>3, <5>1, <5>2 DEF Reached, Based
      <4> QED
        BY <4>4, <4>5
    <3>2. ASSUME ~(ledger \subseteq Expected(p)) PROVE Reached(p)'
      <4>1. stage'[p] = "failed"
        BY <2>6, <3>2 DEF Check, MigrationTypeOK
      <4> QED
        BY <4>1 DEF Reached, Based
    <3>3. /\ UNCHANGED <<version, base, applied, ledger>>
          /\ \A q \in Openers \ {p} : stage'[q] = stage[q] /\ at'[q] = at[q] /\ stmt'[q] = stmt[q]
      BY <2>6 DEF Check, Proceed, MigrationTypeOK
    <3> QED
      BY <2>1, <3>1, <3>2, <3>3 DEF AppliedInv, RecordedMeansApplied, Recorded
  <2>7. ASSUME NEW p \in Openers, Statement(p) PROVE AppliedInv'
    <3>1. Reached(p)'
      BY <2>7, <2>s DEF Statement, Current, Reached, MigrationTypeOK, Based
    <3>2. applied \subseteq applied'
      BY <2>7 DEF Statement
    <3> QED
      BY <2>1, <2>7, <3>1, <3>2
         DEF Statement, AppliedInv, RecordedMeansApplied, MigrationTypeOK, Recorded
  <2>8. ASSUME NEW p \in Openers, Seal(p) PROVE AppliedInv'
    <3>0. /\ stage[p] = "migrate" /\ stmt[p] > Statements
          /\ UNCHANGED <<base, applied>> /\ base
      BY <2>8, <2>s DEF Seal, Reached, Based
    <3>r. Reached(p) /\ at[p] \in Nat /\ stmt[p] \in Nat
      BY <2>s
    <3>1. \A s \in 1..Statements : <<at[p], Contract[p][at[p]], s>> \in applied
      BY <2>t, <3>0, <3>r DEF Reached
    <3>2. \A v \in 2..(at[p] - 1) : <<v, Contract[p][v]>> \in ledger
      BY <3>0, <3>r DEF Reached
    <3>3. \A q \in Openers \ {p} : stage'[q] = stage[q] /\ at'[q] = at[q] /\ stmt'[q] = stmt[q]
      BY <2>8 DEF Seal, Proceed, MigrationTypeOK
    <3>4. CASE at[p] \notin Recorded
      <4>1. /\ ledger' = ledger \cup {<<at[p], Contract[p][at[p]]>>} /\ version' = at[p]
            /\ stage'[p] = IF at[p] < Supports[p] THEN "migrate" ELSE "open"
            /\ at'[p] = at[p] + 1 /\ stmt'[p] = 1
        BY <2>8, <3>4 DEF Seal, Proceed, MigrationTypeOK
      <4>2. \A v \in 2..at[p] : <<v, Contract[p][v]>> \in ledger'
        BY <2>s, <3>2, <4>1
      <4>3. at[p] >= 2
        BY <2>s, <3>0 DEF Reached
      <4>4. Reached(p)'
        BY <2>s, <3>0, <4>1, <4>2, <4>3 DEF Reached, Based
      <4>5. RecordedMeansApplied'
        <5>1. \A row \in ledger', s \in 1..Statements : row[1] >= 2 => <<row[1], row[2], s>> \in applied'
          BY <3>0, <3>1, <4>1 DEF AppliedInv, RecordedMeansApplied
        <5>2. 2..version' \subseteq Recorded'
          <6> SUFFICES ASSUME NEW v \in 2..version' PROVE v \in Recorded'
            OBVIOUS
          <6>1. <<v, Contract[p][v]>> \in ledger'
            BY <4>1, <4>2
          <6> QED
            BY <6>1 DEF Recorded
        <5> QED
          BY <5>1, <5>2 DEF RecordedMeansApplied
      <4> QED
        BY <2>1, <3>0, <3>3, <4>1, <4>4, <4>5 DEF AppliedInv
    <3>5. CASE at[p] \in Recorded
      <4>1. UNCHANGED <<version, ledger>> /\ stage'[p] = "failed"
        BY <2>8, <3>5 DEF Seal, MigrationTypeOK
      <4>2. Reached(p)'
        BY <4>1 DEF Reached, Based
      <4> QED
        BY <2>1, <3>0, <3>3, <4>1, <4>2 DEF AppliedInv, RecordedMeansApplied, Recorded
    <3> QED
      BY <3>4, <3>5
  <2>9. ASSUME NEW p \in Openers, Busy(p) \/ Exit(p) \/ Die(p) PROVE AppliedInv'
    <3>1. Reached(p)'
      BY <2>9 DEF Busy, Exit, Die, Reached, Based, MigrationTypeOK
    <3> QED
      BY <2>1, <2>9, <3>1
         DEF Busy, Exit, Die, AppliedInv, RecordedMeansApplied, MigrationTypeOK, Recorded
  <2>10. CASE UNCHANGED schemaVars
    BY <2>10 DEF schemaVars, opening, AppliedInv, RecordedMeansApplied, Reached, Recorded
  <2> QED
    BY <2>2, <2>3, <2>4, <2>5, <2>6, <2>7, <2>8, <2>9, <2>10 DEF MigrationNext, Migrate
<1> QED
  BY <1>1, <1>2, MigrationTypes, PTL DEF MigrationSpec

\* A migration is recorded only when all its statements are in the schema.
THEOREM RecordedIsApplied == MigrationSpec => []RecordedMeansApplied
<1>1. AppliedInv => RecordedMeansApplied
  BY DEF AppliedInv
<1> QED
  BY <1>1, AppliedInvHolds, PTL

\* An open store has all tables of its program, whoever else starts or is killed.
THEOREM OpenedIsComplete == MigrationSpec => []OpenComplete
<1>1. AppliedInv => OpenComplete
  <2> SUFFICES ASSUME AppliedInv, NEW p \in Openers, stage[p] = "open",
                      NEW v \in 2..Supports[p], NEW s \in 1..Statements
               PROVE  base /\ <<v, Contract[p][v], s>> \in applied
    BY MigrationAssumption DEF AppliedInv, OpenComplete, Reached, Based
  <2>1. base /\ <<v, Contract[p][v]>> \in ledger
    BY DEF AppliedInv, Reached, Based
  <2>2. v >= 2
    OBVIOUS
  <2> QED
    BY <2>1, <2>2 DEF AppliedInv, RecordedMeansApplied
<1> QED
  BY <1>1, AppliedInvHolds, PTL

-----------------------------------------------------------------------------

\* As long as no two processes overlap, the local copy of the version is the
\* version.
UnracedInv ==
  /\ \A p, q \in Openers : stage[p] # "idle" /\ stage[q] # "idle" => p = q
  /\ \A p \in Openers :
       /\ stage[p] \in {"baseline", "meta", "check"} => at[p] = version
       /\ stage[p] = "baseline" => version <= 1
       /\ stage[p] = "stamp" => version = 0
       /\ stage[p] = "migrate" => at[p] = version + 1
       /\ stage[p] \in {"meta", "check", "migrate"} => version >= 1
       /\ stage[p] \in {"check", "migrate"} => 1 \in Recorded
  /\ version <= 1 => Recorded \subseteq {1}
  /\ VersionMatchesLedger

LEMMA UnracedInvHolds == MigrationSpec => [](~overlapped => UnracedInv)
<1>1. MigrationInit => (~overlapped => UnracedInv)
  <2> SUFFICES ASSUME MigrationInit PROVE UnracedInv
    OBVIOUS
  <2>1. version \in Nat
    BY MigrationAssumption DEF MigrationInit
  <2>2. \/ Recorded = 1..version
        \/ version = 1 /\ Recorded = {}
    <3>1. PICK was \in [1..version -> Contracts] : LeftBy(was)
      BY DEF MigrationInit
    <3>2. CASE ledger = {<<v, was[v]>> : v \in 1..version}
      <4>1. \A row \in ledger : row[1] \in 1..version
        BY <3>2
      <4>2. ASSUME NEW v \in 1..version PROVE v \in Recorded
        <5>1. <<v, was[v]>> \in ledger /\ <<v, was[v]>>[1] = v
          BY <3>2
        <5> QED
          BY <5>1 DEF Recorded
      <4> QED
        BY <4>1, <4>2 DEF Recorded
    <3>3. CASE version = 1 /\ ledger = {}
      BY <3>3 DEF Recorded
    <3> QED
      BY <3>1, <3>2, <3>3 DEF LeftBy
  <2>3. version <= 1 => Recorded \subseteq {1}
    BY <2>1, <2>2
  <2> QED
    BY <2>1, <2>2, <2>3 DEF MigrationInit, UnracedInv, VersionMatchesLedger
<1>2. MigrationTypeOK /\ (~overlapped => UnracedInv) /\ [MigrationNext]_schemaVars => (~overlapped => UnracedInv)'
  <2> SUFFICES ASSUME MigrationTypeOK, ~overlapped => UnracedInv, [MigrationNext]_schemaVars, ~overlapped'
               PROVE UnracedInv'
    OBVIOUS
  <2> USE DEF Advance, schema, MigrationTypeOK
  <2>0. ~overlapped /\ UnracedInv
    BY DEF MigrationNext, schemaVars
  <2>a. MigrationNext => \A p, q \in Openers : stage'[p] # "idle" /\ stage'[q] # "idle" => p = q
    BY DEF MigrationNext, Overlap
  <2>u. ledger' = ledger => Recorded' = Recorded
    BY DEF Recorded
  <2> USE <2>0 DEF UnracedInv, VersionMatchesLedger
  <2>1. ASSUME NEW p \in Openers, Start(p) PROVE UnracedInv'
    <3>1. \A q \in Openers \ {p} : stage'[q] = "idle" /\ stage[q] = "idle"
      <4>1. UNCHANGED schemaVars => FALSE
        BY <2>1 DEF Start, schemaVars, opening
      <4>2. stage'[p] # "idle" /\ \A q \in Openers \ {p} : stage'[q] = stage[q]
        BY <2>1 DEF Start
      <4> QED
        BY <4>1, <4>2, <2>a
    <3> QED
      BY <2>1, <2>u, <3>1, MigrationAssumption DEF Start
  <2>2. ASSUME NEW p \in Openers, Baseline(p) PROVE UnracedInv'
    BY <2>2, <2>u DEF Baseline
  <2>3. ASSUME NEW p \in Openers, Stamp(p) PROVE UnracedInv'
    BY <2>3, <2>u DEF Stamp
  <2>4. ASSUME NEW p \in Openers, Meta(p) PROVE UnracedInv'
    <3>1. Recorded' = Recorded \cup {1}
      <4>1. CASE 1 \in Recorded
        BY <2>4, <4>1 DEF Meta, Recorded
      <4>2. CASE 1 \notin Recorded
        BY <2>4, <4>2, RowAdded DEF Meta
      <4> QED
        BY <4>1, <4>2
    <3>2. version >= 2 => 1 \in Recorded
      OBVIOUS
    <3> QED
      BY <2>4, <3>1, <3>2 DEF Meta
  <2>5. ASSUME NEW p \in Openers, Check(p) PROVE UnracedInv'
    <3>1. stage[p] = "check" /\ \A q \in Openers \ {p} : stage[q] = "idle"
      BY <2>5 DEF Check
    <3>2. UNCHANGED <<version, Recorded>> /\ \A q \in Openers \ {p} : stage'[q] = "idle"
      BY <2>5, <3>1 DEF Check, Proceed, Recorded
    <3>3. \/ stage'[p] = "migrate" /\ at'[p] = version + 1
          \/ stage'[p] \in {"open", "failed"}
      BY <2>5, <3>1 DEF Check, Proceed
    <3> QED
      BY <3>1, <3>2, <3>3
  <2>6. ASSUME NEW p \in Openers, Statement(p) PROVE UnracedInv'
    BY <2>6, <2>u DEF Statement
  <2>7. ASSUME NEW p \in Openers, Seal(p) PROVE UnracedInv'
    <3>1. stage[p] = "migrate" /\ \A q \in Openers \ {p} : stage[q] = "idle"
      BY <2>7 DEF Seal
    <3>2. \A q \in Openers \ {p} : stage'[q] = "idle"
      BY <2>7, <3>1 DEF Seal, Proceed
    <3>3. CASE at[p] \notin Recorded
      <4>1. /\ version' = version + 1 /\ Recorded' = Recorded \cup {version + 1}
            /\ \/ stage'[p] = "migrate" /\ at'[p] = version' + 1
               \/ stage'[p] = "open"
        <5>1. /\ at[p] = version + 1 /\ version' = at[p]
              /\ ledger' = ledger \cup {<<at[p], Contract[p][at[p]]>>}
              /\ stage'[p] \in {"migrate", "open"} /\ at'[p] = at[p] + 1
          BY <2>7, <3>1, <3>3 DEF Seal, Proceed
        <5>2. Recorded' = Recorded \cup {at[p]}
          BY <5>1, RowAdded
        <5> QED
          BY <5>1, <5>2
      <4>2. version \in Nat /\ version >= 1 /\ 1 \in Recorded
        BY <3>1
      <4>3. Recorded = 1..version
        <5>1. CASE version = 1
          <6>1. Recorded = {1}
            BY ZenonT(30), <4>2, <5>1
          <6>2. 1..1 = {1}
            OBVIOUS
          <6> QED
            BY <5>1, <6>1, <6>2
        <5>2. CASE version >= 2
          BY <5>2
        <5> QED
          BY <4>2, <5>1, <5>2
      <4>4. Recorded' = 1..version'
        BY <4>1, <4>2, <4>3
      <4>5. version' \in Nat /\ version' >= 2 /\ 1 \in Recorded'
        BY <4>1, <4>2
      <4>6. \A q \in Openers : stage'[q] # "idle" => q = p
        BY <3>2
      <4>7. stage'[p] \in {"migrate", "open"} /\ (stage'[p] = "migrate" => at'[p] = version' + 1)
        BY <4>1
      <4>8. VersionMatchesLedger'
        BY <4>4
      <4>9. \A q, r \in Openers : stage'[q] # "idle" /\ stage'[r] # "idle" => q = r
        BY <4>6
      <4>10. ASSUME NEW q \in Openers
             PROVE  /\ stage'[q] \in {"baseline", "meta", "check"} => at'[q] = version'
                    /\ stage'[q] = "baseline" => version' <= 1
                    /\ stage'[q] = "stamp" => version' = 0
                    /\ stage'[q] = "migrate" => at'[q] = version' + 1
                    /\ stage'[q] \in {"meta", "check", "migrate"} => version' >= 1
                    /\ stage'[q] \in {"check", "migrate"} => 1 \in Recorded'
        <5>1. CASE q = p
          BY <4>5, <4>7, <5>1
        <5>2. CASE q # p
          <6>1. stage'[q] = "idle"
            BY <3>2, <5>2
          <6> QED
            BY <6>1
        <5> QED
          BY <5>1, <5>2
      <4>11. version' <= 1 => Recorded' \subseteq {1}
        BY <4>5
      <4> QED
        BY <4>8, <4>9, <4>10, <4>11 DEF UnracedInv
    <3>4. CASE at[p] \in Recorded
      <4>1. UNCHANGED <<version, Recorded>> /\ stage'[p] = "failed"
        BY <2>7, <3>4 DEF Seal
      <4> QED
        BY <3>2, <4>1
    <3> QED
      BY <3>3, <3>4
  <2>8. ASSUME NEW p \in Openers, Busy(p) \/ Exit(p) \/ Die(p) PROVE UnracedInv'
    <3>1. /\ UNCHANGED <<version, Recorded, at>>
          /\ \A q \in Openers : stage'[q] = stage[q] \/ stage'[q] \in {"idle", "failed"}
          /\ \A q \in Openers : stage'[q] # "idle" => stage[q] # "idle"
      BY <2>8, <2>u DEF Busy, Exit, Die, Starting
    <3> QED
      BY <3>1
  <2>9. CASE UNCHANGED schemaVars
    BY <2>9, <2>u DEF schemaVars, opening
  <2> QED
    BY <2>1, <2>2, <2>3, <2>4, <2>5, <2>6, <2>7, <2>8, <2>9 DEF MigrationNext, Migrate
<1> QED
  BY <1>1, <1>2, SchemaTypeOK, PTL DEF MigrationSpec

\* One process at a time: the version and the migration ledger say the same,
\* whoever was killed.
THEOREM VersionIsLedger == MigrationSpec => []VersionMatchesLedger
<1>1. (~overlapped => UnracedInv) => VersionMatchesLedger
  BY DEF UnracedInv, VersionMatchesLedger
<1> QED
  BY <1>1, UnracedInvHolds, PTL

\* What the home records of its migrations is applied, and recorded alike by the
\* version and the ledger as long as no two processes have it open.
THEOREM RecordIsTruthful == MigrationSpec => []RecordTruthful
<1>1. RecordedMeansApplied /\ VersionMatchesLedger => RecordTruthful
  BY DEF RecordTruthful
<1> QED
  BY <1>1, RecordedIsApplied, VersionIsLedger, PTL

\* One process at a time: the version never goes back.
THEOREM VersionGrows == MigrationSpec => ForwardOnly
<1>1. MigrationTypeOK /\ (~overlapped => UnracedInv) /\ [MigrationNext]_schemaVars
        => [~overlapped' => version' >= version]_version
  <2> SUFFICES ASSUME MigrationTypeOK, ~overlapped => UnracedInv, [MigrationNext]_schemaVars, ~overlapped'
               PROVE version' >= version
    OBVIOUS
  <2>0. UnracedInv
    BY DEF MigrationNext, schemaVars
  <2> USE <2>0
  <2> USE DEF MigrationTypeOK, schema
  <2>1. ASSUME NEW p \in Openers, Stamp(p) PROVE version' >= version
    BY <2>1 DEF Stamp, UnracedInv
  <2>2. ASSUME NEW p \in Openers, Seal(p) PROVE version' >= version
    BY <2>2 DEF Seal, UnracedInv
  <2>3. ASSUME NEW p \in Openers, Start(p) \/ Baseline(p) \/ Meta(p) PROVE version' >= version
    BY <2>3 DEF Start, Baseline, Meta
  <2>4. ASSUME NEW p \in Openers,
               Check(p) \/ Statement(p) \/ Busy(p) \/ Exit(p) \/ Die(p)
        PROVE version' >= version
    BY <2>4 DEF Check, Statement, Busy, Exit, Die
  <2>5. CASE UNCHANGED schemaVars
    BY <2>5 DEF schemaVars
  <2> QED
    BY <2>1, <2>2, <2>3, <2>4, <2>5 DEF MigrationNext, Migrate
<1> QED
  BY <1>1, UnracedInvHolds, SchemaTypeOK, PTL DEF MigrationSpec, ForwardOnly

-----------------------------------------------------------------------------

\* As long as moreover nobody was killed, the schema has the statements of the
\* migrations with a row and those that the one process in the middle of a migration
\* has run, that process found the ledger as it expects it, and only a process
\* whose program the database is not for has failed.
FreshInv ==
  /\ \A p \in Openers : stage[p] \in Starting => version <= Supports[p]
  /\ \A p \in Openers : stage[p] = "migrate" => ledger \subseteq Expected(p)
  /\ \A p \in Openers : stage[p] = "failed" => NotFor(p)
  /\ \A x \in applied :
       \/ <<x[1], x[2]>> \in ledger
       \/ \E p \in Openers : /\ stage[p] = "migrate" /\ x[1] = at[p]
                             /\ x[2] = Contract[p][at[p]] /\ x[3] < stmt[p]

LEMMA FreshInvHolds == MigrationSpec => [](~overlapped /\ ~died => FreshInv)
<1>1. MigrationInit => (~overlapped /\ ~died => FreshInv)
  <2> SUFFICES ASSUME MigrationInit PROVE FreshInv
    OBVIOUS
  <2>1. PICK was \in [1..version -> Contracts] : LeftBy(was)
    BY DEF MigrationInit
  <2>2. version \in Nat
    BY MigrationAssumption DEF MigrationInit
  <2>3. \A x \in applied : <<x[1], x[2]>> \in ledger
    BY <2>1, <2>2 DEF LeftBy
  <2> QED
    BY <2>3 DEF MigrationInit, FreshInv, Starting
<1>2. /\ MigrationTypeOK /\ InRange /\ (~overlapped => UnracedInv) /\ (~overlapped => UnracedInv)'
      /\ (~overlapped /\ ~died => FreshInv) /\ [MigrationNext]_schemaVars
      => (~overlapped /\ ~died => FreshInv)'
  <2> SUFFICES ASSUME MigrationTypeOK, InRange, ~overlapped => UnracedInv, (~overlapped => UnracedInv)',
                      ~overlapped /\ ~died => FreshInv, [MigrationNext]_schemaVars,
                      ~overlapped', ~died'
               PROVE  FreshInv'
    OBVIOUS
  <2>0. ~overlapped /\ ~died /\ UnracedInv /\ UnracedInv' /\ FreshInv
    BY DEF MigrationNext, schemaVars, MigrationTypeOK
  <2> USE DEF Advance, schema
  <2>s. \A p \in Openers : Supports[p] \in Nat \ {0} /\ at[p] \in Nat /\ version \in Nat /\ stmt[p] \in Nat
    BY MigrationAssumption DEF MigrationTypeOK
  \* A process that is under way is alone.
  <2>a. ASSUME NEW p \in Openers, stage[p] # "idle"
        PROVE  \A q \in Openers \ {p} : stage[q] = "idle"
    BY <2>0, <2>a DEF UnracedInv
  \* A step that leaves the schema alone, by a process that is not in a migration.
  <2>b. ASSUME NEW p \in Openers, stage[p] # "migrate",
               \A q \in Openers \ {p} : stage[q] = "idle" /\ stage'[q] = "idle",
               applied' = applied, ledger \subseteq ledger',
               stage'[p] \in Starting => version' <= Supports[p],
               stage'[p] = "migrate" => (ledger \subseteq Expected(p))',
               stage'[p] = "failed" => NotFor(p)'
        PROVE  FreshInv'
    <3>1. \A x \in applied : <<x[1], x[2]>> \in ledger
      BY <2>0, <2>b DEF FreshInv
    <3>3. \A q \in Openers \ {p} : stage'[q] \notin Starting /\ stage'[q] # "migrate" /\ stage'[q] # "failed"
      BY <2>b DEF Starting
    <3> QED
      BY <2>b, <3>1, <3>3 DEF FreshInv
  <2>1. ASSUME NEW p \in Openers, Start(p) PROVE FreshInv'
    <3>1. /\ stage'[p] # "idle" /\ stage[p] = "idle"
          /\ applied' = applied /\ version' = version /\ ledger' = ledger
      BY <2>1 DEF Start, MigrationTypeOK
    <3>2. \A q \in Openers \ {p} : stage'[q] = "idle" /\ stage'[q] = stage[q]
      BY <2>0, <2>1, <3>1 DEF Start, UnracedInv, MigrationTypeOK
    <3>3. /\ stage'[p] \in Starting => version' <= Supports[p]
          /\ stage'[p] # "migrate" /\ (stage'[p] = "failed" => version' > Supports[p])
      BY <2>1, <2>s DEF Start, Starting, MigrationTypeOK
    <3>4. stage'[p] = "failed" => NotFor(p)'
      BY <3>3 DEF NotFor
    <3> QED
      BY <2>b, <3>1, <3>2, <3>3, <3>4
  <2>2. ASSUME NEW p \in Openers, Baseline(p) \/ Stamp(p) \/ Meta(p) PROVE FreshInv'
    <3>1. /\ stage[p] \in Starting \ {"migrate"} /\ stage'[p] \in Starting \ {"migrate"}
          /\ applied' = applied /\ ledger \subseteq ledger'
          /\ \A q \in Openers \ {p} : stage'[q] = stage[q]
      BY <2>2 DEF Baseline, Stamp, Meta, MigrationTypeOK, Starting
    <3>2. \A q \in Openers \ {p} : stage[q] = "idle" /\ stage'[q] = "idle"
      BY <2>a, <3>1 DEF Starting
    <3>3. version' <= Supports[p]
      <4>1. version <= Supports[p]
        BY <2>0, <3>1 DEF FreshInv
      <4>2. CASE Stamp(p)
        BY <2>0, <2>s, <4>2 DEF Stamp, UnracedInv
      <4>3. CASE Baseline(p) \/ Meta(p)
        BY <2>s, <4>1, <4>3 DEF Baseline, Meta
      <4> QED
        BY <2>2, <4>2, <4>3
    <3> QED
      BY <2>b, <3>1, <3>2, <3>3 DEF Starting
  <2>3. ASSUME NEW p \in Openers, Check(p) PROVE FreshInv'
    <3>1. stage[p] = "check" /\ applied' = applied /\ version' = version /\ ledger' = ledger
      BY <2>3 DEF Check
    <3>2. \A q \in Openers \ {p} : stage[q] = "idle" /\ stage'[q] = "idle"
      BY <2>3, <2>a, <3>1 DEF Check, Proceed, MigrationTypeOK
    <3>3. version <= Supports[p] /\ version >= 1
      BY <2>0, <3>1 DEF FreshInv, UnracedInv, Starting
    <3>4. Recorded \subseteq 1..Supports[p]
      <4>1. CASE version = 1
        BY <2>0, <2>s, <3>3, <4>1 DEF UnracedInv
      <4>2. CASE version >= 2
        BY <2>0, <2>s, <3>3, <4>2 DEF UnracedInv, VersionMatchesLedger
      <4> QED
        BY <2>s, <3>3, <4>1, <4>2
    <3>5. CASE ledger \subseteq Expected(p)
      <4>1. stage'[p] \in {"migrate", "open"} /\ (ledger \subseteq Expected(p))'
        BY <2>3, <3>1, <3>5 DEF Check, Proceed, MigrationTypeOK, Expected
      <4> QED
        BY <2>b, <3>1, <3>2, <3>3, <4>1 DEF Starting
    <3>6. CASE ~(ledger \subseteq Expected(p))
      <4>1. stage'[p] = "failed"
        BY <2>3, <3>6 DEF Check, MigrationTypeOK
      <4>2. PICK row \in ledger : row \notin Expected(p)
        BY <3>6
      <4>3. row \in Nat \X Contracts /\ row = <<row[1], row[2]>> /\ row[1] \in 1..Supports[p]
        BY <3>4, <4>2 DEF MigrationTypeOK, Recorded
      <4>4. row[2] # Contract[p][row[1]]
        BY <4>2, <4>3 DEF Expected
      <4>5. NotFor(p)'
        BY <3>1, <4>2, <4>3, <4>4 DEF NotFor
      <4> QED
        BY <2>b, <3>1, <3>2, <4>1, <4>5 DEF Starting
    <3> QED
      BY <3>5, <3>6
  <2>4. ASSUME NEW p \in Openers, Statement(p) PROVE FreshInv'
    <3>1. /\ stage[p] = "migrate" /\ version' = version /\ at' = at /\ at[p] = version + 1
          /\ ledger' = ledger /\ ledger \subseteq Expected(p) /\ at[p] \in 1..Supports[p]
      BY <2>0, <2>4 DEF Statement, UnracedInv, FreshInv, InRange
    <3>2. \A q \in Openers \ {p} : stage[q] = "idle"
      BY <2>a, <3>1
    <3>a. at[p] \notin Recorded
      BY <2>0, <2>s, <3>1 DEF UnracedInv, VersionMatchesLedger
    <3>b. ASSUME NEW x \in applied, <<x[1], x[2]>> \notin ledger
          PROVE  x[1] = at[p] /\ x[2] = Contract[p][at[p]] /\ x[3] < stmt[p]
      BY <2>0, <3>2, <3>b DEF FreshInv
    <3>3. Current(p) \notin applied
      <4> SUFFICES ASSUME Current(p) \in applied PROVE FALSE
        OBVIOUS
      <4>1. <<at[p], Contract[p][at[p]]>> \notin ledger
        BY <3>a DEF Recorded
      <4> QED
        BY <2>s, <3>b, <4>1 DEF Current
    <3>c. FromOthers(p) = {}
      <4> SUFFICES ASSUME NEW x \in applied PROVE <<x[1], x[2]>> \in Expected(p)
        BY DEF FromOthers
      <4>1. CASE <<x[1], x[2]>> \in ledger
        BY <3>1, <4>1
      <4>2. CASE <<x[1], x[2]>> \notin ledger
        BY <3>1, <3>b, <4>2 DEF Expected
      <4> QED
        BY <4>1, <4>2
    <3>4. /\ applied' = applied \cup {Current(p)} /\ stage' = stage
          /\ stmt'[p] = stmt[p] + 1 /\ \A q \in Openers \ {p} : stmt'[q] = stmt[q]
      BY <2>4, <3>3, <3>c DEF Statement, MigrationTypeOK
    <3>5. ASSUME NEW x \in applied'
          PROVE  \/ <<x[1], x[2]>> \in ledger'
                 \/ \E q \in Openers : /\ stage'[q] = "migrate" /\ x[1] = at'[q]
                                       /\ x[2] = Contract[q][at'[q]] /\ x[3] < stmt'[q]
      <4>1. CASE x = Current(p)
        BY <2>s, <3>1, <3>4, <4>1 DEF Current
      <4>2. CASE x \in applied /\ <<x[1], x[2]>> \in ledger
        BY <3>1, <4>2
      <4>3. CASE x \in applied /\ <<x[1], x[2]>> \notin ledger
        <5>1. x[1] = at[p] /\ x[2] = Contract[p][at[p]] /\ x[3] < stmt[p] /\ x[3] \in Nat
          BY <3>b, <4>3 DEF MigrationTypeOK
        <5>2. x[3] < stmt'[p]
          BY <2>s, <3>4, <5>1
        <5> QED
          BY <3>1, <3>4, <5>1, <5>2
      <4> QED
        BY <3>4, <4>1, <4>2, <4>3
    <3>6. /\ \A q \in Openers : stage'[q] \in Starting => version' <= Supports[q]
          /\ \A q \in Openers : stage'[q] = "migrate" => (ledger \subseteq Expected(q))'
          /\ \A q \in Openers : stage'[q] = "failed" => NotFor(q)'
      BY <2>0, <3>1, <3>4 DEF FreshInv, NotFor, Expected
    <3> QED
      BY <3>5, <3>6 DEF FreshInv
  <2>5. ASSUME NEW p \in Openers, Seal(p) PROVE FreshInv'
    <3>1. /\ stage[p] = "migrate" /\ applied' = applied /\ at[p] = version + 1
          /\ at[p] \in 1..Supports[p] /\ ledger \subseteq Expected(p)
      BY <2>0, <2>5 DEF Seal, UnracedInv, FreshInv, InRange
    <3>2. \A q \in Openers \ {p} : stage[q] = "idle"
      BY <2>a, <3>1
    <3>3. at[p] \notin Recorded
      BY <2>0, <2>s, <3>1 DEF UnracedInv, VersionMatchesLedger
    <3>4. /\ version' = version + 1 /\ ledger' = ledger \cup {<<at[p], Contract[p][at[p]]>>}
          /\ stage'[p] = IF at[p] < Supports[p] THEN "migrate" ELSE "open"
          /\ \A q \in Openers \ {p} : stage'[q] = "idle"
      BY <2>5, <3>1, <3>2, <3>3 DEF Seal, Proceed, MigrationTypeOK
    <3>5. ASSUME NEW x \in applied PROVE <<x[1], x[2]>> \in ledger'
      BY <2>0, <3>2, <3>4 DEF FreshInv
    <3>6. \A q \in Openers : stage'[q] \in Starting => version' <= Supports[q]
      BY <2>s, <3>1, <3>4 DEF Starting
    <3>7. (ledger \subseteq Expected(p))'
      BY <3>1, <3>4 DEF Expected
    <3>8. \A q \in Openers : /\ stage'[q] = "migrate" => (ledger \subseteq Expected(q))'
                             /\ stage'[q] # "failed"
      BY <3>4, <3>7 DEF Expected
    <3> QED
      BY <3>1, <3>5, <3>6, <3>8 DEF FreshInv
  <2>6. ASSUME NEW p \in Openers, Busy(p) PROVE FreshInv'
    BY <2>0, <2>6 DEF Busy, UnracedInv, Starting
  <2>7. ASSUME NEW p \in Openers, Exit(p) PROVE FreshInv'
    <3>1. /\ stage[p] \in {"open", "failed"} /\ stage'[p] = "idle"
          /\ applied' = applied /\ ledger' = ledger
      BY <2>7 DEF Exit, MigrationTypeOK
    <3>2. \A q \in Openers \ {p} : stage[q] = "idle" /\ stage'[q] = "idle"
      BY <2>7, <2>a, <3>1 DEF Exit, MigrationTypeOK
    <3> QED
      BY <2>b, <2>s, <3>1, <3>2 DEF Starting
  <2>8. CASE UNCHANGED schemaVars
    BY <2>0, <2>8 DEF schemaVars, opening, FreshInv, NotFor, Expected
  <2> QED
    BY <2>0, <2>1, <2>2, <2>3, <2>4, <2>5, <2>6, <2>7, <2>8 DEF MigrationNext, Migrate
<1> QED
  BY <1>1, <1>2, UnracedInvHolds, MigrationTypes, PTL DEF MigrationSpec

\* One process at a time, and none killed: a start fails only because the database
\* is newer than the program, or has a migration that another build made otherwise
\* (MigrationError of migrate()).
THEOREM StartsDoSucceed == MigrationSpec => []StartsSucceed
<1>1. (~overlapped /\ ~died => FreshInv) => StartsSucceed
  BY DEF FreshInv, StartsSucceed
<1> QED
  BY <1>1, FreshInvHolds, PTL

-----------------------------------------------------------------------------
(* Backup and restore *)

\* The empty database and the empty draft are a database and a bundle.
LEMMA EmptyTyped == EmptyDb \in Databases /\ NoDraft \in Bundles
BY DEF EmptyDb, NoDraft, Databases, Bundles

\* The types of the state hold at every step.
THEOREM BackupTypeOK == Spec => []TypeOK
<1> USE BackupAssumption
<1>1. Init => TypeOK
  <2> SUFFICES ASSUME Init PROVE TypeOK
    OBVIOUS
  <2>1. bundle \in [Paths -> Bundles \cup {None, Torn}]
    BY DEF Init, Verifies
  <2>2. origin \in Seq({"restore"} \cup Digests)
    BY DEF Init
  <2>3. raw \in [Digests -> {"absent", "torn", "whole"}]
    BY DEF Init
  <2>4. /\ pc \in [Procs -> Restoring \cup {"idle", "cite", "collect", "zip"}]
        /\ draft \in [Procs -> Bundles]
    BY EmptyTyped DEF Init
  <2> QED
    BY <2>1, <2>2, <2>3, <2>4, EmptyTyped DEF Init, TypeOK
<1>2. TypeOK /\ [Next]_vars => TypeOK'
  <2> SUFFICES ASSUME TypeOK, [Next]_vars PROVE TypeOK'
    OBVIOUS
  <2>0. /\ crowded' \in BOOLEAN /\ killed' \in BOOLEAN /\ bare' \in BOOLEAN
        /\ copy' \in Databases \cup {None}
    BY DEF TypeOK, Next, Step, CopyDatabase, AcceptDatabase, vars
  <2> USE <2>0, EmptyTyped DEF TypeOK, Goto, Return, home, Restoring
  <2>1. ASSUME NEW p \in Procs, Capture(p) PROVE TypeOK'
    BY <2>1 DEF Capture
  <2>2. ASSUME NEW p \in Procs, Cite(p) PROVE TypeOK'
    <3>1. db.cites \in SUBSET Digests /\ db.log \in Seq({"restore"} \cup Digests) /\ item[p] \in Digests
      BY DEF Databases
    <3>2. Append(db.log, item[p]) \in Seq({"restore"} \cup Digests)
      BY <3>1
    <3>3. db' \in Databases
      BY <2>2, <3>1, <3>2 DEF Cite, Databases
    <3> QED
      BY <2>2, <3>3 DEF Cite
  <2>3. ASSUME NEW p \in Procs, Snapshot(p) PROVE TypeOK'
    <3>1. [db |-> db, files |-> {}] \in Bundles
      BY DEF Bundles
    <3> QED
      BY <2>3, <3>1 DEF Snapshot
  <2>4. ASSUME NEW p \in Procs, Collect(p) PROVE TypeOK'
    <3>0. db.cites \in SUBSET Digests /\ draft[p] \in Bundles
      BY DEF Databases
    <3>1. [draft[p] EXCEPT !.files = db.cites] \in Bundles
      BY <3>0 DEF Bundles
    <3>2. \/ draft' = [draft EXCEPT ![p] = NoDraft]
          \/ draft' = [draft EXCEPT ![p] = [draft[p] EXCEPT !.files = db.cites]]
      BY <2>4 DEF Collect
    <3>3. draft' \in [Procs -> Bundles]
      BY <3>1, <3>2
    <3> QED
      BY <2>4, <3>3 DEF Collect
  <2>5. ASSUME NEW p \in Procs, Zip(p) PROVE TypeOK'
    BY <2>5 DEF Zip
  <2>6. ASSUME NEW p \in Procs, Accept(p) PROVE TypeOK'
    BY <2>6 DEF Accept, Verifies
  <2>7. ASSUME NEW p \in Procs, Replace(p) PROVE TypeOK'
    BY <2>7 DEF Replace, Bundles, Databases
  <2>8. ASSUME NEW p \in Procs, WriteFile(p) PROVE TypeOK'
    BY <2>8 DEF WriteFile, Bundles
  <2>9. ASSUME NEW p \in Procs, FileWritten(p) PROVE TypeOK'
    BY <2>9 DEF FileWritten
  <2>10. ASSUME NEW p \in Procs, WritesDone(p) \/ Kill(p) PROVE TypeOK'
    BY <2>10 DEF WritesDone, Kill
  <2>11. ASSUME NEW p \in Procs, LogRestore(p) PROVE TypeOK'
    <3>1. db.cites \in SUBSET Digests /\ db.log \in Seq({"restore"} \cup Digests)
      BY DEF Databases
    <3>2. Append(db.log, "restore") \in Seq({"restore"} \cup Digests)
      BY <3>1
    <3>3. db' \in Databases
      BY <2>11, <3>1, <3>2 DEF LogRestore, Databases
    <3> QED
      BY <2>11, <3>3 DEF LogRestore
  <2>12. CASE UNCHANGED vars
    BY <2>12 DEF vars, procs
  <2>13. ASSUME NEW p \in Procs, CopyDatabase(p) PROVE TypeOK'
    BY <2>13 DEF CopyDatabase, procs
  <2>14. ASSUME NEW p \in Procs, AcceptDatabase(p) PROVE TypeOK'
    <3>1. PICK d \in Saved \cup ({copy} \ {None}) :
            draft' = [draft EXCEPT ![p] = [db |-> d, files |-> {}]]
      BY <2>14 DEF AcceptDatabase
    <3>2. [db |-> d, files |-> {}] \in Bundles
      BY DEF Bundles
    <3> QED
      BY <2>14, <3>1, <3>2 DEF AcceptDatabase
  <2> QED
    BY <2>1, <2>2, <2>3, <2>4, <2>5, <2>6, <2>7, <2>8, <2>9, <2>10, <2>11, <2>12, <2>13, <2>14
       DEF Next, Step, BundleStep
<1> QED
  BY <1>1, <1>2, PTL DEF Spec

\* A file that has its content keeps it: a restore writes only absent files.
THEOREM RawIsKept == Spec => RawKept
<1>1. ASSUME TypeOK, [Next]_vars, NEW d \in Digests, raw[d] = "whole" PROVE raw'[d] = "whole"
  <2> USE DEF TypeOK, home
  <2>1. ASSUME NEW p \in Procs, Capture(p) \/ WriteFile(p) \/ FileWritten(p) PROVE raw'[d] = "whole"
    BY <1>1, <2>1 DEF Capture, WriteFile, FileWritten
  <2>2. ASSUME NEW p \in Procs,
               \/ Cite(p) \/ Snapshot(p) \/ Collect(p) \/ Zip(p) \/ Accept(p)
               \/ Replace(p) \/ WritesDone(p) \/ LogRestore(p) \/ Kill(p)
               \/ CopyDatabase(p) \/ AcceptDatabase(p)
        PROVE raw' = raw
    BY <2>2 DEF Cite, Snapshot, Collect, Zip, Accept, Replace, WritesDone, LogRestore, Kill,
                CopyDatabase, AcceptDatabase
  <2>3. CASE UNCHANGED vars
    BY <1>1, <2>3 DEF vars
  <2> QED
    BY <1>1, <2>1, <2>2, <2>3 DEF Next, Step, BundleStep
<1>2. TypeOK /\ [Next]_vars => [\A d \in Digests : raw[d] = "whole" => raw'[d] = "whole"]_raw
  BY <1>1
<1> QED
  BY <1>2, BackupTypeOK, PTL DEF Spec, RawKept

-----------------------------------------------------------------------------

\* What a process may rely on at each point of a backup or a restore.
Holding(p) ==
  /\ pc[p] = "collect" => draft[p].db.cites \subseteq db.cites
  /\ pc[p] = "zip" => draft[p].db.cites \subseteq draft[p].files
  /\ pc[p] \in {"replace", "write"} => \A d \in draft[p].files : raw[d] # "torn"
  /\ pc[p] = "writing" => \A d \in draft[p].files \ {item[p]} : raw[d] # "torn"
  /\ pc[p] \in {"write", "writing", "event"} => db.cites = draft[p].db.cites
  /\ pc[p] = "event" => \A d \in draft[p].files : raw[d] = "whole"

AloneInv ==
  /\ \A p, q \in Procs : pc[p] \in Restoring => p = q \/ pc[q] = "idle"
  /\ \A p \in Procs : Holding(p)
  /\ BundlesVerify

LEMMA AloneInvHolds == Spec => [](~crowded => AloneInv)
<1> USE BackupAssumption
<1>1. Init => (~crowded => AloneInv)
  BY DEF Init, AloneInv, Holding, BundlesVerify, Restoring
<1>2. TypeOK /\ TypeOK' /\ (~crowded => AloneInv) /\ [Next]_vars
        => (~crowded => AloneInv)'
  <2> SUFFICES ASSUME TypeOK, TypeOK', ~crowded => AloneInv, [Next]_vars, ~crowded'
               PROVE AloneInv'
    OBVIOUS
  <2>0. ~crowded /\ ~crowded' /\ AloneInv
    BY DEF Next, vars, TypeOK
  <2>a. \A p, q \in Procs : pc'[p] \in Restoring => p = q \/ pc'[q] = "idle"
    BY <2>0 DEF Next, Crowd, AloneInv, vars, procs
  <2> USE <2>0, <2>a DEF Goto, Return, home, TypeOK
  <2>1. ASSUME NEW p \in Procs, Capture(p) PROVE AloneInv'
    BY <2>1 DEF Capture, AloneInv, Holding, BundlesVerify, Restoring
  <2>2. ASSUME NEW p \in Procs, Cite(p) PROVE AloneInv'
    <3>1. db.cites \subseteq db'.cites
      BY <2>2 DEF Cite
    <3> QED
      BY <2>2, <3>1 DEF Cite, AloneInv, Holding, BundlesVerify, Restoring
  <2>3. ASSUME NEW p \in Procs, Snapshot(p) PROVE AloneInv'
    <3>1. draft'[p].db = db
      BY <2>3 DEF Snapshot
    <3> QED
      BY <2>3, <3>1 DEF Snapshot, AloneInv, Holding, BundlesVerify, Restoring
  <2>4. ASSUME NEW p \in Procs, Collect(p) PROVE AloneInv'
    <3>1. CASE \A d \in db.cites : raw[d] = "whole"
      <4>1. /\ draft'[p].db.cites \subseteq draft'[p].files
            /\ \A q \in Procs \ {p} : draft'[q] = draft[q]
        <5>1. /\ draft'[p] = [draft[p] EXCEPT !.files = db.cites]
              /\ \A q \in Procs \ {p} : draft'[q] = draft[q]
          BY <2>4, <3>1 DEF Collect
        <5>2. draft[p].db.cites \subseteq db.cites /\ draft[p] \in Bundles
          BY <2>4 DEF Collect, AloneInv, Holding
        <5>3. draft'[p].db = draft[p].db /\ draft'[p].files = db.cites
          BY <5>1, <5>2 DEF Bundles
        <5> QED
          BY <5>1, <5>2, <5>3
      <4>2. BundlesVerify'
        <5>1. \A b \in Paths : bundle'[b] = bundle[b] \/ bundle'[b] = Torn
          BY <2>4, <3>1 DEF Collect
        <5> QED
          BY <5>1 DEF AloneInv, BundlesVerify, Verifies
      <4> QED
        <5>1. /\ pc'[p] = "zip" /\ UNCHANGED <<db, raw, item>>
              /\ \A q \in Procs \ {p} : pc'[q] = pc[q]
          BY <2>4, <3>1 DEF Collect
        <5>2. \A q \in Procs : Holding(q)'
          <6>1. Holding(p)'
            BY <4>1, <5>1 DEF Holding
          <6>2. ASSUME NEW q \in Procs \ {p} PROVE Holding(q)'
            BY <4>1, <5>1, <6>2 DEF AloneInv, Holding
          <6> QED
            BY <6>1, <6>2
        <5>3. \A q, r \in Procs : pc'[q] \in Restoring => q = r \/ pc'[r] = "idle"
          BY <2>4, <5>1 DEF Collect, AloneInv, Restoring
        <5> QED
          BY <4>2, <5>2, <5>3 DEF AloneInv, Restoring
    <3>2. CASE ~ \A d \in db.cites : raw[d] = "whole"
      <4>1. /\ pc' = [pc EXCEPT ![p] = "idle"] /\ UNCHANGED <<db, raw, item, bundle>>
            /\ \A q \in Procs \ {p} : draft'[q] = draft[q]
        BY <2>4, <3>2 DEF Collect
      <4>2. BundlesVerify' /\ \A q \in Procs : Holding(q)'
        BY <4>1 DEF AloneInv, Holding, BundlesVerify, Restoring
      <4> QED
        BY <4>2 DEF AloneInv
    <3> QED
      BY <3>1, <3>2
  <2>5. ASSUME NEW p \in Procs, Zip(p) PROVE AloneInv'
    <3>1. Verifies(draft[p])
      BY <2>5 DEF Zip, AloneInv, Holding, Verifies
    <3>2. BundlesVerify'
      BY <2>5, <3>1 DEF Zip, AloneInv, BundlesVerify
    <3> QED
      BY <2>5, <3>2 DEF Zip, AloneInv, Holding, Restoring
  <2>6. ASSUME NEW p \in Procs, Accept(p) PROVE AloneInv'
    <3>2. \A q \in Procs \ {p} : pc'[q] = "idle"
      BY <2>6 DEF Accept, Restoring
    <3>3. pc'[p] = "replace" /\ \A d \in draft'[p].files : raw'[d] # "torn"
      BY <2>6 DEF Accept
    <3> QED
      BY <2>6, <3>2, <3>3 DEF Accept, AloneInv, Holding, BundlesVerify, Restoring
  <2>7. ASSUME NEW p \in Procs, Replace(p) PROVE AloneInv'
    <3>1. \A q \in Procs \ {p} : pc[q] = "idle"
      BY <2>7 DEF Replace, AloneInv, Restoring
    <3> QED
      BY <2>7, <3>1 DEF Replace, AloneInv, Holding, BundlesVerify, Restoring
  <2>8. ASSUME NEW p \in Procs, WriteFile(p) PROVE AloneInv'
    <3>1. \A q \in Procs \ {p} : pc[q] = "idle"
      BY <2>8 DEF WriteFile, AloneInv, Restoring
    <3>2. Holding(p)'
      <4>1. \A d \in draft'[p].files \ {item'[p]} : raw'[d] # "torn"
        BY <2>8 DEF WriteFile, AloneInv, Holding
      <4> QED
        BY <2>8, <4>1 DEF WriteFile, AloneInv, Holding, Restoring
    <3> QED
      BY <2>8, <3>1, <3>2 DEF WriteFile, AloneInv, Holding, BundlesVerify, Restoring
  <2>9. ASSUME NEW p \in Procs, FileWritten(p) PROVE AloneInv'
    <3>1. \A q \in Procs \ {p} : pc[q] = "idle"
      BY <2>9 DEF FileWritten, AloneInv, Restoring
    <3>2. \A d \in draft'[p].files : raw'[d] # "torn"
      <4>1. \A d \in Digests : raw'[d] = IF d = item[p] THEN "whole" ELSE raw[d]
        BY <2>9 DEF FileWritten
      <4> QED
        BY <2>9, <4>1 DEF FileWritten, AloneInv, Holding, Bundles
    <3> QED
      BY <2>9, <3>1, <3>2 DEF FileWritten, AloneInv, Holding, BundlesVerify, Restoring
  <2>10. ASSUME NEW p \in Procs, WritesDone(p) PROVE AloneInv'
    <3>1. \A d \in draft[p].files : raw[d] = "whole"
      BY <2>10 DEF WritesDone, AloneInv, Holding, Bundles
    <3> QED
      BY <2>10, <3>1 DEF WritesDone, AloneInv, Holding, BundlesVerify, Restoring
  <2>11. ASSUME NEW p \in Procs, LogRestore(p) PROVE AloneInv'
    <3>1. \A q \in Procs \ {p} : pc[q] = "idle"
      BY <2>11 DEF LogRestore, AloneInv, Restoring
    <3> QED
      BY <2>11, <3>1 DEF LogRestore, AloneInv, Holding, BundlesVerify, Restoring
  <2>12. ASSUME NEW p \in Procs, Kill(p) PROVE AloneInv'
    BY <2>12 DEF Kill, AloneInv, Holding, BundlesVerify, Restoring
  <2>13. CASE UNCHANGED vars
    BY <2>13 DEF vars, procs, AloneInv, Holding, BundlesVerify
  <2>14. ASSUME NEW p \in Procs, CopyDatabase(p) PROVE AloneInv'
    BY <2>14 DEF CopyDatabase, procs, AloneInv, Holding, BundlesVerify
  <2>15. ASSUME NEW p \in Procs, AcceptDatabase(p) PROVE AloneInv'
    <3>1. \A q \in Procs \ {p} : pc'[q] = "idle"
      BY <2>15 DEF AcceptDatabase, Restoring
    <3>2. pc'[p] = "replace" /\ draft'[p].files = {}
      BY <2>15 DEF AcceptDatabase
    <3> QED
      BY <2>15, <3>1, <3>2 DEF AcceptDatabase, AloneInv, Holding, BundlesVerify, Restoring
  <2> QED
    BY <2>1, <2>2, <2>3, <2>4, <2>5, <2>6, <2>7, <2>8, <2>9, <2>10, <2>11, <2>12, <2>13, <2>14, <2>15
       DEF Next, Step, BundleStep
<1> QED
  BY <1>1, <1>2, BackupTypeOK, PTL DEF Spec

\* Bundles verify, whatever is captured while they are made.
THEOREM MadeBundlesVerify == Spec => []BundlesVerify
<1>1. (~crowded => AloneInv) => BundlesVerify
  BY DEF AloneInv, BundlesVerify
<1> QED
  BY <1>1, AloneInvHolds, PTL

\* The restore of a bundle that comes to its audit event has put every cited
\* artifact in place.
THEOREM RestoreEndsWhole == Spec => []RestoredIsWhole
<1>1. (~crowded => AloneInv) => RestoredIsWhole
  BY DEF AloneInv, Holding, RestoredIsWhole, Restoring, Verifies
<1> QED
  BY <1>1, AloneInvHolds, PTL

-----------------------------------------------------------------------------

Replaced == {"write", "writing", "event"}

\* Without kills a torn file is one that is being written, and a database that
\* was replaced gets its event before anything else.
QuietInv ==
  /\ \A d \in Digests : raw[d] = "torn" => \E p \in Procs : pc[p] = "writing" /\ item[p] = d
  /\ \A p \in Procs : pc[p] = "cite" => raw[item[p]] = "whole"
  /\ \A p \in Procs : pc[p] \in Replaced => db.log = origin
  /\ (\A p \in Procs : pc[p] \notin Replaced) =>
       (origin # <<>> => /\ Len(db.log) > Len(origin)
                         /\ \A i \in 1..Len(origin) : db.log[i] = origin[i]
                         /\ db.log[Len(origin) + 1] = "restore")

LEMMA QuietInvHolds == Spec => [](~crowded /\ ~killed => QuietInv)
<1> USE BackupAssumption
<1>1. Init => (~crowded /\ ~killed => QuietInv)
  BY DEF Init, EmptyDb, QuietInv, Replaced
<1>2. TypeOK /\ (~crowded => AloneInv) /\ (~crowded /\ ~killed => QuietInv) /\ [Next]_vars
        => (~crowded /\ ~killed => QuietInv)'
  <2> SUFFICES ASSUME TypeOK, ~crowded => AloneInv, ~crowded /\ ~killed => QuietInv,
                      [Next]_vars, ~crowded', ~killed'
               PROVE QuietInv'
    OBVIOUS
  <2>0. AloneInv /\ QuietInv
    BY DEF Next, vars, TypeOK
  <2>d. \A p, q \in Procs : pc'[p] \in Restoring => p = q \/ pc'[q] = "idle"
    BY <2>0 DEF Next, Crowd, AloneInv, vars, procs
  <2> USE <2>0 DEF Goto, Return, home, TypeOK
  <2>a. /\ db.log \in Seq({"restore"} \cup Digests) /\ origin \in Seq({"restore"} \cup Digests)
        /\ db.cites \subseteq Digests
    BY DEF Databases
  \* Where no restore is under way nothing is torn.
  <2>b. ASSUME \A q \in Procs : pc[q] \notin Restoring PROVE \A d \in Digests : raw[d] # "torn"
    BY <2>b DEF QuietInv, Restoring
  <2>c. ASSUME NEW p \in Procs, pc[p] \in Restoring
        PROVE \A q \in Procs \ {p} : pc[q] = "idle"
    BY <2>c DEF AloneInv
  <2>1. ASSUME NEW p \in Procs, Capture(p) PROVE QuietInv'
    <3>1. \A q \in Procs : pc[q] \notin Restoring /\ pc'[q] \notin Restoring
      BY <2>1, <2>d DEF Capture, Restoring
    <3>2. /\ \A d \in Digests : raw'[d] = raw[d] \/ raw'[d] = "whole"
          /\ raw'[item'[p]] = "whole"
      BY <2>1, <2>b, <3>1 DEF Capture
    <3>3. \A d \in Digests : raw'[d] # "torn"
      BY <2>b, <3>1, <3>2
    <3> QED
      BY <2>1, <2>a, <3>1, <3>2, <3>3 DEF Capture, QuietInv, Restoring, Replaced
  <2>2. ASSUME NEW p \in Procs, Cite(p) PROVE QuietInv'
    <3>1. \A q \in Procs : pc[q] \notin Restoring
      BY <2>2 DEF Cite, AloneInv, Restoring
    <3>2. db'.log = Append(db.log, item[p])
      BY <2>2 DEF Cite
    <3>3. /\ Len(db'.log) = Len(db.log) + 1
          /\ \A i \in 1..Len(db.log) : db'.log[i] = db.log[i]
      BY <2>a, <3>2
    <3>4. Len(origin) \in Nat /\ Len(db.log) \in Nat
      BY <2>a
    <3> QED
      BY <2>2, <3>1, <3>2, <3>3, <3>4 DEF Cite, QuietInv, Restoring, Replaced
  <2>3. ASSUME NEW p \in Procs,
               \/ Snapshot(p) \/ Collect(p) \/ Zip(p)
               \/ Accept(p) \/ CopyDatabase(p) \/ AcceptDatabase(p)
        PROVE QuietInv'
    <3>1. /\ UNCHANGED <<db, raw, origin, item>> /\ pc[p] \in {"idle", "collect", "zip"}
          /\ pc'[p] \in {"idle", "collect", "zip", "replace"}
          /\ \A q \in Procs \ {p} : pc'[q] = pc[q]
      BY <2>3 DEF Snapshot, Collect, Zip, Accept, CopyDatabase, AcceptDatabase, procs
    <3> QED
      BY <3>1 DEF QuietInv, Replaced
  <2>4. ASSUME NEW p \in Procs, Replace(p) PROVE QuietInv'
    <3>1. \A q \in Procs \ {p} : pc[q] = "idle"
      BY <2>4, <2>c DEF Replace, Restoring
    <3>2. \A d \in Digests : raw[d] # "torn"
      BY <2>4, <3>1 DEF Replace, QuietInv
    <3> QED
      BY <2>4, <3>1, <3>2 DEF Replace, QuietInv, Replaced
  <2>5. ASSUME NEW p \in Procs, WriteFile(p) PROVE QuietInv'
    <3>1. \A q \in Procs \ {p} : pc[q] = "idle"
      BY <2>5, <2>c DEF WriteFile, Restoring
    <3>2. \A d \in Digests : raw[d] # "torn"
      BY <2>5, <3>1 DEF WriteFile, QuietInv
    <3>3. /\ \A d \in Digests : raw'[d] = "torn" => d = item'[p]
          /\ pc'[p] = "writing" /\ UNCHANGED <<db, origin>>
          /\ \A q \in Procs \ {p} : pc'[q] = "idle"
      BY <2>5, <3>1, <3>2 DEF WriteFile
    <3> QED
      BY <2>5, <3>3 DEF WriteFile, QuietInv, Replaced
  <2>6. ASSUME NEW p \in Procs, FileWritten(p) PROVE QuietInv'
    <3>1. \A q \in Procs \ {p} : pc[q] = "idle"
      BY <2>6, <2>c DEF FileWritten, Restoring
    <3>2. \A d \in Digests : raw'[d] # "torn"
      BY <2>6, <3>1 DEF FileWritten, QuietInv
    <3>3. pc'[p] = "write" /\ UNCHANGED <<db, origin>> /\ \A q \in Procs \ {p} : pc'[q] = "idle"
      BY <2>6, <3>1 DEF FileWritten
    <3> QED
      BY <2>6, <3>2, <3>3 DEF FileWritten, QuietInv, Replaced
  <2>7. ASSUME NEW p \in Procs, WritesDone(p) PROVE QuietInv'
    <3>1. \A q \in Procs \ {p} : pc[q] = "idle"
      BY <2>7, <2>c DEF WritesDone, Restoring
    <3> QED
      BY <2>7, <3>1 DEF WritesDone, QuietInv, Replaced
  <2>8. ASSUME NEW p \in Procs, LogRestore(p) PROVE QuietInv'
    <3>1. \A q \in Procs \ {p} : pc[q] = "idle"
      BY <2>8, <2>c DEF LogRestore, Restoring
    <3>3. db.log = origin
      BY <2>8 DEF LogRestore, QuietInv, Replaced
    <3>4. db'.log = Append(origin, "restore")
      BY <2>8, <3>3 DEF LogRestore, Databases
    <3>5. /\ Len(db'.log) = Len(origin) + 1
          /\ \A i \in 1..Len(origin) : db'.log[i] = origin[i]
          /\ db'.log[Len(origin) + 1] = "restore"
      BY <2>a, <3>4
    <3>6. Len(origin) \in Nat
      BY <2>a
    <3>7. UNCHANGED <<raw, origin, item>> /\ \A q \in Procs : pc'[q] = "idle"
      BY <2>8, <3>1 DEF LogRestore
    <3>8. \A d \in Digests : raw[d] # "torn"
      BY <2>8, <3>1 DEF LogRestore, QuietInv
    <3> QED
      BY <3>4, <3>5, <3>6, <3>7, <3>8 DEF QuietInv, Replaced
  <2>10. CASE UNCHANGED vars
    BY <2>10 DEF vars, procs, QuietInv, Replaced
  <2> QED
    BY <2>1, <2>2, <2>3, <2>4, <2>5, <2>6, <2>7, <2>8, <2>10 DEF Next, Step, BundleStep
<1> QED
  BY <1>1, <1>2, BackupTypeOK, AloneInvHolds, PTL DEF Spec

\* The artifact is there, or a restore under way has it.
Coming(d) == raw[d] = "whole" \/ \E p \in Procs : pc[p] \in Restoring /\ d \in draft[p].files

\* Whatever is cited, by the database, by its copy or by what is being restored,
\* is there or coming.
CitedInv ==
  /\ \A d \in db.cites : Coming(d)
  /\ copy # None => \A d \in copy.cites : Coming(d)
  /\ \A p \in Procs : pc[p] \in Restoring => \A d \in draft[p].db.cites : Coming(d)

LEMMA CitedInvHolds == Spec => [](~crowded /\ ~killed /\ ~bare => CitedInv)
<1> USE BackupAssumption
<1>1. Init => CitedInv
  BY DEF Init, EmptyDb, CitedInv, Restoring
<1>2. TypeOK /\ TypeOK' /\ (~crowded => AloneInv) /\ (~crowded /\ ~killed => QuietInv)
        /\ (~crowded /\ ~killed /\ ~bare => CitedInv) /\ [Next]_vars
        => (~crowded /\ ~killed /\ ~bare => CitedInv)'
  <2> SUFFICES ASSUME TypeOK, TypeOK', ~crowded => AloneInv, ~crowded /\ ~killed => QuietInv,
                      ~crowded /\ ~killed /\ ~bare => CitedInv,
                      [Next]_vars, ~crowded', ~killed', ~bare'
               PROVE CitedInv'
    OBVIOUS
  <2>0. AloneInv /\ QuietInv /\ CitedInv
    BY DEF Next, Step, AcceptDatabase, CopyDatabase, vars, TypeOK
  <2>a. /\ db.cites \subseteq Digests /\ (copy # None => copy.cites \subseteq Digests)
        /\ \A q \in Procs : draft[q].db.cites \subseteq Digests /\ draft[q].files \subseteq Digests
    BY DEF TypeOK, Bundles, Databases
  <2> USE DEF Goto, Return, home, TypeOK
  \* What is there or coming stays so: a restore ends with its files in place.
  <2>b. ASSUME NEW p \in Procs, BundleStep(p) \/ CopyDatabase(p) \/ AcceptDatabase(p),
               NEW d \in Digests, Coming(d)
        PROVE Coming(d)'
    <3>1. ASSUME Capture(p) \/ WriteFile(p) \/ FileWritten(p) PROVE Coming(d)'
      BY <2>b, <3>1 DEF Capture, WriteFile, FileWritten, Coming, Restoring
    <3>2. ASSUME Cite(p) \/ Snapshot(p) \/ Collect(p) \/ Zip(p) \/ Accept(p) \/ AcceptDatabase(p)
          PROVE Coming(d)'
      <4>1. /\ raw' = raw /\ pc[p] \notin Restoring
            /\ \A q \in Procs \ {p} : pc'[q] = pc[q] /\ draft'[q] = draft[q]
        BY <3>2 DEF Cite, Snapshot, Collect, Zip, Accept, AcceptDatabase, Restoring
      <4> QED
        BY <2>b, <4>1 DEF Coming
    <3>3. ASSUME Replace(p) \/ WritesDone(p) PROVE Coming(d)'
      BY <2>b, <3>3 DEF Replace, WritesDone, Coming, Restoring
    <3>4. ASSUME LogRestore(p) PROVE Coming(d)'
      <4>1. \A e \in draft[p].files : raw[e] = "whole"
        BY <2>0, <3>4 DEF LogRestore, AloneInv, Holding
      <4>2. raw' = raw /\ \A q \in Procs \ {p} : pc'[q] = pc[q] /\ draft'[q] = draft[q]
        BY <3>4 DEF LogRestore
      <4> QED
        BY <2>b, <4>1, <4>2 DEF Coming
    <3>5. ASSUME CopyDatabase(p) PROVE Coming(d)'
      BY <2>b, <3>5 DEF CopyDatabase, procs, Coming
    <3> QED
      BY <2>b, <3>1, <3>2, <3>3, <3>4, <3>5 DEF BundleStep
  \* So a step may change who cites what, if that is there or coming.
  <2>c. ASSUME NEW p \in Procs, BundleStep(p) \/ CopyDatabase(p) \/ AcceptDatabase(p),
               \A d \in db'.cites : Coming(d)',
               copy' \in {copy, db},
               pc'[p] \in Restoring => \A d \in draft'[p].db.cites : Coming(d)',
               \A q \in Procs \ {p} : pc'[q] = pc[q] /\ draft'[q] = draft[q]
        PROVE CitedInv'
    BY <2>0, <2>a, <2>b, <2>c DEF CitedInv
  <2>1. ASSUME NEW p \in Procs, UNCHANGED <<copy, bare>>,
               Capture(p) \/ Snapshot(p) \/ Collect(p) \/ Zip(p)
        PROVE CitedInv'
    <3>1. /\ db' = db /\ pc'[p] \notin Restoring
          /\ \A q \in Procs \ {p} : pc'[q] = pc[q] /\ draft'[q] = draft[q]
      BY <2>1 DEF Capture, Snapshot, Collect, Zip, Restoring
    <3>2. \A d \in db.cites : Coming(d)'
      BY <2>0, <2>1, <2>a, <2>b DEF CitedInv, BundleStep
    <3> QED
      BY <2>1, <2>c, <3>1, <3>2 DEF BundleStep
  <2>2. ASSUME NEW p \in Procs, UNCHANGED <<copy, bare>>, Cite(p) PROVE CitedInv'
    <3>1. /\ db'.cites = db.cites \cup {item[p]} /\ raw' = raw /\ raw[item[p]] = "whole"
          /\ pc'[p] \notin Restoring
          /\ \A q \in Procs \ {p} : pc'[q] = pc[q] /\ draft'[q] = draft[q]
      BY <2>0, <2>2 DEF Cite, QuietInv, Restoring
    <3>2. \A d \in db'.cites : Coming(d)'
      <4>1. \A d \in db.cites : Coming(d)'
        BY <2>0, <2>2, <2>a, <2>b DEF CitedInv, BundleStep
      <4>2. ASSUME NEW d, d = item[p] PROVE Coming(d)'
        BY <3>1, <4>2 DEF Coming
      <4> QED
        BY <3>1, <4>1, <4>2
    <3> QED
      BY <2>2, <2>c, <3>1, <3>2 DEF BundleStep
  <2>3. ASSUME NEW p \in Procs, UNCHANGED <<copy, bare>>, Accept(p) PROVE CitedInv'
    <3>1. /\ db' = db /\ draft'[p].db.cites \subseteq draft'[p].files /\ pc'[p] \in Restoring
          /\ \A q \in Procs \ {p} : pc'[q] = pc[q] /\ draft'[q] = draft[q]
      BY <2>3 DEF Accept, Verifies, Restoring
    <3>2. \A d \in db.cites : Coming(d)'
      BY <2>0, <2>3, <2>a, <2>b DEF CitedInv, BundleStep
    <3>3. \A d \in draft'[p].db.cites : Coming(d)'
      BY <3>1 DEF Coming
    <3> QED
      BY <2>3, <2>c, <3>1, <3>2, <3>3 DEF BundleStep
  <2>4. ASSUME NEW p \in Procs, UNCHANGED <<copy, bare>>,
               Replace(p) \/ WriteFile(p) \/ FileWritten(p) \/ WritesDone(p)
        PROVE CitedInv'
    <3>1. /\ db' \in {db, draft[p].db} /\ pc[p] \in Restoring /\ draft' = draft
          /\ \A q \in Procs \ {p} : pc'[q] = pc[q]
      BY <2>4 DEF Replace, WriteFile, FileWritten, WritesDone, Restoring
    <3>2. /\ \A d \in db.cites : Coming(d)'
          /\ \A d \in draft[p].db.cites : Coming(d)'
      BY <2>0, <2>4, <2>a, <2>b, <3>1 DEF CitedInv, BundleStep
    <3> QED
      BY <2>4, <2>c, <3>1, <3>2 DEF BundleStep
  <2>5. ASSUME NEW p \in Procs, UNCHANGED <<copy, bare>>, LogRestore(p) PROVE CitedInv'
    <3>1. /\ db'.cites = db.cites /\ pc'[p] \notin Restoring
          /\ \A q \in Procs \ {p} : pc'[q] = pc[q] /\ draft'[q] = draft[q]
      BY <2>5 DEF LogRestore, Restoring, Databases
    <3>2. \A d \in db.cites : Coming(d)'
      BY <2>0, <2>5, <2>a, <2>b DEF CitedInv, BundleStep
    <3> QED
      BY <2>5, <2>c, <3>1, <3>2 DEF BundleStep
  <2>6. ASSUME NEW p \in Procs, CopyDatabase(p) PROVE CitedInv'
    <3>1. db' = db /\ copy' = db /\ pc' = pc /\ draft' = draft /\ pc'[p] \notin Restoring
      BY <2>6 DEF CopyDatabase, procs, Restoring
    <3>2. \A d \in db.cites : Coming(d)'
      BY <2>0, <2>6, <2>a, <2>b DEF CitedInv
    <3> QED
      BY <2>6, <2>c, <3>1, <3>2
  \* What is not another home's is the copy.
  <2>7. ASSUME NEW p \in Procs, AcceptDatabase(p) PROVE CitedInv'
    <3>1. /\ db' = db /\ copy' = copy /\ copy # None /\ draft'[p].db = copy
          /\ \A q \in Procs \ {p} : pc'[q] = pc[q] /\ draft'[q] = draft[q]
      <4>1. PICK d \in Saved \cup ({copy} \ {None}) :
              /\ draft' = [draft EXCEPT ![p] = [db |-> d, files |-> {}]]
              /\ bare' = (bare \/ d # copy)
        BY <2>7 DEF AcceptDatabase
      <4>2. d = copy
        BY <4>1, Zenon
      <4>3. copy # None
        BY <4>2
      <4> QED
        BY <2>7, <4>1, <4>2, <4>3 DEF AcceptDatabase
    <3>2. /\ \A d \in db.cites : Coming(d)'
          /\ \A d \in copy.cites : Coming(d)'
      BY <2>0, <2>7, <2>a, <2>b, <3>1 DEF CitedInv
    <3> QED
      BY <2>7, <2>c, <3>1, <3>2
  <2>8. CASE UNCHANGED vars
    BY <2>0, <2>8 DEF vars, procs, CitedInv, Coming
  <2> QED
    BY <2>1, <2>2, <2>3, <2>4, <2>5, <2>6, <2>7, <2>8 DEF Next, Step, BundleStep
<1> QED
  BY <1>1, <1>2, BackupTypeOK, AloneInvHolds, QuietInvHolds, PTL DEF Spec

\* Without kills, and without a database restored bare, every artifact that is
\* cited is in place outside of a restore.
THEOREM QuietProvenance == Spec => []ProvenanceWhole
<1>1. (~crowded /\ ~killed /\ ~bare => CitedInv) => ProvenanceWhole
  BY DEF CitedInv, Coming, Quiet, ProvenanceWhole
<1> QED
  BY <1>1, CitedInvHolds, PTL

\* The database and its artifacts fit at the end of every restore, and at all other
\* times if no restore was disturbed or killed.
THEOREM HomeIsWhole == Spec => []HomeWhole
<1>1. RestoredIsWhole /\ ProvenanceWhole => HomeWhole
  BY DEF HomeWhole
<1> QED
  BY <1>1, RestoreEndsWhole, QuietProvenance, PTL

\* Without kills a restored database has the event of the restore.
THEOREM QuietRestoreAudited == Spec => []RestoreAudited
<1>1. (~crowded /\ ~killed => QuietInv) => RestoreAudited
  BY DEF QuietInv, Quiet, RestoreAudited, Replaced, Restoring
<1> QED
  BY <1>1, QuietInvHolds, PTL

-----------------------------------------------------------------------------
(* The daemon lease, for any number of processes and inodes.  The first    *)
(* part holds of every behaviour; mutual exclusion holds until an attempt  *)
(* straddles the unlink of a release: the inductive invariant SettledInv   *)
(* says that until then the path, the opened file and the locked file are  *)
(* always the same inode.                                                  *)

\* Where a process is in main() determines whether it has the file open.
OpenFd == \A p \in Daemons : phase[p] = "down" <=> fd[p] = NoInode

LeaseInv == LeaseTypeOK /\ OpenFd /\ LeaseBacked

\* A process without the lease has no flock to lose.
LEMMA LeaseStep == LeaseInv /\ [LeaseNext]_leaseVars => LeaseInv'
<1> USE LeaseAssumption DEF LeaseInv, LeaseTypeOK, OpenFd, LeaseBacked, Owner,
                            OwnerStages, Stages, Advances, Terminate, Leftover
<1> SUFFICES ASSUME LeaseInv, [LeaseNext]_leaseVars PROVE LeaseInv'
  OBVIOUS
<1>0. raced' \in BOOLEAN
  BY DEF LeaseNext, leaseVars
<1> USE <1>0
<1>1. ASSUME NEW p \in Daemons, Open(p) PROVE LeaseInv'
  BY <1>1 DEF Open, InodeFree
<1>2. ASSUME NEW p \in Daemons, Lock(p) PROVE LeaseInv'
  BY <1>2 DEF Lock
<1>3. ASSUME NEW p \in Daemons, Reject(p) PROVE LeaseInv'
  BY <1>3 DEF Reject
<1>4. ASSUME NEW p \in Daemons, Publish(p) PROVE LeaseInv'
  BY <1>4 DEF Publish
<1>5. ASSUME NEW p \in Daemons, AbortStartup(p) PROVE LeaseInv'
  BY <1>5 DEF AbortStartup
<1>6. ASSUME NEW p \in Daemons, ServeForever(p) PROVE LeaseInv'
  BY <1>6 DEF ServeForever
<1>7. ASSUME NEW p \in Daemons, Shutdown(p) PROVE LeaseInv'
  BY <1>7 DEF Shutdown
<1>8. ASSUME NEW p \in Daemons, RemoveManifest(p) PROVE LeaseInv'
  BY <1>8 DEF RemoveManifest
<1>9. ASSUME NEW p \in Daemons, Unlock(p) PROVE LeaseInv'
  BY <1>9 DEF Unlock
<1>10. ASSUME NEW p \in Daemons, Unlink(p) PROVE LeaseInv'
  BY <1>10 DEF Unlink
<1>11. ASSUME NEW p \in Daemons, Crash(p) PROVE LeaseInv'
  BY <1>11 DEF Crash
<1>12. CASE UNCHANGED leaseVars
  BY <1>12 DEF leaseVars
<1> QED
  BY <1>1, <1>2, <1>3, <1>4, <1>5, <1>6, <1>7, <1>8, <1>9, <1>10, <1>11,
     <1>12 DEF LeaseNext, DaemonStep

\* Owners hold the flock of the inode they opened: the invariant below LeaseBacked
\* holds in every reachable state of the daemons (api/daemon.py).
THEOREM LeaseInvariant == LeaseSpec => []LeaseInv
<1>1. LeaseInit => LeaseInv
  BY LeaseAssumption DEF LeaseInit, LeaseInv, LeaseTypeOK, OpenFd, LeaseBacked, Owner,
                         OwnerStages, Stages
<1> QED
  BY <1>1, LeaseStep, PTL DEF LeaseSpec

\* The variables of the lease and of the life cycle stay in their domains.
THEOREM LeaseTypesKept == LeaseSpec => []LeaseTypeOK
BY LeaseInvariant, PTL DEF LeaseInv

\* A lease is backed by an flock, and no flock survives the daemon that took
\* it: shutdown, failed start and kill all leave the home open to a successor.
THEOREM LeaseIsBacked == LeaseSpec => []LeaseBacked
BY LeaseInvariant, PTL DEF LeaseInv

-----------------------------------------------------------------------------
(* Until a start overlaps the end of a release *)

\* The path names the inode that every live daemon has open.
OneInode ==
  \A p \in Daemons : phase[p] = "opened" \/ Owner(p) => fd[p] = linked

\* Between LOCK_UN and unlink a daemon is alone.
ReleaseAlone ==
  \A p, q \in Daemons : phase[q] = "unlocked" /\ p # q => phase[p] = "down"

PublishedManifest ==
  \A p \in Daemons : phase[p] \in {"published", "serving"} => manifest = p

Settled == ~Straddle /\ OneInode /\ ReleaseAlone /\ PublishedManifest

SettledInv == LeaseInv /\ (~raced => Settled)

\* One linked inode has one holder, so OneInode leaves room for one owner.
LEMMA OneInodeOneOwner == LeaseInv /\ Settled => OneOwner /\ ManifestMatchesServer
BY DEF Settled, LeaseInv, LeaseTypeOK, LeaseBacked, OneInode, PublishedManifest,
       OneOwner, ManifestMatchesServer

LEMMA SettledStep == SettledInv /\ [LeaseNext]_leaseVars => SettledInv'
<1> USE LeaseAssumption DEF LeaseInv, LeaseTypeOK, OpenFd, LeaseBacked, Owner,
                            OwnerStages, Stages, Advances, Terminate, Leftover,
                            OneInode, ReleaseAlone, PublishedManifest
<1> DEFINE Rest == OneInode /\ ReleaseAlone /\ PublishedManifest
<1> SUFFICES ASSUME SettledInv, [LeaseNext]_leaseVars PROVE SettledInv'
  OBVIOUS
<1>l. LeaseInv /\ LeaseInv'
  BY LeaseStep DEF SettledInv
<1> SUFFICES ASSUME ~raced' PROVE Settled'
  BY <1>l DEF SettledInv
<1>r. ~raced /\ ~Straddle'
  BY DEF SettledInv, Settled, LeaseNext, leaseVars, Straddle
<1>0. LeaseInv /\ LeaseInv' /\ ~Straddle /\ ~Straddle' /\ Rest
  BY <1>l, <1>r DEF SettledInv, Settled
<1>a. OneOwner
  BY <1>l, <1>r, OneInodeOneOwner DEF SettledInv
<1>1. ASSUME NEW p \in Daemons, Open(p) PROVE Rest'
  BY <1>0, <1>1 DEF Open, Straddle
<1>2. ASSUME NEW p \in Daemons, Lock(p) PROVE Rest'
  BY <1>0, <1>a, <1>2 DEF Lock, Straddle, OneOwner
<1>3. ASSUME NEW p \in Daemons, Reject(p) PROVE Rest'
  BY <1>0, <1>3 DEF Reject
<1>4. ASSUME NEW p \in Daemons, Publish(p) PROVE Rest'
  BY <1>0, <1>a, <1>4 DEF Publish, OneOwner
<1>5. ASSUME NEW p \in Daemons, AbortStartup(p) PROVE Rest'
  BY <1>0, <1>5 DEF AbortStartup
<1>6. ASSUME NEW p \in Daemons, ServeForever(p) PROVE Rest'
  BY <1>0, <1>6 DEF ServeForever
<1>7. ASSUME NEW p \in Daemons, Shutdown(p) PROVE Rest'
  BY <1>0, <1>7 DEF Shutdown
<1>8. ASSUME NEW p \in Daemons, RemoveManifest(p) PROVE Rest'
  BY <1>0, <1>a, <1>8 DEF RemoveManifest, OneOwner
<1>9. ASSUME NEW p \in Daemons, Unlock(p) PROVE Rest'
  BY <1>0, <1>a, <1>9 DEF Unlock, OneOwner, Straddle
<1>10. ASSUME NEW p \in Daemons, Unlink(p) PROVE Rest'
  BY <1>0, <1>10 DEF Unlink
<1>11. ASSUME NEW p \in Daemons, Crash(p) PROVE Rest'
  BY <1>0, <1>11 DEF Crash
<1>12. ASSUME UNCHANGED leaseVars PROVE Rest'
  BY <1>0, <1>12 DEF leaseVars
<1>13. Rest'
  BY <1>1, <1>2, <1>3, <1>4, <1>5, <1>6, <1>7, <1>8, <1>9, <1>10, <1>11,
     <1>12 DEF LeaseNext, DaemonStep
<1> QED
  BY <1>0, <1>13 DEF Settled

LEMMA SettledInvariant == LeaseSpec => []SettledInv
<1>1. LeaseInit => SettledInv
  BY LeaseAssumption DEF LeaseInit, SettledInv, LeaseInv, LeaseTypeOK, OpenFd, LeaseBacked,
       Owner, OwnerStages, Stages, Settled, Straddle, OneInode, ReleaseAlone, PublishedManifest
<1> QED
  BY <1>1, SettledStep, PTL DEF LeaseSpec

\* Until a start overlaps the end of a release, two daemons never own a home, and
\* the daemon that serves is the one daemon-auth.json describes.
THEOREM QuietSingleOwner == LeaseSpec => []QuietOwner
<1>1. SettledInv => QuietOwner
  BY OneInodeOneOwner DEF SettledInv, QuietOwner
<1> QED
  BY <1>1, SettledInvariant, PTL

\* ... and the lease implements the abstract single writer.
THEOREM QuietImplementsSingleWriter == LeaseSpec => ImplementsSingleWriter
<1> USE LeaseAssumption DEF LeaseInv, LeaseTypeOK, Owner, OwnerStages, Stages, Advances, Terminate
<1>1. LeaseInit => Abstract!Init
  BY DEF LeaseInit, Abstract!Init, Writer
<1>2. SettledInv /\ SettledInv' /\ [LeaseNext]_leaseVars => [Abstract!Next]_Writer
  <2> SUFFICES ASSUME SettledInv, SettledInv', [LeaseNext]_leaseVars
               PROVE  [Abstract!Next]_Writer
    OBVIOUS
  <2>r. raced => raced'
    BY DEF LeaseNext, leaseVars
  <2>s. CASE raced'
    <3>1. Writer' = NoProc
      BY <2>s DEF Writer
    <3>2. Writer = NoProc \/ \E p \in Daemons : Writer = p
      BY DEF Writer
    <3> QED
      BY <3>1, <3>2 DEF Abstract!Next, Abstract!GiveUp
  <2>q. CASE ~raced'
    <3>0. ~raced
      BY <2>q, <2>r
    <3>a. OneOwner /\ LeaseInv
      BY <3>0, OneInodeOneOwner DEF SettledInv
    <3>b. OneOwner' /\ LeaseInv'
      BY <2>q DEF SettledInv, Settled, LeaseBacked, OneInode, OneOwner
    <3>c. /\ \A p \in Daemons : Owner(p) => Writer = p
          /\ (\A p \in Daemons : ~Owner(p)) => Writer = NoProc
      BY <3>0, <3>a DEF OneOwner, Writer
    <3>d. /\ \A p \in Daemons : Owner(p)' => Writer' = p
          /\ (\A p \in Daemons : ~Owner(p)') => Writer' = NoProc
      BY <2>q, <3>b DEF OneOwner, Writer
    <3> HIDE DEF LeaseInv
    <3> DEFINE Others(p) == \A q \in Daemons \ {p} : Owner(q)' = Owner(q)
    <3>1. ASSUME NEW p \in Daemons, Lock(p) PROVE Abstract!TakeOver(p)
      <4>1. Owner(p)' /\ ~Owner(p) /\ Others(p)
        BY <3>1, <3>a DEF Lock, LeaseInv
      <4>2. \A q \in Daemons : ~Owner(q)
        BY <4>1, <3>b DEF OneOwner
      <4> QED
        BY <4>1, <4>2, <3>c, <3>d DEF Abstract!TakeOver
    <3>2. ASSUME NEW p \in Daemons, Owner(p), ~Owner(p)', Others(p)
          PROVE  Abstract!GiveUp(p)
      <4>1. \A q \in Daemons : ~Owner(q)'
        BY <3>2, <3>a DEF OneOwner
      <4> QED
        BY <3>2, <4>1, <3>c, <3>d DEF Abstract!GiveUp
    <3>3. ASSUME \A p \in Daemons : Owner(p)' = Owner(p)
          PROVE  UNCHANGED Writer
      BY <3>3, <3>c, <3>d
    <3>4. ASSUME NEW p \in Daemons, Unlock(p) PROVE Abstract!GiveUp(p)
      <4>1. Owner(p) /\ ~Owner(p)' /\ Others(p)
        BY <3>4, <3>a DEF Unlock, LeaseInv
      <4> QED
        BY <4>1, <3>2
    <3>5. ASSUME NEW p \in Daemons, Crash(p)
          PROVE  Abstract!GiveUp(p) \/ UNCHANGED Writer
      <4>1. ~Owner(p)' /\ Others(p)
        BY <3>5, <3>a DEF Crash, LeaseInv
      <4>2. CASE Owner(p)
        BY <4>1, <4>2, <3>2
      <4>3. CASE ~Owner(p)
        <5>1. \A q \in Daemons : Owner(q)' = Owner(q)
          BY <4>1, <4>3
        <5> QED
          BY <5>1, <3>3
      <4> QED
        BY <4>2, <4>3
    <3>6. ASSUME NEW p \in Daemons,
                 Open(p) \/ Reject(p) \/ Publish(p) \/ AbortStartup(p)
                   \/ ServeForever(p) \/ Shutdown(p) \/ RemoveManifest(p) \/ Unlink(p)
          PROVE  UNCHANGED Writer
      <4>1. \A q \in Daemons : Owner(q)' = Owner(q)
        BY <3>6, <3>a DEF LeaseInv, Open, Reject, Publish, AbortStartup, ServeForever,
                          Shutdown, RemoveManifest, Unlink
      <4> QED
        BY <4>1, <3>3
    <3>7. CASE UNCHANGED leaseVars
      BY <3>7, <3>3 DEF leaseVars
    <3> QED
      BY <3>1, <3>4, <3>5, <3>6, <3>7 DEF LeaseNext, DaemonStep, Abstract!Next
  <2> QED
    BY <2>s, <2>q
<1> QED
  BY <1>1, <1>2, SettledInvariant, PTL DEF LeaseSpec, ImplementsSingleWriter, Abstract!Spec

-----------------------------------------------------------------------------
(* Confirmation, for any set of requests and challenges, any time to live  *)
(* and any profile of permissions.                                         *)
(*                                                                         *)
(* OneCallPerChallenge is not inductive: it says nothing of a call that    *)
(* has consumed its challenge and not run yet.  Grant says it of both: the *)
(* challenge a call has passed with is bound to it, was issued, had not    *)
(* expired, is gone from live, and no other call has passed with it.       *)

Critical == {"preflighted", "stamped", "admitted"}
Finished == {"recording", "recorded"} \cup Over

\* Where a call may be, and what is known of it there.
Admission ==
  /\ \A n \in Challenges : issuedAt[n] <= clock
  /\ \A r \in Requests : stamp[r] <= clock
  /\ \A n \in live : asked[n] = "issued"
  /\ \A r \in Requests : nonce[r] # NoNonce => asked[nonce[r]] = "issued"
  /\ \A r \in Requests : progress[r] \in Critical => MayCall(r) /\ r \notin dry
  /\ \A r \in effects : MayCall(r) /\ r \notin dry /\ progress[r] \in Finished

\* The protected calls that have passed their challenge.
Passed(r) == NeedsConfirmation(r) /\ (progress[r] = "admitted" \/ r \in effects)

Grant ==
  /\ \A r \in Requests : Passed(r) =>
       /\ nonce[r] \in Challenges
       /\ asked[nonce[r]] = "issued"
       /\ nonce[r] \notin live
       /\ Principal[nonce[r]] = Principal[r]
       /\ Call[nonce[r]] = Call[r]
       /\ stamp[r] <= Expiry(nonce[r])
  /\ \A r, s \in Requests : Passed(r) /\ Passed(s) /\ nonce[r] = nonce[s] => r = s
  /\ \A r \in Requests :
       progress[r] \in {"preflighted", "stamped"} => NeedsConfirmation(r)

\* What is known of the outcome of a call, and of its record.
Trail ==
  /\ \A r \in Requests : outcome[r] = "done" => r \in effects
  /\ \A r \in Requests : outcome[r] = "rehearsed" => r \in dry
  /\ \A rec \in records :
       /\ progress[rec.request] \in {"recorded"} \cup Over
       /\ rec = Invocation(rec.request)
  /\ \A r \in Requests :
       progress[r] \in {"recorded", "answered"} => Invocation(r) \in records
  /\ \A r \in Requests : progress[r] = "turned" => r \in Agents /\ ~MayCall(r)

ConfInv == ConfirmationTypeOK /\ Admission /\ Grant /\ Trail

-----------------------------------------------------------------------------

\* The initial states satisfy the invariant.
LEMMA InitInv == ConfirmationInit => ConfInv
BY ConfirmationAssumption
   DEF ConfirmationInit, ConfInv, ConfirmationTypeOK, Admission, Critical, Finished, Over, Grant,
       Passed, Trail, Nonces

\* The state stays in its domains, and registry_lock is held by the one
\* request that is between its preflight and the end of its handler.
LEMMA TypeStep == ConfirmationTypeOK /\ [ConfirmationNext]_callVars => ConfirmationTypeOK'
<1> SUFFICES ASSUME ConfirmationTypeOK, [ConfirmationNext]_callVars PROVE ConfirmationTypeOK'
  OBVIOUS
<1> USE ConfirmationAssumption DEF ConfirmationTypeOK, Nonces, Over
<1>1. CASE UNCHANGED callVars
  BY <1>1 DEF callVars
<1>2. CASE Tick
  BY <1>2 DEF Tick
<1>3. CASE Restart
  BY <1>3 DEF Restart
<1>4. ASSUME NEW n \in Challenges, Ask(n) \/ Issue(n) PROVE ConfirmationTypeOK'
  <2>1. CASE Ask(n)
    BY <1>4, <2>1 DEF Ask
  <2>2. CASE Issue(n)
    BY <1>4, <2>2 DEF Issue
  <2> QED BY <1>4, <2>1, <2>2
<1>5. ASSUME NEW r \in Requests, NEW n \in Nonces, Send(r, n) PROVE ConfirmationTypeOK'
  BY <1>5 DEF Send
<1>6. ASSUME NEW r \in Requests, SendDry(r) PROVE ConfirmationTypeOK'
  BY <1>6 DEF SendDry
<1>7. ASSUME NEW r \in Requests, Serve(r) PROVE ConfirmationTypeOK'
  <2>1. CASE Rehearse(r)
    BY <1>7, <2>1 DEF Rehearse
  <2>2. CASE Enter(r)
    BY <1>7, <2>2 DEF Enter
  <2>3. CASE ReadClock(r)
    BY <1>7, <2>3 DEF ReadClock
  <2>4. CASE Consume(r)
    BY <1>7, <2>4 DEF Consume, Kept, Expired
  <2>5. CASE Execute(r)
    BY <1>7, <2>5 DEF Execute
  <2>6. CASE Record(r)
    <3>1. Invocation(r) \in [request : Requests, confirmed : BOOLEAN,
                             succeeded : BOOLEAN]
      BY <1>7 DEF Invocation
    <3> QED BY <1>7, <2>6, <3>1 DEF Record
  <2>7. CASE Answer(r)
    BY <1>7, <2>7 DEF Answer
  <2>8. CASE TurnAway(r)
    BY <1>7, <2>8 DEF TurnAway
  <2>9. CASE AgentExecute(r)
    BY <1>7, <2>9 DEF AgentExecute
  <2> QED BY <1>7, <2>1, <2>2, <2>3, <2>4, <2>5, <2>6, <2>7, <2>8, <2>9 DEF Serve
<1> QED BY <1>1, <1>2, <1>3, <1>4, <1>5, <1>6, <1>7 DEF ConfirmationNext

\* Only permitted calls that are no dry runs come to run.
LEMMA AdmissionStep == ConfirmationTypeOK /\ Admission /\ [ConfirmationNext]_callVars => Admission'
<1> SUFFICES ASSUME ConfirmationTypeOK, Admission, [ConfirmationNext]_callVars PROVE Admission'
  OBVIOUS
<1> USE ConfirmationAssumption
        DEF ConfirmationTypeOK, Admission, Critical, Finished, Over, Nonces, MayCall
<1>1. CASE UNCHANGED callVars
  BY <1>1 DEF callVars
<1>2. CASE Tick
  <2>1. /\ clock' = clock + 1 /\ clock \in Nat
        /\ UNCHANGED <<issuedAt, stamp, live, asked, nonce, progress, dry, effects>>
    BY <1>2 DEF Tick
  <2>2. /\ \A n \in Challenges : issuedAt'[n] <= clock'
        /\ \A r \in Requests : stamp'[r] <= clock'
    BY <2>1
  <2> QED BY <2>1, <2>2
<1>3. CASE Restart
  BY <1>3 DEF Restart
<1>4. ASSUME NEW n \in Challenges, Ask(n) \/ Issue(n) PROVE Admission'
  <2>1. CASE Ask(n)
    BY <1>4, <2>1 DEF Ask
  <2>2. CASE Issue(n)
    BY <1>4, <2>2 DEF Issue
  <2> QED BY <1>4, <2>1, <2>2
<1>5. ASSUME NEW r \in Requests, NEW n \in Nonces, Send(r, n) PROVE Admission'
  BY SMTT(30), <1>5 DEF Send
<1>6. ASSUME NEW r \in Requests, SendDry(r) PROVE Admission'
  BY <1>6 DEF SendDry
<1>7. ASSUME NEW r \in Requests, Serve(r) PROVE Admission'
  <2>1. CASE Rehearse(r)
    BY <1>7, <2>1 DEF Rehearse
  <2>2. CASE Enter(r)
    BY <1>7, <2>2 DEF Enter
  <2>3. CASE ReadClock(r)
    BY <1>7, <2>3 DEF ReadClock
  <2>4. CASE Consume(r)
    BY SMTT(30), <1>7, <2>4 DEF Consume, Kept, Expired
  <2>5. CASE Execute(r)
    BY <1>7, <2>5 DEF Execute
  <2>6. CASE Record(r)
    BY SMTT(30), <1>7, <2>6 DEF Record
  <2>7. CASE Answer(r)
    BY <1>7, <2>7 DEF Answer
  <2>8. CASE TurnAway(r)
    BY SMTT(30), <1>7, <2>8 DEF TurnAway
  <2>9. CASE AgentExecute(r)
    BY <1>7, <2>9 DEF AgentExecute
  <2> QED BY <1>7, <2>1, <2>2, <2>3, <2>4, <2>5, <2>6, <2>7, <2>8, <2>9 DEF Serve
<1> QED BY <1>1, <1>2, <1>3, <1>4, <1>5, <1>6, <1>7 DEF ConfirmationNext

\* A challenge that a call has passed with is spent.
LEMMA GrantStep == ConfirmationTypeOK /\ Admission /\ Grant /\ [ConfirmationNext]_callVars => Grant'
<1> SUFFICES ASSUME ConfirmationTypeOK, Admission, Grant, [ConfirmationNext]_callVars PROVE Grant'
  OBVIOUS
<1> USE ConfirmationAssumption
        DEF ConfirmationTypeOK, Admission, Critical, Finished, Over, Nonces, Grant, Passed,
            NeedsConfirmation, Expiry
<1>1. CASE UNCHANGED callVars
  BY <1>1 DEF callVars
<1>2. CASE Tick
  BY <1>2 DEF Tick
<1>3. CASE Restart
  BY <1>3 DEF Restart
<1>4. ASSUME NEW n \in Challenges, Ask(n) \/ Issue(n) PROVE Grant'
  <2>1. CASE Ask(n)
    BY <1>4, <2>1 DEF Ask
  <2>2. CASE Issue(n)
    BY <1>4, <2>2 DEF Issue
  <2> QED BY <1>4, <2>1, <2>2
<1>5. ASSUME NEW r \in Requests, NEW n \in Nonces, Send(r, n) PROVE Grant'
  BY <1>5 DEF Send
<1>6. ASSUME NEW r \in Requests, SendDry(r) PROVE Grant'
  BY <1>6 DEF SendDry
<1>7. ASSUME NEW r \in Requests, Serve(r) PROVE Grant'
  <2>1. CASE Rehearse(r)
    BY <1>7, <2>1 DEF Rehearse
  <2>2. CASE Enter(r)
    BY <1>7, <2>2 DEF Enter
  <2>3. CASE ReadClock(r)
    BY <1>7, <2>3 DEF ReadClock
  <2>4. CASE Consume(r)
    BY <1>7, <2>4 DEF Consume, Kept, Expired, Valid
  <2>5. CASE Execute(r)
    BY <1>7, <2>5 DEF Execute
  <2>6. CASE Record(r)
    BY <1>7, <2>6 DEF Record
  <2>7. CASE Answer(r)
    BY <1>7, <2>7 DEF Answer
  <2>8. CASE TurnAway(r)
    BY <1>7, <2>8 DEF TurnAway
  <2>9. CASE AgentExecute(r)
    BY <1>7, <2>9 DEF AgentExecute
  <2> QED BY <1>7, <2>1, <2>2, <2>3, <2>4, <2>5, <2>6, <2>7, <2>8, <2>9 DEF Serve
<1> QED BY <1>1, <1>2, <1>3, <1>4, <1>5, <1>6, <1>7 DEF ConfirmationNext

\* The outcome of a call is what happened, and its record says it.
LEMMA TrailStep == ConfirmationTypeOK /\ Admission /\ Trail /\ [ConfirmationNext]_callVars => Trail'
<1> SUFFICES ASSUME ConfirmationTypeOK, Admission, Trail, [ConfirmationNext]_callVars PROVE Trail'
  OBVIOUS
<1> USE DEF ConfirmationTypeOK, Admission, Critical, Finished, Over, Nonces, Trail,
            Invocation
<1>1. CASE UNCHANGED callVars
  BY <1>1 DEF callVars
<1>2. CASE Tick
  BY <1>2 DEF Tick
<1>3. CASE Restart
  BY <1>3 DEF Restart
<1>4. ASSUME NEW n \in Challenges, Ask(n) \/ Issue(n) PROVE Trail'
  <2>1. CASE Ask(n)
    BY <1>4, <2>1 DEF Ask
  <2>2. CASE Issue(n)
    BY <1>4, <2>2 DEF Issue
  <2> QED BY <1>4, <2>1, <2>2
<1>5. ASSUME NEW r \in Requests, NEW n \in Nonces, Send(r, n) PROVE Trail'
  BY <1>5 DEF Send
<1>6. ASSUME NEW r \in Requests, SendDry(r) PROVE Trail'
  BY <1>6 DEF SendDry
<1>7. ASSUME NEW r \in Requests, Serve(r) PROVE Trail'
  <2>1. CASE Rehearse(r)
    BY <1>7, <2>1 DEF Rehearse
  <2>2. CASE Enter(r)
    BY <1>7, <2>2 DEF Enter
  <2>3. CASE ReadClock(r)
    BY <1>7, <2>3 DEF ReadClock
  <2>4. CASE Consume(r)
    BY <1>7, <2>4 DEF Consume, Kept, Expired
  <2>5. CASE Execute(r)
    BY <1>7, <2>5 DEF Execute
  <2>6. CASE Record(r)
    BY <1>7, <2>6 DEF Record
  <2>7. CASE Answer(r)
    BY <1>7, <2>7 DEF Answer
  <2>8. CASE TurnAway(r)
    BY <1>7, <2>8 DEF TurnAway
  <2>9. CASE AgentExecute(r)
    BY <1>7, <2>9 DEF AgentExecute
  <2> QED BY <1>7, <2>1, <2>2, <2>3, <2>4, <2>5, <2>6, <2>7, <2>8, <2>9 DEF Serve
<1> QED BY <1>1, <1>2, <1>3, <1>4, <1>5, <1>6, <1>7 DEF ConfirmationNext

\* The invariant that the theorems below rest on holds in every reachable state of
\* the calls that HttpApi serves.
THEOREM ConfirmationInvariant == ConfirmationSpec => []ConfInv
<1>1. ConfInv /\ [ConfirmationNext]_callVars => ConfInv'
  BY TypeStep, AdmissionStep, GrantStep, TrailStep DEF ConfInv
<1> QED BY InitInv, <1>1, PTL DEF ConfirmationSpec

\* The state of the server stays in its domains, and one request at a time is
\* between its preflight and the end of its handler.
THEOREM ConfirmationTypesKept == ConfirmationSpec => []ConfirmationTypeOK
BY ConfirmationInvariant, PTL DEF ConfInv

\* A challenge lets one call through, whatever requests present it.
THEOREM ChallengesAreOneTime == ConfirmationSpec => []OneCallPerChallenge
<1>1. ConfInv => OneCallPerChallenge
  BY DEF ConfInv, ConfirmationTypeOK, Grant, Passed, OneCallPerChallenge
<1> QED BY ConfirmationInvariant, <1>1, PTL

\* What had an effect was permitted, and confirmed if it had to be.
THEOREM EffectsAreAuthorised == ConfirmationSpec => []EffectsAuthorised
<1>1. ConfInv => EffectsAuthorised
  <2> SUFFICES ASSUME ConfInv, NEW r \in effects
               PROVE  EffectsAuthorised!(r)
    BY DEF EffectsAuthorised
  <2>1. r \in Requests /\ MayCall(r) /\ r \notin dry
    BY DEF ConfInv, ConfirmationTypeOK, Admission
  <2>2. CASE NeedsConfirmation(r)
    <3>1. Passed(r)
      BY <2>2 DEF Passed
    <3> QED BY <2>1, <3>1, ConfirmationAssumption DEF ConfInv, Grant
  <2> QED BY <2>1, <2>2
<1> QED BY ConfirmationInvariant, <1>1, PTL

\* The audit trail says of each invocation one thing, which happened.
THEOREM RecordsAreTruthful == ConfirmationSpec => []RecordsTruthful
<1>1. ConfInv => RecordsTruthful
  BY DEF ConfInv, ConfirmationTypeOK, Admission, Trail, Invocation, RecordsTruthful
<1> QED BY ConfirmationInvariant, <1>1, PTL

\* One of the three ways in which a challenge may go.
GoesWell(n) ==
  \/ live' = {} /\ \A r \in Requests \ Agents : progress'[r] \in Over \cup {"new"}
  \/ Expiry(n) < clock
  \/ \E r \in Requests : /\ progress[r] = "stamped" /\ progress'[r] = "admitted"
                         /\ nonce[r] = n
                         /\ Principal[r] = Principal[n]
                         /\ Call[r] = Call[n]

\* A challenge goes by the call it was issued for, by expiry or by a restart.
THEOREM ChallengesAreKept == ConfirmationSpec => ChallengeKept
<1>1. ASSUME ConfInv, [ConfirmationNext]_callVars, NEW n \in live \ live' PROVE GoesWell(n)
  <2> USE <1>1, ConfirmationAssumption DEF ConfInv, ConfirmationTypeOK, Admission
  <2>1. CASE Restart
    BY <2>1 DEF Restart, Over, GoesWell
  <2>2. ASSUME NEW m \in Challenges, Issue(m) PROVE GoesWell(n)
    BY <2>2 DEF Issue, Expired, Expiry, GoesWell
  <2>3. ASSUME NEW r \in Requests, Consume(r) PROVE GoesWell(n)
    BY <2>3 DEF Consume, Kept, Valid, Expired, Expiry, GoesWell
  <2>4. Restart \/ (\E m \in Challenges : Issue(m)) \/ \E r \in Requests : Consume(r)
    BY DEF ConfirmationNext, callVars, Tick, Ask, Send, SendDry, Serve, Rehearse, Enter, ReadClock,
           Execute, TurnAway, AgentExecute, Record, Answer
  <2> QED BY <2>1, <2>2, <2>3, <2>4
<1>2. ConfInv /\ [ConfirmationNext]_callVars => [\A n \in live \ live' : GoesWell(n)]_callVars
  BY <1>1
<1>3. ConfirmationSpec => [][\A n \in live \ live' : GoesWell(n)]_callVars
  BY ConfirmationInvariant, <1>2, PTL DEF ConfirmationSpec
<1> QED BY <1>3 DEF ChallengeKept, GoesWell

-----------------------------------------------------------------------------
(* One run of a plugin, for any number of invocations.  A worker that was  *)
(* not killed has at most one request under way, and it is in one place:   *)
(* on stdout, with the thread, or answered on stdin.                       *)

Kinds == Prints \cup {"invoke", "ok", "error"}

\* The variables of a run stay in their domains.
PluginTypeOK ==
  /\ worker \in {"running", "waiting", "blocked"} \cup Gone
  /\ invoked \in Nat
  /\ stdout \in Seq([kind : Kinds, k : Nat])
  /\ stdin \in Seq(Nat)
  /\ answered \subseteq Nat
  /\ thread \in {"reading", "handling", "responding", "over", "failed"}
  /\ current \in Nat
  /\ result \in Outcomes \cup {"none"}
  /\ handled \in BOOLEAN
  /\ executed \subseteq Nat
  /\ main \in {"none", "ok", "error"}
  /\ malformed \in BOOLEAN
  /\ caller \in {"waiting", "joining"} \cup Ended
  /\ printed \subseteq Prints \cup {"unfinished"}

Handling == thread \in {"handling", "responding"}
OnStdout == \E i \in DOMAIN stdout : stdout[i].kind = "invoke"
UnderWay == OnStdout \/ Handling \/ stdin # <<>>

\* A request that is under way is the worker's last one, for which it waits.
Wire ==
  /\ worker # "waiting" => ~UnderWay /\ answered = 1..invoked
  /\ worker = "waiting" => invoked > 0 /\ answered = 1..(invoked - 1)
  /\ \A i \in DOMAIN stdout : stdout[i].kind = "invoke" =>
       i = Len(stdout) /\ stdout[i].k = invoked /\ ~Handling /\ stdin = <<>>
  /\ Handling => current = invoked /\ stdin = <<>>
  /\ stdin # <<>> => stdin = <<invoked>>

\* The result is the last line of a worker that succeeded.
Result ==
  /\ \A i \in DOMAIN stdout :
       stdout[i].kind = "ok" => i = Len(stdout) /\ worker = "exit0"
  /\ main = "ok" => worker = "exit0" /\ stdout = <<>> /\ thread \in {"reading", "over"}
  /\ caller = "returned" => worker = "exit0" /\ main = "ok" /\ ~malformed

Waits(kind) == \E i \in DOMAIN stdout : stdout[i].kind = kind

\* What the plugin printed of its own waits to be read, or has left its mark.
Heard ==
  /\ printed \cap {"noise", "unfinished"} # {} => malformed \/ Waits("noise")
  /\ "value" \in printed => thread = "failed" \/ Waits("value")

PluginInv == PluginTypeOK /\ (worker # "killed" => Wire) /\ Result /\ Heard

LEMMA PluginInitInv == PluginInit => PluginInv
<1> SUFFICES ASSUME PluginInit PROVE PluginInv
  OBVIOUS
<1>1. PluginTypeOK
  <2>1. <<>> \in Seq([kind : Kinds, k : Nat]) /\ <<>> \in Seq(Nat)
    OBVIOUS
  <2> QED
    BY <2>1 DEF PluginInit, PluginTypeOK, Gone, Outcomes, Ended
<1>2. stdout = <<>> /\ DOMAIN stdout = {} /\ 1..0 = {}
  BY DEF PluginInit
<1>3. Wire
  BY <1>2 DEF PluginInit, Wire, UnderWay, OnStdout, Handling
<1>4. Result
  BY <1>2 DEF PluginInit, Result
<1>5. Heard
  BY DEF PluginInit, Heard
<1> QED
  BY <1>1, <1>3, <1>4, <1>5 DEF PluginInv

\* What a line that is written or read does to the others.
LEMMA LineAppended ==
  ASSUME NEW S, NEW s \in Seq(S), NEW e \in S
  PROVE  /\ DOMAIN Append(s, e) = 1..(Len(s) + 1)
         /\ Len(Append(s, e)) = Len(s) + 1
         /\ \A i \in DOMAIN Append(s, e) :
              \/ i \in DOMAIN s /\ i <= Len(s) /\ Append(s, e)[i] = s[i]
              \/ i = Len(s) + 1 /\ Append(s, e)[i] = e
OBVIOUS

LEMMA LineRead ==
  ASSUME NEW S, NEW s \in Seq(S), s # <<>>
  PROVE  /\ Tail(s) \in Seq(S) /\ Len(Tail(s)) = Len(s) - 1
         /\ 1 \in DOMAIN s /\ Head(s) = s[1] /\ Head(s) \in S
         /\ Len(s) = 1 => Tail(s) = <<>>
         /\ \A i \in DOMAIN Tail(s) : i + 1 \in DOMAIN s /\ Tail(s)[i] = s[i + 1]
OBVIOUS

\* Every step keeps the types.
LEMMA PluginTypeStep == PluginTypeOK /\ [PluginNext]_pluginVars => PluginTypeOK'
<1> SUFFICES ASSUME PluginTypeOK, [PluginNext]_pluginVars PROVE PluginTypeOK'
  OBVIOUS
<1>0. ASSUME NEW kind \in Kinds, NEW k \in Nat
      PROVE  Append(stdout, Line(kind, k)) \in Seq([kind : Kinds, k : Nat])
  <2>1. Line(kind, k) \in [kind : Kinds, k : Nat]
    BY DEF Line
  <2> QED
    BY <2>1 DEF PluginTypeOK
<1> USE DEF PluginTypeOK, Gone, Outcomes, Ended
<1>1. CASE Invoke
  <2>1. stdout' \in Seq([kind : Kinds, k : Nat])
    <3>1. /\ {"invoke", "noise"} \subseteq Kinds /\ 0 \in Nat /\ invoked + 1 \in Nat
          /\ \/ stdout' = Append(stdout, Line("invoke", invoked + 1))
             \/ stdout' = Append(stdout, Line("noise", 0))
      BY <1>1 DEF Invoke, Kinds, Prints
    <3> QED
      BY <1>0, <3>1
  <2> QED
    BY <1>1, <2>1 DEF Invoke, hostvars
<1>2. CASE Receive
  <2>1. Head(stdin) \in Nat /\ Tail(stdin) \in Seq(Nat)
    BY <1>2 DEF Receive
  <2> QED
    BY ZenonT(30), <1>2, <2>1 DEF Receive, hostvars
<1>3. CASE Stray
  <2>1. stdout' \in Seq([kind : Kinds, k : Nat])
    BY <1>0, <1>3 DEF Stray, Kinds
  <2> QED
    BY <1>3, <2>1 DEF Stray, hostvars
<1>4. CASE Leave
  <2>1. stdout' \in Seq([kind : Kinds, k : Nat])
    <3>1. {"ok", "error"} \subseteq Kinds /\ 0 \in Nat
      BY DEF Kinds
    <3> QED
      BY <1>0, <1>4, <3>1 DEF Leave
  <2> QED
    BY <1>4, <2>1 DEF Leave, hostvars
<1>13. CASE Block
  BY <1>13 DEF Block, hostvars
<1>5. CASE Read
  <2>1. Head(stdout) \in [kind : Kinds, k : Nat] /\ Tail(stdout) \in Seq([kind : Kinds, k : Nat])
    BY <1>5, LineRead DEF Read
  <2>2. /\ current' \in Nat /\ malformed' \in BOOLEAN
        /\ thread' \in {"handling", "failed", "reading"}
        /\ main' \in {"none", "ok", "error"}
    BY <1>5, <2>1 DEF Read
  <2> QED
    BY <1>5, <2>1, <2>2 DEF Read
<1>6. CASE BridgeInvoke
  BY <1>6 DEF BridgeInvoke
<1>7. CASE Respond
  BY <1>7 DEF Respond
<1>8. CASE Drained
  BY <1>8 DEF Drained
<1>9. CASE Exited
  BY <1>9 DEF Exited, hostvars
<1>10. CASE TimeOut
  BY <1>10 DEF TimeOut, hostvars
<1>11. CASE Joined
  BY <1>11 DEF Joined, hostvars
<1>12. CASE UNCHANGED pluginVars
  BY <1>12 DEF pluginVars, hostvars
<1> QED
  BY <1>1, <1>2, <1>3, <1>4, <1>5, <1>6, <1>7, <1>8, <1>9, <1>10, <1>11, <1>12, <1>13
     DEF PluginNext, Done

\* A request is in one place at a time, and its answer ends it.
LEMMA WireStep ==
  ASSUME PluginTypeOK, PluginTypeOK', worker # "killed" => Wire, [PluginNext]_pluginVars,
         worker' # "killed"
  PROVE  Wire'
<1> USE DEF Gone
<1>0. Wire /\ worker # "killed"
  BY DEF PluginNext, pluginVars, hostvars, Invoke, Receive, Stray, Block, Leave, Read,
         BridgeInvoke, Respond, Drained, Exited, TimeOut, Joined, Done
<1> USE <1>0 DEF Wire, UnderWay, OnStdout, Handling
<1>1. CASE Invoke
  <2>1. /\ \/ stdout' = Append(stdout, [kind |-> "invoke", k |-> invoked'])
           \/ stdout' = Append(stdout, [kind |-> "noise", k |-> 0])
        /\ invoked' = invoked + 1
        /\ UNCHANGED <<stdin, answered, thread, current>>
        /\ worker = "running" /\ worker' = "waiting"
    BY <1>1 DEF Invoke, Line, hostvars
  <2>2. ~UnderWay /\ answered = 1..invoked
    BY <2>1
  <2>3. invoked \in Nat /\ invoked' \in Nat
    BY DEF PluginTypeOK
  <2>4. \A i \in DOMAIN stdout' : stdout'[i].kind = "invoke" =>
          i = Len(stdout') /\ stdout'[i].k = invoked'
    <3>1. CASE stdout' = Append(stdout, [kind |-> "invoke", k |-> invoked'])
      BY SMTT(30), <3>1, <2>2, <2>3, LineAppended DEF PluginTypeOK, Kinds, Prints
    <3>2. CASE stdout' = Append(stdout, [kind |-> "noise", k |-> 0])
      BY SMTT(30), <3>2, <2>2, <2>3, LineAppended DEF PluginTypeOK, Kinds, Prints
    <3> QED
      BY <3>1, <3>2, <2>1
  <2> QED
    BY <2>1, <2>2, <2>3, <2>4
<1>2. CASE Receive
  <2>1. /\ worker = "waiting" /\ worker' = "running" /\ stdin # <<>>
        /\ answered' = answered \cup {Head(stdin)} /\ stdin' = Tail(stdin)
        /\ UNCHANGED <<invoked, stdout, thread, current>>
    BY <1>2 DEF Receive, hostvars
  <2>2. stdin = <<invoked>> /\ ~OnStdout /\ ~Handling
    BY <2>1
  <2>3. stdin' = <<>> /\ Head(stdin) = invoked
    BY <2>1, <2>2
  <2>4. answered' = 1..invoked'
    BY <2>1, <2>3 DEF PluginTypeOK
  <2> QED
    BY <2>1, <2>2, <2>3, <2>4
<1>3. CASE Stray
  <2>1. PICK kind \in Prints : stdout' = Append(stdout, [kind |-> kind, k |-> 0])
    BY <1>3 DEF Stray, Line
  <2>3. worker = "running" /\ UNCHANGED <<worker, invoked, stdin, answered, thread, current>>
    BY <1>3 DEF Stray, hostvars
  <2>2. ~UnderWay'
    BY <2>1, <2>3, LineAppended DEF PluginTypeOK, Kinds, Prints
  <2> QED
    BY <2>2, <2>3
<1>4. CASE Leave
  <2>1. /\ worker = "running" /\ worker' # "waiting"
        /\ UNCHANGED <<invoked, stdin, answered, thread, current>>
        /\ \/ UNCHANGED stdout
           \/ \E l \in {"ok", "error"} : stdout' = Append(stdout, [kind |-> l, k |-> 0])
    BY <1>4 DEF Leave, Line, hostvars
  <2>2. ~UnderWay
    BY <2>1
  <2>3. ASSUME NEW l \in {"ok", "error"}, stdout' = Append(stdout, [kind |-> l, k |-> 0])
        PROVE  ~OnStdout'
    BY SMTT(30), <2>1, <2>2, <2>3, LineAppended DEF PluginTypeOK, Kinds
  <2> QED
    BY <2>1, <2>2, <2>3
<1>13. CASE Block
  BY <1>13 DEF Block, hostvars
<1>5. CASE Read
  <2>1. /\ stdout # <<>> /\ thread = "reading" /\ stdout' = Tail(stdout)
        /\ UNCHANGED <<worker, invoked, stdin, answered>>
        /\ IF Head(stdout).kind = "invoke" THEN thread' = "handling" /\ current' = Head(stdout).k
                                           ELSE thread' \in {"reading", "failed"} /\ UNCHANGED current
    BY <1>5 DEF Read
  <2>2. /\ Len(stdout') = Len(stdout) - 1 /\ 1 \in DOMAIN stdout /\ Head(stdout) = stdout[1]
        /\ \A i \in DOMAIN stdout' : i + 1 \in DOMAIN stdout /\ stdout'[i] = stdout[i + 1]
    BY <2>1, LineRead DEF PluginTypeOK
  <2>3. Len(stdout) \in Nat /\ DOMAIN stdout = 1..Len(stdout) /\ DOMAIN stdout' \subseteq Nat
    BY SMTT(30) DEF PluginTypeOK
  <2>4. CASE Head(stdout).kind = "invoke"
    <3>1. Len(stdout) = 1 /\ current' = invoked /\ stdin = <<>>
      BY <2>1, <2>2, <2>4
    <3>2. stdout' = <<>>
      BY <2>1, <3>1, LineRead DEF PluginTypeOK
    <3> QED
      BY <2>1, <2>2, <2>4, <3>1, <3>2
  <2>5. CASE Head(stdout).kind # "invoke"
    <3>1. \A i \in DOMAIN stdout' : stdout'[i].kind = "invoke" =>
            i = Len(stdout') /\ stdout'[i].k = invoked
      BY <2>2, <2>3
    <3>2. OnStdout' => OnStdout
      BY <2>2
    <3>3. UnderWay' => UnderWay
      BY <2>1, <2>5, <3>2
    <3> QED
      BY <2>1, <2>2, <2>5, <3>1, <3>3
  <2> QED
    BY <2>4, <2>5
<1>6. CASE BridgeInvoke
  BY <1>6 DEF BridgeInvoke
<1>7. CASE Respond
  <2>1. /\ thread = "responding" /\ thread' \in {"reading", "failed"}
        /\ UNCHANGED <<worker, invoked, stdout, answered>>
        /\ stdin' = stdin \/ stdin' = Append(stdin, current)
    BY <1>7 DEF Respond
  <2>2. stdin = <<>> /\ current = invoked /\ ~OnStdout /\ worker = "waiting"
    BY <2>1
  <2>3. stdin' = <<>> \/ stdin' = <<invoked>>
    BY <2>1, <2>2
  <2> QED
    BY <2>1, <2>2, <2>3
<1>8. CASE Drained
  BY <1>8 DEF Drained
<1>9. CASE Exited
  BY <1>9 DEF Exited, hostvars
<1>10. CASE TimeOut
  BY <1>10 DEF TimeOut
<1>11. CASE Joined
  BY <1>11 DEF Joined, hostvars
<1>12. CASE UNCHANGED pluginVars
  BY <1>12 DEF pluginVars, hostvars
<1> QED
  BY <1>1, <1>2, <1>3, <1>4, <1>5, <1>6, <1>7, <1>8, <1>9, <1>10, <1>11, <1>12, <1>13
     DEF PluginNext, Done

\* Nothing is written after the result, and nothing is left to read once it is read.
LEMMA ResultStep ==
  ASSUME PluginTypeOK, PluginTypeOK', Result, [PluginNext]_pluginVars
  PROVE  Result'
<1> USE DEF Result, Gone
<1>1. CASE Invoke
  <2>1. /\ \/ stdout' = Append(stdout, [kind |-> "invoke", k |-> invoked + 1])
           \/ stdout' = Append(stdout, [kind |-> "noise", k |-> 0])
        /\ worker = "running" /\ UNCHANGED <<main, malformed, caller, thread>>
    BY <1>1 DEF Invoke, Line, hostvars
  <2>2. CASE stdout' = Append(stdout, [kind |-> "invoke", k |-> invoked + 1])
    BY <2>1, <2>2, LineAppended DEF PluginTypeOK, Kinds, Prints
  <2>3. CASE stdout' = Append(stdout, [kind |-> "noise", k |-> 0])
    BY <2>1, <2>3, LineAppended DEF PluginTypeOK, Kinds, Prints
  <2> QED
    BY <2>1, <2>2, <2>3
<1>2. CASE Receive
  BY <1>2 DEF Receive, hostvars
<1>3. CASE Stray
  <2>1. PICK kind \in Prints : stdout' = Append(stdout, [kind |-> kind, k |-> 0])
    BY <1>3 DEF Stray, Line
  <2>2. worker = "running" /\ UNCHANGED <<worker, main, malformed, caller, thread>>
    BY <1>3 DEF Stray, hostvars
  <2> QED
    BY <2>1, <2>2, LineAppended DEF PluginTypeOK, Kinds, Prints
<1>4. CASE Leave
  <2>1. /\ worker = "running" /\ UNCHANGED <<main, malformed, caller, thread>>
        /\ \A i \in DOMAIN stdout : stdout[i].kind # "ok"
    BY <1>4 DEF Leave, hostvars
  <2>2. CASE UNCHANGED stdout
    BY <2>1, <2>2
  <2>3. CASE stdout' = Append(stdout, [kind |-> "ok", k |-> 0]) /\ worker' = "exit0"
    BY <2>1, <2>3, LineAppended DEF PluginTypeOK, Kinds
  <2>4. CASE stdout' = Append(stdout, [kind |-> "error", k |-> 0])
    BY <2>1, <2>4, LineAppended DEF PluginTypeOK, Kinds
  <2> QED
    BY <1>4, <2>2, <2>3, <2>4 DEF Leave, Line
<1>13. CASE Block
  BY <1>13 DEF Block, hostvars
<1>5. CASE Read
  <2>1. /\ stdout # <<>> /\ stdout' = Tail(stdout) /\ UNCHANGED <<worker, caller>>
        /\ main' = main \/ main' = Head(stdout).kind
        /\ main' = "ok" /\ main # "ok" => Head(stdout).kind = "ok"
        /\ Head(stdout).kind = "ok" => thread' = "reading"
    BY <1>5 DEF Read
  <2>2. /\ Len(stdout') = Len(stdout) - 1 /\ 1 \in DOMAIN stdout /\ Head(stdout) = stdout[1]
        /\ \A i \in DOMAIN stdout' : i + 1 \in DOMAIN stdout /\ stdout'[i] = stdout[i + 1]
    BY <2>1, LineRead DEF PluginTypeOK
  <2>3. Len(stdout) \in Nat /\ DOMAIN stdout = 1..Len(stdout) /\ DOMAIN stdout' \subseteq Nat
    BY DEF PluginTypeOK
  <2>4. main # "ok" /\ caller # "returned"
    BY <2>1
  <2>5. \A i \in DOMAIN stdout' :
          stdout'[i].kind = "ok" => i = Len(stdout') /\ worker' = "exit0"
    BY <2>1, <2>2, <2>3
  <2>6. ASSUME main' = "ok"
        PROVE  worker' = "exit0" /\ stdout' = <<>> /\ thread' \in {"reading", "over"}
    <3>1. Head(stdout).kind = "ok"
      BY <2>1, <2>4, <2>6
    <3>2. Len(stdout) = 1 /\ worker = "exit0"
      BY <2>2, <3>1
    <3>3. Tail(stdout) = <<>>
      BY <2>1, <3>2, LineRead DEF PluginTypeOK
    <3> QED
      BY <2>1, <3>1, <3>2, <3>3
  <2> QED
    BY <2>1, <2>4, <2>5, <2>6
<1>6. CASE BridgeInvoke
  BY <1>6 DEF BridgeInvoke
<1>7. CASE Respond
  BY <1>7 DEF Respond
<1>8. CASE Drained
  BY <1>8 DEF Drained
<1>9. CASE Exited
  BY <1>9 DEF Exited, hostvars
<1>10. CASE TimeOut
  BY <1>10 DEF TimeOut, hostvars
<1>11. CASE Joined
  BY <1>11 DEF Joined, hostvars
<1>12. CASE UNCHANGED pluginVars
  BY <1>12 DEF pluginVars, hostvars
<1> QED
  BY <1>1, <1>2, <1>3, <1>4, <1>5, <1>6, <1>7, <1>8, <1>9, <1>10, <1>11, <1>12, <1>13
     DEF PluginNext, Done

\* What a step of the worker adds is printed where it can be read, and what the
\* thread reads of it leaves its mark.
LEMMA HeardStep ==
  ASSUME PluginTypeOK, PluginTypeOK', Result, Heard, [PluginNext]_pluginVars
  PROVE  Heard'
<1> USE DEF Heard
<1>0. ASSUME NEW e \in [kind : Kinds, k : Nat], stdout' = Append(stdout, e)
      PROVE  /\ \A kind \in Kinds : Waits(kind) => Waits(kind)'
             /\ Waits(e.kind)'
  <2>1. /\ DOMAIN stdout' = 1..(Len(stdout) + 1)
        /\ \A i \in DOMAIN stdout : i \in DOMAIN stdout' /\ stdout'[i] = stdout[i]
        /\ stdout'[Len(stdout) + 1] = e /\ Len(stdout) + 1 \in DOMAIN stdout'
    BY <1>0 DEF PluginTypeOK
  <2> QED
    BY <2>1 DEF Waits
<1>00. UNCHANGED stdout => \A kind \in Kinds : Waits(kind) => Waits(kind)'
  BY DEF Waits
<1>01. {"noise", "value"} \subseteq Kinds
  BY DEF Kinds, Prints
<1>1. CASE Invoke
  <2>0. UNCHANGED <<malformed, thread>>
    BY <1>1 DEF Invoke, hostvars
  <2>1. CASE stdout' = Append(stdout, Line("invoke", invoked + 1)) /\ UNCHANGED printed
    <3>1. Line("invoke", invoked + 1) \in [kind : Kinds, k : Nat]
      BY DEF Line, Kinds, PluginTypeOK
    <3> QED
      BY <1>0, <1>01, <2>0, <2>1, <3>1
  <2>2. CASE /\ stdout' = Append(stdout, Line("noise", 0))
             /\ printed' = printed \cup {"unfinished"}
    <3>1. Line("noise", 0) \in [kind : Kinds, k : Nat] /\ Line("noise", 0).kind = "noise"
      BY DEF Line, Kinds, Prints
    <3> QED
      BY <1>0, <1>01, <2>0, <2>2, <3>1
  <2> QED
    BY <1>1, <2>1, <2>2 DEF Invoke
<1>2. CASE Receive
  BY <1>00, <1>01, <1>2 DEF Receive, hostvars
<1>3. CASE Stray
  <2>0. UNCHANGED <<malformed, thread>>
    BY <1>3 DEF Stray, hostvars
  <2>1. PICK kind \in Prints : stdout' = Append(stdout, Line(kind, 0)) /\ printed' = printed \cup {kind}
    BY <1>3 DEF Stray
  <2>2. Line(kind, 0) \in [kind : Kinds, k : Nat] /\ Line(kind, 0).kind = kind
    BY DEF Line, Kinds
  <2>3. /\ Waits("noise") => Waits("noise")'
        /\ Waits("value") => Waits("value")'
        /\ Waits(kind)'
    BY <1>0, <1>01, <2>1, <2>2
  <2>4. /\ "value" \in printed' => "value" \in printed \/ kind = "value"
        /\ printed' \cap {"noise", "unfinished"} # {} =>
             printed \cap {"noise", "unfinished"} # {} \/ kind = "noise"
    BY <2>1 DEF Prints
  <2> QED
    BY <2>0, <2>3, <2>4
<1>4. CASE Leave
  <2>0. UNCHANGED <<malformed, thread, printed>>
    BY <1>4 DEF Leave, hostvars
  <2>1. ASSUME NEW kind \in {"ok", "error"}, stdout' = Append(stdout, Line(kind, 0))
        PROVE  Heard'
    <3>1. Line(kind, 0) \in [kind : Kinds, k : Nat]
      BY DEF Line, Kinds
    <3> QED
      BY <1>0, <1>01, <2>0, <2>1, <3>1
  <2> QED
    BY <1>00, <1>01, <1>4, <2>0, <2>1 DEF Leave
<1>13. CASE Block
  BY <1>00, <1>01, <1>13 DEF Block, hostvars
<1>5. CASE Read
  <2>1. /\ stdout # <<>> /\ stdout' = Tail(stdout) /\ UNCHANGED printed
        /\ malformed' = (malformed \/ Head(stdout).kind = "noise")
        /\ Head(stdout).kind = "value" => thread' = "failed"
        /\ thread # "failed"
    BY <1>5 DEF Read
  <2>2. ASSUME NEW kind, Waits(kind), Head(stdout).kind # kind
        PROVE  Waits(kind)'
    <3>1. PICK i \in DOMAIN stdout : stdout[i].kind = kind
      BY <2>2 DEF Waits
    <3>2. i # 1 /\ i \in 2..Len(stdout)
      BY <2>1, <2>2, <3>1, LineRead DEF PluginTypeOK
    <3>3. i - 1 \in DOMAIN Tail(stdout) /\ Tail(stdout)[i - 1] = stdout[i]
      <4>1. stdout \in Seq([kind : Kinds, k : Nat]) /\ Len(stdout) \in Nat /\ i \in Nat
        BY <3>2 DEF PluginTypeOK
      <4>2. Len(Tail(stdout)) = Len(stdout) - 1 /\ DOMAIN Tail(stdout) = 1..(Len(stdout) - 1)
        BY <2>1, <4>1
      <4>3. i - 1 \in 1..(Len(stdout) - 1) /\ (i - 1) + 1 = i
        BY <3>2, <4>1
      <4> QED
        BY <2>1, <4>1, <4>2, <4>3, LineRead
    <3> QED
      BY <2>1, <3>1, <3>3 DEF Waits
  <2> QED
    BY <2>1, <2>2
<1>6. CASE BridgeInvoke
  BY <1>00, <1>01, <1>6 DEF BridgeInvoke
<1>7. CASE Respond
  BY <1>00, <1>01, <1>7 DEF Respond
<1>8. CASE Drained
  BY <1>00, <1>01, <1>8 DEF Drained
<1>9. CASE Exited
  BY <1>00, <1>01, <1>9 DEF Exited, hostvars
<1>10. CASE TimeOut
  BY <1>00, <1>01, <1>10 DEF TimeOut, hostvars
<1>11. CASE Joined
  BY <1>00, <1>01, <1>11 DEF Joined, hostvars
<1>12. CASE UNCHANGED pluginVars
  BY <1>00, <1>01, <1>12 DEF pluginVars, hostvars
<1> QED
  BY <1>1, <1>2, <1>3, <1>4, <1>5, <1>6, <1>7, <1>8, <1>9, <1>10, <1>11, <1>12, <1>13
     DEF PluginNext, Done

\* What is known of a run at every moment of it.
THEOREM PluginInvariant == PluginSpec => []PluginInv
<1>1. PluginInv /\ [PluginNext]_pluginVars => PluginInv'
  BY PluginTypeStep, WireStep, ResultStep, HeardStep DEF PluginInv
<1> QED
  BY <1>1, PluginInitInv, PTL DEF PluginSpec

\* A run that is reported as a success is a whole one (plugins/runner.py): the worker
\* ended well, all it wrote was read, what the plugin printed of its own was JSON
\* objects that are no message, and every one of its invocations had been answered,
\* however many it made and whatever timed out.
THEOREM SuccessesAreWhole == PluginSpec => []SuccessIsWhole
<1>1. PluginInv => SuccessIsWhole
  BY DEF PluginInv, PluginTypeOK, Result, Wire, Heard, Waits, Prints, SuccessIsWhole
<1> QED
  BY <1>1, PluginInvariant, PTL
=============================================================================
