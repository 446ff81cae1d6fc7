------------------------ MODULE VersionedRecordsProofs ------------------------
(***************************************************************************)
(* For every number of calls: investment policies keep their numbering     *)
(* even when calls overlap; when one call is over before the next starts,  *)
(* audited records and, with a steady clock, recommendations and answers   *)
(* about the past are right too.                                           *)
(***************************************************************************)
EXTENDS VersionedRecords, TLAPS

Labels == {"idle", "policy", "audited", "transition", "stamped"}

-----------------------------------------------------------------------------
(* Numbers of policy versions *)

\* With versions 1 to n the next number is n + 1.
LEMMA NextOfSequential ==
  ASSUME NEW rows \in Seq(PolicyVersion), \A i \in DOMAIN rows : rows[i].number = i
  PROVE  NextNumber(rows) = Len(rows) + 1
<1>1. Numbers(rows) = 1..Len(rows)
  BY DEF Numbers
<1>2. Len(rows) \in Nat
  OBVIOUS
<1> DEFINE P(n) == n \notin Numbers(rows) /\ \A m \in Numbers(rows) : m < n
<1>3. Len(rows) + 1 \in 1..(Len(rows) + 1) /\ P(Len(rows) + 1)
  BY <1>1, <1>2
<1>4. \A n \in 1..(Len(rows) + 1) : P(n) => n = Len(rows) + 1
  BY <1>1, <1>2
<1> QED
  BY <1>3, <1>4 DEF NextNumber

\* What the numbering rests on: the rows, and the row that each call holds.
NumberingInv ==
  /\ clock \in Nat
  /\ pc \in [Procs -> Labels]
  /\ want = [p \in Procs |-> want[p]]
  /\ \A p \in Procs : pc[p] = "policy" => want[p] \in PolicyVersion
  /\ versions \in Seq(PolicyVersion)
  /\ VersionsSequential
  /\ overlapped \in BOOLEAN /\ setback \in BOOLEAN

\* A proposal changes the clock and what one call holds.
LEMMA ProposeStep ==
  ASSUME NEW p \in Procs, NEW label \in Labels, NEW row, Propose(p, label, row),
               Now \/ UNCHANGED clock,
         clock \in Nat, pc \in [Procs -> Labels], want = [q \in Procs |-> want[q]]
  PROVE  /\ clock' \in Nat /\ clock <= clock'
         /\ pc' \in [Procs -> Labels] /\ want' = [q \in Procs |-> want'[q]]
         /\ pc'[p] = label /\ want'[p] = row
         /\ \A q \in Procs \ {p} : pc'[q] = pc[q] /\ want'[q] = want[q]
         /\ UNCHANGED <<versions, audited, transitions, answer>>
BY DEF Propose, Now, records

\* The three kinds of audited records read and append alike.
LEMMA KindsAlike ==
  ASSUME NEW p \in Procs
  PROVE  /\ CreatePolicy(p) \/ CreateContract(p) \/ CreateCase(p) => ReadForFirst(p)
         /\ AddAccounting(p) \/ AddContract(p) \/ AddCase(p)
              => \E inheriting \in SUBSET BOOLEAN : ReadForNext(p, inheriting)
         /\ AppendAccounting(p) \/ AppendContract(p) \/ AppendCase(p) => AppendAudited(p)
<1>1. BOOLEAN \in SUBSET BOOLEAN /\ {FALSE} \in SUBSET BOOLEAN
  OBVIOUS
<1> QED
  BY <1>1 DEF CreatePolicy, CreateContract, CreateCase, AddAccounting, AddContract, AddCase,
              AppendAccounting, AppendContract, AppendCase

\* What a call may read, and what a step may write.
ReadAlike(p) ==
  \/ ReadPolicy(p) \/ ReadStatus(p) \/ Ask(p) \/ ReadForFirst(p)
  \/ \E inheriting \in SUBSET BOOLEAN : ReadForNext(p, inheriting)

LEMMA StepsAlike ==
  ASSUME Next
  PROVE  \/ SetBack
         \/ \E p \in Procs :
              \/ ReadAlike(p)
              \/ /\ \/ Stamp(p) \/ Lock(p) \/ Abort(p)
                    \/ AppendVersion(p) \/ AppendTransition(p) \/ AppendAudited(p)
                 /\ UNCHANGED ghosts
BY KindsAlike DEF Next, Read, Write, ReadAlike

\* A version becomes known after every question so far, or when its caller says.
LEMMA KnownLaterOrClaimed ==
  ASSUME clock \in Nat, NEW known \in KnownAt
  PROVE  known \in Knowledge /\ (known.claimed \/ known.at = clock + 1)
<1>1. CASE known = [at |-> clock + 1, claimed |-> FALSE]
  BY <1>1 DEF Knowledge
<1>2. CASE \E t \in Claims : known = [at |-> t, claimed |-> TRUE]
  <2>1. PICK t \in Claims : known = [at |-> t, claimed |-> TRUE]
    BY <1>2
  <2>2. t \in Nat
    BY RecordsAssumption
  <2> QED
    BY <2>1, <2>2 DEF Knowledge
<1> QED
  BY <1>1, <1>2 DEF KnownAt

\* What a proposal for the audited record looks like.
AuditedRow(row) ==
  \/ \E from \in Dates, known \in KnownAt, t \in Terms :
       /\ audited = <<>>
       /\ row = [identity |-> clock + 1, number |-> 1, from |-> from, known |-> known,
                 terms |-> t, inherits |-> FALSE]
  \/ \E i \in DOMAIN audited, inherits \in BOOLEAN, from \in Dates, known \in KnownAt, t \in Terms :
       /\ \A j \in DOMAIN audited :
            audited[j].identity = audited[i].identity => audited[j].number <= audited[i].number
       /\ row = Following(i, i, from, known, t, inherits)

LEMMA ReadAudited ==
  ASSUME NEW p \in Procs,
         ReadForFirst(p) \/ \E inheriting \in SUBSET BOOLEAN : ReadForNext(p, inheriting)
  PROVE  Begin(p) /\ Now /\ \E row : AuditedRow(row) /\ Propose(p, "audited", row)
<1>1. CASE ReadForFirst(p)
  BY <1>1 DEF ReadForFirst, AuditedRow
<1>2. CASE \E inheriting \in SUBSET BOOLEAN : ReadForNext(p, inheriting)
  <2>1. PICK inheriting \in SUBSET BOOLEAN : ReadForNext(p, inheriting)
    BY <1>2
  <2>2. PICK i \in DOMAIN audited :
          /\ \A j \in DOMAIN audited :
               audited[j].identity = audited[i].identity => audited[j].number <= audited[i].number
          /\ \E inherits \in inheriting, from \in Dates, known \in KnownAt, t \in Terms :
               Propose(p, "audited", Following(i, i, from, known, t, inherits))
    BY <2>1 DEF ReadForNext
  <2>3. PICK inherits \in inheriting, from \in Dates, known \in KnownAt, t \in Terms :
          Propose(p, "audited", Following(i, i, from, known, t, inherits))
    BY <2>2
  <2>4. AuditedRow(Following(i, i, from, known, t, inherits))
    BY <2>2, <2>3 DEF AuditedRow
  <2> QED
    BY <2>1, <2>3, <2>4 DEF ReadForNext
<1> QED
  BY <1>1, <1>2

\* A flag that is up stays up.
LEMMA FlagsStay ==
  ASSUME overlapped \in BOOLEAN, setback \in BOOLEAN, [Next]_vars
  PROVE  /\ overlapped' \in BOOLEAN /\ setback' \in BOOLEAN
         /\ overlapped => overlapped'
         /\ setback => setback'
<1>1. ASSUME NEW p \in Procs, ReadAlike(p)
      PROVE  overlapped' = (overlapped \/ \E q \in Procs : pc[q] # "idle") /\ setback' = setback
  BY <1>1, ReadAudited DEF ReadAlike, ReadPolicy, ReadStatus, Ask, Begin
<1>3. CASE \E p \in Procs : ReadAlike(p)
  BY <1>1, <1>3
<1>4. CASE UNCHANGED ghosts
  BY <1>4 DEF ghosts
<1>5. CASE SetBack \/ UNCHANGED vars
  BY <1>5 DEF SetBack, vars, ghosts
<1> QED
  BY <1>3, <1>4, <1>5, StepsAlike

\* Taking the time changes the clock and what one call holds.
LEMMA StampStep ==
  ASSUME NEW p \in Procs, Stamp(p),
         clock \in Nat, pc \in [Procs -> Labels], want = [q \in Procs |-> want[q]]
  PROVE  /\ clock' \in Nat /\ clock' = clock + 1
         /\ pc' \in [Procs -> Labels] /\ want' = [q \in Procs |-> want'[q]]
         /\ pc[p] = "transition" /\ pc'[p] = "stamped"
         /\ want'[p] = [status |-> want[p], at |-> clock']
         /\ \A q \in Procs \ {p} : pc'[q] = pc[q] /\ want'[q] = want[q]
         /\ UNCHANGED <<versions, audited, transitions, answer>>
BY DEF Stamp, Now, records, Labels

\* The end of a call leaves what the other calls hold.
LEMMA DoneStep ==
  ASSUME NEW p \in Procs, Done(p) \/ Abort(p),
         pc \in [Procs -> Labels], want = [q \in Procs |-> want[q]]
  PROVE  /\ pc' \in [Procs -> Labels] /\ want' = [q \in Procs |-> want'[q]]
         /\ pc'[p] = "idle"
         /\ \A q \in Procs \ {p} : pc'[q] = pc[q] /\ want'[q] = want[q]
         /\ UNCHANGED answer
BY DEF Done, Abort, Labels

LEMMA NumberingInvHolds == Spec => []NumberingInv
<1> USE RecordsAssumption
<1>1. Init => NumberingInv
  <2> SUFFICES ASSUME Init PROVE NumberingInv
    OBVIOUS
  <2>1. versions \in Seq(PolicyVersion) /\ VersionsSequential
    <3>1. [at |-> 0, claimed |-> FALSE] \in Knowledge
      BY DEF Knowledge
    <3> QED
      BY <3>1 DEF Init, PolicyVersion, VersionsSequential
  <2>2. clock \in Nat /\ overlapped \in BOOLEAN /\ setback \in BOOLEAN
    BY DEF Init
  <2>3. pc \in [Procs -> Labels] /\ \A p \in Procs : pc[p] = "idle"
    BY DEF Init, Labels
  <2>4. want = [p \in Procs |-> want[p]]
    BY DEF Init
  <2> QED
    BY <2>1, <2>2, <2>3, <2>4 DEF NumberingInv
<1>2. NumberingInv /\ [Next]_vars => NumberingInv'
  <2> SUFFICES ASSUME NumberingInv, [Next]_vars PROVE NumberingInv'
    OBVIOUS
  <2> USE DEF NumberingInv
  <2>f. overlapped' \in BOOLEAN /\ setback' \in BOOLEAN
    BY FlagsStay
  <2>0. NextNumber(versions) = Len(versions) + 1 /\ Len(versions) \in Nat
    BY NextOfSequential DEF VersionsSequential
  <2>a. ASSUME NEW p \in Procs, NEW label \in Labels, NEW row, Propose(p, label, row),
               Now \/ UNCHANGED clock,
               label = "policy" => row \in PolicyVersion
        PROVE NumberingInv'
    BY <2>a, <2>f, ProposeStep DEF VersionsSequential
  <2>1. ASSUME NEW p \in Procs, ReadPolicy(p) PROVE NumberingInv'
    <3>1. PICK from \in Dates, known \in KnownAt :
            Propose(p, "policy", [number |-> NextNumber(versions), from |-> from, known |-> known])
      BY <2>1 DEF ReadPolicy
    <3>2. from \in Nat /\ known \in Knowledge /\ NextNumber(versions) \in Nat
      BY <2>0, KnownLaterOrClaimed
    <3>3. [number |-> NextNumber(versions), from |-> from, known |-> known] \in PolicyVersion
      BY <3>2 DEF PolicyVersion
    <3> QED
      BY <2>1, <2>a, <3>1, <3>3 DEF ReadPolicy, Labels
  <2>2. ASSUME NEW p \in Procs,
               \/ ReadForFirst(p) \/ ReadStatus(p)
               \/ \E inheriting \in SUBSET BOOLEAN : ReadForNext(p, inheriting)
        PROVE NumberingInv'
    <3>1. PICK label \in Labels \ {"policy"} :
            \E row : Propose(p, label, row) /\ (Now \/ UNCHANGED clock)
      BY <2>2, ReadAudited DEF ReadStatus, Labels
    <3>2. PICK row : Propose(p, label, row) /\ (Now \/ UNCHANGED clock)
      BY <3>1
    <3> QED
      BY <2>a, <3>2
  <2>3. ASSUME NEW p \in Procs, Ask(p) \/ Lock(p) PROVE NumberingInv'
    BY <2>3, <2>f DEF Ask, Lock, records, VersionsSequential
  <2>4. ASSUME NEW p \in Procs, AppendVersion(p) PROVE NumberingInv'
    <3>1. want[p] \in PolicyVersion /\ Done(p) /\ clock' = clock
      BY <2>4 DEF AppendVersion
    <3>2. versions' \in Seq(PolicyVersion)
      BY <2>4, <3>1 DEF AppendVersion
    <3>3. VersionsSequential'
      <4>1. CASE want[p].number = NextNumber(versions)
        <5>1. versions' = Append(versions, want[p])
          BY <2>4, <4>1 DEF AppendVersion
        <5> QED
          BY <2>0, <3>1, <4>1, <5>1 DEF VersionsSequential
      <4>2. CASE want[p].number # NextNumber(versions)
        BY <2>4, <4>2 DEF AppendVersion, VersionsSequential
      <4> QED
        BY <4>1, <4>2
    <3> QED
      BY <2>f, <3>1, <3>2, <3>3, DoneStep
  <2>5. ASSUME NEW p \in Procs, AppendAudited(p) \/ AppendTransition(p) \/ Abort(p) PROVE NumberingInv'
    <3>1. versions' = versions /\ clock' \in Nat /\ (Done(p) \/ Abort(p))
      BY <2>5 DEF AppendAudited, AppendTransition, Abort, Now, records
    <3> QED
      BY <2>f, <3>1, DoneStep DEF VersionsSequential
  <2>8. ASSUME NEW p \in Procs, Stamp(p) PROVE NumberingInv'
    BY <2>8, <2>f, StampStep DEF VersionsSequential
  <2>6. ASSUME SetBack PROVE NumberingInv'
    BY <2>6, <2>f DEF SetBack, records, VersionsSequential
  <2>7. ASSUME UNCHANGED vars PROVE NumberingInv'
    BY <2>7, <2>f DEF vars, records, VersionsSequential
  <2> QED
    BY <2>1, <2>2, <2>3, <2>4, <2>5, <2>6, <2>7, <2>8, StepsAlike DEF ReadAlike
<1> QED
  BY <1>1, <1>2, PTL DEF Spec

\* The versions of an investment policy are numbered 1, 2, 3, ... however many
\* calls overlap and fail (application/policy.py, Store.add_policy_version).
THEOREM NumbersStaySequential == Spec => []VersionsSequential
BY NumberingInvHolds, PTL DEF NumberingInv

-----------------------------------------------------------------------------
(* One call at a time *)

\* At most one call has read and not appended.
AloneInv == \A p, q \in Procs : pc[p] # "idle" /\ pc[q] # "idle" => p = q

\* Audited versions, and that a call holds the one that follows the latest.
IdentityInv ==
  /\ AloneInv
  /\ audited \in Seq(AuditedVersion)
  /\ SameIdentity
  /\ LatestInherited
  /\ \A p \in Procs : pc[p] = "audited" =>
       /\ want[p] \in AuditedVersion
       /\ want[p].number = Len(audited) + 1
       /\ audited = <<>> => ~want[p].inherits
       /\ audited # <<>> =>
            /\ want[p].identity = audited[Len(audited)].identity
            /\ want[p].inherits => want[p].terms = audited[Len(audited)].terms

LEMMA IdentityInvHolds == Spec => [](~overlapped => IdentityInv)
<1> USE RecordsAssumption
<1>1. Init => (~overlapped => IdentityInv)
  BY DEF Init, IdentityInv, AloneInv, SameIdentity, LatestInherited
<1>2. (~overlapped => IdentityInv) /\ NumberingInv /\ [Next]_vars => (~overlapped => IdentityInv)'
  <2> SUFFICES ASSUME ~overlapped => IdentityInv, NumberingInv, [Next]_vars, ~overlapped'
               PROVE IdentityInv'
    OBVIOUS
  <2> SUFFICES ASSUME ~overlapped, IdentityInv PROVE IdentityInv'
    BY FlagsStay DEF NumberingInv
  <2> USE DEF IdentityInv
  <2>0. clock \in Nat /\ pc \in [Procs -> Labels] /\ want = [p \in Procs |-> want[p]]
    BY DEF NumberingInv
  <2>a. ASSUME NEW p \in Procs, NEW label \in Labels, NEW row, Begin(p), Propose(p, label, row),
               Now \/ UNCHANGED clock,
               label = "audited" =>
                 /\ row \in AuditedVersion
                 /\ row.number = Len(audited) + 1
                 /\ audited = <<>> => ~row.inherits
                 /\ audited # <<>> =>
                      /\ row.identity = audited[Len(audited)].identity
                      /\ row.inherits => row.terms = audited[Len(audited)].terms
        PROVE IdentityInv'
    <3>1. \A q \in Procs : pc[q] = "idle"
      BY <2>a DEF Begin
    <3>2. AloneInv'
      BY <2>a, <2>0, <3>1, ProposeStep DEF AloneInv
    <3>3. audited' = audited /\ \A q \in Procs \ {p} : pc'[q] = "idle"
      BY <2>a, <2>0, <3>1, ProposeStep
    <3>4. pc'[p] = label /\ want'[p] = row
      BY <2>a, <2>0, ProposeStep
    <3> QED
      BY <2>a, <3>2, <3>3, <3>4 DEF SameIdentity, LatestInherited
  <2>1. ASSUME NEW p \in Procs, ReadPolicy(p) \/ ReadStatus(p) PROVE IdentityInv'
    <3>1. PICK label \in Labels \ {"audited"} :
            \E row : Begin(p) /\ Propose(p, label, row) /\ (Now \/ UNCHANGED clock)
      BY <2>1 DEF ReadPolicy, ReadStatus, Labels
    <3>2. PICK row : Begin(p) /\ Propose(p, label, row) /\ (Now \/ UNCHANGED clock)
      BY <3>1
    <3> QED
      BY <2>a, <3>2
  <2>2. ASSUME NEW p \in Procs,
               ReadForFirst(p) \/ \E inheriting \in SUBSET BOOLEAN : ReadForNext(p, inheriting)
        PROVE IdentityInv'
    <3>1. PICK row : Begin(p) /\ Now /\ AuditedRow(row) /\ Propose(p, "audited", row)
      BY <2>2, ReadAudited
    <3>2. CASE \E from \in Dates, known \in KnownAt, t \in Terms :
                 /\ audited = <<>>
                 /\ row = [identity |-> clock + 1, number |-> 1, from |-> from, known |-> known,
                           terms |-> t, inherits |-> FALSE]
      <4>1. /\ row \in AuditedVersion /\ row.number = Len(audited) + 1
            /\ ~row.inherits /\ audited = <<>>
        BY <2>0, <3>2, KnownLaterOrClaimed DEF AuditedVersion
      <4> QED
        BY <2>a, <3>1, <4>1 DEF Labels
    <3>3. CASE \E i \in DOMAIN audited, inherits \in BOOLEAN, from \in Dates, known \in KnownAt, t \in Terms :
                 /\ \A j \in DOMAIN audited :
                      audited[j].identity = audited[i].identity => audited[j].number <= audited[i].number
                 /\ row = Following(i, i, from, known, t, inherits)
      <4>1. PICK i \in DOMAIN audited, inherits \in BOOLEAN, from \in Dates, known \in KnownAt, t \in Terms :
              /\ \A j \in DOMAIN audited :
                   audited[j].identity = audited[i].identity => audited[j].number <= audited[i].number
              /\ row = Following(i, i, from, known, t, inherits)
        BY <3>3
      <4>2. audited[i] \in AuditedVersion /\ Len(audited) \in Nat \ {0} /\ i \in 1..Len(audited)
        OBVIOUS
      <4>3. i = Len(audited)
        <5>1. audited[Len(audited)].number = Len(audited) /\ audited[i].number = i
          BY <4>2 DEF LatestInherited
        <5>2. audited[Len(audited)].identity = audited[i].identity
          BY <4>2 DEF SameIdentity
        <5> QED
          BY <4>1, <4>2, <5>1, <5>2
      <4>4. audited[i].number = i
        BY <4>2 DEF LatestInherited
      <4>5. row = [identity |-> audited[i].identity, number |-> i + 1, from |-> from, known |-> known,
                   terms |-> IF inherits THEN audited[i].terms ELSE t, inherits |-> inherits]
        BY <4>1, <4>4 DEF Following
      <4>6. row \in AuditedVersion
        <5>1. i + 1 \in Nat /\ from \in Nat /\ known \in Knowledge
          BY <2>0, <4>2, KnownLaterOrClaimed
        <5>2. audited[i].identity \in Nat /\ audited[i].terms \in Terms
          BY <4>2 DEF AuditedVersion
        <5>3. (IF inherits THEN audited[i].terms ELSE t) \in Terms
          BY <5>2
        <5> QED
          BY <4>5, <5>1, <5>2, <5>3 DEF AuditedVersion
      <4>7. /\ audited # <<>> /\ row.number = Len(audited) + 1
            /\ row.identity = audited[Len(audited)].identity
            /\ row.inherits => row.terms = audited[Len(audited)].terms
        BY <4>2, <4>3, <4>5
      <4> QED
        BY <2>a, <3>1, <4>6, <4>7 DEF Labels
    <3> QED
      BY <3>1, <3>2, <3>3 DEF AuditedRow
  <2>4. ASSUME NEW p \in Procs, Ask(p) \/ Lock(p) PROVE IdentityInv'
    BY <2>4 DEF Ask, Lock, records, AloneInv, SameIdentity, LatestInherited
  <2>5. ASSUME NEW p \in Procs, AppendAudited(p) PROVE IdentityInv'
    <3>1. Done(p) /\ pc[p] = "audited" /\ audited' = Append(audited, want[p])
      BY <2>5 DEF AppendAudited
    <3>2. \A q \in Procs : pc'[q] = "idle"
      BY <2>0, <3>1, DoneStep DEF AloneInv
    <3>3. audited' \in Seq(AuditedVersion) /\ Len(audited') = Len(audited) + 1
      BY <3>1
    <3>4. SameIdentity'
      <4>1. CASE audited = <<>>
        BY <3>1, <4>1 DEF SameIdentity
      <4>2. CASE audited # <<>>
        <5>1. \A i \in DOMAIN audited : audited[i].identity = want[p].identity
          BY <3>1, <4>2 DEF SameIdentity
        <5>2. \A i \in DOMAIN audited' : audited'[i].identity = want[p].identity
          BY <3>1, <3>3, <5>1
        <5> QED
          BY <5>2 DEF SameIdentity
      <4> QED
        BY <4>1, <4>2
    <3>5. LatestInherited'
      <4>1. \A i \in DOMAIN audited : audited'[i] = audited[i]
        BY <3>1
      <4>2. DOMAIN audited' = DOMAIN audited \cup {Len(audited) + 1}
        BY <3>1, <3>3
      <4>3. audited'[Len(audited) + 1] = want[p]
        BY <3>1
      <4>4. want[p].inherits => /\ Len(audited) \in DOMAIN audited
                                /\ want[p].terms = audited'[Len(audited)].terms
        BY <3>1, <4>1
      <4>5. ASSUME NEW i \in DOMAIN audited
            PROVE  /\ audited'[i].number = i
                   /\ audited'[i].inherits => i > 1 /\ audited'[i].terms = audited'[i - 1].terms
        <5>1. CASE audited[i].inherits
          <6>1. i > 1 /\ i - 1 \in DOMAIN audited
            BY <4>5, <5>1 DEF LatestInherited
          <6> QED
            BY <4>1, <4>5, <6>1 DEF LatestInherited
        <5>2. CASE ~audited[i].inherits
          BY <4>1, <4>5, <5>2 DEF LatestInherited
        <5> QED
          BY <5>1, <5>2
      <4> QED
        BY <3>1, <4>2, <4>3, <4>4, <4>5 DEF LatestInherited
    <3> QED
      BY <3>2, <3>3, <3>4, <3>5 DEF AloneInv
  <2>6. ASSUME NEW p \in Procs, AppendVersion(p) \/ AppendTransition(p) \/ Abort(p) PROVE IdentityInv'
    <3>1. audited' = audited /\ (Done(p) \/ Abort(p))
      BY <2>6 DEF AppendVersion, AppendTransition, Abort, records
    <3> QED
      BY <2>0, <3>1, DoneStep DEF AloneInv, SameIdentity, LatestInherited
  <2>7. ASSUME SetBack \/ UNCHANGED vars PROVE IdentityInv'
    BY <2>7 DEF SetBack, vars, records, AloneInv, SameIdentity, LatestInherited
  <2>8. ASSUME NEW p \in Procs, Stamp(p) PROVE IdentityInv'
    <3>1. /\ pc[p] = "transition" /\ pc'[p] = "stamped" /\ audited' = audited
          /\ \A q \in Procs \ {p} : pc'[q] = pc[q] /\ want'[q] = want[q]
      BY <2>0, <2>8, StampStep
    <3>2. AloneInv'
      BY <3>1 DEF AloneInv
    <3> QED
      BY <3>1, <3>2 DEF SameIdentity, LatestInherited
  <2> QED
    BY <2>1, <2>2, <2>4, <2>5, <2>6, <2>7, <2>8, StepsAlike DEF ReadAlike
<1> QED
  BY <1>1, <1>2, NumberingInvHolds, PTL DEF Spec

\* As long as no two calls overlap an account has one accounting policy, whose
\* versions are numbered in order and inherit from the one before
\* (application/audited.py).
THEOREM SerialOneIdentity == Spec => []OneIdentity
<1>1. (~overlapped => IdentityInv) => OneIdentity
  BY DEF IdentityInv, OneIdentity
<1> QED
  BY <1>1, IdentityInvHolds, PTL

\* Numbers identify investment policy versions whatever overlaps, and audited
\* policy versions as long as nothing does.
THEOREM NumbersAreIdentities == Spec => []NumbersIdentify
<1>1. VersionsSequential /\ OneIdentity => NumbersIdentify
  BY DEF NumbersIdentify
<1> QED
  BY <1>1, NumbersStaySequential, SerialOneIdentity, PTL

-----------------------------------------------------------------------------
(* One call at a time, and a steady clock *)

LastStatus == IF transitions = <<>> THEN "draft" ELSE transitions[Len(transitions)].status

Increasing ==
  \A i, j \in DOMAIN transitions : i < j => transitions[i].at < transitions[j].at

LEMMA TransitionTypes ==
  ASSUME transitions \in Seq(Transition)
  PROVE  \A i \in DOMAIN transitions : transitions[i].at \in Nat /\ transitions[i].status \in Statuses
<1>1. \A i \in DOMAIN transitions : transitions[i] \in Transition
  OBVIOUS
<1> QED
  BY <1>1 DEF Transition

\* The latest transition by time is the last one recorded.
LEMMA StatusIsLast ==
  ASSUME transitions \in Seq(Transition), Increasing
  PROVE  Status = LastStatus
<1>1. CASE transitions = <<>>
  BY <1>1 DEF Status, LastStatus
<1>2. CASE transitions # <<>>
  <2> DEFINE latest == {i \in DOMAIN transitions :
                          \A j \in DOMAIN transitions : transitions[j].at <= transitions[i].at}
  <2>1. Len(transitions) \in Nat \ {0} /\ DOMAIN transitions = 1..Len(transitions)
    BY <1>2
  <2>2. \A i \in DOMAIN transitions : transitions[i].at \in Nat
    BY TransitionTypes
  <2>3. latest = {Len(transitions)}
    <3>1. Len(transitions) \in latest
      BY <2>1, <2>2 DEF Increasing
    <3>2. \A i \in latest : i = Len(transitions)
      <4> SUFFICES ASSUME NEW i \in DOMAIN transitions, i # Len(transitions),
                          transitions[Len(transitions)].at <= transitions[i].at
                   PROVE  FALSE
        BY <2>1
      <4>1. i < Len(transitions) /\ Len(transitions) \in DOMAIN transitions
        BY <2>1
      <4>2. transitions[i].at < transitions[Len(transitions)].at
        BY <4>1 DEF Increasing
      <4> QED
        BY <2>2, <4>1, <4>2
    <3> QED
      BY <3>1, <3>2
  <2> DEFINE last == CHOOSE i \in latest : TRUE
  <2>4. Status = transitions[last].status
    BY <1>2 DEF Status
  <2>5. last = Len(transitions)
    BY <2>3
  <2> HIDE DEF last, latest
  <2> QED
    BY <1>2, <2>4, <2>5 DEF LastStatus
<1> QED
  BY <1>1, <1>2

\* A row that may be appended: its target is legal and it is later than all others.
Follows(row) ==
  /\ row \in Transition
  /\ row.status \in TRANSITIONS[LastStatus]
  /\ row.at <= clock
  /\ \A i \in DOMAIN transitions : transitions[i].at < row.at

\* Transitions in the order of their times, and that a call holds a legal target.
LifecycleInv ==
  /\ AloneInv
  /\ transitions \in Seq(Transition)
  /\ \A i \in DOMAIN transitions : transitions[i].at <= clock
  /\ Increasing
  /\ InLifecycle
  /\ \A p \in Procs : pc[p] = "transition" => want[p] \in TRANSITIONS[LastStatus]
  /\ \A p \in Procs : pc[p] = "stamped" => Follows(want[p])

LEMMA LifecycleInvHolds == Spec => [](~overlapped /\ ~setback => LifecycleInv)
<1> USE RecordsAssumption
<1>1. Init => (~overlapped /\ ~setback => LifecycleInv)
  BY DEF Init, LifecycleInv, AloneInv, Increasing, InLifecycle
<1>2. (~overlapped /\ ~setback => LifecycleInv) /\ NumberingInv /\ [Next]_vars
        => (~overlapped /\ ~setback => LifecycleInv)'
  <2> SUFFICES ASSUME ~overlapped /\ ~setback => LifecycleInv, NumberingInv, [Next]_vars,
                      ~overlapped', ~setback'
               PROVE LifecycleInv'
    OBVIOUS
  <2> SUFFICES ASSUME ~overlapped, ~setback, LifecycleInv PROVE LifecycleInv'
    BY FlagsStay DEF NumberingInv
  <2> USE DEF LifecycleInv
  <2>0. clock \in Nat /\ pc \in [Procs -> Labels] /\ want = [p \in Procs |-> want[p]]
    BY DEF NumberingInv
  <2>t. \A i \in DOMAIN transitions : transitions[i].at \in Nat /\ transitions[i].status \in Statuses
    BY TransitionTypes
  <2>l. LastStatus \in Statuses
    BY <2>t DEF LastStatus, Statuses
  \* A call that leaves the transitions alone and does not hold more than before.
  <2>a. ASSUME transitions' = transitions, clock' \in Nat, clock <= clock', AloneInv',
               \A p \in Procs : pc'[p] = "transition" => want'[p] \in TRANSITIONS[LastStatus],
               \A p \in Procs : pc'[p] = "stamped" =>
                 /\ want'[p] \in Transition
                 /\ want'[p].status \in TRANSITIONS[LastStatus]
                 /\ want'[p].at <= clock'
                 /\ \A i \in DOMAIN transitions : transitions[i].at < want'[p].at
        PROVE LifecycleInv'
    <3>1. \A i \in DOMAIN transitions' : transitions'[i].at <= clock'
      BY <2>a, <2>0, <2>t
    <3>2. LastStatus' = LastStatus
      BY <2>a DEF LastStatus
    <3>3. \A p \in Procs : pc'[p] = "stamped" => Follows(want[p])'
      BY <2>a, <3>2 DEF Follows
    <3> QED
      BY <2>a, <3>1, <3>2, <3>3 DEF Increasing, InLifecycle
  <2>b. ASSUME NEW p \in Procs, NEW label \in Labels \ {"stamped"}, NEW row, Begin(p), Propose(p, label, row),
               Now \/ UNCHANGED clock,
               label = "transition" => row \in TRANSITIONS[LastStatus]
        PROVE LifecycleInv'
    <3>1. \A q \in Procs : pc[q] = "idle"
      BY <2>b DEF Begin
    <3>2. /\ transitions' = transitions /\ clock' \in Nat /\ clock <= clock' /\ pc'[p] = label /\ want'[p] = row
          /\ \A q \in Procs \ {p} : pc'[q] = "idle"
      BY <2>b, <2>0, <3>1, ProposeStep
    <3>3. AloneInv' /\ clock' \in Nat /\ clock <= clock'
      BY <2>0, <3>2 DEF AloneInv
    <3> QED
      BY <2>a, <2>b, <3>2, <3>3
  <2>1. ASSUME NEW p \in Procs,
               \/ ReadPolicy(p) \/ ReadForFirst(p)
               \/ \E inheriting \in SUBSET BOOLEAN : ReadForNext(p, inheriting)
        PROVE LifecycleInv'
    <3>1. PICK label \in Labels \ {"transition", "stamped"} :
            \E row : Begin(p) /\ Propose(p, label, row) /\ (Now \/ UNCHANGED clock)
      BY <2>1, ReadAudited DEF ReadPolicy, Labels
    <3>2. PICK row : Begin(p) /\ Propose(p, label, row) /\ (Now \/ UNCHANGED clock)
      BY <3>1
    <3> QED
      BY <2>b, <3>2
  <2>2. ASSUME NEW p \in Procs, ReadStatus(p) PROVE LifecycleInv'
    <3>1. PICK target \in TRANSITIONS[Status] : Begin(p) /\ Propose(p, "transition", target) /\ UNCHANGED clock
      BY <2>2 DEF ReadStatus
    <3>2. target \in TRANSITIONS[LastStatus]
      BY <3>1, StatusIsLast
    <3> QED
      BY <2>b, <3>1, <3>2 DEF Labels
  <2>3. ASSUME NEW p \in Procs, Ask(p) \/ Lock(p) PROVE LifecycleInv'
    BY <2>0, <2>3, <2>a DEF Ask, Lock, records, AloneInv, Follows
  <2>4. ASSUME NEW p \in Procs, AppendTransition(p) PROVE LifecycleInv'
    <3>1. /\ Done(p) /\ pc[p] = "stamped" /\ clock' = clock
          /\ transitions' = Append(transitions, want[p])
      BY <2>4 DEF AppendTransition
    <3>2. \A q \in Procs : pc'[q] = "idle"
      BY <2>0, <3>1, DoneStep DEF AloneInv
    <3>3. want[p].status \in TRANSITIONS[LastStatus] /\ want[p].status \in Statuses
      BY <3>1 DEF Follows, Transition
    <3> DEFINE row == want[p]
    <3>4. /\ row \in Transition /\ row.at \in Nat /\ row.at <= clock /\ row.status \in TRANSITIONS[LastStatus]
          /\ \A i \in DOMAIN transitions : transitions[i].at < row.at
      BY <3>1 DEF Follows, Transition
    <3>5. transitions' = Append(transitions, row)
      BY <3>1
    <3> HIDE DEF row
    <3>6. transitions' \in Seq(Transition) /\ Len(transitions) \in Nat
      BY <3>4, <3>5
    <3>7. /\ DOMAIN transitions' = 1..(Len(transitions) + 1)
          /\ \A i \in 1..Len(transitions) : transitions'[i] = transitions[i]
          /\ transitions'[Len(transitions) + 1] = row
      BY <3>4, <3>5
    <3>8. \A i \in DOMAIN transitions' : transitions'[i].at <= clock'
      <4> SUFFICES ASSUME NEW i \in DOMAIN transitions' PROVE transitions'[i].at <= clock'
        OBVIOUS
      <4>1. CASE i = Len(transitions) + 1
        BY <2>0, <3>1, <3>4, <3>7, <4>1
      <4>2. CASE i # Len(transitions) + 1
        <5>1. i \in DOMAIN transitions
          BY <3>6, <3>7, <4>2
        <5> QED
          BY <2>0, <2>t, <3>1, <3>7, <5>1
      <4> QED
        BY <4>1, <4>2
    <3>9. Increasing'
      <4> SUFFICES ASSUME NEW i \in DOMAIN transitions', NEW j \in DOMAIN transitions', i < j
                   PROVE  transitions'[i].at < transitions'[j].at
        BY DEF Increasing
      <4>1. i \in DOMAIN transitions
        BY <3>6, <3>7
      <4>2. CASE j = Len(transitions) + 1
        BY <2>0, <2>t, <3>4, <3>7, <4>1, <4>2
      <4>3. CASE j # Len(transitions) + 1
        <5>1. j \in DOMAIN transitions
          BY <3>6, <3>7, <4>3
        <5>2. transitions[i].at < transitions[j].at
          BY <4>1, <5>1 DEF Increasing
        <5> QED
          BY <3>7, <4>1, <5>1, <5>2
      <4> QED
        BY <4>2, <4>3
    <3>10. InLifecycle'
      <4> SUFFICES ASSUME NEW i \in DOMAIN transitions'
                   PROVE  transitions'[i].status
                            \in TRANSITIONS[IF i = 1 THEN "draft" ELSE transitions'[i - 1].status]
        BY DEF InLifecycle
      <4>1. CASE i = Len(transitions) + 1
        <5>1. CASE transitions = <<>>
          BY <3>3, <3>4, <3>7, <4>1, <5>1 DEF LastStatus
        <5>2. CASE transitions # <<>>
          <6>1. i # 1 /\ i - 1 = Len(transitions) /\ i - 1 \in 1..Len(transitions)
            BY <3>6, <4>1, <5>2
          <6>2. LastStatus = transitions'[i - 1].status
            BY <3>7, <5>2, <6>1 DEF LastStatus
          <6> QED
            BY <3>3, <3>4, <3>7, <4>1, <6>1, <6>2
        <5> QED
          BY <5>1, <5>2
      <4>2. CASE i # Len(transitions) + 1
        <5>1. i \in 1..Len(transitions) /\ (i # 1 => i - 1 \in 1..Len(transitions))
          BY <3>6, <3>7, <4>2
        <5>2. transitions'[i] = transitions[i] /\ (i # 1 => transitions'[i - 1] = transitions[i - 1])
          BY <3>7, <5>1
        <5>3. transitions[i].status \in TRANSITIONS[IF i = 1 THEN "draft" ELSE transitions[i - 1].status]
          BY <5>1 DEF InLifecycle
        <5> QED
          BY <5>2, <5>3
      <4> QED
        BY <4>1, <4>2
    <3> QED
      BY <3>2, <3>6, <3>8, <3>9, <3>10 DEF AloneInv
  <2>5. ASSUME NEW p \in Procs, AppendVersion(p) \/ AppendAudited(p) \/ Abort(p) PROVE LifecycleInv'
    <3>1. transitions' = transitions /\ clock' = clock /\ (Done(p) \/ Abort(p))
      BY <2>5 DEF AppendVersion, AppendAudited, Abort, records
    <3>2. pc'[p] = "idle" /\ \A q \in Procs \ {p} : pc'[q] = pc[q] /\ want'[q] = want[q]
      BY <2>0, <3>1, DoneStep
    <3>3. AloneInv'
      BY <3>2 DEF AloneInv
    <3> QED
      BY <2>0, <2>a, <3>1, <3>2, <3>3 DEF Follows
  <2>6. ASSUME UNCHANGED vars PROVE LifecycleInv'
    BY <2>0, <2>6, <2>a DEF vars, records, AloneInv, Follows
  <2>8. ASSUME NEW p \in Procs, Stamp(p) PROVE LifecycleInv'
    <3>1. /\ pc[p] = "transition" /\ pc'[p] = "stamped" /\ clock' = clock + 1
          /\ want'[p] = [status |-> want[p], at |-> clock']
          /\ transitions' = transitions
          /\ \A q \in Procs \ {p} : pc'[q] = pc[q] /\ want'[q] = want[q]
      BY <2>0, <2>8, StampStep
    <3>2. \A q \in Procs \ {p} : pc'[q] = "idle"
      BY <3>1 DEF AloneInv
    <3>3. AloneInv'
      BY <3>2 DEF AloneInv
    <3>4. /\ want'[p] \in Transition /\ want'[p].status \in TRANSITIONS[LastStatus]
          /\ want'[p].at = clock'
      <4>1. want[p] \in Statuses /\ want[p] \in TRANSITIONS[LastStatus] /\ clock' \in Nat
        BY <2>0, <2>l, <3>1 DEF TRANSITIONS, Statuses
      <4> QED
        BY <3>1, <4>1 DEF Transition
    <3>5. \A i \in DOMAIN transitions : transitions[i].at < clock + 1
      BY <2>0, <2>t
    <3> QED
      BY <2>0, <2>a, <3>1, <3>2, <3>3, <3>4, <3>5
  <2>7. ~SetBack
    BY DEF SetBack
  <2> QED
    BY <2>1, <2>2, <2>3, <2>4, <2>5, <2>6, <2>7, <2>8, StepsAlike DEF ReadAlike
<1> QED
  BY <1>1, <1>2, NumberingInvHolds, PTL DEF Spec

\* As long as no two calls overlap and the clock is not set back, a recommendation
\* goes through its lifecycle as TRANSITIONS says (application/recommendation.py).
THEOREM SteadyLifecycle == Spec => []LifecycleLegal
<1>1. (~overlapped /\ ~setback => LifecycleInv) => LifecycleLegal
  BY DEF LifecycleInv, LifecycleLegal
<1> QED
  BY <1>1, LifecycleInvHolds, PTL

-----------------------------------------------------------------------------
(* Answers about the past *)

\* A question looks at most as far as the clock, and a version that a call still
\* holds became known later, unless its caller claims otherwise.
AnswerInv ==
  /\ AloneInv
  /\ answer # <<>> =>
       /\ answer[1] \in {"policy", "audited"}
       /\ answer[3] \in Nat /\ answer[3] <= clock
       /\ answer[5] \in 0..Len(Rows(answer[1]))
       /\ \A p \in Procs : pc[p] \in {"policy", "audited"} =>
            want[p].known.claimed \/ want[p].known.at > answer[3]
  /\ Rewritten \/ SameAnswer

\* A version that became known later does not change the answer.
LEMMA LaterIsInvisible ==
  ASSUME NEW S, NEW rows \in Seq(S), NEW row \in S, NEW from, NEW known \in Nat,
         row.known.at \in Nat, row.known.at > known
  PROVE  PolicyVersionAt(Append(rows, row), from, known) = PolicyVersionAt(rows, from, known)
<1> DEFINE all == Append(rows, row)
           Visible(s) == {j \in DOMAIN s : s[j].from <= from /\ s[j].known.at <= known}
<1>1. /\ Len(rows) \in Nat /\ DOMAIN rows = 1..Len(rows)
      /\ DOMAIN all = 1..(Len(rows) + 1)
      /\ \A i \in 1..Len(rows) : all[i] = rows[i]
      /\ all[Len(rows) + 1] = row
  OBVIOUS
<1>2. ~(row.known.at <= known)
  OBVIOUS
<1> HIDE DEF all
<1>3. Visible(all) = Visible(rows)
  BY <1>1, <1>2
<1>4. {all[i] : i \in Visible(all)} = {rows[i] : i \in Visible(rows)}
  BY <1>1, <1>3
<1> QED
  BY <1>4 DEF PolicyVersionAt, all

\* What has been recorded since a question stays recorded.
LEMMA RewrittenStays ==
  ASSUME NEW S, NEW of \in {"policy", "audited"}, Rows(of) \in Seq(S), NEW row \in S,
         Rows(of)' = Append(Rows(of), row), UNCHANGED answer,
         answer # <<>>, answer[1] = of, answer[5] \in 0..Len(Rows(of))
  PROVE  /\ answer[5] \in 0..Len(Rows(of)')
         /\ Rewritten => Rewritten'
         /\ row.known.claimed /\ row.known.at <= answer[3] => Rewritten'
<1>0. Rows(answer[1])' = Append(Rows(of), row) /\ Rows(answer[1]) = Rows(of)
  BY DEF Rows
<1>1. /\ Len(Rows(of)) \in Nat /\ Len(Rows(of)') = Len(Rows(of)) + 1
      /\ \A i \in 1..Len(Rows(of)) : Rows(of)'[i] = Rows(of)[i]
      /\ Rows(of)'[Len(Rows(of)) + 1] = row
  OBVIOUS
<1>2. answer[5] \in 0..Len(Rows(of)') /\ answer[5] + 1 \in 1..(Len(Rows(of)) + 1)
  BY <1>1
<1>3. ASSUME Rewritten PROVE Rewritten'
  <2>1. PICK i \in (answer[5] + 1)..Len(Rows(answer[1])) :
          Rows(answer[1])[i].known.claimed /\ Rows(answer[1])[i].known.at <= answer[3]
    BY <1>3 DEF Rewritten
  <2>2. /\ i \in (answer[5] + 1)..Len(Rows(of)') /\ i \in 1..Len(Rows(of))
        /\ Rows(of)'[i] = Rows(of)[i]
    BY <1>0, <1>1, <1>2
  <2> QED
    BY <1>0, <2>1, <2>2 DEF Rewritten
<1>4. ASSUME row.known.claimed, row.known.at <= answer[3] PROVE Rewritten'
  <2>1. Len(Rows(of)) + 1 \in (answer[5] + 1)..Len(Rows(of)')
    BY <1>1, <1>2
  <2> QED
    BY <1>0, <1>1, <1>4, <2>1 DEF Rewritten
<1> QED
  BY <1>2, <1>3, <1>4

LEMMA AnswerInvHolds == Spec => [](~overlapped /\ ~setback => AnswerInv)
<1> USE RecordsAssumption
<1>1. Init => (~overlapped /\ ~setback => AnswerInv)
  BY DEF Init, AnswerInv, AloneInv, SameAnswer
<1>2. (~overlapped /\ ~setback => AnswerInv) /\ (~overlapped => IdentityInv) /\ NumberingInv /\ [Next]_vars
        => (~overlapped /\ ~setback => AnswerInv)'
  <2> SUFFICES ASSUME ~overlapped /\ ~setback => AnswerInv, ~overlapped => IdentityInv, NumberingInv, [Next]_vars,
                      ~overlapped', ~setback'
               PROVE AnswerInv'
    OBVIOUS
  <2> SUFFICES ASSUME ~overlapped, ~setback, AnswerInv PROVE AnswerInv'
    BY FlagsStay DEF NumberingInv
  <2> USE DEF AnswerInv
  <2>0. clock \in Nat /\ pc \in [Procs -> Labels] /\ want = [p \in Procs |-> want[p]]
    BY DEF NumberingInv
  <2>a. ASSUME NEW p \in Procs, NEW label \in Labels, NEW row, Begin(p), Propose(p, label, row),
               Now \/ UNCHANGED clock,
               label \in {"policy", "audited"} => row.known.claimed \/ row.known.at = clock + 1
        PROVE AnswerInv'
    <3>1. \A q \in Procs : pc[q] = "idle"
      BY <2>a DEF Begin
    <3>2. /\ versions' = versions /\ audited' = audited /\ answer' = answer /\ clock' \in Nat /\ clock <= clock'
          /\ pc'[p] = label /\ want'[p] = row
          /\ \A q \in Procs \ {p} : pc'[q] = "idle"
      BY <2>a, <2>0, <3>1, ProposeStep
    <3>3. AloneInv' /\ (Rewritten \/ SameAnswer)'
      BY <3>2 DEF AloneInv, SameAnswer, Rewritten, Rows
    <3>4. \A q \in Procs : pc'[q] \in {"policy", "audited"} =>
            want'[q].known.claimed \/ want'[q].known.at = clock + 1
      BY <2>a, <3>2
    <3>5. answer # <<>> => Rows(answer[1])' = Rows(answer[1])
      BY <3>2 DEF Rows
    <3> QED
      BY <2>0, <3>2, <3>3, <3>4, <3>5
  <2>b. ASSUME NEW p \in Procs, Done(p) \/ Abort(p), versions' = versions, audited' = audited, clock' \in Nat, clock <= clock'
        PROVE AnswerInv'
    <3>1. /\ answer' = answer /\ pc'[p] = "idle"
          /\ \A q \in Procs \ {p} : pc'[q] = pc[q] /\ want'[q] = want[q]
      BY <2>0, <2>b, DoneStep
    <3>2. AloneInv' /\ (Rewritten \/ SameAnswer)'
      BY <2>b, <3>1 DEF AloneInv, SameAnswer, Rewritten, Rows
    <3>3. answer # <<>> =>
            answer'[3] \in Nat /\ answer'[3] <= clock' /\ Rows(answer[1])' = Rows(answer[1])
      BY <2>0, <2>b, <3>1 DEF Rows
    <3> QED
      BY <3>1, <3>2, <3>3
  <2>1. ASSUME NEW p \in Procs, ReadPolicy(p) PROVE AnswerInv'
    <3>1. PICK from \in Dates, known \in KnownAt :
            Propose(p, "policy", [number |-> NextNumber(versions), from |-> from, known |-> known])
      BY <2>1 DEF ReadPolicy
    <3> QED
      BY <2>0, <2>1, <2>a, <3>1, KnownLaterOrClaimed DEF ReadPolicy, Labels
  <2>2. ASSUME NEW p \in Procs, ReadStatus(p) PROVE AnswerInv'
    <3>1. PICK target : Begin(p) /\ Propose(p, "transition", target) /\ UNCHANGED clock
      BY <2>2 DEF ReadStatus
    <3> QED
      BY <2>a, <3>1 DEF Labels
  <2>10. ASSUME NEW p \in Procs,
                ReadForFirst(p) \/ \E inheriting \in SUBSET BOOLEAN : ReadForNext(p, inheriting)
         PROVE AnswerInv'
    <3>1. PICK row : Begin(p) /\ Now /\ AuditedRow(row) /\ Propose(p, "audited", row)
      BY <2>10, ReadAudited
    <3>2. row.known.claimed \/ row.known.at = clock + 1
      BY <2>0, <3>1, KnownLaterOrClaimed DEF AuditedRow, Following
    <3> QED
      BY <2>a, <3>1, <3>2 DEF Labels
  <2>3. ASSUME NEW p \in Procs, Ask(p) PROVE AnswerInv'
    <3>1. PICK of \in {"policy", "audited"}, from \in Dates, known \in 0..clock :
            answer' = <<of, from, known, PolicyVersionAt(Rows(of), from, known), Len(Rows(of))>>
      BY <2>3 DEF Ask
    <3>2. \A q \in Procs : pc'[q] = "idle"
      BY <2>3 DEF Ask, Begin
    <3>3. clock' = clock /\ versions' = versions /\ audited' = audited
      BY <2>3 DEF Ask, records
    <3>4. /\ answer'[1] = of /\ answer'[2] = from /\ answer'[3] = known
          /\ answer'[4] = PolicyVersionAt(Rows(of), from, known) /\ answer'[5] = Len(Rows(of))
      BY <3>1
    <3>5. SameAnswer'
      BY <3>3, <3>4 DEF SameAnswer, Rows
    <3>6. known \in Nat /\ known <= clock'
      BY <2>0, <3>3
    <3>7. AloneInv'
      BY <3>2 DEF AloneInv
    <3>8. Len(Rows(of)) \in Nat /\ Rows(of)' = Rows(of)
      BY <3>3 DEF Rows, NumberingInv, IdentityInv
    <3>9. answer'[5] \in 0..Len(Rows(answer[1])')
      BY <3>3, <3>4, <3>8 DEF Rows
    <3> QED
      BY <3>2, <3>4, <3>5, <3>6, <3>7, <3>9
  <2>4. ASSUME NEW p \in Procs, Lock(p) PROVE AnswerInv'
    BY <2>4 DEF Lock, records, AloneInv, SameAnswer, Rewritten, Rows
  <2>c. ASSUME NEW p \in Procs, Done(p), clock' = clock, pc[p] \in {"policy", "audited"},
               NEW of \in {"policy", "audited"}, NEW S,
               Rows(of) \in Seq(S), want[p] \in S, want[p].known.at \in Nat,
               Rows(of)' = Append(Rows(of), want[p]),
               \A other \in {"policy", "audited"} \ {of} : Rows(other)' = Rows(other)
        PROVE AnswerInv'
    <3>1. /\ answer' = answer /\ pc'[p] = "idle"
          /\ \A q \in Procs \ {p} : pc'[q] = pc[q] /\ want'[q] = want[q]
      BY <2>0, <2>c, DoneStep
    <3>2. ASSUME answer # <<>>, answer[1] = of
          PROVE  answer[5] \in 0..Len(Rows(of)') /\ (Rewritten \/ SameAnswer)'
      <4>1. /\ answer[5] \in 0..Len(Rows(of)')
            /\ Rewritten => Rewritten'
            /\ want[p].known.claimed /\ want[p].known.at <= answer[3] => Rewritten'
        BY ZenonT(30), <2>c, <3>1, <3>2, RewrittenStays
      <4>2. CASE Rewritten \/ (want[p].known.claimed /\ want[p].known.at <= answer[3])
        BY <4>1, <4>2
      <4>3. CASE SameAnswer /\ want[p].known.at > answer[3]
        <5>1. PolicyVersionAt(Append(Rows(of), want[p]), answer[2], answer[3])
                = PolicyVersionAt(Rows(of), answer[2], answer[3])
          <6> DEFINE row == want[p]
                     rows == Rows(of)
                     known == answer[3]
          <6>1. rows \in Seq(S) /\ row \in S /\ known \in Nat /\ row.known.at \in Nat /\ row.known.at > known
            BY <2>c, <3>2, <4>3
          <6> HIDE DEF row, rows, known
          <6>2. PolicyVersionAt(Append(rows, row), answer[2], known) = PolicyVersionAt(rows, answer[2], known)
            BY <6>1, LaterIsInvisible
          <6> QED
            BY <6>2 DEF row, rows, known
        <5>2. Rows(answer[1])' = Append(Rows(of), want[p])
          BY <2>c, <3>1, <3>2 DEF Rows
        <5>3. PolicyVersionAt(Rows(of), answer[2], answer[3]) = answer[4]
          BY <3>2, <4>3 DEF SameAnswer
        <5> QED
          BY <3>1, <4>1, <5>1, <5>2, <5>3 DEF SameAnswer
      <4>4. want[p].known.claimed \/ want[p].known.at > answer[3]
        BY <2>c, <3>2
      <4>5. answer[3] \in Nat /\ want[p].known.at \in Nat
        BY <2>c, <3>2
      <4> QED
        BY <4>1, <4>2, <4>3, <4>4, <4>5
    <3>3. ASSUME answer # <<>>, answer[1] # of
          PROVE  answer[5] \in 0..Len(Rows(answer[1])') /\ (Rewritten \/ SameAnswer)'
      <4>1. Rows(answer[1])' = Rows(answer[1])
        BY <2>c, <3>1, <3>3 DEF Rows
      <4> QED
        BY <3>1, <3>3, <4>1 DEF SameAnswer, Rewritten
    <3>4. (Rewritten \/ SameAnswer)'
      BY <3>1, <3>2, <3>3 DEF SameAnswer
    <3>5. AloneInv'
      BY <3>1 DEF AloneInv
    <3>6. (answer # <<>> => answer[5] \in 0..Len(Rows(answer[1])))'
      BY <3>1, <3>2, <3>3 DEF Rows
    <3> QED
      BY <2>c, <3>1, <3>4, <3>5, <3>6
  <2>5. ASSUME NEW p \in Procs, AppendVersion(p) PROVE AnswerInv'
    <3>1. pc[p] = "policy" /\ Done(p) /\ clock' = clock /\ audited' = audited
      BY <2>5 DEF AppendVersion
    <3>2. CASE versions' = versions
      BY <2>0, <2>b, <3>1, <3>2
    <3>3. CASE versions' = Append(versions, want[p])
      <4>1. versions \in Seq(PolicyVersion) /\ want[p] \in PolicyVersion /\ want[p].known.at \in Nat
        BY <3>1 DEF NumberingInv, PolicyVersion, Knowledge
      <4>2. /\ Rows("policy") = versions /\ Rows("policy")' = Append(versions, want[p])
            /\ \A other \in {"policy", "audited"} \ {"policy"} : Rows(other)' = Rows(other)
        BY <3>1, <3>3 DEF Rows
      <4> QED
        BY <2>c, <3>1, <4>1, <4>2
    <3> QED
      BY <2>5, <3>2, <3>3 DEF AppendVersion
  <2>11. ASSUME NEW p \in Procs, AppendAudited(p) PROVE AnswerInv'
    <3>1. /\ pc[p] = "audited" /\ Done(p) /\ clock' = clock /\ versions' = versions
          /\ audited' = Append(audited, want[p])
      BY <2>11 DEF AppendAudited
    <3>2. audited \in Seq(AuditedVersion) /\ want[p] \in AuditedVersion /\ want[p].known.at \in Nat
      BY <3>1 DEF IdentityInv, AuditedVersion, Knowledge
    <3>3. /\ Rows("audited") = audited /\ Rows("audited")' = Append(audited, want[p])
          /\ \A other \in {"policy", "audited"} \ {"audited"} : Rows(other)' = Rows(other)
      BY <3>1 DEF Rows
    <3> QED
      BY <2>c, <3>1, <3>2, <3>3
  <2>6. ASSUME NEW p \in Procs, AppendTransition(p) \/ Abort(p) PROVE AnswerInv'
    <3>1. /\ versions' = versions /\ audited' = audited /\ clock' \in Nat /\ clock <= clock'
          /\ Done(p) \/ Abort(p)
      BY <2>0, <2>6 DEF AppendTransition, Abort, Now, records
    <3> QED
      BY <2>b, <3>1
  <2>7. ASSUME UNCHANGED vars PROVE AnswerInv'
    BY <2>7 DEF vars, records, AloneInv, SameAnswer, Rewritten, Rows
  <2>8. ~SetBack
    BY DEF SetBack
  <2>9. ASSUME NEW p \in Procs, Stamp(p) PROVE AnswerInv'
    <3>1. /\ answer' = answer /\ versions' = versions /\ audited' = audited /\ clock' = clock + 1
          /\ pc[p] = "transition" /\ pc'[p] = "stamped"
          /\ \A q \in Procs \ {p} : pc'[q] = pc[q] /\ want'[q] = want[q]
      BY <2>0, <2>9, StampStep
    <3>2. AloneInv' /\ (Rewritten \/ SameAnswer)'
      BY <3>1 DEF AloneInv, SameAnswer, Rewritten, Rows
    <3>3. answer # <<>> => Rows(answer[1])' = Rows(answer[1])
      BY <3>1 DEF Rows
    <3> QED
      BY <2>0, <3>1, <3>2, <3>3
  <2> QED
    BY <2>1, <2>2, <2>3, <2>4, <2>5, <2>6, <2>7, <2>8, <2>9, <2>10, <2>11, StepsAlike DEF ReadAlike
<1> QED
  BY <1>1, <1>2, NumberingInvHolds, IdentityInvHolds, PTL DEF Spec

\* As long as no two calls overlap, the clock is not set back and no caller claims
\* that a new version had been known before, asking again for the policy at a date
\* with the same knowledge gives the same answer (policy_version_at in
\* adapters/sqlite.py).
THEOREM SteadyAnswersKept == Spec => []AnswersKept
<1>1. (~overlapped /\ ~setback => AnswerInv) => AnswersKept
  BY DEF AnswerInv, AnswersKept
<1> QED
  BY <1>1, AnswerInvHolds, PTL
=============================================================================
