----------------------------- MODULE LedgerProofs -----------------------------
(***************************************************************************)
(* Theorems about what is written to the ledger: CsvImport, for any        *)
(* processes, jobs, accounts and files, and LedgerLots, for any ways of    *)
(* keeping a ledger.                                                       *)
(*                                                                         *)
(* The properties of imports speak of committed bookings and edges.  They  *)
(* are made inductive by what a commit relies on: that the draft is what   *)
(* add_import makes of the database as it is now, with the bytes that were *)
(* parsed; that a booking has an edge, so that a row without candidates is *)
(* new; and that an accepted import agrees with all the candidates of its  *)
(* rows, as a refused one does not, from then on.                          *)
(*                                                                         *)
(* That the past of a ledger stays as it was known (NoHindsight) rests on  *)
(* the clock: a new fact is known from today, so a cutoff before today     *)
(* does not let it in, and the facts it lets in keep their order.          *)
(*                                                                         *)
(* A replay folds the facts of an account; what a fold makes is shown on   *)
(* the function of its prefixes, a run.  Lots keep their types, and what   *)
(* takes from them conserves quantity and follows the method.  LedgerInv   *)
(* is what the replays rely on: every split and transfer is what the past  *)
(* of its account made of it (FactsFit), which no later fact changes       *)
(* unless it is backdated before it.                                       *)
(***************************************************************************)
EXTENDS CsvImport, LedgerLots, SetLemmas, SequenceTheorems

Pcs == {"idle", "parsed", "previewed", "rechecked", "inside", "checked",
        "captured", "booked"}

TypeOK ==
  /\ path \in Contents
  /\ clock \in Nat
  /\ lock \in [Conns -> {"none", "shared", "reserved"}]
  /\ pc \in [Conns -> Pcs]
  /\ job \in [Conns -> Jobs \cup {NoJob}]
  /\ art \in [Conns -> Contents \cup {{}}]
  /\ plan \in [Jobs -> [rows : Contents \cup {{}}, at : Nat]]
  /\ status \in [Jobs -> {"new", "running", "failed", "conflict", "acked"}]

\* A process works on a job of its own.
Running ==
  /\ \A c \in Conns : pc[c] # "idle" => job[c] \in Jobs /\ status[job[c]] = "running"
  /\ \A c, d \in Conns : pc[c] # "idle" /\ pc[d] # "idle" /\ job[c] = job[d] => c = d
  /\ \A c \in Conns : pc[c] \in {"captured", "booked"} => art[c] = plan[job[c]].rows

\* The draft is one process's, and it is what add_import() makes of the database.
Drafted ==
  /\ \A c \in Conns : lock[c] = "reserved" <=> pc[c] = "booked"
  /\ \A c, d \in Conns : lock[c] = "reserved" /\ lock[d] = "reserved" => c = d
  /\ \A c \in Conns :
       pc[c] = "booked" =>
         /\ Reconciled(edges, job[c])
         /\ draftTxs = txs \cup NewBookings(edges, job[c], art[c])
         /\ draftEdges = edges \cup NewEdges(edges, job[c], art[c])

\* Edges and bookings correspond.
EdgesOfBookings ==
  /\ \A e \in edges : e.tx \in txs /\ e.account = Account[e.tx.job] /\ e.ext = e.tx.ext
  /\ \A t \in txs : \E e \in edges : e.tx = t

\* All that is booked for the rows of an accepted import is what they say,
Agreed ==
  \A j \in Jobs :
    status[j] = "acked" =>
      \A r \in plan[j].rows : \A t \in Candidates(edges, Account[j], r.ext) :
        t.semantic = Semantic(r, plan[j].at)

\* and a refused one still contradicts the ledger.
Contradicted == \A j \in Jobs : status[j] = "conflict" => ~Reconciled(edges, j)

Ledger ==
  EdgesOfBookings /\ SourceFaithful /\ BookedOnce /\ ImportComplete /\ Agreed /\ Contradicted

CsvInv == TypeOK /\ Running /\ Drafted /\ Ledger

-----------------------------------------------------------------------------
(* Classification *)

\* A row of a reconciled plan is new, and nothing is booked under its id, or all that
\* is booked is what it says.
LEMMA RowsReconciled ==
  ASSUME NEW j \in Jobs, Reconciled(edges, j), NEW r \in plan[j].rows
  PROVE  LET known == Candidates(edges, Account[j], r.ext)
         IN \/ known = {} /\ Class(edges, j, r) = "new"
            \/ /\ known # {} /\ Class(edges, j, r) # "new"
               /\ \A t \in known : t.semantic = Semantic(r, plan[j].at)
<1> DEFINE known == Candidates(edges, Account[j], r.ext)
<1> DEFINE same == \A t \in known : t.semantic = Semantic(r, plan[j].at)
<1>1. Class(edges, j, r) = IF known = {} THEN "new"
                           ELSE IF same THEN "duplicate_exact" ELSE "external_id_conflict"
  BY DEF Class, Classify
<1>2. Class(edges, j, r) # "external_id_conflict"
  BY DEF Reconciled
<1> QED
  BY <1>1, <1>2

\* A row of a plan that is not reconciled contradicts what is booked.
LEMMA RowContradicts ==
  ASSUME NEW j \in Jobs
  PROVE  ~Reconciled(edges, j) <=>
           \E r \in plan[j].rows : \E t \in Candidates(edges, Account[j], r.ext) :
             t.semantic # Semantic(r, plan[j].at)
<1>1. ASSUME NEW r \in plan[j].rows
      PROVE  Class(edges, j, r) = "external_id_conflict" <=>
               \E t \in Candidates(edges, Account[j], r.ext) :
                 t.semantic # Semantic(r, plan[j].at)
  <2> DEFINE known == Candidates(edges, Account[j], r.ext)
  <2> DEFINE same == \A t \in known : t.semantic = Semantic(r, plan[j].at)
  <2>1. Class(edges, j, r) = IF known = {} THEN "new"
                             ELSE IF same THEN "duplicate_exact" ELSE "external_id_conflict"
    BY DEF Class, Classify
  <2> QED
    BY <2>1
<1> QED
  BY <1>1 DEF Reconciled

LEMMA ChosenIsMember ==
  ASSUME NEW S, S # {}
  PROVE  (CHOOSE t \in S : TRUE) \in S
OBVIOUS

-----------------------------------------------------------------------------
(* Steps that book nothing *)

\* Jobs that end without a booking, or start, leave what the ledger says alone.
LEMMA LedgerStands ==
  ASSUME CsvInv, UNCHANGED db,
         \A i \in Jobs : status'[i] # status[i] \/ plan'[i] # plan[i] =>
           /\ status[i] # "acked" /\ status'[i] # "acked"
           /\ status'[i] = "conflict" => plan'[i] = plan[i] /\ ~Reconciled(edges, i)
  PROVE  Ledger'
<1> USE DEF CsvInv, Ledger, db
<1>1. EdgesOfBookings' /\ SourceFaithful' /\ BookedOnce'
  BY DEF EdgesOfBookings, SourceFaithful, BookedOnce
<1>2. \A j \in Jobs : (status'[j] = "acked" <=> status[j] = "acked")
                     /\ (status[j] = "acked" => plan'[j] = plan[j])
  OBVIOUS
<1>3. ImportComplete'
  BY <1>2 DEF ImportComplete
<1>4. Agreed'
  BY <1>2 DEF Agreed, Semantic
<1>5. Contradicted'
  <2> SUFFICES ASSUME NEW j \in Jobs, status'[j] = "conflict"
               PROVE  ~Reconciled(edges, j)'
    BY DEF Contradicted
  <2>1. plan'[j] = plan[j] /\ ~Reconciled(edges, j)
    BY DEF Contradicted
  <2> QED
    BY <2>1, RowContradicts DEF Reconciled, Class
<1> QED
  BY <1>1, <1>3, <1>4, <1>5

\* An import that is over, in failure or in conflict.
LEMMA FinishKeeps ==
  ASSUME CsvInv, NEW c \in Conns, NEW o \in {"failed", "conflict"}, pc[c] # "idle",
         Finish(c, o), UNCHANGED <<path, clock, db>>,
         o = "conflict" => ~Reconciled(edges, job[c]),
         pc[c] = "booked" \/ UNCHANGED draft
  PROVE  CsvInv'
<1> USE DEF CsvInv
<1>1. job[c] \in Jobs /\ status[job[c]] = "running"
  BY DEF Running
<1>2. TypeOK'
  BY <1>1 DEF TypeOK, Finish, NoPlan, Pcs
<1>3. \A d \in Conns \ {c} : /\ pc'[d] = pc[d] /\ job'[d] = job[d]
                            /\ lock'[d] = lock[d] /\ art'[d] = art[d]
  BY DEF Finish, TypeOK
<1>4. pc'[c] = "idle" /\ lock'[c] = "none"
  BY DEF Finish, TypeOK
<1>5. \A i \in Jobs \ {job[c]} : status'[i] = status[i] /\ plan'[i] = plan[i]
  BY DEF Finish, TypeOK
<1>6. \A d \in Conns \ {c} : pc[d] # "idle" => job[d] \in Jobs \ {job[c]}
  BY DEF Running
<1>7. Running'
  BY <1>3, <1>4, <1>5, <1>6 DEF Running
<1>8. Drafted'
  <2>1. /\ \A d \in Conns : lock'[d] = "reserved" <=> pc'[d] = "booked"
        /\ \A d, e \in Conns : lock'[d] = "reserved" /\ lock'[e] = "reserved" => d = e
    BY <1>3, <1>4 DEF Drafted
  <2> SUFFICES ASSUME NEW d \in Conns, pc'[d] = "booked"
               PROVE  /\ Reconciled(edges, job[d])'
                      /\ draftTxs' = (txs \cup NewBookings(edges, job[d], art[d]))'
                      /\ draftEdges' = (edges \cup NewEdges(edges, job[d], art[d]))'
    BY <2>1 DEF Drafted
  <2>2. d # c /\ pc[d] = "booked"
    BY <1>3, <1>4
  <2>3. pc[c] # "booked"
    BY <2>2 DEF Drafted
  <2>4. UNCHANGED <<draft, db>> /\ job'[d] = job[d] /\ art'[d] = art[d]
        /\ plan'[job[d]] = plan[job[d]]
    BY <1>3, <1>5, <1>6, <2>2, <2>3
  <2>5. /\ Reconciled(edges, job[d])
        /\ draftTxs = txs \cup NewBookings(edges, job[d], art[d])
        /\ draftEdges = edges \cup NewEdges(edges, job[d], art[d])
    BY <2>2 DEF Drafted
  <2> QED
    BY <2>4, <2>5 DEF db, draft, Reconciled, Class, NewBookings, NewRows, NewEdges, Booking, Edge
<1>9. Ledger'
  <2>1. status'[job[c]] = o /\ (o = "conflict" => plan' = plan)
    BY <1>1 DEF Finish, TypeOK
  <2> QED
    BY <1>1, <1>5, <2>1, LedgerStands
<1> QED
  BY <1>2, <1>7, <1>8, <1>9

\* An import that goes on.
LEMMA AdvanceKeeps ==
  ASSUME CsvInv, NEW c \in Conns, pc[c] \notin {"idle", "captured", "booked"},
         NEW n \in {"previewed", "rechecked", "inside", "checked", "captured"},
         NEW l \in {"none", "shared"}, NEW b \in Contents \cup {{}},
         pc' = [pc EXCEPT ![c] = n], lock' = [lock EXCEPT ![c] = l],
         art' = [art EXCEPT ![c] = b], n = "captured" => b = plan[job[c]].rows,
         UNCHANGED <<path, clock, db, draft, job, plan, status>>
  PROVE  CsvInv'
<1> USE DEF CsvInv
<1>1. TypeOK'
  BY DEF TypeOK, Pcs
<1>2. \A d \in Conns \ {c} : pc'[d] = pc[d] /\ lock'[d] = lock[d] /\ art'[d] = art[d]
  BY DEF TypeOK
<1>3. pc'[c] = n /\ lock'[c] = l /\ art'[c] = b
  BY DEF TypeOK
<1>4. Running'
  BY <1>2, <1>3 DEF Running
<1>5. Drafted'
  <2>1. /\ \A d \in Conns : lock'[d] = "reserved" <=> pc'[d] = "booked"
        /\ \A d, e \in Conns : lock'[d] = "reserved" /\ lock'[e] = "reserved" => d = e
    BY <1>2, <1>3 DEF Drafted
  <2> SUFFICES ASSUME NEW d \in Conns, pc'[d] = "booked"
               PROVE  /\ Reconciled(edges, job[d])'
                      /\ draftTxs' = (txs \cup NewBookings(edges, job[d], art[d]))'
                      /\ draftEdges' = (edges \cup NewEdges(edges, job[d], art[d]))'
    BY <2>1 DEF Drafted
  <2>2. d # c /\ pc[d] = "booked" /\ art'[d] = art[d]
    BY <1>2, <1>3
  <2>3. /\ Reconciled(edges, job[d])
        /\ draftTxs = txs \cup NewBookings(edges, job[d], art[d])
        /\ draftEdges = edges \cup NewEdges(edges, job[d], art[d])
    BY <2>2 DEF Drafted
  <2> QED
    BY <2>2, <2>3 DEF db, draft, Reconciled, Class, NewBookings, NewRows, NewEdges, Booking, Edge
<1>6. Ledger'
  BY LedgerStands
<1> QED
  BY <1>1, <1>4, <1>5, <1>6

-----------------------------------------------------------------------------
(* The booking *)

\* What add_import() books for the bytes that were parsed.
LEMMA BookingKeepsLedger ==
  ASSUME CsvInv, NEW j \in Jobs, status[j] = "running", Reconciled(edges, j),
         txs' = txs \cup NewBookings(edges, j, plan[j].rows),
         edges' = edges \cup NewEdges(edges, j, plan[j].rows),
         plan' = plan, status' = [status EXCEPT ![j] = "acked"]
  PROVE  Ledger'
<1> DEFINE bytes == plan[j].rows
<1> DEFINE known(r) == Candidates(edges, Account[j], r.ext)
<1> DEFINE all == edges \cup NewEdges(edges, j, bytes)
<1> USE DEF CsvInv, Ledger
<1>0. \A r : Booking(j, r, bytes).semantic = Semantic(r, plan[j].at)
  BY DEF Booking
<1>1. bytes \in Contents \cup {{}}
  BY DEF TypeOK
<1>2. \A r, s \in bytes : r.ext = s.ext => r = s
  BY <1>1, ImportAssumption
<1>3. \A r \in bytes : \/ known(r) = {} /\ Class(edges, j, r) = "new"
                       \/ /\ known(r) # {} /\ Class(edges, j, r) # "new"
                          /\ \A t \in known(r) : t.semantic = Semantic(r, plan[j].at)
  BY RowsReconciled
\* A booking is of a new row.
<1>4. ASSUME NEW t \in NewBookings(edges, j, bytes)
      PROVE  \E r \in bytes : /\ known(r) = {} /\ Class(edges, j, r) = "new"
                              /\ t = Booking(j, r, bytes)
  BY <1>3, <1>4 DEF NewBookings, NewRows
\* An edge is of a new row and its booking, or of a row and what is booked for it.
<1>5. ASSUME NEW e \in NewEdges(edges, j, bytes)
      PROVE  \E r \in bytes :
               /\ e.account = Account[j] /\ e.art = bytes /\ e.ext = r.ext
               /\ \/ /\ known(r) = {} /\ Class(edges, j, r) = "new"
                     /\ e.tx = Booking(j, r, bytes)
                  \/ e.tx \in known(r) /\ e.tx.semantic = Semantic(r, plan[j].at)
  <2>1. PICK r \in bytes :
          e = Edge(j, r, bytes, IF Class(edges, j, r) = "new" THEN Booking(j, r, bytes)
                                ELSE CHOOSE t \in known(r) : TRUE)
    BY <1>5 DEF NewEdges
  <2>2. CASE Class(edges, j, r) = "new"
    BY <1>3, <2>1, <2>2 DEF Edge
  <2>3. CASE Class(edges, j, r) # "new"
    <3>1. (CHOOSE t \in known(r) : TRUE) \in known(r)
      BY <1>3, <2>3, ChosenIsMember
    <3>2. e.tx = CHOOSE t \in known(r) : TRUE
      BY <2>1, <2>3 DEF Edge
    <3>3. \A t \in known(r) : t.semantic = Semantic(r, plan[j].at)
      BY <1>3, <2>3
    <3>4. e.account = Account[j] /\ e.art = bytes /\ e.ext = r.ext
      BY <2>1 DEF Edge
    <3> QED
      BY <3>1, <3>2, <3>3, <3>4
  <2> QED
    BY <2>2, <2>3
\* Every row has an edge from these bytes, new or old.
<1>6. ASSUME NEW r \in bytes
      PROVE  \E e \in all : /\ e.account = Account[j] /\ e.art = bytes /\ e.ext = r.ext
                            /\ known(r) = {} => e.tx = Booking(j, r, bytes)
                            /\ e.tx.semantic = Semantic(r, plan[j].at)
  <2>1. CASE \E e \in edges : e.account = Account[j] /\ e.art = bytes /\ e.ext = r.ext
    <3>1. PICK e \in edges : e.account = Account[j] /\ e.art = bytes /\ e.ext = r.ext
      BY <2>1
    <3>2. e.tx \in known(r)
      BY <3>1 DEF Candidates
    <3>3. e.tx.semantic = Semantic(r, plan[j].at) /\ known(r) # {}
      BY <1>3, <3>2
    <3> QED
      BY <3>1, <3>3
  <2>2. CASE ~\E e \in edges : e.account = Account[j] /\ e.art = bytes /\ e.ext = r.ext
    <3> DEFINE tx == IF Class(edges, j, r) = "new" THEN Booking(j, r, bytes)
                     ELSE CHOOSE t \in known(r) : TRUE
    <3>1. Edge(j, r, bytes, tx) \in NewEdges(edges, j, bytes)
      BY <2>2 DEF NewEdges
    <3>2. /\ Edge(j, r, bytes, tx) \in all
          /\ Edge(j, r, bytes, tx).account = Account[j]
          /\ Edge(j, r, bytes, tx).art = bytes /\ Edge(j, r, bytes, tx).ext = r.ext
          /\ Edge(j, r, bytes, tx).tx = tx
      BY <3>1 DEF Edge
    <3>3. CASE Class(edges, j, r) = "new"
      <4>1. tx = Booking(j, r, bytes)
        BY <3>3
      <4>2. tx.semantic = Semantic(r, plan[j].at)
        BY <4>1 DEF Booking
      <4> HIDE DEF tx
      <4> QED
        BY <3>2, <4>1, <4>2
    <3>4. CASE Class(edges, j, r) # "new"
      <4>1. known(r) # {} /\ \A t \in known(r) : t.semantic = Semantic(r, plan[j].at)
        BY <1>3, <3>4
      <4>2. tx \in known(r)
        BY <3>4, <4>1, ChosenIsMember
      <4> HIDE DEF tx
      <4> QED
        BY <3>2, <4>1, <4>2
    <3> QED
      BY <3>3, <3>4
  <2> QED
    BY <2>1, <2>2
<1>7. EdgesOfBookings'
  <2>1. ASSUME NEW e \in edges'
        PROVE  e.tx \in txs' /\ e.account = Account[e.tx.job] /\ e.ext = e.tx.ext
    <3>1. CASE e \in edges
      BY <3>1 DEF EdgesOfBookings
    <3>2. CASE e \in NewEdges(edges, j, bytes)
      <4>1. PICK r \in bytes :
              /\ e.account = Account[j] /\ e.ext = r.ext
              /\ \/ Class(edges, j, r) = "new" /\ e.tx = Booking(j, r, bytes)
                 \/ e.tx \in known(r)
        BY <1>5, <3>2
      <4>2. CASE Class(edges, j, r) = "new" /\ e.tx = Booking(j, r, bytes)
        <5>1. e.tx \in NewBookings(edges, j, bytes)
          BY <4>2 DEF NewBookings, NewRows
        <5> QED
          BY <4>1, <4>2, <5>1 DEF Booking
      <4>3. CASE e.tx \in known(r)
        BY <4>1, <4>3 DEF Candidates, EdgesOfBookings
      <4> QED
        BY <4>1, <4>2, <4>3
    <3> QED
      BY <3>1, <3>2
  <2>2. ASSUME NEW t \in txs'
        PROVE  \E e \in edges' : e.tx = t
    <3>1. CASE t \in txs
      BY <3>1 DEF EdgesOfBookings
    <3>2. CASE t \in NewBookings(edges, j, bytes)
      <4>1. PICK r \in bytes : known(r) = {} /\ t = Booking(j, r, bytes)
        BY <1>4, <3>2
      <4>2. PICK e \in all : known(r) = {} => e.tx = Booking(j, r, bytes)
        BY <1>6
      <4> QED
        BY <4>1, <4>2
    <3> QED
      BY <3>1, <3>2
  <2> QED
    BY <2>1, <2>2 DEF EdgesOfBookings
<1>8. SourceFaithful'
  <2>1. ASSUME NEW e \in edges'
        PROVE  \E r \in e.art : /\ r.ext = e.ext
                                /\ r.economics = e.tx.semantic.economics
                                /\ r.dated => r.date = e.tx.semantic.effective
    <3>1. CASE e \in edges
      BY <3>1 DEF SourceFaithful
    <3>2. CASE e \in NewEdges(edges, j, bytes)
      <4>1. PICK r \in bytes :
              /\ e.art = bytes /\ e.ext = r.ext
              /\ e.tx = Booking(j, r, bytes) \/ e.tx.semantic = Semantic(r, plan[j].at)
        BY <1>5, <3>2
      <4>2. e.tx.semantic = Semantic(r, plan[j].at)
        BY <1>0, <4>1
      <4>3. /\ Semantic(r, plan[j].at).economics = r.economics
            /\ r.dated => Semantic(r, plan[j].at).effective = r.date
        BY DEF Semantic
      <4> QED
        BY <4>1, <4>2, <4>3
    <3> QED
      BY <3>1, <3>2
  <2> QED
    BY <2>1 DEF SourceFaithful
\* Nothing is booked yet under the account and the id of a new booking.
<1>9. ASSUME NEW t \in NewBookings(edges, j, bytes), NEW u \in txs
      PROVE  ~(Account[t.job] = Account[u.job] /\ t.ext = u.ext)
  <2>1. PICK r \in bytes : known(r) = {} /\ t = Booking(j, r, bytes)
    BY <1>4, <1>9
  <2>2. t.job = j /\ t.ext = r.ext
    BY <2>1 DEF Booking
  <2>3. PICK e \in edges : e.tx = u /\ e.account = Account[u.job] /\ e.ext = u.ext
    BY DEF EdgesOfBookings
  <2> QED
    BY <2>1, <2>2, <2>3 DEF Candidates
<1>10. BookedOnce'
  <2> SUFFICES ASSUME NEW t \in txs', NEW u \in txs', t.job \notin Legacy,
                      Account[t.job] = Account[u.job], t.ext = u.ext
               PROVE  t = u
    BY DEF BookedOnce
  <2>1. CASE t \in txs /\ u \in txs
    BY <2>1 DEF BookedOnce
  <2>2. CASE t \in NewBookings(edges, j, bytes) /\ u \in NewBookings(edges, j, bytes)
    <3>1. PICK r \in bytes : t = Booking(j, r, bytes)
      BY <1>4, <2>2
    <3>2. PICK s \in bytes : u = Booking(j, s, bytes)
      BY <1>4, <2>2
    <3> QED
      BY <1>2, <3>1, <3>2 DEF Booking
  <2> QED
    BY <1>9, <2>1, <2>2
<1>11. /\ \A i \in Jobs : status'[i] = "acked" <=> i = j \/ status[i] = "acked"
       /\ \A i \in Jobs : status'[i] = "conflict" => status[i] = "conflict"
  BY DEF TypeOK
<1>12. ImportComplete'
  <2>1. ASSUME NEW i \in Jobs, status'[i] = "acked", NEW r \in plan'[i].rows
        PROVE  \E e \in edges' :
                 /\ e.account = Account[i] /\ e.art = plan'[i].rows /\ e.ext = r.ext
                 /\ e.tx.semantic.economics = r.economics
    <3>1. CASE i = j
      <4>1. r \in bytes
        BY <2>1, <3>1
      <4>2. PICK e \in all : /\ e.account = Account[j] /\ e.art = bytes /\ e.ext = r.ext
                             /\ e.tx.semantic = Semantic(r, plan[j].at)
        BY <1>6, <4>1
      <4>3. e.tx.semantic.economics = r.economics
        BY <4>2 DEF Semantic
      <4> QED
        BY <3>1, <4>2, <4>3
    <3>2. CASE i # j
      BY <1>11, <2>1, <3>2 DEF ImportComplete
    <3> QED
      BY <3>1, <3>2
  <2>2. ASSUME NEW i \in Jobs, status'[i] # "acked", NEW t \in txs'
        PROVE  t.job # i
    <3>1. CASE t \in txs
      BY <1>11, <2>2, <3>1 DEF ImportComplete
    <3>2. CASE t \in NewBookings(edges, j, bytes)
      BY <1>4, <1>11, <2>2, <3>2 DEF Booking
    <3> QED
      BY <3>1, <3>2
  <2> QED
    BY <2>1, <2>2 DEF ImportComplete
<1>13. Agreed'
  <2> SUFFICES ASSUME NEW i \in Jobs, status'[i] = "acked", NEW r \in plan[i].rows,
                      NEW t \in Candidates(edges, Account[i], r.ext)'
               PROVE  t.semantic = Semantic(r, plan[i].at)
    BY DEF Agreed, Semantic
  <2>1. PICK e \in edges' : e.account = Account[i] /\ e.ext = r.ext /\ e.tx = t
    BY DEF Candidates
  <2>2. CASE e \in edges
    <3>1. t \in Candidates(edges, Account[i], r.ext)
      BY <2>1, <2>2 DEF Candidates
    <3>2. CASE i = j
      BY <1>3, <3>1, <3>2
    <3>3. CASE i # j
      BY <1>11, <3>1, <3>3 DEF Agreed
    <3> QED
      BY <3>2, <3>3
  <2>3. CASE e \in NewEdges(edges, j, bytes)
    <3>1. PICK s \in bytes :
            /\ e.account = Account[j] /\ e.ext = s.ext
            /\ \/ known(s) = {} /\ e.tx = Booking(j, s, bytes)
               \/ e.tx \in known(s) /\ e.tx.semantic = Semantic(s, plan[j].at)
      BY <1>5, <2>3
    <3>2. Candidates(edges, Account[i], r.ext) = known(s)
      BY <2>1, <3>1 DEF Candidates
    <3>3. CASE i = j
      <4>1. s = r
        BY <1>2, <2>1, <3>1, <3>3
      <4>2. Booking(j, s, bytes).semantic = Semantic(s, plan[j].at)
        BY <1>0
      <4>3. t.semantic = Semantic(s, plan[j].at)
        BY <2>1, <3>1, <4>2
      <4> QED
        BY <3>3, <4>1, <4>3
    <3>4. CASE i # j
      <4>1. status[i] = "acked"
        BY <1>11, <3>4
      <4>2. PICK d \in edges : d.account = Account[i] /\ d.ext = r.ext
        BY <4>1 DEF ImportComplete
      <4>3. d.tx \in known(s)
        BY <3>2, <4>2 DEF Candidates
      <4>4. t \in Candidates(edges, Account[i], r.ext)
        BY <2>1, <3>1, <3>2, <4>3
      <4> QED
        BY <4>1, <4>4 DEF Agreed
    <3> QED
      BY <3>3, <3>4
  <2> QED
    BY <2>1, <2>2, <2>3
<1>14. Contradicted'
  <2> SUFFICES ASSUME NEW i \in Jobs, status'[i] = "conflict"
               PROVE  ~Reconciled(edges, i)'
    BY DEF Contradicted
  <2>1. PICK r \in plan[i].rows : \E t \in Candidates(edges, Account[i], r.ext) :
          t.semantic # Semantic(r, plan[i].at)
    BY <1>11, RowContradicts DEF Contradicted
  <2>2. Candidates(edges, Account[i], r.ext) \subseteq Candidates(edges', Account[i], r.ext)
    BY DEF Candidates
  <2>3. Class(edges', i, r) = "external_id_conflict"
    BY <2>1, <2>2 DEF Class, Classify
  <2>4. Class(edges, i, r)' = Class(edges', i, r)
    BY DEF Class, Classify, Semantic, Candidates
  <2> QED
    BY <2>3, <2>4 DEF Reconciled
<1> QED
  BY <1>7, <1>8, <1>10, <1>12, <1>13, <1>14

-----------------------------------------------------------------------------
(* The invariant *)

\* Before the first of these imports, only legacy ones have booked, and their bookings
\* say what the rows of their files say.
LEMMA InitInv == Init => CsvInv
<1> SUFFICES ASSUME Init PROVE CsvInv
  OBVIOUS
<1>1. TypeOK
  BY ImportAssumption DEF Init, TypeOK, Pcs, NoPlan
<1>2. Running /\ Drafted
  BY DEF Init, Running, Drafted
<1>3. \A t \in txs : t.job \in Legacy /\ t.job \notin Jobs
  BY ImportAssumption DEF Init
<1>4. EdgesOfBookings
  <2>1. ASSUME NEW e \in edges
        PROVE  e.tx \in txs /\ e.account = Account[e.tx.job] /\ e.ext = e.tx.ext
    BY DEF Init
  <2>2. ASSUME NEW t \in txs
        PROVE  \E e \in edges : e.tx = t
    <3> DEFINE edge == [account |-> Account[t.job], art |-> t.art, ext |-> t.ext, tx |-> t]
    <3>1. edge \in edges /\ edge.tx = t
      BY DEF Init
    <3> QED
      BY <3>1
  <2> QED
    BY <2>1, <2>2 DEF EdgesOfBookings
<1>5. SourceFaithful
  <2> SUFFICES ASSUME NEW e \in edges
               PROVE  \E r \in e.art : /\ r.ext = e.ext
                                       /\ r.economics = e.tx.semantic.economics
                                       /\ r.dated => r.date = e.tx.semantic.effective
    BY DEF SourceFaithful
  <2>1. PICK t \in txs : e.art = t.art /\ e.ext = t.ext /\ e.tx = t
    BY DEF Init
  <2>2. t \in LegacyTxs
    BY DEF Init
  <2>3. PICK r \in t.art : /\ r.ext = t.ext
                           /\ r.economics = t.semantic.economics
                           /\ r.dated => r.date = t.semantic.effective
    BY <2>2, ImportAssumption
  <2> QED
    BY <2>1, <2>3
<1>6. BookedOnce /\ ImportComplete
  BY <1>3 DEF Init, BookedOnce, ImportComplete
<1>7. Agreed /\ Contradicted
  BY DEF Init, Agreed, Contradicted
<1> QED
  BY <1>1, <1>2, <1>4, <1>5, <1>6, <1>7 DEF CsvInv, Ledger

\* The file, the clock and the imports that begin.
LEMMA EnvironmentStep ==
  ASSUME CsvInv, (\E content \in Contents : Replace(content)) \/ Tick
  PROVE  CsvInv'
<1> USE DEF CsvInv
<1>1. /\ UNCHANGED <<db, draft, lock, pc, job, art, plan, status>>
      /\ path' \in Contents /\ clock' \in Nat
  BY DEF Replace, Tick, TypeOK
<1>2. TypeOK' /\ Running'
  BY <1>1 DEF TypeOK, Running
<1>3. Drafted'
  <2>1. /\ \A d \in Conns : lock'[d] = "reserved" <=> pc'[d] = "booked"
        /\ \A d, e \in Conns : lock'[d] = "reserved" /\ lock'[e] = "reserved" => d = e
    BY <1>1 DEF Drafted
  <2> SUFFICES ASSUME NEW d \in Conns, pc'[d] = "booked"
               PROVE  /\ Reconciled(edges, job[d])'
                      /\ draftTxs' = (txs \cup NewBookings(edges, job[d], art[d]))'
                      /\ draftEdges' = (edges \cup NewEdges(edges, job[d], art[d]))'
    BY <2>1 DEF Drafted
  <2>2. /\ Reconciled(edges, job[d])
        /\ draftTxs = txs \cup NewBookings(edges, job[d], art[d])
        /\ draftEdges = edges \cup NewEdges(edges, job[d], art[d])
    BY <1>1 DEF Drafted
  <2> QED
    BY <1>1, <2>2 DEF db, draft, Reconciled, Class, NewBookings, NewRows, NewEdges,
                      Booking, Edge
<1>4. Ledger'
  BY <1>1, LedgerStands
<1> QED
  BY <1>2, <1>3, <1>4

LEMMA ParseStep ==
  ASSUME CsvInv, NEW c \in Conns, NEW j \in Jobs, Parse(c, j)
  PROVE  CsvInv'
<1> USE DEF CsvInv
<1>1. TypeOK'
  BY DEF TypeOK, Parse, Pcs
<1>2. \A d \in Conns \ {c} : pc'[d] = pc[d] /\ job'[d] = job[d]
  BY DEF TypeOK, Parse
<1>3. pc'[c] = "parsed" /\ job'[c] = j /\ status'[j] = "running"
  BY DEF TypeOK, Parse
<1>4. \A i \in Jobs \ {j} : status'[i] = status[i] /\ plan'[i] = plan[i]
  BY DEF TypeOK, Parse
<1>5. \A d \in Conns : pc[d] # "idle" => d # c /\ job[d] \in Jobs \ {j}
  BY DEF Parse, Running
<1>6. UNCHANGED <<path, clock, db, draft, lock, art>> /\ pc[c] = "idle" /\ status[j] = "new"
  BY DEF Parse
<1>7. Running'
  BY <1>2, <1>3, <1>4, <1>5, <1>6 DEF Running
<1>8. Drafted'
  <2>1. /\ \A d \in Conns : lock'[d] = "reserved" <=> pc'[d] = "booked"
        /\ \A d, e \in Conns : lock'[d] = "reserved" /\ lock'[e] = "reserved" => d = e
    BY <1>2, <1>3, <1>6 DEF Drafted
  <2> SUFFICES ASSUME NEW d \in Conns, pc'[d] = "booked"
               PROVE  /\ Reconciled(edges, job[d])'
                      /\ draftTxs' = (txs \cup NewBookings(edges, job[d], art[d]))'
                      /\ draftEdges' = (edges \cup NewEdges(edges, job[d], art[d]))'
    BY <2>1 DEF Drafted
  <2>2. d # c /\ pc[d] = "booked" /\ job'[d] = job[d] /\ plan'[job[d]] = plan[job[d]]
    BY <1>2, <1>3, <1>4, <1>5
  <2>3. /\ Reconciled(edges, job[d])
        /\ draftTxs = txs \cup NewBookings(edges, job[d], art[d])
        /\ draftEdges = edges \cup NewEdges(edges, job[d], art[d])
    BY <2>2 DEF Drafted
  <2> QED
    BY <1>6, <2>2, <2>3 DEF db, draft, Reconciled, Class, NewBookings, NewRows, NewEdges,
                            Booking, Edge
<1>9. Ledger'
  BY <1>3, <1>4, <1>6, LedgerStands
<1> QED
  BY <1>1, <1>7, <1>8, <1>9

\* The checks on the way to the capture, each of which may end the import.
LEMMA CheckStep ==
  ASSUME CsvInv, NEW c \in Conns,
         Preview(c) \/ Recheck(c) \/ Begin(c) \/ RecheckInside(c) \/ Capture(c)
  PROVE  CsvInv'
<1>1. pc[c] \in {"parsed", "previewed", "rechecked", "inside", "checked"}
  BY DEF Preview, Recheck, Begin, RecheckInside, Capture
<1>2. lock[c] \in {"none", "shared"} /\ lock = [lock EXCEPT ![c] = lock[c]]
  BY <1>1 DEF CsvInv, TypeOK, Drafted
<1>3. art[c] \in Contents \cup {{}} /\ art = [art EXCEPT ![c] = art[c]] /\ path \in Contents
  BY DEF CsvInv, TypeOK
<1>4. UNCHANGED <<path, clock, db, draft>>
  BY DEF Preview, Recheck, Begin, RecheckInside, Capture, Check
<1>5. ASSUME NEW o \in {"failed", "conflict"}, Finish(c, o),
             o = "conflict" => ~Reconciled(edges, job[c])
      PROVE  CsvInv'
  BY <1>1, <1>4, <1>5, FinishKeeps
<1>6. ASSUME NEW n \in {"previewed", "rechecked", "inside", "checked"},
             NEW l \in {"none", "shared"},
             pc' = [pc EXCEPT ![c] = n], lock' = [lock EXCEPT ![c] = l],
             UNCHANGED <<job, art, plan, status>>
      PROVE  CsvInv'
  <2>1. art' = [art EXCEPT ![c] = art[c]]
    BY <1>3, <1>6
  <2>2. pc[c] \notin {"idle", "captured", "booked"}
    BY <1>1
  <2>3. UNCHANGED <<path, clock, db, draft, job, plan, status>>
    BY <1>4, <1>6
  <2>4. n \in {"previewed", "rechecked", "inside", "checked", "captured"} /\ n # "captured"
    OBVIOUS
  <2> QED
    BY <1>3, <1>6, <2>1, <2>2, <2>3, <2>4, AdvanceKeeps
<1>7. CASE Preview(c)
  <2>1. CASE Finish(c, "conflict") /\ ~Reconciled(edges, job[c])
    BY <1>5, <2>1
  <2>2. CASE pc' = [pc EXCEPT ![c] = "previewed"] /\ UNCHANGED <<job, art, plan, status>>
    BY <1>2, <1>6, <1>7, <2>2 DEF Preview
  <2> QED
    BY <1>7, <2>1, <2>2 DEF Preview, Check
<1>8. CASE Recheck(c)
  <2>1. CASE Finish(c, "failed")
    BY <1>5, <2>1
  <2>2. CASE pc' = [pc EXCEPT ![c] = "rechecked"] /\ UNCHANGED <<job, art, plan, status>>
    BY <1>2, <1>6, <1>8, <2>2 DEF Recheck
  <2> QED
    BY <1>8, <2>1, <2>2 DEF Recheck, Check
<1>9. CASE Begin(c)
  <2>1. CASE Finish(c, "conflict") /\ ~Reconciled(edges, job[c])
    BY <1>5, <2>1
  <2>2. CASE /\ Reconciled(edges, job[c])
             /\ pc' = [pc EXCEPT ![c] = "inside"] /\ UNCHANGED <<job, art, plan, status>>
    BY <1>6, <1>9, <2>2 DEF Begin
  <2> QED
    BY <1>9, <2>1, <2>2 DEF Begin, Check
<1>10. CASE RecheckInside(c)
  <2>1. CASE Finish(c, "failed")
    BY <1>5, <2>1
  <2>2. CASE /\ FileIsParsed(c)
             /\ pc' = [pc EXCEPT ![c] = "checked"] /\ UNCHANGED <<job, art, plan, status>>
    BY <1>2, <1>6, <1>10, <2>2 DEF RecheckInside
  <2> QED
    BY <1>10, <2>1, <2>2 DEF RecheckInside, Check
<1>11. CASE Capture(c)
  <2>1. CASE Finish(c, "failed")
    BY <1>5, <2>1
  <2>2. CASE /\ FileIsParsed(c)
             /\ art' = [art EXCEPT ![c] = path]
             /\ pc' = [pc EXCEPT ![c] = "captured"]
             /\ UNCHANGED <<lock, job, plan, status>>
    <3>1. lock' = [lock EXCEPT ![c] = lock[c]] /\ path = plan[job[c]].rows
      BY <1>2, <2>2 DEF FileIsParsed
    <3>2. pc[c] \notin {"idle", "captured", "booked"} /\ path \in Contents \cup {{}}
      BY <1>1, <1>3
    <3> QED
      BY <1>2, <1>4, <2>2, <3>1, <3>2, AdvanceKeeps
  <2> QED
    BY <1>11, <2>1, <2>2 DEF Capture
<1> QED
  BY <1>7, <1>8, <1>9, <1>10, <1>11

LEMMA AddImportStep ==
  ASSUME CsvInv, NEW c \in Conns, AddImport(c)
  PROVE  CsvInv'
<1> USE DEF CsvInv
<1>1. UNCHANGED <<path, clock, db, job, art, plan, status>> /\ pc[c] = "captured"
  BY DEF AddImport
<1>2. \A d \in Conns \ {c} : pc'[d] = pc[d] /\ lock'[d] = lock[d]
  BY DEF AddImport, TypeOK
<1>3. pc'[c] = "booked" /\ lock'[c] = "reserved"
  BY DEF AddImport, TypeOK
<1>4. \A d \in Conns \ {c} : lock'[d] # "reserved" /\ pc'[d] # "booked"
  BY <1>2 DEF AddImport, MayWrite, Drafted
<1>5. TypeOK'
  BY DEF AddImport, TypeOK, Pcs
<1>6. Running'
  BY <1>1, <1>2, <1>3 DEF Running
<1>7. Drafted'
  <2>1. /\ Reconciled(edges, job[c])
        /\ draftTxs' = txs \cup NewBookings(edges, job[c], art[c])
        /\ draftEdges' = edges \cup NewEdges(edges, job[c], art[c])
    BY DEF AddImport
  <2>2. /\ Reconciled(edges, job[c])'
        /\ draftTxs' = (txs \cup NewBookings(edges, job[c], art[c]))'
        /\ draftEdges' = (edges \cup NewEdges(edges, job[c], art[c]))'
    BY <1>1, <2>1 DEF db, Reconciled, Class, NewBookings, NewRows, NewEdges, Booking, Edge
  <2> QED
    BY <1>3, <1>4, <2>2 DEF Drafted
<1>8. Ledger'
  BY <1>1, LedgerStands
<1> QED
  BY <1>5, <1>6, <1>7, <1>8

LEMMA CommitStep ==
  ASSUME CsvInv, NEW c \in Conns, Commit(c)
  PROVE  CsvInv'
<1> USE DEF CsvInv
<1>1. job[c] \in Jobs /\ status[job[c]] = "running" /\ art[c] = plan[job[c]].rows
  BY DEF Commit, Running
<1>2. UNCHANGED <<path, clock, plan>> /\ pc[c] = "booked"
  BY DEF Commit, Finish
<1>3. /\ Reconciled(edges, job[c])
      /\ txs' = txs \cup NewBookings(edges, job[c], plan[job[c]].rows)
      /\ edges' = edges \cup NewEdges(edges, job[c], plan[job[c]].rows)
  BY <1>1, <1>2 DEF Commit, Drafted
<1>4. status' = [status EXCEPT ![job[c]] = "acked"]
  BY DEF Commit, Finish
<1>5. Ledger'
  BY <1>1, <1>2, <1>3, <1>4, BookingKeepsLedger
<1>6. TypeOK'
  BY <1>1, <1>2 DEF TypeOK, Commit, Finish, Pcs
<1>7. \A d \in Conns \ {c} : /\ pc'[d] = pc[d] /\ job'[d] = job[d]
                             /\ lock'[d] = lock[d] /\ art'[d] = art[d]
  BY DEF Commit, Finish, TypeOK
<1>8. pc'[c] = "idle" /\ lock'[c] = "none"
  BY DEF Commit, Finish, TypeOK
<1>9. \A i \in Jobs \ {job[c]} : status'[i] = status[i]
  BY DEF Commit, Finish, TypeOK
<1>10. \A d \in Conns \ {c} : pc[d] # "idle" => job[d] \in Jobs \ {job[c]}
  BY <1>2 DEF Running
<1>11. Running'
  BY <1>2, <1>7, <1>8, <1>9, <1>10 DEF Running
<1>12. \A d \in Conns : lock'[d] # "reserved" /\ pc'[d] # "booked"
  BY <1>7, <1>8 DEF Commit, MayCommit, Drafted
<1>13. Drafted'
  BY <1>12 DEF Drafted
<1> QED
  BY <1>5, <1>6, <1>11, <1>13

LEMMA AbortStep ==
  ASSUME CsvInv, NEW c \in Conns, Abort(c)
  PROVE  CsvInv'
<1>1. /\ pc[c] # "idle" /\ Finish(c, "failed")
      /\ UNCHANGED <<path, clock, db>>
      /\ lock[c] = "reserved" \/ UNCHANGED draft
  BY DEF Abort
<1>2. pc[c] = "booked" \/ UNCHANGED draft
  BY <1>1 DEF CsvInv, Drafted
<1> QED
  BY <1>1, <1>2, FinishKeeps

LEMMA NextInv == CsvInv /\ [Next]_vars => CsvInv'
<1> SUFFICES ASSUME CsvInv, [Next]_vars PROVE CsvInv'
  OBVIOUS
<1>1. CASE (\E content \in Contents : Replace(content)) \/ Tick
  BY <1>1, EnvironmentStep
<1>2. ASSUME NEW c \in Conns, NEW j \in Jobs, Parse(c, j) PROVE CsvInv'
  BY <1>2, ParseStep
<1>3. ASSUME NEW c \in Conns,
             Preview(c) \/ Recheck(c) \/ Begin(c) \/ RecheckInside(c) \/ Capture(c)
      PROVE  CsvInv'
  BY <1>3, CheckStep
<1>4. ASSUME NEW c \in Conns, AddImport(c) PROVE CsvInv'
  BY <1>4, AddImportStep
<1>5. ASSUME NEW c \in Conns, Commit(c) PROVE CsvInv'
  BY <1>5, CommitStep
<1>6. ASSUME NEW c \in Conns, Abort(c) PROVE CsvInv'
  BY <1>6, AbortStep
<1>7. CASE UNCHANGED vars
  <2>1. UNCHANGED <<path, clock, txs, edges, draftTxs, draftEdges, lock, pc, job, art,
                    plan, status>>
    BY <1>7 DEF vars
  <2>2. TypeOK' /\ Running'
    BY <2>1 DEF CsvInv, TypeOK, Running
  <2>3. Drafted'
    BY <2>1 DEF CsvInv, Drafted, Reconciled, Class, NewBookings, NewRows, NewEdges,
                Booking, Edge
  <2>4. Ledger'
    BY <2>1, LedgerStands DEF db
  <2> QED
    BY <2>2, <2>3, <2>4 DEF CsvInv
<1> QED
  BY <1>1, <1>2, <1>3, <1>4, <1>5, <1>6, <1>7 DEF Next

\* Whatever the interleaving of imports, of replacements of the file and of kills,
\* the invariant of the import holds.
THEOREM CsvInvariant == Spec => []CsvInv
<1>1. Init => CsvInv
  BY InitInv
<1>2. CsvInv /\ [Next]_vars => CsvInv'
  BY NextInv
<1> QED
  BY <1>1, <1>2, PTL DEF Spec

\* The bytes an edge points to say what the ledger books, although the file may be
\* replaced between any two of the four reads of an import.
THEOREM SourceIsFaithful == Spec => []SourceFaithful
<1>1. CsvInv => SourceFaithful
  BY DEF CsvInv, Ledger
<1> QED
  BY <1>1, CsvInvariant, PTL

\* What is acknowledged is booked exactly once, by as many processes and overlapping
\* exports as there are.
THEOREM BookedExactlyOnce == Spec => []BookedExactly
<1>1. CsvInv => BookedExactly
  BY DEF CsvInv, Ledger, BookedExactly
<1> QED
  BY <1>1, CsvInvariant, PTL

\* No dated rows are accepted for an account by one import and refused by another of
\* the same bytes, in whichever order they run.
THEOREM VerdictOfBytes == Spec => []SameBytesSameVerdict
<1>1. CsvInv => SameBytesSameVerdict
  <2> SUFFICES ASSUME CsvInv, NEW i \in Jobs, NEW j \in Jobs,
                      status[i] = "acked", status[j] = "conflict", Account[i] = Account[j],
                      \A r \in plan[i].rows : r.dated, plan[i].rows = plan[j].rows
               PROVE  FALSE
    BY DEF SameBytesSameVerdict
  <2>1. PICK r \in plan[j].rows : \E t \in Candidates(edges, Account[j], r.ext) :
          t.semantic # Semantic(r, plan[j].at)
    BY RowContradicts DEF CsvInv, Ledger, Contradicted
  <2>2. Semantic(r, plan[j].at) = Semantic(r, plan[i].at)
    BY DEF Semantic
  <2> QED
    BY <2>1, <2>2 DEF CsvInv, Ledger, Agreed
<1> QED
  BY <1>1, CsvInvariant, PTL

-----------------------------------------------------------------------------
(* Types of lots *)

Sides == {"long", "short"}
Values == Int \cup {Unknown}

\* Lots of instruments in I, what is taken from them, and how far that got.
LotsOf(I) == [inst : I, src : Nat, side : Sides, qty : Nat, val : Values, seq : Nat]
Pieces == [src : Nat, qty : Nat, val : Values]
Takes(I, N) == [lots : [1..N -> LotsOf(I)], pieces : Seq(Pieces), left : Nat]

LEMMA TakeOneTyped ==
  ASSUME NEW I, NEW N \in Nat, NEW t \in Takes(I, N), NEW j \in 1..N
  PROVE  TakeOne(t, j) \in Takes(I, N)
<1> DEFINE lot == t.lots[j]
           used == IF lot.qty <= t.left THEN lot.qty ELSE t.left
           part == IF lot.val = Unknown \/ used = lot.qty THEN lot.val ELSE (lot.val * used) \div lot.qty
           rest == [lot EXCEPT !.qty = @ - used, !.val = IF @ = Unknown THEN Unknown ELSE @ - part]
           piece == [src |-> lot.src, qty |-> used, val |-> part]
<1>1. /\ t.lots \in [1..N -> LotsOf(I)] /\ t.pieces \in Seq(Pieces) /\ t.left \in Nat
      /\ lot \in LotsOf(I)
  BY DEF Takes
<1>2. used \in Nat /\ used <= t.left /\ used <= lot.qty /\ lot.qty \in Nat
  <2> HIDE DEF lot
  <2> QED BY <1>1 DEF LotsOf
<1>3. part \in Values /\ (lot.val # Unknown => part \in Int)
  <2> HIDE DEF lot, used
  <2>1. lot.val \in Values BY <1>1 DEF LotsOf
  <2>2. CASE lot.val = Unknown \/ used = lot.qty BY <2>1, <2>2 DEF Values
  <2>3. CASE lot.val # Unknown /\ used # lot.qty
    <3>1. lot.val \in Int /\ lot.qty > 0 BY <1>2, <2>1, <2>3 DEF Values
    <3>2. lot.val * used \in Int BY <1>2, <3>1
    <3>3. (lot.val * used) \div lot.qty \in Int BY <1>2, <3>1, <3>2
    <3> QED BY <2>3, <3>3 DEF Values
  <2> QED BY <2>2, <2>3
<1>4. rest \in LotsOf(I)
  <2> DEFINE val == IF lot.val = Unknown THEN Unknown ELSE lot.val - part
  <2>1. rest = [lot EXCEPT !.qty = lot.qty - used, !.val = val] BY <1>1 DEF LotsOf
  <2>2. val \in Values
    <3> HIDE DEF lot, used, part
    <3>1. lot.val \in Values BY <1>1 DEF LotsOf
    <3> QED BY <1>3, <3>1 DEF Values
  <2>3. lot.qty - used \in Nat
    <3> HIDE DEF lot, used, part
    <3> QED BY <1>2
  <2> HIDE DEF lot, used, part, rest, val
  <2> QED BY <1>1, <2>1, <2>2, <2>3 DEF LotsOf
<1>5. piece \in Pieces
  <2> HIDE DEF used, part
  <2> QED BY <1>1, <1>2, <1>3 DEF LotsOf, Pieces
<1>6. t.left - used \in Nat BY <1>1, <1>2
<1>7. TakeOne(t, j) = IF t.left = 0 THEN t
                      ELSE [lots |-> [t.lots EXCEPT ![j] = rest], pieces |-> Append(t.pieces, piece),
                            left |-> t.left - used]
  BY DEF TakeOne
<1> HIDE DEF rest, piece, used
<1>8. [t.lots EXCEPT ![j] = rest] \in [1..N -> LotsOf(I)] /\ Append(t.pieces, piece) \in Seq(Pieces)
  BY <1>1, <1>4, <1>5
<1> QED BY <1>6, <1>7, <1>8 DEF Takes

\* The states that taking runs through.
TakeRun(run, I, N, lots, order, n) ==
  /\ run \in [0..Len(order) -> Takes(I, N)]
  /\ run[0] = [lots |-> lots, pieces |-> <<>>, left |-> n]
  /\ \A k \in 1..Len(order) : run[k] = TakeOne(run[k - 1], order[k])

LEMMA TakeRuns ==
  ASSUME NEW I, NEW N \in Nat, NEW lots \in [1..N -> LotsOf(I)], NEW order \in Seq(1..N), NEW n \in Nat
  PROVE  \E run : TakeRun(run, I, N, lots, order, n) /\ Take(lots, order, n) = run[Len(order)]
<1> DEFINE T == Takes(I, N)
           X == 1..N
           base == [lots |-> lots, pieces |-> <<>>, left |-> n]
           step == [p \in T \X X |-> TakeOne(p[1], p[2])]
           D == DOMAIN order
           h == CHOOSE g : g = [s \in SUBSET D |-> IF s = {} THEN base ELSE TakeOne(g[s \ {Max(s)}], order[Max(s)])]
<1>1. base \in T BY DEF Takes
<1>2. StaysIn(step, T, X) /\ \A t \in T, x \in X : step[<<t, x>>] = TakeOne(t, x)
  BY TakeOneTyped DEF StaysIn
<1>3. Take(lots, order, n) = h[D]
  BY DEF Take, FoldLeft, MapThenFoldSet
<1>4. order \in Seq(X) /\ D = 1..Len(order) /\ Len(order) \in Nat /\ \A i \in D : order[i] \in X
  OBVIOUS
<1> HIDE DEF T, base, step
<1>5. \E g : g = [s \in SUBSET D |-> IF s = {} THEN base ELSE TakeOne(g[s \ {Max(s)}], order[Max(s)])]
  <2>1. PICK g \in [SUBSET D -> T] : IsFold(g, step, base, order, Len(order))
    BY <1>1, <1>2, <1>4, FoldExists
  <2>2. ASSUME NEW s \in SUBSET D, s # {}
        PROVE  step[<<g[s \ {Max(s)}], order[Max(s)]>>] = TakeOne(g[s \ {Max(s)}], order[Max(s)])
    <3>1. Max(s) \in s BY <1>4, <2>2, MaxOfIndices
    <3>2. order[Max(s)] \in X /\ g[s \ {Max(s)}] \in T BY <1>4, <2>1, <3>1
    <3> QED BY <1>2, <3>2
  <2>3. g = [s \in SUBSET D |-> IF s = {} THEN base ELSE step[<<g[s \ {Max(s)}], order[Max(s)]>>]]
    BY <1>4, <2>1 DEF IsFold
  <2>4. g = [s \in SUBSET D |-> IF s = {} THEN base ELSE TakeOne(g[s \ {Max(s)}], order[Max(s)])]
    BY <2>2, <2>3
  <2> QED BY <2>4
<1>6. h = [s \in SUBSET D |-> IF s = {} THEN base ELSE TakeOne(h[s \ {Max(s)}], order[Max(s)])]
  BY <1>5
<1> HIDE DEF h
<1>7. h[{}] = base BY <1>6
<1>8. ASSUME NEW s \in SUBSET D, s # {}, h[s \ {Max(s)}] \in T
      PROVE  h[s] = step[<<h[s \ {Max(s)}], order[Max(s)]>>]
  <2>1. Max(s) \in s BY <1>4, <1>8, MaxOfIndices
  <2>2. order[Max(s)] \in X BY <1>4, <2>1
  <2> QED BY <1>2, <1>6, <1>8, <2>2
<1>9. PICK run : Runs(run, T, step, base, order) /\ run[Len(order)] = h[D]
  <2>1. FoldsBy(h, T, step, base, order)
    BY <1>7, <1>8 DEF FoldsBy
  <2>2. \E run : Runs(run, T, step, base, order) /\ run[Len(order)] = h[DOMAIN order]
    <3> HIDE DEF X, D
    <3> QED BY <1>1, <1>2, <1>4, <2>1, FoldRuns
  <2> QED BY <2>2
<1>10. TakeRun(run, I, N, lots, order, n)
  <2>1. run \in [0..Len(order) -> T] /\ run[0] = base BY <1>9 DEF Runs
  <2>2. ASSUME NEW k \in 1..Len(order) PROVE run[k] = TakeOne(run[k - 1], order[k])
    <3>1. k - 1 \in 0..Len(order) /\ order[k] \in X BY <1>4
    <3>2. run[k] = step[<<run[k - 1], order[k]>>] BY <1>9 DEF Runs
    <3> QED BY <1>2, <2>1, <3>1, <3>2
  <2> QED BY <2>1, <2>2 DEF TakeRun, T, base
<1> QED BY <1>3, <1>9, <1>10
-----------------------------------------------------------------------------
(* The order in which lots are closed *)

LEMMA TimesKeepsOrder ==
  ASSUME NEW a \in Int, NEW b \in Int, NEW p \in Nat, a <= b
  PROVE  a * p <= b * p
<1>1. (b - a) * p >= 0 BY SMT
<1>2. (b - a) * p = b * p - a * p BY SMT
<1> DEFINE x == a * p
           y == b * p
<1>3. x \in Int /\ y \in Int BY SMT
<1> HIDE DEF x, y
<1> QED BY <1>1, <1>2, <1>3 DEF x, y

\* a/p <= b/q and b/q <= c/r give a/p <= c/r.
LEMMA RatiosInOrder ==
  ASSUME NEW a \in Int, NEW b \in Int, NEW c \in Int,
         NEW p \in Nat \ {0}, NEW q \in Nat \ {0}, NEW r \in Nat \ {0},
         a * q <= b * p, b * r <= c * q
  PROVE  a * r <= c * p
<1> DEFINE aq == a * q
           bp == b * p
           br == b * r
           cq == c * q
           ar == a * r
           cp == c * p
<1>1. aq \in Int /\ bp \in Int /\ br \in Int /\ cq \in Int /\ ar \in Int /\ cp \in Int BY SMT
<1>2. aq * r = ar * q /\ bp * r = br * p /\ cq * p = cp * q BY SMT
<1>3. aq * r <= bp * r
  <2> HIDE DEF aq, bp
  <2> QED BY <1>1, TimesKeepsOrder DEF aq, bp
<1>4. br * p <= cq * p
  <2> HIDE DEF br, cq
  <2> QED BY <1>1, TimesKeepsOrder DEF br, cq
<1>5. ar * q <= cp * q
  <2> DEFINE u == ar * q
             v == cp * q
             w == br * p
  <2>1. u \in Int /\ v \in Int /\ w \in Int
    <3> HIDE DEF ar, cp, br
    <3> QED BY <1>1
  <2>2. u <= w /\ w <= v
    <3> HIDE DEF aq, bp, br, cq, ar, cp
    <3> QED BY <1>2, <1>3, <1>4
  <2> HIDE DEF u, v, w
  <2>3. u <= v BY <2>1, <2>2
  <2> QED BY <2>3 DEF u, v
<1> HIDE DEF ar, cp
<1>6. ASSUME cp < ar PROVE FALSE
  <2>1. (cp + 1) * q <= ar * q BY <1>1, <1>6, TimesKeepsOrder
  <2>2. (cp + 1) * q = cp * q + q BY <1>1, SMT
  <2> DEFINE u == ar * q
             v == cp * q
  <2>3. u \in Int /\ v \in Int BY <1>1
  <2> HIDE DEF u, v
  <2> QED BY <1>5, <2>1, <2>2, <2>3 DEF u, v
<1>7. ar <= cp BY <1>1, <1>6
<1> QED BY <1>7 DEF ar, cp

\* Being dearer orders the lots that are open, but for ties.
LEMMA DearerIsOrder ==
  ASSUME NEW I, NEW x \in LotsOf(I), NEW y \in LotsOf(I), NEW z \in LotsOf(I),
         x.qty > 0, y.qty > 0, z.qty > 0, Unknown \notin Int
  PROVE  /\ ~Dearer(x, x)
         /\ Dearer(x, y) => ~Dearer(y, x)
         /\ Dearer(x, z) => Dearer(x, y) \/ Dearer(y, z)
<1>1. /\ x.val \in Values /\ y.val \in Values /\ z.val \in Values
      /\ x.qty \in Nat \ {0} /\ y.qty \in Nat \ {0} /\ z.qty \in Nat \ {0}
  BY DEF LotsOf
<1>2. ~Dearer(x, x)
  <2>1. CASE x.val = Unknown BY <2>1 DEF Dearer
  <2>2. CASE x.val \in Int
    <3>1. x.val * x.qty \in Int BY <1>1, <2>2
    <3> QED BY <2>2, <3>1 DEF Dearer
  <2> QED BY <1>1, <2>1, <2>2 DEF Values
<1>3. Dearer(x, y) => ~Dearer(y, x)
  <2>1. CASE x.val = Unknown \/ y.val = Unknown BY <2>1 DEF Dearer
  <2>2. CASE x.val \in Int /\ y.val \in Int
    <3>1. x.val * y.qty \in Int /\ y.val * x.qty \in Int BY <1>1, <2>2
    <3> QED BY <2>2, <3>1 DEF Dearer
  <2> QED BY <1>1, <2>1, <2>2 DEF Values
<1>4. Dearer(x, z) => Dearer(x, y) \/ Dearer(y, z)
  <2>1. CASE x.val = Unknown \/ y.val = Unknown \/ z.val = Unknown BY <2>1 DEF Dearer
  <2>2. CASE x.val \in Int /\ y.val \in Int /\ z.val \in Int
    <3> DEFINE xy == x.val * y.qty
               yx == y.val * x.qty
               yz == y.val * z.qty
               zy == z.val * y.qty
               xz == x.val * z.qty
               zx == z.val * x.qty
    <3>1. xy \in Int /\ yx \in Int /\ yz \in Int /\ zy \in Int /\ xz \in Int /\ zx \in Int
      BY <1>1, <2>2
    <3>2. xy <= yx /\ yz <= zy => xz <= zx
      BY <1>1, <2>2, RatiosInOrder
    <3>3. /\ Dearer(x, y) <=> xy > yx
          /\ Dearer(y, z) <=> yz > zy
          /\ Dearer(x, z) <=> xz > zx
      BY <2>2 DEF Dearer
    <3> HIDE DEF xy, yx, yz, zy, xz, zx
    <3> QED BY <3>1, <3>2, <3>3
  <2> QED BY <1>1, <2>1, <2>2 DEF Values
<1> QED BY <1>2, <1>3, <1>4

\* Lots that are open are totally ordered by what a method prefers.
LEMMA PreferenceIsTotal ==
  ASSUME NEW I, NEW N \in Nat, NEW lots \in [1..N -> LotsOf(I)], Unknown \notin Int,
         NEW chosen \in SUBSET {j \in 1..N : lots[j].qty > 0}, NEW method
  PROVE  TotallyOrders({p \in chosen \X chosen : Prefers(lots, method, p[1], p[2])}, chosen)
<1> DEFINE before == {p \in chosen \X chosen : Prefers(lots, method, p[1], p[2])}
<1>1. \A j, k \in chosen : <<j, k>> \in before <=> Prefers(lots, method, j, k) OBVIOUS
<1>2. \A j \in chosen : j \in Nat /\ lots[j] \in LotsOf(I) /\ lots[j].seq \in Nat /\ lots[j].qty > 0
  BY DEF LotsOf
<1> HIDE DEF before
<1>3. CASE method = "hifo"
  <2>1. \A j \in chosen : ~Dearer(lots[j], lots[j])
    BY <1>2, DearerIsOrder
  <2>2. \A j, k \in chosen : Dearer(lots[j], lots[k]) => ~Dearer(lots[k], lots[j])
    BY <1>2, DearerIsOrder
  <2>3. \A j, k, l \in chosen : Dearer(lots[j], lots[l]) => Dearer(lots[j], lots[k]) \/ Dearer(lots[k], lots[l])
    BY <1>2, DearerIsOrder
  <2>4. \A j, k \in chosen :
          Prefers(lots, method, j, k)
            <=> \/ Dearer(lots[j], lots[k])
                \/ /\ ~Dearer(lots[k], lots[j])
                   /\ lots[j].seq < lots[k].seq \/ (lots[j].seq = lots[k].seq /\ j < k)
    BY <1>2, <1>3, <2>2 DEF Prefers, Ahead
  <2>5. \A j \in chosen : ~Prefers(lots, method, j, j)
    BY <1>2, <2>1, <2>4
  <2>6. \A j, k \in chosen : j # k => Prefers(lots, method, j, k) \/ Prefers(lots, method, k, j)
    BY <1>2, <2>4
  <2>7. \A j, k, l \in chosen : Prefers(lots, method, j, k) /\ Prefers(lots, method, k, l)
                                => Prefers(lots, method, j, l)
    BY <1>2, <2>2, <2>3, <2>4
  <2>8. TotallyOrders(before, chosen) BY <1>1, <2>5, <2>6, <2>7 DEF TotallyOrders
  <2> QED BY <2>8 DEF before
<1>4. CASE method # "hifo"
  <2>1. TotallyOrders(before, chosen) BY <1>1, <1>2, <1>4 DEF TotallyOrders, Prefers, Ahead
  <2> QED BY <2>1 DEF before
<1> QED BY <1>3, <1>4

\* Each lot that is chosen comes once, and those that are preferred come first.
LEMMA OrderOfLots ==
  ASSUME NEW I, NEW N \in Nat, NEW lots \in [1..N -> LotsOf(I)], Unknown \notin Int,
         NEW chosen \in SUBSET {j \in 1..N : lots[j].qty > 0}, NEW method
  PROVE  LET order == InOrder(lots, chosen, method)
         IN  /\ order \in Seq(1..N) /\ \A k \in DOMAIN order : order[k] \in chosen
             /\ \A j \in chosen : \E k \in DOMAIN order : order[k] = j
             /\ \A k, l \in DOMAIN order : k < l => /\ order[k] # order[l]
                                                   /\ Prefers(lots, method, order[k], order[l])
<1> DEFINE before == {p \in chosen \X chosen : Prefers(lots, method, p[1], p[2])}
           order == Sorted(chosen, before)
           size == Cardinality(chosen)
           At(x) == Position(x, chosen, before)
<1>1. InOrder(lots, chosen, method) = order BY DEF InOrder
<1>2. TotallyOrders(before, chosen) BY ZenonT(30), PreferenceIsTotal
<1>3. chosen \in SUBSET (1..N) OBVIOUS
<1>4. IsFiniteSet(chosen) /\ size \in Nat
  <2>1. IsFiniteSet(1..N) BY FS_Interval
  <2>2. IsFiniteSet(chosen)
    <3> HIDE DEF before
    <3> QED BY <1>3, <2>1, FS_Subset
  <2> QED BY <2>2, FS_CardinalityType
<1>5. \A j, k \in chosen : <<j, k>> \in before => Prefers(lots, method, j, k) OBVIOUS
<1> HIDE DEF before
<1>6. /\ \A n \in 1..size : order[n] \in chosen /\ At(order[n]) = n - 1
      /\ \A x \in chosen : order[At(x) + 1] = x
  BY <1>2, <1>4, SortedHasEach
<1>7. \A x \in chosen : At(x) \in 0..(size - 1)
  BY <1>2, <1>4, PositionsFollowOrder
<1>8. \A x, y \in chosen : <<x, y>> \in before => At(x) < At(y)
  BY <1>2, <1>4, PositionsFollowOrder
<1>9. DOMAIN order = 1..size /\ order \in [1..size -> chosen]
  BY <1>6 DEF Sorted
<1> HIDE DEF order, At, size
<1>10. order \in Seq(1..N)
  <2>1. \A k \in 1..size : order[k] \in 1..N BY <1>3, <1>9
  <2>2. order = [k \in 1..size |-> order[k]] BY <1>9
  <2> QED BY SMTT(30), <1>4, <2>1, <2>2, IsASeq
<1>11. \A j \in chosen : \E k \in DOMAIN order : order[k] = j
  <2> SUFFICES ASSUME NEW j \in chosen PROVE \E k \in DOMAIN order : order[k] = j
    OBVIOUS
  <2>1. At(j) + 1 \in 1..size BY <1>4, <1>7
  <2> QED BY <1>6, <1>9, <2>1
<1>12. ASSUME NEW k \in DOMAIN order, NEW l \in DOMAIN order, k < l
       PROVE  order[k] # order[l] /\ Prefers(lots, method, order[k], order[l])
  <2>1. order[k] \in chosen /\ order[l] \in chosen /\ At(order[k]) = k - 1 /\ At(order[l]) = l - 1
    BY <1>6, <1>9
  <2>2. k \in Nat /\ l \in Nat BY <1>9
  <2>3. At(order[k]) < At(order[l]) /\ ~(At(order[l]) < At(order[k])) BY <1>12, <2>1, <2>2
  <2>4. order[k] # order[l] BY <2>3
  <2>5. <<order[k], order[l]>> \in before
    BY <1>2, <1>8, <2>1, <2>3, <2>4 DEF TotallyOrders
  <2> QED BY <1>5, <2>1, <2>4, <2>5
<1>13. \A k \in DOMAIN order : order[k] \in chosen BY <1>9
<1> QED BY <1>1, <1>10, <1>11, <1>12, <1>13
-----------------------------------------------------------------------------
(* What is taken *)

\* Lot x is what is left of lot y.
LeftOf(x, y) == x.inst = y.inst /\ x.src = y.src /\ x.side = y.side /\ x.seq = y.seq /\ x.qty <= y.qty

\* What one step changes: u is t after lot j gave what it has to give.
Gave(t, u, j, N) ==
  /\ t.left = 0 => u = t
  /\ t.left > 0 =>
       \E used \in Nat : /\ used <= t.left /\ used <= t.lots[j].qty
                         /\ used = t.left \/ used = t.lots[j].qty
                         /\ u.left = t.left - used
                         /\ u.lots[j].qty = t.lots[j].qty - used
                         /\ \E val : u.pieces = Append(t.pieces, [src |-> t.lots[j].src, qty |-> used, val |-> val])
  /\ \A i \in 1..N : i # j => u.lots[i] = t.lots[i]
  /\ LeftOf(u.lots[j], t.lots[j])

LEMMA TakeOneGives ==
  ASSUME NEW I, NEW N \in Nat, NEW t \in Takes(I, N), NEW j \in 1..N
  PROVE  Gave(t, TakeOne(t, j), j, N)
<1> DEFINE u == TakeOne(t, j)
           lot == t.lots[j]
           used == IF lot.qty <= t.left THEN lot.qty ELSE t.left
           part == IF lot.val = Unknown \/ used = lot.qty THEN lot.val ELSE (lot.val * used) \div lot.qty
           val == IF lot.val = Unknown THEN Unknown ELSE lot.val - part
           rest == [lot EXCEPT !.qty = lot.qty - used, !.val = val]
           piece == [src |-> lot.src, qty |-> used, val |-> part]
<1>1. /\ t.lots \in [1..N -> LotsOf(I)] /\ t.left \in Nat /\ lot \in LotsOf(I)
  BY DEF Takes
<1>2. lot.qty \in Nat BY <1>1 DEF LotsOf
<1>3. used \in Nat /\ used <= t.left /\ used <= lot.qty /\ (used = t.left \/ used = lot.qty)
  BY <1>1, <1>2
<1>4. u = IF t.left = 0 THEN t
          ELSE [lots |-> [t.lots EXCEPT ![j] = rest], pieces |-> Append(t.pieces, piece),
                left |-> t.left - used]
  <2>1. rest = [lot EXCEPT !.qty = @ - used, !.val = IF @ = Unknown THEN Unknown ELSE @ - part]
    BY <1>1 DEF LotsOf
  <2> QED BY <2>1 DEF TakeOne
<1>5. rest.qty = lot.qty - used /\ rest.inst = lot.inst /\ rest.src = lot.src /\ rest.side = lot.side /\ rest.seq = lot.seq
  BY <1>1 DEF LotsOf
<1>6. LeftOf(lot, lot) BY <1>2 DEF LeftOf
<1>7. LeftOf(rest, lot)
  <2> HIDE DEF rest, used, lot
  <2> QED BY <1>2, <1>3, <1>5 DEF LeftOf
<1> HIDE DEF rest, u
<1> SUFFICES Gave(t, u, j, N)
  BY DEF u
<1>8. CASE t.left = 0
  <2>1. u = t BY <1>4, <1>8
  <2> QED BY <1>6, <1>8, <2>1 DEF Gave
<1>9. CASE t.left # 0
  <2>1. u = [lots |-> [t.lots EXCEPT ![j] = rest], pieces |-> Append(t.pieces, piece), left |-> t.left - used]
    BY <1>4, <1>9
  <2>2. u.lots = [t.lots EXCEPT ![j] = rest] /\ u.left = t.left - used /\ u.pieces = Append(t.pieces, piece)
    BY <2>1
  <2>3. u.lots[j] = rest /\ \A i \in 1..N : i # j => u.lots[i] = t.lots[i]
    BY <1>1, <2>2
  <2>4. u.lots[j].qty = t.lots[j].qty - used BY <1>5, <2>3
  <2>5. LeftOf(u.lots[j], t.lots[j]) BY <1>7, <2>3
  <2> HIDE DEF used
  <2>6. \E v : u.pieces = Append(t.pieces, [src |-> t.lots[j].src, qty |-> used, val |-> v]) BY <2>2
  <2> QED BY <1>3, <1>9, <2>2, <2>3, <2>4, <2>5, <2>6 DEF Gave
<1> QED BY <1>1, <1>8, <1>9

\* Lots are emptied in the given order, and nothing else is touched.
Greedy(before, after, order, upto, left) ==
  /\ \A j \in DOMAIN before : LeftOf(after[j], before[j])
  /\ \A j \in DOMAIN before : (\A k \in 1..upto : order[k] # j) => after[j] = before[j]
  /\ left > 0 => \A k \in 1..upto : after[order[k]].qty = 0
  /\ \A k, l \in 1..upto :
       k < l /\ after[order[l]].qty < before[order[l]].qty => after[order[k]].qty = 0

LEMMA TakeRunIsGreedy ==
  ASSUME NEW I, NEW N \in Nat, NEW lots \in [1..N -> LotsOf(I)], NEW order \in Seq(1..N), NEW n \in Nat,
         \A k, l \in DOMAIN order : k < l => order[k] # order[l],
         NEW run, TakeRun(run, I, N, lots, order, n)
  PROVE  \A k \in 0..Len(order) : run[k] \in Takes(I, N) /\ Greedy(lots, run[k].lots, order, k, run[k].left)
<1>1. TakeRun(run, I, N, lots, order, n) OBVIOUS
<1> DEFINE M == Len(order)
           Q == {k \in 0..M : Greedy(lots, run[k].lots, order, k, run[k].left)}
<1>2. M \in Nat /\ DOMAIN order = 1..M /\ \A k \in 1..M : order[k] \in 1..N OBVIOUS
<1>3. \A j \in 1..N : lots[j] \in LotsOf(I) /\ lots[j].qty \in Nat BY DEF LotsOf
<1>4. 0 \in Q
  <2>1. run[0].lots = lots BY <1>1 DEF TakeRun
  <2>2. \A j \in 1..N : LeftOf(lots[j], lots[j]) BY <1>3 DEF LeftOf
  <2>3. 1..0 = {} /\ DOMAIN lots = 1..N OBVIOUS
  <2>4. Greedy(lots, run[0].lots, order, 0, run[0].left) BY <2>1, <2>2, <2>3 DEF Greedy
  <2> QED BY <1>2, <2>4
<1>5. ASSUME NEW k \in 1..M, k - 1 \in Q PROVE k \in Q
  <2> DEFINE t == run[k - 1]
             u == run[k]
             j == order[k]
  <2>1. t \in Takes(I, N) /\ u \in Takes(I, N) /\ u = TakeOne(t, j)
    <3>1. k - 1 \in 0..Len(order) /\ k \in 0..Len(order) /\ k \in 1..Len(order) BY <1>2
    <3> HIDE DEF M
    <3> QED BY <1>1, <3>1 DEF TakeRun
  <2>2. j \in 1..N /\ k \in Nat BY <1>2
  <2>3. Greedy(lots, t.lots, order, k - 1, t.left) BY <1>5
  <2>4. DOMAIN lots = 1..N OBVIOUS
  <2>5. \A i \in 1..(k - 1) : order[i] # j /\ order[i] \in 1..N
    <3>1. \A i \in 1..(k - 1) : i \in DOMAIN order /\ i < k BY <1>2, <2>2
    <3> QED BY <1>2, <3>1
  <2>6. t.lots[j] = lots[j] BY <2>2, <2>3, <2>4, <2>5 DEF Greedy
  <2>7. t.left \in Nat /\ u.left \in Nat /\ \A i \in 1..N : t.lots[i].qty \in Nat /\ u.lots[i].qty \in Nat
    BY <2>1 DEF Takes, LotsOf
  <2> HIDE DEF t, u, j
  <2>8. /\ t.left = 0 => u = t
        /\ t.left > 0 => \E used \in Nat : /\ used <= t.left /\ used <= t.lots[j].qty
                                           /\ used = t.left \/ used = t.lots[j].qty
                                           /\ u.left = t.left - used
                                           /\ u.lots[j].qty = t.lots[j].qty - used
        /\ \A i \in 1..N : i # j => u.lots[i] = t.lots[i]
        /\ LeftOf(u.lots[j], t.lots[j])
    <3>1. Gave(t, u, j, N) BY <2>1, <2>2, TakeOneGives
    <3> QED BY <3>1 DEF Gave
  <2>9. \A i \in 1..k : i = k \/ i \in 1..(k - 1) BY <2>2
  <2>10. \A i \in DOMAIN lots : LeftOf(u.lots[i], lots[i])
    BY <2>3, <2>4, <2>6, <2>8 DEF Greedy
  <2>11. \A i \in DOMAIN lots : (\A m \in 1..k : order[m] # i) => u.lots[i] = lots[i]
    <3> SUFFICES ASSUME NEW i \in 1..N, \A m \in 1..k : order[m] # i PROVE u.lots[i] = lots[i]
      BY <2>4
    <3>1. i # j BY <2>2 DEF j
    <3>2. \A m \in 1..(k - 1) : order[m] # i BY <2>2
    <3> QED BY <2>3, <2>4, <2>8, <3>1, <3>2 DEF Greedy
  <2>12. u.left > 0 => \A m \in 1..k : u.lots[order[m]].qty = 0
    <3> SUFFICES ASSUME u.left > 0, NEW m \in 1..k PROVE u.lots[order[m]].qty = 0
      OBVIOUS
    <3>1. t.left > 0 BY <2>7, <2>8
    <3>2. u.lots[j].qty = 0
      <4>1. PICK used \in Nat : /\ used <= t.left /\ used <= t.lots[j].qty
                                /\ used = t.left \/ used = t.lots[j].qty
                                /\ u.left = t.left - used
                                /\ u.lots[j].qty = t.lots[j].qty - used
        BY <2>8, <3>1
      <4>2. t.left \in Nat /\ t.lots[j].qty \in Nat /\ u.left # 0 BY <2>2, <2>7
      <4>3. used = t.lots[j].qty BY <4>1, <4>2
      <4> QED BY <4>1, <4>2, <4>3
    <3>3. ASSUME m \in 1..(k - 1) PROVE u.lots[order[m]].qty = 0
      <4>1. t.lots[order[m]].qty = 0 BY <2>3, <3>1, <3>3 DEF Greedy
      <4> QED BY <2>5, <2>8, <3>3, <4>1
    <3> QED BY <2>9, <3>2, <3>3 DEF j
  <2>13. \A m, l \in 1..k :
           m < l /\ u.lots[order[l]].qty < lots[order[l]].qty => u.lots[order[m]].qty = 0
    <3> SUFFICES ASSUME NEW m \in 1..k, NEW l \in 1..k, m < l, u.lots[order[l]].qty < lots[order[l]].qty
                 PROVE  u.lots[order[m]].qty = 0
      OBVIOUS
    <3>1. m \in 1..(k - 1) BY <2>2
    <3>2. u.lots[order[m]] = t.lots[order[m]] BY <2>5, <2>8, <3>1
    <3>3. CASE l = k
      <4>1. u.lots[j].qty < t.lots[j].qty BY <2>6, <3>3 DEF j
      <4>2. t.left > 0
        <5>1. u # t BY SMTT(30), <2>2, <2>7, <4>1
        <5> QED BY <2>7, <2>8, <5>1
      <4>3. t.lots[order[m]].qty = 0 BY <2>3, <3>1, <4>2 DEF Greedy
      <4> QED BY <3>2, <4>3
    <3>4. CASE l # k
      <4>1. l \in 1..(k - 1) BY <2>9, <3>4
      <4>2. u.lots[order[l]] = t.lots[order[l]] BY <2>5, <2>8, <4>1
      <4>3. t.lots[order[m]].qty = 0 BY <2>3, <3>1, <4>1, <4>2 DEF Greedy
      <4> QED BY <3>2, <4>3
    <3> QED BY <3>3, <3>4
  <2>14. Greedy(lots, u.lots, order, k, u.left) BY <2>10, <2>11, <2>12, <2>13 DEF Greedy
  <2> QED BY <2>14 DEF u
<1>6. \A k \in 0..M : k \in Q
  <2>1. \A k \in 1..M : k - 1 \in Q => k \in Q BY <1>5
  <2> HIDE DEF M, Q
  <2> QED BY <1>2, <1>4, <2>1, CountUp
<1>7. \A k \in 0..Len(order) : run[k] \in Takes(I, N)
  BY <1>1 DEF TakeRun
<1>8. \A k \in 0..M : Greedy(lots, run[k].lots, order, k, run[k].left) BY <1>6
<1> QED BY <1>7, <1>8

LEMMA TakeIsGreedy ==
  ASSUME NEW I, NEW N \in Nat, NEW lots \in [1..N -> LotsOf(I)], NEW order \in Seq(1..N), NEW n \in Nat,
         \A k, l \in DOMAIN order : k < l => order[k] # order[l]
  PROVE  /\ Take(lots, order, n) \in Takes(I, N)
         /\ Greedy(lots, Take(lots, order, n).lots, order, Len(order), Take(lots, order, n).left)
<1>1. PICK run : TakeRun(run, I, N, lots, order, n) /\ Take(lots, order, n) = run[Len(order)]
  BY TakeRuns
<1>2. \A k \in 0..Len(order) : run[k] \in Takes(I, N) /\ Greedy(lots, run[k].lots, order, k, run[k].left)
  BY <1>1, TakeRunIsGreedy
<1>3. Len(order) \in 0..Len(order) OBVIOUS
<1> QED BY <1>1, <1>2, <1>3

-----------------------------------------------------------------------------
(* Sums over lots and pieces *)

\* What lots of a set hold.
LEMMA QuantityIsSum ==
  ASSUME NEW S, IsFiniteSet(S), NEW lots
  PROVE  QuantityOf(lots, S) = SumOver([j \in S |-> lots[j].qty], S)
<1> DEFINE f == [j \in S |-> lots[j].qty]
           Adds(g) == g = [s \in SUBSET S |-> IF s = {} THEN 0
                             ELSE lots[CHOOSE x \in s : TRUE].qty + g[s \ {CHOOSE x \in s : TRUE}]]
<1>1. QuantityOf(lots, S) = (CHOOSE g : Adds(g))[S]
  BY DEF QuantityOf, MapThenSumSet, MapThenFoldSet
<1>2. \A g : Adds(g) <=> IsSum(g, f, S)
  <2>1. \A s \in SUBSET S : s # {} => f[First(s)] = lots[First(s)].qty
    BY FirstIsElement
  <2> HIDE DEF f
  <2> QED BY <2>1 DEF IsSum, First
<1>3. \E g : Adds(g)
  <2> HIDE DEF Adds, f
  <2> QED BY <1>2, SumExists
<1>4. IsSum(CHOOSE g : Adds(g), f, S)
  <2> HIDE DEF Adds, f
  <2> QED BY <1>2, <1>3
<1> HIDE DEF Adds, f
<1> QED BY <1>1, <1>4, FoldIsSum DEF f

\* What they are known to have cost.
LEMMA ValueIsSum ==
  ASSUME NEW S, IsFiniteSet(S), NEW lots
  PROVE  ValueOf(lots, S) = SumOver([j \in S |-> Known(lots[j].val)], S)
<1> DEFINE f == [j \in S |-> Known(lots[j].val)]
           Adds(g) == g = [s \in SUBSET S |-> IF s = {} THEN 0
                             ELSE Known(lots[CHOOSE x \in s : TRUE].val) + g[s \ {CHOOSE x \in s : TRUE}]]
<1>1. ValueOf(lots, S) = (CHOOSE g : Adds(g))[S]
  BY DEF ValueOf, MapThenSumSet, MapThenFoldSet
<1>2. \A g : Adds(g) <=> IsSum(g, f, S)
  <2>1. \A s \in SUBSET S : s # {} => f[First(s)] = Known(lots[First(s)].val)
    BY FirstIsElement
  <2> HIDE DEF f
  <2> QED BY <2>1 DEF IsSum, First
<1>3. \E g : Adds(g)
  <2> HIDE DEF Adds, f
  <2> QED BY <1>2, SumExists
<1>4. IsSum(CHOOSE g : Adds(g), f, S)
  <2> HIDE DEF Adds, f
  <2> QED BY <1>2, <1>3
<1> HIDE DEF Adds, f
<1> QED BY <1>1, <1>4, FoldIsSum DEF f

LEMMA KnownIsInteger == \A val \in Values : Known(val) \in Int
BY DEF Known, Values

\* Quantities and values of lots and pieces add up to integers.
LEMMA SumsAreIntegers ==
  ASSUME NEW S, IsFiniteSet(S), NEW lots, \A j \in S : lots[j].qty \in Int /\ lots[j].val \in Values
  PROVE  QuantityOf(lots, S) \in Int /\ ValueOf(lots, S) \in Int
<1> DEFINE f == [j \in S |-> lots[j].qty]
           g == [j \in S |-> Known(lots[j].val)]
<1>1. \A j \in S : f[j] \in Int /\ g[j] \in Int BY KnownIsInteger
<1>2. SumOver(f, S) \in Int /\ SumOver(g, S) \in Int
  <2> HIDE DEF f, g
  <2> QED BY <1>1, SumIsInteger
<1> QED BY <1>2, QuantityIsSum, ValueIsSum

LEMMA PieceValueIsInteger ==
  ASSUME NEW pieces \in Seq(Pieces)
  PROVE  PieceValue(pieces) \in Int
<1>1. DOMAIN pieces = 1..Len(pieces) /\ Len(pieces) \in Nat /\ IsFiniteSet(DOMAIN pieces)
  BY FS_Interval
<1>2. \A p \in DOMAIN pieces : pieces[p] \in Pieces OBVIOUS
<1>3. \A p \in DOMAIN pieces : pieces[p].qty \in Int /\ pieces[p].val \in Values
  BY <1>2 DEF Pieces
<1> QED BY <1>1, <1>3, SumsAreIntegers DEF PieceValue

\* Quantities that are the same but for one.
DifferAt(lots, after, j, S) ==
  \A i \in S : /\ lots[i].qty \in Int /\ after[i].qty \in Int
               /\ i # j => after[i].qty = lots[i].qty

\* The sum changes by as much as one of its terms.
LEMMA QuantityChangesBy ==
  ASSUME NEW S, IsFiniteSet(S), NEW lots, NEW after, NEW j \in S, DifferAt(lots, after, j, S)
  PROVE  /\ QuantityOf(lots, S) \in Int /\ QuantityOf(after, S) \in Int
         /\ QuantityOf(after, S) = QuantityOf(lots, S) + after[j].qty - lots[j].qty
<1> DEFINE f == [i \in S |-> lots[i].qty]
           g == [i \in S |-> after[i].qty]
           rest == S \ {j}
<1> USE DEF DifferAt
<1>1. QuantityOf(lots, S) = SumOver(f, S) /\ QuantityOf(after, S) = SumOver(g, S)
  BY QuantityIsSum
<1>2. \A i \in S : f[i] \in Int /\ g[i] \in Int OBVIOUS
<1>3. \A i \in rest : f[i] = g[i] /\ g[i] \in Int OBVIOUS
<1>4. f[j] = lots[j].qty /\ g[j] = after[j].qty OBVIOUS
<1>5. IsFiniteSet(rest) BY FS_Subset
<1> HIDE DEF f, g
<1>6. SumOver(f, S) = f[j] + SumOver(f, rest) /\ SumOver(g, S) = g[j] + SumOver(g, rest)
  BY <1>2, SumSplits
<1>7. SumOver(f, rest) = SumOver(g, rest) /\ SumOver(g, rest) \in Int
  <2> HIDE DEF rest
  <2> QED BY <1>3, <1>5, SumsOfEquals, SumIsInteger
<1> QED BY <1>1, <1>2, <1>4, <1>6, <1>7

\* Sums of the same terms are the same.
LEMMA QuantitiesAgree ==
  ASSUME NEW S, IsFiniteSet(S), NEW lots, NEW after,
         \A i \in S : lots[i].qty \in Int /\ after[i].qty = lots[i].qty
  PROVE  QuantityOf(lots, S) = QuantityOf(after, S)
<1> DEFINE f == [i \in S |-> lots[i].qty]
           g == [i \in S |-> after[i].qty]
<1>1. \A i \in S : f[i] = g[i] /\ g[i] \in Int OBVIOUS
<1>2. SumOver(f, S) = SumOver(g, S)
  <2> HIDE DEF f, g
  <2> QED BY <1>1, SumsOfEquals
<1> QED BY <1>2, QuantityIsSum

Countable(T) == \A t \in T : t.qty \in Int

\* One more term at the end.
LEMMA QuantityOfLonger ==
  ASSUME NEW T, NEW lots \in Seq(T), NEW x, Countable(T), x.qty \in Int,
         NEW S \in SUBSET DOMAIN lots
  PROVE  /\ QuantityOf(lots, S) \in Int
         /\ QuantityOf(Append(lots, x), S) = QuantityOf(lots, S)
         /\ QuantityOf(Append(lots, x), S \cup {Len(lots) + 1}) = QuantityOf(lots, S) + x.qty
<1> DEFINE after == Append(lots, x)
           n == Len(lots) + 1
           U == S \cup {n}
           f == [i \in U |-> after[i].qty]
<1> USE DEF Countable
<1>1. n \notin S /\ after[n] = x /\ \A i \in S : after[i] = lots[i] /\ lots[i] \in T
  OBVIOUS
<1>2. IsFiniteSet(S) /\ IsFiniteSet(U)
  <2>1. IsFiniteSet(1..Len(lots)) /\ DOMAIN lots = 1..Len(lots) BY FS_Interval
  <2>2. IsFiniteSet(S) BY <2>1, FS_Subset
  <2> QED BY <2>2, FS_AddElement
<1> HIDE DEF after, n
<1>3. QuantityOf(lots, S) = QuantityOf(after, S) BY <1>1, <1>2, QuantitiesAgree
<1>4. \A i \in U : f[i] \in Int BY <1>1
<1>5. U \ {n} = S /\ n \in U /\ f[n] = x.qty BY <1>1
<1>6. QuantityOf(after, U) = SumOver(f, U) BY <1>2, QuantityIsSum
<1>7. SumOver(f, U) = x.qty + SumOver(f, S)
  <2> HIDE DEF f, U
  <2> QED BY <1>2, <1>4, <1>5, SumSplits
<1>8. SumOver(f, S) = QuantityOf(after, S) /\ QuantityOf(after, S) \in Int
  <2> DEFINE g == [i \in S |-> after[i].qty]
  <2>1. \A i \in S : f[i] = g[i] /\ g[i] \in Int BY <1>1
  <2>2. SumOver(f, S) = SumOver(g, S) /\ SumOver(g, S) \in Int
    <3> HIDE DEF f, g
    <3> QED BY <1>2, <2>1, SumsOfEquals, SumIsInteger
  <2> QED BY <1>2, <2>2, QuantityIsSum
<1>9. QuantityOf(after, U) = QuantityOf(lots, S) + x.qty BY <1>3, <1>6, <1>7, <1>8
<1> QED BY <1>3, <1>8, <1>9 DEF after, n
-----------------------------------------------------------------------------
(* What is taken from the lots of a replay *)

LEMMA LotFields ==
  ASSUME NEW I, NEW x \in LotsOf(I)
  PROVE  /\ x.inst \in I /\ x.src \in Nat /\ x.side \in Sides /\ x.seq \in Nat
         /\ x.qty \in Nat /\ x.qty \in Int /\ x.val \in Values
BY DEF LotsOf

LEMMA PreferenceIsAsymmetric ==
  ASSUME NEW I, NEW N \in Nat, NEW lots \in [1..N -> LotsOf(I)], Unknown \notin Int,
         NEW chosen \in SUBSET {j \in 1..N : lots[j].qty > 0}, NEW method,
         NEW j \in chosen, NEW k \in chosen, Prefers(lots, method, k, j)
  PROVE  ~Prefers(lots, method, j, k)
<1> DEFINE before == {p \in chosen \X chosen : Prefers(lots, method, p[1], p[2])}
<1>1. TotallyOrders(before, chosen) BY ZenonT(30), PreferenceIsTotal
<1>2. <<k, j>> \in before OBVIOUS
<1>3. <<j, k>> \notin before
  <2> HIDE DEF before
  <2> QED BY <1>1, <1>2 DEF TotallyOrders
<1> QED BY <1>3

\* Taking moves quantity from the lots to the pieces.
Conserves(t, lots, n, S) ==
  /\ QuantityOf(t.lots, S) \in Int /\ QuantityOf(t.lots, S) + n = QuantityOf(lots, S) + t.left
  /\ QuantityOf(t.pieces, DOMAIN t.pieces) + t.left = n

LEMMA TakeConserves ==
  ASSUME NEW I, NEW N \in Nat, NEW lots \in [1..N -> LotsOf(I)], NEW order \in Seq(1..N), NEW n \in Nat,
         NEW S \in SUBSET (1..N), \A k \in DOMAIN order : order[k] \in S
  PROVE  Conserves(Take(lots, order, n), lots, n, S)
<1>1. PICK run : TakeRun(run, I, N, lots, order, n) /\ Take(lots, order, n) = run[Len(order)]
  BY TakeRuns
<1> DEFINE M == Len(order)
           Q == {k \in 0..M : Conserves(run[k], lots, n, S)}
<1>2. M \in Nat /\ DOMAIN order = 1..M /\ \A k \in 1..M : order[k] \in S OBVIOUS
<1>3. IsFiniteSet(S)
  <2>1. IsFiniteSet(1..N) BY FS_Interval
  <2> QED BY <2>1, FS_Subset
<1>4. 0 \in Q
  <2>1. run[0] = [lots |-> lots, pieces |-> <<>>, left |-> n] BY <1>1 DEF TakeRun
  <2>2. \A j \in S : lots[j].qty \in Int /\ lots[j].val \in Values BY DEF LotsOf
  <2>3. QuantityOf(lots, S) \in Int BY <1>3, <2>2, SumsAreIntegers
  <2>4. QuantityOf(<<>>, DOMAIN <<>>) = 0
    <3>1. DOMAIN <<>> = {} /\ IsFiniteSet({}) BY FS_EmptySet
    <3>2. QuantityOf(<<>>, {}) = SumOver([j \in {} |-> <<>>[j].qty], {}) BY <3>1, QuantityIsSum
    <3>3. SumOver([j \in {} |-> <<>>[j].qty], {}) = 0 BY <3>1, SumUnfolds
    <3> QED BY <3>1, <3>2, <3>3
  <2>5. Conserves(run[0], lots, n, S) BY <2>1, <2>3, <2>4 DEF Conserves
  <2> QED BY <1>2, <2>5
<1>5. ASSUME NEW k \in 1..M, k - 1 \in Q PROVE k \in Q
  <2> DEFINE t == run[k - 1]
             u == run[k]
             j == order[k]
  <2>1. t \in Takes(I, N) /\ u \in Takes(I, N) /\ u = TakeOne(t, j)
    <3>1. k - 1 \in 0..Len(order) /\ k \in 0..Len(order) /\ k \in 1..Len(order) BY <1>2
    <3> HIDE DEF M
    <3> QED BY <1>1, <3>1 DEF TakeRun
  <2>2. j \in S /\ j \in 1..N BY <1>2
  <2>3. Conserves(t, lots, n, S) BY <1>5
  <2>4. /\ t.lots \in [1..N -> LotsOf(I)] /\ u.lots \in [1..N -> LotsOf(I)]
        /\ t.pieces \in Seq(Pieces) /\ t.left \in Nat
    BY <2>1 DEF Takes
  <2>5. \A i \in S : t.lots[i].qty \in Int /\ u.lots[i].qty \in Int
    <3>1. \A i \in S : t.lots[i] \in LotsOf(I) /\ u.lots[i] \in LotsOf(I) BY <2>4
    <3> HIDE DEF t, u
    <3> QED BY <3>1, LotFields
  <2> HIDE DEF t, u, j
  <2>6. Gave(t, u, j, N) BY <2>1, <2>2, TakeOneGives
  <2>7. CASE t.left = 0
    <3>1. u = t BY <2>6, <2>7 DEF Gave
    <3> QED BY <2>3, <3>1 DEF u
  <2>8. CASE t.left > 0
    <3>1. PICK used \in Nat : /\ u.left = t.left - used
                              /\ u.lots[j].qty = t.lots[j].qty - used
                              /\ \E val : u.pieces = Append(t.pieces, [src |-> t.lots[j].src, qty |-> used, val |-> val])
      BY <2>6, <2>8 DEF Gave
    <3>2. PICK val : u.pieces = Append(t.pieces, [src |-> t.lots[j].src, qty |-> used, val |-> val])
      BY <3>1
    <3>3. \A i \in S : i # j => u.lots[i].qty = t.lots[i].qty BY <2>6 DEF Gave
    <3>4. /\ QuantityOf(t.lots, S) \in Int /\ QuantityOf(u.lots, S) \in Int
          /\ QuantityOf(u.lots, S) = QuantityOf(t.lots, S) + u.lots[j].qty - t.lots[j].qty
      <4> DEFINE before == t.lots
                 after == u.lots
      <4>1. DifferAt(before, after, j, S) BY <2>5, <3>3 DEF DifferAt
      <4> HIDE DEF before, after
      <4>2. /\ QuantityOf(before, S) \in Int /\ QuantityOf(after, S) \in Int
            /\ QuantityOf(after, S) = QuantityOf(before, S) + after[j].qty - before[j].qty
        BY <1>3, <2>2, <4>1, QuantityChangesBy
      <4> QED BY <4>2 DEF before, after
    <3>5. t.lots[j].qty \in Int BY <2>2, <2>5
    <3>6. QuantityOf(u.lots, S) = QuantityOf(t.lots, S) - used
      BY SMTT(30), <3>1, <3>4, <3>5
    <3> DEFINE x == [src |-> t.lots[j].src, qty |-> used, val |-> val]
    <3>7. x.qty = used OBVIOUS
    <3>8. Countable(Pieces) BY DEF Pieces, Countable
    <3>9. /\ QuantityOf(t.pieces, DOMAIN t.pieces) \in Int
          /\ QuantityOf(Append(t.pieces, x), DOMAIN t.pieces \cup {Len(t.pieces) + 1})
               = QuantityOf(t.pieces, DOMAIN t.pieces) + used
      <4> DEFINE pieces == t.pieces
      <4>1. pieces \in Seq(Pieces) /\ x.qty \in Int BY <2>4, <3>7
      <4> HIDE DEF x, pieces
      <4>2. DOMAIN pieces \in SUBSET DOMAIN pieces OBVIOUS
      <4>3. /\ QuantityOf(pieces, DOMAIN pieces) \in Int
            /\ QuantityOf(Append(pieces, x), DOMAIN pieces \cup {Len(pieces) + 1})
                 = QuantityOf(pieces, DOMAIN pieces) + x.qty
        BY SMTT(30), <3>8, <4>1, <4>2, QuantityOfLonger
      <4> QED BY <3>7, <4>3 DEF pieces
    <3>10. DOMAIN u.pieces = DOMAIN t.pieces \cup {Len(t.pieces) + 1}
      <4>1. u.pieces = Append(t.pieces, x) BY <3>2
      <4> HIDE DEF x
      <4> QED BY <2>4, <4>1
    <3>11. QuantityOf(u.pieces, DOMAIN u.pieces) = QuantityOf(t.pieces, DOMAIN t.pieces) + used
      BY <3>2, <3>9, <3>10
    <3>12. QuantityOf(lots, S) \in Int
      <4>1. \A i \in S : lots[i].qty \in Int /\ lots[i].val \in Values
        <5>1. \A i \in S : lots[i] \in LotsOf(I) OBVIOUS
        <5> QED BY <5>1, LotFields
      <4> QED BY <1>3, <4>1, SumsAreIntegers
    <3>13. Conserves(u, lots, n, S)
      <4> DEFINE a == QuantityOf(t.lots, S)
                 b == QuantityOf(u.lots, S)
                 c == QuantityOf(t.pieces, DOMAIN t.pieces)
                 d == QuantityOf(u.pieces, DOMAIN u.pieces)
                 all == QuantityOf(lots, S)
                 had == t.left
                 has == u.left
      <4>1. a \in Int /\ a + n = all + had /\ c + had = n BY <2>3 DEF Conserves
      <4>2. b \in Int /\ b = a - used /\ c \in Int /\ d = c + used /\ all \in Int
            /\ has = had - used /\ had \in Nat
        BY <2>4, <3>1, <3>4, <3>6, <3>9, <3>11, <3>12
      <4> HIDE DEF a, b, c, d, all, had, has
      <4>3. b + n = all + has /\ d + has = n BY <4>1, <4>2
      <4> QED BY <4>2, <4>3 DEF Conserves, a, b, c, d, all, had, has
    <3> QED BY <3>13 DEF u
  <2> QED BY <2>4, <2>7, <2>8
<1> HIDE DEF Q
<1>6. M \in Q
  <2>1. \A k \in 1..M : k - 1 \in Q => k \in Q BY <1>5
  <2>2. M \in 0..M BY <1>2
  <2> HIDE DEF M
  <2> QED BY <1>2, <1>4, <2>1, <2>2, CountUp
<1>7. Conserves(run[M], lots, n, S) BY <1>6 DEF Q
<1> QED BY <1>1, <1>7

\* What taking n from the chosen lots, in the order of a method, leaves: only chosen
\* lots change, none that is preferred is passed over, and all are empty when more
\* is wanted.
TakenFrom(lots, taken, chosen, method, n, I) ==
  /\ taken.lots \in Seq(LotsOf(I)) /\ Len(taken.lots) = Len(lots)
  /\ taken.pieces \in Seq(Pieces) /\ taken.left \in Nat
  /\ \A j \in DOMAIN lots : LeftOf(taken.lots[j], lots[j])
  /\ \A j \in DOMAIN lots \ chosen : taken.lots[j] = lots[j]
  /\ \A j, k \in chosen :
       Prefers(lots, method, k, j) /\ taken.lots[j].qty < lots[j].qty => taken.lots[k].qty = 0
  /\ taken.left > 0 => \A j \in chosen : taken.lots[j].qty = 0
  /\ \A S \in SUBSET DOMAIN lots : chosen \subseteq S => Conserves(taken, lots, n, S)

LEMMA TakeInOrder ==
  ASSUME NEW I, NEW lots \in Seq(LotsOf(I)), NEW chosen \in SUBSET {j \in DOMAIN lots : lots[j].qty > 0},
         NEW method, NEW n \in Nat
  PROVE  TakenFrom(lots, Take(lots, InOrder(lots, chosen, method), n), chosen, method, n, I)
<1> DEFINE N == Len(lots)
           order == InOrder(lots, chosen, method)
           taken == Take(lots, order, n)
<1>1. /\ N \in Nat /\ lots \in [1..N -> LotsOf(I)] /\ DOMAIN lots = 1..N
      /\ chosen \in SUBSET {j \in 1..N : lots[j].qty > 0}
  OBVIOUS
<1> HIDE DEF N
<1>2. Unknown \notin Int BY LedgerAssumption
<1>3. /\ order \in Seq(1..N) /\ \A k \in DOMAIN order : order[k] \in chosen
      /\ \A j \in chosen : \E k \in DOMAIN order : order[k] = j
      /\ \A k, l \in DOMAIN order : k < l => /\ order[k] # order[l]
                                             /\ Prefers(lots, method, order[k], order[l])
  BY <1>1, <1>2, OrderOfLots
<1> HIDE DEF order
<1>4. taken \in Takes(I, N) /\ Greedy(lots, taken.lots, order, Len(order), taken.left)
  BY <1>1, <1>3, TakeIsGreedy
<1>5. \A S \in SUBSET (1..N) : chosen \subseteq S => Conserves(taken, lots, n, S)
  <2> SUFFICES ASSUME NEW S \in SUBSET (1..N), chosen \subseteq S PROVE Conserves(taken, lots, n, S)
    OBVIOUS
  <2>1. \A k \in DOMAIN order : order[k] \in S BY <1>3
  <2> QED BY <1>1, <1>3, <2>1, TakeConserves
<1> HIDE DEF taken
<1>6. taken.lots \in [1..N -> LotsOf(I)] /\ taken.pieces \in Seq(Pieces) /\ taken.left \in Nat
  BY <1>4 DEF Takes
<1>7. taken.lots \in Seq(LotsOf(I)) /\ Len(taken.lots) = N
  <2>1. taken.lots = [j \in 1..N |-> taken.lots[j]] /\ \A j \in 1..N : taken.lots[j] \in LotsOf(I)
    BY <1>6
  <2> QED BY <1>1, <2>1, IsASeq
<1>8. DOMAIN order = 1..Len(order) BY <1>3
<1>9. \A j \in DOMAIN lots : LeftOf(taken.lots[j], lots[j]) BY <1>4 DEF Greedy
<1>10. \A j \in DOMAIN lots \ chosen : taken.lots[j] = lots[j]
  BY <1>3, <1>4, <1>8 DEF Greedy
<1>11. ASSUME NEW j \in chosen, NEW k \in chosen, Prefers(lots, method, k, j),
              taken.lots[j].qty < lots[j].qty
       PROVE  taken.lots[k].qty = 0
  <2>1. PICK x \in DOMAIN order : order[x] = k BY <1>3
  <2>2. PICK y \in DOMAIN order : order[y] = j BY <1>3
  <2>3. x \in Nat /\ y \in Nat BY <1>8
  <2>4. ~Prefers(lots, method, j, k)
    BY <1>1, <1>2, <1>11, PreferenceIsAsymmetric
  <2>5. ~(y < x) BY <1>3, <2>1, <2>2, <2>4
  <2>6. x # y
    <3> SUFFICES ASSUME x = y PROVE FALSE
      OBVIOUS
    <3>1. j = k BY <2>1, <2>2
    <3> QED BY <1>11, <2>4, <3>1
  <2>7. x < y BY <2>3, <2>5, <2>6
  <2> QED BY <1>4, <1>8, <1>11, <2>1, <2>2, <2>7 DEF Greedy
<1>12. taken.left > 0 => \A j \in chosen : taken.lots[j].qty = 0
  BY <1>3, <1>4, <1>8 DEF Greedy
<1>13. TakenFrom(lots, taken, chosen, method, n, I)
  BY <1>1, <1>5, <1>6, <1>7, <1>9, <1>10, <1>11, <1>12 DEF TakenFrom, N
<1> QED BY <1>13 DEF taken, order

-----------------------------------------------------------------------------
(* What an operation does to a replay *)

Rows == [side : Sides, qty : Int, open : Int, close : Int]
Replays(I) == [lots : Seq(LotsOf(I)), realized : Seq(Rows), seq : Nat, ok : BOOLEAN]

\* Lots are numbered in the order they are opened.  The lot of an action does not
\* use up its number.
Numbered(r) ==
  /\ \A j, k \in DOMAIN r.lots : j < k => r.lots[j].seq <= r.lots[k].seq
  /\ \A j \in DOMAIN r.lots : r.lots[j].seq <= r.seq + 1

\* Without actions every lot has a number of its own.
NumberedOnce(r) ==
  /\ \A j, k \in DOMAIN r.lots : j < k => r.lots[j].seq < r.lots[k].seq
  /\ \A j \in DOMAIN r.lots : r.lots[j].seq <= r.seq

\* A state that a replay can be in.
Sound(r, I) == r \in Replays(I) /\ Numbered(r)

\* The lots are the same but for what they hold and cost.
SameLots(lots, after, I) ==
  /\ after \in Seq(LotsOf(I)) /\ Len(after) = Len(lots)
  /\ \A j \in DOMAIN lots : /\ after[j].inst = lots[j].inst /\ after[j].src = lots[j].src
                            /\ after[j].side = lots[j].side /\ after[j].seq = lots[j].seq

\* s is r after its lots gave or took something and a result was added.
Touches(s, r, I) ==
  /\ s \in Replays(I) /\ s.seq = r.seq
  /\ SameLots(r.lots, s.lots, I)

\* s is r with one more lot.
Opens(s, r, lot, I) ==
  /\ s \in Replays(I) /\ s.lots = Append(r.lots, lot) /\ lot \in LotsOf(I)
  /\ lot.seq = r.seq + 1 /\ s.seq \in {r.seq, r.seq + 1}

LEMMA EmptyIsSound ==
  ASSUME NEW I
  PROVE  Sound(EmptyReplay, I) /\ NumberedOnce(EmptyReplay)
BY DEF Sound, Replays, EmptyReplay, Numbered, NumberedOnce

LEMMA TouchedIsSound ==
  ASSUME NEW I, NEW r, NEW s, Touches(s, r, I), r \in Replays(I)
  PROVE  (Numbered(r) => Sound(s, I)) /\ (NumberedOnce(r) => NumberedOnce(s))
<1>1. s \in Replays(I) /\ s.seq = r.seq BY DEF Touches
<1>2. DOMAIN s.lots = DOMAIN r.lots /\ \A j \in DOMAIN r.lots : s.lots[j].seq = r.lots[j].seq
  BY DEF Touches, SameLots, Replays
<1> QED BY <1>1, <1>2 DEF Sound, Numbered, NumberedOnce

LEMMA OpenedIsSound ==
  ASSUME NEW I, NEW r, NEW s, NEW lot, Opens(s, r, lot, I), r \in Replays(I)
  PROVE  /\ Numbered(r) => Sound(s, I)
         /\ NumberedOnce(r) /\ s.seq = r.seq + 1 => NumberedOnce(s)
<1> DEFINE lots == r.lots
           n == Len(lots) + 1
<1>1. lots \in Seq(LotsOf(I)) /\ r.seq \in Nat /\ s \in Replays(I) BY DEF Opens, Replays
<1>2. s.lots = Append(lots, lot) /\ lot.seq = r.seq + 1 /\ s.seq \in {r.seq, r.seq + 1} BY DEF Opens
<1>3. /\ DOMAIN s.lots = 1..n /\ DOMAIN lots = 1..Len(lots) /\ Len(lots) \in Nat
      /\ s.lots[n] = lot /\ \A j \in DOMAIN lots : s.lots[j] = lots[j]
  <2> HIDE DEF lots
  <2> QED BY <1>1, <1>2
<1>4. \A j \in DOMAIN lots : lots[j].seq \in Nat
  <2>1. \A j \in DOMAIN lots : lots[j] \in LotsOf(I) BY <1>1
  <2> HIDE DEF lots
  <2> QED BY <2>1, LotFields
<1> HIDE DEF lots
<1>5. \A j \in DOMAIN s.lots : j = n \/ j \in DOMAIN lots BY <1>3
<1>6. \A j \in 1..n : j <= n BY <1>3
<1>7. ASSUME Numbered(r) PROVE Sound(s, I)
  <2>1. /\ \A j, k \in DOMAIN lots : j < k => lots[j].seq <= lots[k].seq
        /\ \A j \in DOMAIN lots : lots[j].seq <= r.seq + 1
    BY <1>7 DEF Numbered, lots
  <2> QED BY <1>1, <1>2, <1>3, <1>4, <1>5, <1>6, <2>1 DEF Sound, Numbered
<1>8. ASSUME NumberedOnce(r), s.seq = r.seq + 1 PROVE NumberedOnce(s)
  <2>1. /\ \A j, k \in DOMAIN lots : j < k => lots[j].seq < lots[k].seq
        /\ \A j \in DOMAIN lots : lots[j].seq <= r.seq
    BY <1>8 DEF NumberedOnce, lots
  <2> QED BY <1>1, <1>2, <1>3, <1>4, <1>5, <1>6, <1>8, <2>1 DEF NumberedOnce
<1> QED BY <1>7, <1>8

LEMMA TouchesTwice ==
  ASSUME NEW I, NEW r \in Replays(I), NEW s, NEW t, Touches(s, r, I), Touches(t, s, I)
  PROVE  Touches(t, r, I)
BY DEF Touches, SameLots, Replays

\* An error leaves the lots alone.
LEMMA RaiseTouches ==
  ASSUME NEW I, NEW r \in Replays(I)
  PROVE  Touches(Raise(r), r, I) /\ ~Raise(r).ok
<1>1. Raise(r) \in Replays(I) /\ Raise(r).lots = r.lots /\ Raise(r).seq = r.seq /\ ~Raise(r).ok
  BY DEF Raise, Replays
<1> QED BY <1>1 DEF Touches, SameLots, Replays

\* New lots for old ones, and one more result or none.
LEMMA ChangeTouches ==
  ASSUME NEW I, NEW r \in Replays(I), NEW lots, SameLots(r.lots, lots, I), NEW rows \in Seq(Rows)
  PROVE  /\ Touches([r EXCEPT !.lots = lots], r, I)
         /\ Touches([r EXCEPT !.lots = lots, !.realized = rows], r, I)
<1>1. lots \in Seq(LotsOf(I)) BY DEF SameLots
<1>2. /\ [r EXCEPT !.lots = lots] \in Replays(I) /\ [r EXCEPT !.lots = lots].seq = r.seq
      /\ [r EXCEPT !.lots = lots].lots = lots
  BY <1>1 DEF Replays
<1>3. /\ [r EXCEPT !.lots = lots, !.realized = rows] \in Replays(I)
      /\ [r EXCEPT !.lots = lots, !.realized = rows].seq = r.seq
      /\ [r EXCEPT !.lots = lots, !.realized = rows].lots = lots
  BY <1>1 DEF Replays
<1> QED BY <1>2, <1>3 DEF Touches

LEMMA OpenedOpens ==
  ASSUME NEW I, NEW r \in Replays(I), NEW inst \in I, NEW src \in Nat, NEW side \in Sides,
         NEW qty \in Nat, NEW val \in Values
  PROVE  LET s == Opened(r, inst, src, side, qty, val)
         IN  Opens(s, r, Lot(inst, src, side, qty, val, r.seq + 1), I) /\ s.seq = r.seq + 1 /\ s.ok = r.ok
<1> DEFINE lot == Lot(inst, src, side, qty, val, r.seq + 1)
           s == Opened(r, inst, src, side, qty, val)
<1>1. r.seq \in Nat /\ r.lots \in Seq(LotsOf(I)) BY DEF Replays
<1>2. lot \in LotsOf(I) /\ lot.seq = r.seq + 1 BY <1>1 DEF Lot, LotsOf
<1> HIDE DEF lot
<1>3. s = [r EXCEPT !.lots = Append(r.lots, lot), !.seq = r.seq + 1]
  BY DEF Opened, lot, Replays
<1>4. Append(r.lots, lot) \in Seq(LotsOf(I)) /\ r.seq + 1 \in Nat BY <1>1, <1>2
<1>5. s \in Replays(I) /\ s.lots = Append(r.lots, lot) /\ s.seq = r.seq + 1 /\ s.ok = r.ok
  BY <1>3, <1>4 DEF Replays
<1>6. Opens(s, r, lot, I) BY <1>2, <1>5 DEF Opens
<1> QED BY <1>5, <1>6 DEF lot

-----------------------------------------------------------------------------
(* Facts *)

\* The carried lots of a transfer, and the basis allocation of an action.
CarriedLots == Seq([src : Nat, qty : Nat, val : Int])
IsAllocation(parts) ==
  \/ parts = <<>>
  \/ /\ Len(parts) = 1 /\ parts # <<>>
     /\ parts[1].qty \in Nat /\ parts[1].val \in Int /\ parts[1].carried \in Int

\* What is recorded of instruments in I.
IsFact(f, I) ==
  /\ f.kind \in {"buy", "sell", "split", "transfer", "move"} \cup Actions
  /\ f.inst \in I /\ f.dst \in I /\ f.qty \in Int /\ f.value \in Int /\ f.gets \in Nat
  /\ f.ratio[1] \in Nat \ {0} /\ f.ratio[2] \in Nat \ {0}
  /\ f.kind = "buy" => f.qty > 0
  /\ f.kind = "sell" => f.qty < 0
  /\ f.kind = "move" => f.qty # 0
  /\ f.kind = "transfer" => f.qty <= 0 /\ f.parts \in CarriedLots
  /\ f.kind \in Actions => IsAllocation(f.parts)

AreFacts(I) == facts \in Seq({facts[i] : i \in DOMAIN facts}) /\ \A i \in DOMAIN facts : IsFact(facts[i], I)

-----------------------------------------------------------------------------
(* Trades *)

LEMMA TakenIsSame ==
  ASSUME NEW I, NEW lots \in Seq(LotsOf(I)), NEW taken, NEW chosen, NEW method, NEW n,
         TakenFrom(lots, taken, chosen, method, n, I)
  PROVE  SameLots(lots, taken.lots, I)
BY DEF TakenFrom, SameLots, LeftOf

LEMMA TakeOpen ==
  ASSUME NEW I, NEW lots \in Seq(LotsOf(I)), NEW inst, NEW side, NEW method, NEW n \in Nat
  PROVE  TakenFrom(lots, Take(lots, Ordered(lots, inst, side, method), n), Open(lots, inst, side), method, n, I)
<1>1. Open(lots, inst, side) \in SUBSET {j \in DOMAIN lots : lots[j].qty > 0} BY DEF Open
<1> QED BY <1>1, TakeInOrder DEF Ordered

Size(f) == IF f.qty > 0 THEN f.qty ELSE -f.qty

\* What a trade makes of a replay: it closes opposed lots, and opens a lot with
\* what is left of it.
TradeOf(s, r, taken, f, i, side, method, I) ==
  /\ s \in Replays(I) /\ s.ok = r.ok
  /\ TakenFrom(r.lots, taken, Open(r.lots, f.inst, OpposedSide(side)), method, Size(f), I)
  /\ \/ taken.left = 0 /\ s.lots = taken.lots /\ s.seq = r.seq
     \/ /\ taken.left > 0 /\ s.seq = r.seq + 1
        /\ \E val : /\ s.lots = Append(taken.lots, Lot(f.inst, i, side, taken.left, val, r.seq + 1))
                    /\ Lot(f.inst, i, side, taken.left, val, r.seq + 1) \in LotsOf(I)

LEMMA TradeTrades ==
  ASSUME NEW I, AreFacts(I), NEW i \in DOMAIN facts, facts[i].kind \in {"buy", "sell"},
         NEW r \in Replays(I), NEW side \in Sides, NEW method
  PROVE  TradeOf(Trade(r, i, side, method), r,
                 Take(r.lots, Ordered(r.lots, facts[i].inst, OpposedSide(side), method), Size(facts[i])),
                 facts[i], i, side, method, I)
<1> DEFINE f == facts[i]
           n == Size(f)
           taken == Take(r.lots, Ordered(r.lots, f.inst, OpposedSide(side), method), n)
           closed == n - taken.left
           row == Row(OpposedSide(side), closed, taken.pieces, (f.value * closed) \div n)
           rows == IF closed = 0 THEN r.realized ELSE Append(r.realized, row)
           after == [r EXCEPT !.lots = taken.lots, !.realized = rows]
           val == (f.value * taken.left) \div n
           s == Trade(r, i, side, method)
<1>1. f.qty \in Int /\ f.qty # 0 /\ f.inst \in I /\ f.value \in Int /\ i \in Nat
  BY DEF AreFacts, IsFact
<1>2. n \in Nat /\ n # 0 /\ n > 0 BY <1>1 DEF Size
<1>3. /\ r.lots \in Seq(LotsOf(I)) /\ r.realized \in Seq(Rows) /\ r.seq \in Nat /\ r.ok \in BOOLEAN
  BY DEF Replays
<1>4. TakenFrom(r.lots, taken, Open(r.lots, f.inst, OpposedSide(side)), method, n, I)
  <2> HIDE DEF n, f
  <2> QED BY <1>2, <1>3, TakeOpen
<1>5. s = IF taken.left = 0 THEN after ELSE Opened(after, f.inst, i, side, taken.left, val)
  BY <1>3 DEF Trade, Traded, Replays, Size
<1> HIDE DEF taken, n
<1>6. taken.left \in Nat /\ taken.pieces \in Seq(Pieces) BY <1>4 DEF TakenFrom
<1>7. val \in Int /\ closed \in Int /\ (f.value * closed) \div n \in Int
  <2> HIDE DEF f
  <2>1. closed \in Int BY <1>2, <1>6
  <2>2. f.value * taken.left \in Int /\ f.value * closed \in Int
    <3> HIDE DEF closed
    <3> QED BY <1>1, <1>6, <2>1
  <2> HIDE DEF closed
  <2> QED BY <1>2, <2>1, <2>2
<1>8. rows \in Seq(Rows)
  <2>1. OpposedSide(side) \in Sides BY DEF OpposedSide, Sides
  <2>2. PieceValue(taken.pieces) \in Int BY <1>6, PieceValueIsInteger
  <2>3. row \in Rows
    <3> HIDE DEF closed, f
    <3> QED BY <1>7, <2>1, <2>2 DEF Row, Rows
  <2> HIDE DEF row
  <2> QED BY <1>3, <2>3
<1> HIDE DEF rows, val, f
<1>9. SameLots(r.lots, taken.lots, I) BY <1>3, <1>4, TakenIsSame
<1>10. Touches(after, r, I) BY <1>8, <1>9, ChangeTouches
<1>11. after \in Replays(I) /\ after.lots = taken.lots /\ after.seq = r.seq /\ after.ok = r.ok
  <2>1. after.lots = taken.lots /\ after.ok = r.ok BY DEF Replays
  <2> HIDE DEF after
  <2> QED BY <1>10, <2>1 DEF Touches
<1> HIDE DEF after, s
<1>12. CASE taken.left = 0
  BY <1>4, <1>5, <1>11, <1>12 DEF TradeOf, s, n, f, taken
<1>13. CASE taken.left > 0
  <2> DEFINE lot == Lot(f.inst, i, side, taken.left, val, r.seq + 1)
  <2>1. s = Opened(after, f.inst, i, side, taken.left, val) BY <1>5, <1>13
  <2>2. val \in Values BY <1>7 DEF Values
  <2>3. Opens(s, after, lot, I) /\ s.seq = r.seq + 1 /\ s.ok = r.ok
    BY <1>1, <1>6, <1>11, <2>1, <2>2, OpenedOpens
  <2>4. s \in Replays(I) /\ s.lots = Append(taken.lots, lot) /\ lot \in LotsOf(I)
    <3> HIDE DEF lot
    <3> QED BY <1>11, <2>3 DEF Opens
  <2> QED BY <1>4, <1>13, <2>3, <2>4 DEF TradeOf, s, n, f, taken
<1> QED BY <1>6, <1>12, <1>13 DEF taken, s, f, n

\* s is a sound replay if r is one; only an action takes a number twice.
Continues(s, r, I) ==
  /\ s \in Replays(I)
  /\ Numbered(r) => Numbered(s)
  /\ NumberedOnce(r) => NumberedOnce(s)

LEMMA TouchContinues ==
  ASSUME NEW I, NEW r \in Replays(I), NEW s, Touches(s, r, I)
  PROVE  Continues(s, r, I)
BY TouchedIsSound DEF Continues, Sound, Touches

LEMMA OpenContinues ==
  ASSUME NEW I, NEW r \in Replays(I), NEW s, NEW lot, Opens(s, r, lot, I), s.seq = r.seq + 1
  PROVE  Continues(s, r, I)
BY OpenedIsSound DEF Continues, Sound, Opens

LEMMA TradeContinues ==
  ASSUME NEW I, NEW r \in Replays(I), NEW s, NEW taken, NEW f, NEW i, NEW side, NEW method,
         TradeOf(s, r, taken, f, i, side, method, I)
  PROVE  Continues(s, r, I)
<1> DEFINE m == [r EXCEPT !.lots = taken.lots]
<1>1. r.lots \in Seq(LotsOf(I)) /\ r.realized \in Seq(Rows) BY DEF Replays
<1>2. SameLots(r.lots, taken.lots, I)
  <2>1. TakenFrom(r.lots, taken, Open(r.lots, f.inst, OpposedSide(side)), method, Size(f), I) BY DEF TradeOf
  <2> QED BY <1>1, <2>1, TakenIsSame
<1>3. Touches(m, r, I) BY <1>1, <1>2, ChangeTouches
<1>4. m \in Replays(I) /\ m.lots = taken.lots /\ m.seq = r.seq
  <2>1. m.lots = taken.lots BY DEF Replays
  <2> HIDE DEF m
  <2> QED BY <1>3, <2>1 DEF Touches
<1> HIDE DEF m
<1>5. CASE taken.left = 0 /\ s.lots = taken.lots /\ s.seq = r.seq
  <2>1. Touches(s, r, I) BY <1>2, <1>5 DEF Touches, TradeOf
  <2> QED BY <2>1, TouchContinues
<1>6. CASE /\ taken.left > 0 /\ s.seq = r.seq + 1
           /\ \E val : /\ s.lots = Append(taken.lots, Lot(f.inst, i, side, taken.left, val, r.seq + 1))
                       /\ Lot(f.inst, i, side, taken.left, val, r.seq + 1) \in LotsOf(I)
  <2>1. PICK val : /\ s.lots = Append(taken.lots, Lot(f.inst, i, side, taken.left, val, r.seq + 1))
                   /\ Lot(f.inst, i, side, taken.left, val, r.seq + 1) \in LotsOf(I)
    BY <1>6
  <2> DEFINE lot == Lot(f.inst, i, side, taken.left, val, r.seq + 1)
  <2>2. lot.seq = r.seq + 1 BY DEF Lot
  <2>3. s \in Replays(I) BY DEF TradeOf
  <2>4. Opens(s, m, lot, I)
    <3> HIDE DEF lot
    <3> QED BY <1>4, <1>6, <2>1, <2>2, <2>3 DEF Opens, lot
  <2>5. Continues(s, m, I)
    <3> HIDE DEF lot
    <3> QED BY <1>4, <1>6, <2>4, OpenContinues
  <2>6. Continues(m, r, I) BY <1>3, TouchContinues
  <2> QED BY <2>5, <2>6 DEF Continues
<1> QED BY <1>5, <1>6 DEF TradeOf

-----------------------------------------------------------------------------
(* Transfers *)

\* What giving lots away leaves when it does not raise.
LEMMA GivenTouches ==
  ASSUME NEW I, NEW r \in Replays(I), NEW taken, NEW chosen, NEW method, NEW n, NEW basis,
         TakenFrom(r.lots, taken, chosen, method, n, I)
  PROVE  /\ Touches(Given(r, taken, basis), r, I)
         /\ Given(r, taken, basis).ok => /\ r.ok /\ taken.left = 0 /\ AllKnown(taken.pieces)
                                         /\ PieceValue(taken.pieces) = basis
                                         /\ Given(r, taken, basis) = [r EXCEPT !.lots = taken.lots]
<1>1. r.lots \in Seq(LotsOf(I)) /\ r.realized \in Seq(Rows) BY DEF Replays
<1>2. SameLots(r.lots, taken.lots, I) BY <1>1, TakenIsSame
<1>3. Touches([r EXCEPT !.lots = taken.lots], r, I) BY <1>1, <1>2, ChangeTouches
<1>4. [r EXCEPT !.lots = taken.lots].ok = r.ok BY DEF Replays
<1> QED BY <1>3, <1>4, RaiseTouches DEF Given

LEMMA TakeFromSource ==
  ASSUME NEW I, NEW lots \in Seq(LotsOf(I)), NEW inst, NEW src, NEW n \in Nat
  PROVE  TakenFrom(lots, Take(lots, OrderedFrom(lots, inst, src), n),
                   {j \in Open(lots, inst, "long") : lots[j].src = src}, "fifo", n, I)
<1>1. {j \in Open(lots, inst, "long") : lots[j].src = src} \in SUBSET {j \in DOMAIN lots : lots[j].qty > 0}
  BY DEF Open
<1> QED BY <1>1, TakeInOrder DEF OrderedFrom

LEMMA GiveOneTouches ==
  ASSUME NEW I, NEW r \in Replays(I), NEW inst, NEW p \in [src : Nat, qty : Nat, val : Int]
  PROVE  Touches(GiveOne(r, inst, p), r, I)
<1> DEFINE taken == Take(r.lots, OrderedFrom(r.lots, inst, p.src), p.qty)
           chosen == {j \in Open(r.lots, inst, "long") : r.lots[j].src = p.src}
<1>1. r.lots \in Seq(LotsOf(I)) /\ p.qty \in Nat BY DEF Replays
<1>2. TakenFrom(r.lots, taken, chosen, "fifo", p.qty, I)
  BY <1>1, TakeFromSource
<1>3. Touches(Given(r, taken, p.val), r, I)
  <2> HIDE DEF taken, chosen
  <2> QED BY <1>2, GivenTouches
<1>4. Touches(r, r, I) BY DEF Touches, SameLots, Replays
<1> QED BY <1>3, <1>4 DEF GiveOne

\* The states that giving lots runs through.
GiveRun(run, r, inst, parts, I) ==
  /\ run \in [0..Len(parts) -> {t \in Replays(I) : Touches(t, r, I)}]
  /\ run[0] = r
  /\ \A n \in 1..Len(parts) : run[n] = GiveOne(run[n - 1], inst, parts[n])

LEMMA GiveRuns ==
  ASSUME NEW I, NEW r \in Replays(I), NEW fact, fact.parts \in CarriedLots
  PROVE  \E run : GiveRun(run, r, fact.inst, fact.parts, I) /\ GiveLots(r, fact) = run[Len(fact.parts)]
<1> DEFINE T == {t \in Replays(I) : Touches(t, r, I)}
           X == [src : Nat, qty : Nat, val : Int]
           parts == fact.parts
           step == [p \in T \X X |-> GiveOne(p[1], fact.inst, p[2])]
           D == DOMAIN parts
           h == CHOOSE g : g = [s \in SUBSET D |-> IF s = {} THEN r
                                                   ELSE GiveOne(g[s \ {Max(s)}], fact.inst, parts[Max(s)])]
<1>1. r \in T BY DEF Touches, SameLots, Replays
<1>2. StaysIn(step, T, X) /\ \A t \in T, x \in X : step[<<t, x>>] = GiveOne(t, fact.inst, x)
  <2>1. \A t \in T, x \in X : GiveOne(t, fact.inst, x) \in T
    <3> SUFFICES ASSUME NEW t \in T, NEW x \in X PROVE GiveOne(t, fact.inst, x) \in T
      OBVIOUS
    <3>1. t \in Replays(I) /\ Touches(t, r, I) OBVIOUS
    <3>2. Touches(GiveOne(t, fact.inst, x), t, I) BY <3>1, GiveOneTouches
    <3>3. Touches(GiveOne(t, fact.inst, x), r, I) BY <3>1, <3>2, TouchesTwice
    <3> QED BY <3>3 DEF Touches
  <2> HIDE DEF T, X
  <2> QED BY <2>1 DEF StaysIn
<1>3. GiveLots(r, fact) = h[D]
  BY DEF GiveLots, FoldLeft, MapThenFoldSet
<1>4. parts \in Seq(X) /\ D = 1..Len(parts) /\ Len(parts) \in Nat /\ \A i \in D : parts[i] \in X
  <2>1. parts \in Seq(X) BY DEF CarriedLots
  <2> HIDE DEF X, parts
  <2> QED BY <2>1
<1> HIDE DEF T, X, step, parts
<1>5. \E g : g = [s \in SUBSET D |-> IF s = {} THEN r ELSE GiveOne(g[s \ {Max(s)}], fact.inst, parts[Max(s)])]
  <2>1. PICK g \in [SUBSET D -> T] : IsFold(g, step, r, parts, Len(parts))
    BY <1>1, <1>2, <1>4, FoldExists
  <2>2. ASSUME NEW s \in SUBSET D, s # {}
        PROVE  step[<<g[s \ {Max(s)}], parts[Max(s)]>>] = GiveOne(g[s \ {Max(s)}], fact.inst, parts[Max(s)])
    <3>1. Max(s) \in s BY <1>4, <2>2, MaxOfIndices
    <3>2. parts[Max(s)] \in X /\ g[s \ {Max(s)}] \in T BY <1>4, <2>1, <3>1
    <3> QED BY <1>2, <3>2
  <2>3. g = [s \in SUBSET D |-> IF s = {} THEN r ELSE step[<<g[s \ {Max(s)}], parts[Max(s)]>>]]
    BY <1>4, <2>1 DEF IsFold
  <2>4. g = [s \in SUBSET D |-> IF s = {} THEN r ELSE GiveOne(g[s \ {Max(s)}], fact.inst, parts[Max(s)])]
    BY <2>2, <2>3
  <2> QED BY <2>4
<1>6. h = [s \in SUBSET D |-> IF s = {} THEN r ELSE GiveOne(h[s \ {Max(s)}], fact.inst, parts[Max(s)])]
  BY <1>5
<1> HIDE DEF h
<1>7. h[{}] = r BY <1>6
<1>8. ASSUME NEW s \in SUBSET D, s # {}, h[s \ {Max(s)}] \in T
      PROVE  h[s] = step[<<h[s \ {Max(s)}], parts[Max(s)]>>]
  <2>1. Max(s) \in s BY <1>4, <1>8, MaxOfIndices
  <2>2. parts[Max(s)] \in X BY <1>4, <2>1
  <2> QED BY <1>2, <1>6, <1>8, <2>2
<1>9. PICK run : Runs(run, T, step, r, parts) /\ run[Len(parts)] = h[D]
  <2>1. FoldsBy(h, T, step, r, parts)
    BY <1>7, <1>8 DEF FoldsBy
  <2>2. \E run : Runs(run, T, step, r, parts) /\ run[Len(parts)] = h[DOMAIN parts]
    <3> HIDE DEF D
    <3> QED BY <1>1, <1>2, <1>4, <2>1, FoldRuns
  <2> QED BY <2>2
<1>10. GiveRun(run, r, fact.inst, parts, I)
  <2>1. run \in [0..Len(parts) -> T] /\ run[0] = r BY <1>9 DEF Runs
  <2>2. ASSUME NEW k \in 1..Len(parts) PROVE run[k] = GiveOne(run[k - 1], fact.inst, parts[k])
    <3>1. k - 1 \in 0..Len(parts) /\ parts[k] \in X BY <1>4
    <3>2. run[k] = step[<<run[k - 1], parts[k]>>] BY <1>9 DEF Runs
    <3> QED BY <1>2, <2>1, <3>1, <3>2
  <2> QED BY <2>1, <2>2 DEF GiveRun, T
<1> QED BY <1>3, <1>9, <1>10 DEF parts

LEMMA GiveLotsTouches ==
  ASSUME NEW I, NEW r \in Replays(I), NEW fact, fact.parts \in CarriedLots
  PROVE  Touches(GiveLots(r, fact), r, I)
<1>1. PICK run : GiveRun(run, r, fact.inst, fact.parts, I) /\ GiveLots(r, fact) = run[Len(fact.parts)]
  BY GiveRuns
<1>2. Len(fact.parts) \in 0..Len(fact.parts) BY DEF CarriedLots
<1> QED BY <1>1, <1>2 DEF GiveRun

\* The carried lots come after those that are there.
ReceivedAfter(s, r, fact, I) ==
  /\ s \in Replays(I) /\ s.ok = r.ok /\ s.seq = r.seq + Len(fact.parts)
  /\ Len(s.lots) = Len(r.lots) + Len(fact.parts)
  /\ \A j \in DOMAIN r.lots : s.lots[j] = r.lots[j]
  /\ \A n \in DOMAIN fact.parts :
       s.lots[Len(r.lots) + n] = Lot(fact.inst, fact.parts[n].src, "long", fact.parts[n].qty,
                                     fact.parts[n].val, r.seq + n)

LEMMA ReceiveReceives ==
  ASSUME NEW I, NEW r \in Replays(I), NEW fact, fact.parts \in CarriedLots, fact.inst \in I
  PROVE  ReceivedAfter(ReceiveLots(r, fact), r, fact, I)
<1> DEFINE parts == fact.parts
           Carried(n) == Lot(fact.inst, parts[n].src, "long", parts[n].qty, parts[n].val, r.seq + n)
           more == [n \in DOMAIN parts |-> Carried(n)]
           s == ReceiveLots(r, fact)
<1>1. /\ DOMAIN parts = 1..Len(parts) /\ Len(parts) \in Nat
      /\ \A n \in DOMAIN parts : parts[n] \in [src : Nat, qty : Nat, val : Int]
  <2> DEFINE X == [src : Nat, qty : Nat, val : Int]
  <2>1. parts \in Seq(X) BY DEF CarriedLots
  <2> HIDE DEF parts, X
  <2>2. DOMAIN parts = 1..Len(parts) /\ Len(parts) \in Nat /\ \A n \in DOMAIN parts : parts[n] \in X
    BY <2>1
  <2> QED BY <2>2 DEF X
<1>2. r.lots \in Seq(LotsOf(I)) /\ r.seq \in Nat BY DEF Replays
<1>3. s = [r EXCEPT !.lots = r.lots \o more, !.seq = r.seq + Len(parts)]
  BY DEF ReceiveLots, Replays
<1> HIDE DEF parts
<1>4. \A n \in DOMAIN parts : Carried(n) \in LotsOf(I)
  <2> SUFFICES ASSUME NEW n \in DOMAIN parts PROVE Carried(n) \in LotsOf(I)
    OBVIOUS
  <2>1. n \in Nat /\ r.seq + n \in Nat BY <1>1, <1>2
  <2>2. parts[n].src \in Nat /\ parts[n].qty \in Nat /\ parts[n].val \in Values BY <1>1 DEF Values
  <2> QED BY <2>1, <2>2 DEF Lot, LotsOf, Sides
<1>5. more \in Seq(LotsOf(I)) /\ Len(more) = Len(parts) /\ \A n \in DOMAIN parts : more[n] = Carried(n)
  <2>1. \A n \in 1..Len(parts) : Carried(n) \in LotsOf(I) BY <1>1, <1>4
  <2>2. more = [n \in 1..Len(parts) |-> Carried(n)] BY <1>1
  <2> HIDE DEF Carried
  <2> QED BY <1>1, <2>1, <2>2, IsASeq
<1> HIDE DEF more, s
<1>6. /\ r.lots \o more \in Seq(LotsOf(I)) /\ Len(r.lots \o more) = Len(r.lots) + Len(parts)
      /\ \A j \in DOMAIN r.lots : (r.lots \o more)[j] = r.lots[j]
      /\ \A n \in DOMAIN parts : (r.lots \o more)[Len(r.lots) + n] = Carried(n)
  <2> DEFINE lots == r.lots
  <2>1. lots \in Seq(LotsOf(I)) BY <1>2
  <2> HIDE DEF lots, Carried
  <2>2. /\ lots \o more \in Seq(LotsOf(I)) /\ Len(lots \o more) = Len(lots) + Len(parts)
        /\ \A j \in DOMAIN lots : (lots \o more)[j] = lots[j]
        /\ \A n \in DOMAIN parts : (lots \o more)[Len(lots) + n] = more[n]
    <3>1. /\ lots \o more \in Seq(LotsOf(I)) /\ Len(lots \o more) = Len(lots) + Len(more)
          /\ \A j \in 1..(Len(lots) + Len(more)) :
               (lots \o more)[j] = IF j <= Len(lots) THEN lots[j] ELSE more[j - Len(lots)]
      BY ZenonT(30), <1>5, <2>1, ConcatProperties
    <3>2. /\ \A j \in DOMAIN lots : j \in 1..(Len(lots) + Len(more)) /\ j <= Len(lots)
          /\ \A n \in DOMAIN parts : /\ Len(lots) + n \in 1..(Len(lots) + Len(more))
                                      /\ ~(Len(lots) + n <= Len(lots)) /\ (Len(lots) + n) - Len(lots) = n
      BY <1>1, <1>5, <2>1
    <3> QED BY <1>5, <3>1, <3>2
  <2> QED BY <1>5, <2>2 DEF lots
<1>7. r.seq + Len(parts) \in Nat BY <1>1, <1>2
<1>8. s \in Replays(I) /\ s.lots = r.lots \o more /\ s.seq = r.seq + Len(parts) /\ s.ok = r.ok
  BY <1>3, <1>6, <1>7 DEF Replays
<1> QED BY <1>6, <1>8 DEF ReceivedAfter, s, parts

LEMMA ReceiveContinues ==
  ASSUME NEW I, NEW r \in Replays(I), NEW s, NEW fact, fact.parts \in CarriedLots, ReceivedAfter(s, r, fact, I)
  PROVE  Continues(s, r, I)
<1> DEFINE lots == r.lots
           N == Len(lots)
           L == Len(fact.parts)
<1>1. lots \in Seq(LotsOf(I)) /\ r.seq \in Nat /\ s \in Replays(I) /\ s.lots \in Seq(LotsOf(I))
  BY DEF Replays, ReceivedAfter
<1>2. L \in Nat /\ DOMAIN fact.parts = 1..L BY DEF CarriedLots
<1>3. N \in Nat /\ DOMAIN lots = 1..N
  <2> HIDE DEF lots
  <2> QED BY <1>1
<1>4. DOMAIN s.lots = 1..(N + L)
  <2>1. Len(s.lots) = N + L BY DEF ReceivedAfter
  <2> HIDE DEF N, L
  <2> QED BY <1>1, <2>1
<1>5. \A j \in 1..N : lots[j].seq \in Nat /\ s.lots[j].seq = lots[j].seq
  <2>1. \A j \in 1..N : lots[j] \in LotsOf(I)
    <3> HIDE DEF lots
    <3> QED BY <1>1, <1>3
  <2>2. \A j \in 1..N : s.lots[j] = lots[j] BY <1>3 DEF ReceivedAfter
  <2> HIDE DEF lots
  <2> QED BY <2>1, <2>2, LotFields
<1>6. \A n \in 1..L : s.lots[N + n].seq = r.seq + n
  <2>1. \A n \in 1..L : s.lots[N + n] = Lot(fact.inst, fact.parts[n].src, "long", fact.parts[n].qty,
                                            fact.parts[n].val, r.seq + n)
    BY <1>2 DEF ReceivedAfter
  <2>2. \A n : Lot(fact.inst, fact.parts[n].src, "long", fact.parts[n].qty, fact.parts[n].val, r.seq + n).seq
               = r.seq + n
    BY DEF Lot
  <2> HIDE DEF N, L
  <2> QED BY <2>1, <2>2
<1>7. \A j \in 1..(N + L) : j \in 1..N \/ (j - N \in 1..L /\ s.lots[j].seq = r.seq + (j - N))
  <2> SUFFICES ASSUME NEW j \in 1..(N + L), j \notin 1..N
               PROVE  j - N \in 1..L /\ s.lots[j].seq = r.seq + (j - N)
    OBVIOUS
  <2> HIDE DEF N, L
  <2>1. j - N \in 1..L /\ N + (j - N) = j BY <1>2, <1>3
  <2>2. s.lots[N + (j - N)].seq = r.seq + (j - N) BY <1>6, <2>1
  <2> QED BY <2>1, <2>2
<1>8. s.seq = r.seq + L BY DEF ReceivedAfter
<1>9. Numbered(r) => Numbered(s)
  <2> SUFFICES ASSUME Numbered(r) PROVE Numbered(s)
    OBVIOUS
  <2>1. /\ \A j, k \in 1..N : j < k => lots[j].seq <= lots[k].seq
        /\ \A j \in 1..N : lots[j].seq <= r.seq + 1
    BY <1>3 DEF Numbered
  <2> HIDE DEF N, L, lots
  <2>2. ASSUME NEW j \in 1..(N + L), NEW k \in 1..(N + L), j < k PROVE s.lots[j].seq <= s.lots[k].seq
    <3>1. CASE k \in 1..N
      <4>1. j \in 1..N BY <1>2, <1>3, <2>2, <3>1
      <4> QED BY <1>5, <2>1, <2>2, <3>1, <4>1
    <3>2. CASE k \notin 1..N
      <4>1. k - N \in 1..L /\ s.lots[k].seq = r.seq + (k - N) BY <1>7, <3>2
      <4>2. CASE j \in 1..N
        <5>1. s.lots[j].seq <= r.seq + 1 /\ s.lots[j].seq \in Nat BY <1>5, <2>1, <4>2
        <5> QED BY SMTT(30), <1>1, <1>2, <1>3, <4>1, <5>1
      <4>3. CASE j \notin 1..N
        <5>1. j - N \in 1..L /\ s.lots[j].seq = r.seq + (j - N) BY <1>7, <4>3
        <5> QED BY <1>1, <1>2, <1>3, <2>2, <4>1, <5>1
      <4> QED BY <4>2, <4>3
    <3> QED BY <3>1, <3>2
  <2>3. ASSUME NEW j \in 1..(N + L) PROVE s.lots[j].seq <= s.seq + 1
    <3>1. CASE j \in 1..N
      <4>1. s.lots[j].seq <= r.seq + 1 /\ s.lots[j].seq \in Nat BY <1>5, <2>1, <3>1
      <4> QED BY SMTT(30), <1>1, <1>2, <1>8, <4>1
    <3>2. CASE j \notin 1..N
      <4>1. j - N \in 1..L /\ s.lots[j].seq = r.seq + (j - N) BY <1>7, <3>2
      <4> QED BY <1>1, <1>2, <1>3, <1>8, <4>1
    <3> QED BY <3>1, <3>2
  <2> QED BY <1>4, <2>2, <2>3 DEF Numbered
<1>10. NumberedOnce(r) => NumberedOnce(s)
  <2> SUFFICES ASSUME NumberedOnce(r) PROVE NumberedOnce(s)
    OBVIOUS
  <2>1. /\ \A j, k \in 1..N : j < k => lots[j].seq < lots[k].seq
        /\ \A j \in 1..N : lots[j].seq <= r.seq
    BY <1>3 DEF NumberedOnce
  <2> HIDE DEF N, L, lots
  <2>2. ASSUME NEW j \in 1..(N + L), NEW k \in 1..(N + L), j < k PROVE s.lots[j].seq < s.lots[k].seq
    <3>1. CASE k \in 1..N
      <4>1. j \in 1..N BY <1>2, <1>3, <2>2, <3>1
      <4> QED BY <1>5, <2>1, <2>2, <3>1, <4>1
    <3>2. CASE k \notin 1..N
      <4>1. k - N \in 1..L /\ s.lots[k].seq = r.seq + (k - N) BY <1>7, <3>2
      <4>2. CASE j \in 1..N
        <5>1. s.lots[j].seq <= r.seq /\ s.lots[j].seq \in Nat BY <1>5, <2>1, <4>2
        <5> QED BY <1>1, <1>2, <1>3, <4>1, <5>1
      <4>3. CASE j \notin 1..N
        <5>1. j - N \in 1..L /\ s.lots[j].seq = r.seq + (j - N) BY <1>7, <4>3
        <5> QED BY <1>1, <1>2, <1>3, <2>2, <4>1, <5>1
      <4> QED BY <4>2, <4>3
    <3> QED BY <3>1, <3>2
  <2>3. ASSUME NEW j \in 1..(N + L) PROVE s.lots[j].seq <= s.seq
    <3>1. CASE j \in 1..N
      <4>1. s.lots[j].seq <= r.seq /\ s.lots[j].seq \in Nat BY <1>5, <2>1, <3>1
      <4> QED BY <1>1, <1>2, <1>8, <4>1
    <3>2. CASE j \notin 1..N
      <4>1. j - N \in 1..L /\ s.lots[j].seq = r.seq + (j - N) BY <1>7, <3>2
      <4> QED BY <1>1, <1>2, <1>3, <1>8, <4>1
    <3> QED BY <3>1, <3>2
  <2> QED BY <1>4, <2>2, <2>3 DEF NumberedOnce
<1> QED BY <1>1, <1>9, <1>10 DEF Continues

-----------------------------------------------------------------------------
(* Splits *)

\* A split changes the quantities of an instrument.
ScaledBy(after, lots, inst, ratio, I) ==
  /\ SameLots(lots, after, I)
  /\ \A j \in DOMAIN lots :
       /\ after[j].val = lots[j].val
       /\ IF lots[j].inst = inst THEN after[j].qty = (lots[j].qty * ratio[1]) \div ratio[2]
          ELSE after[j] = lots[j]

LEMMA ScaledScales ==
  ASSUME NEW I, NEW lots \in Seq(LotsOf(I)), NEW inst, NEW ratio,
         ratio[1] \in Nat \ {0}, ratio[2] \in Nat \ {0}
  PROVE  ScaledBy(Scaled(lots, inst, ratio), lots, inst, ratio, I)
<1> DEFINE Times(lot) == IF lot.inst # inst THEN lot
                         ELSE [lot EXCEPT !.qty = (lot.qty * ratio[1]) \div ratio[2]]
           all == [j \in DOMAIN lots |-> Times(lots[j])]
           after == Scaled(lots, inst, ratio)
<1>1. DOMAIN lots = 1..Len(lots) /\ Len(lots) \in Nat /\ \A j \in DOMAIN lots : lots[j] \in LotsOf(I)
  OBVIOUS
<1>2. ASSUME NEW lot \in LotsOf(I)
      PROVE  /\ Times(lot) \in LotsOf(I)
             /\ Times(lot).inst = lot.inst /\ Times(lot).src = lot.src
             /\ Times(lot).side = lot.side /\ Times(lot).seq = lot.seq /\ Times(lot).val = lot.val
             /\ IF lot.inst = inst THEN Times(lot).qty = (lot.qty * ratio[1]) \div ratio[2]
                ELSE Times(lot) = lot
  <2> DEFINE qty == (lot.qty * ratio[1]) \div ratio[2]
  <2>1. lot.qty \in Nat BY LotFields
  <2>2. lot.qty * ratio[1] \in Nat BY <2>1
  <2>3. qty \in Nat
    <3> DEFINE a == lot.qty * ratio[1]
               b == ratio[2]
    <3>1. a \in Nat /\ b \in Nat \ {0} BY <2>2
    <3> HIDE DEF a, b
    <3>2. a \div b \in Nat BY <3>1
    <3> QED BY <3>2 DEF a, b
  <2>4. Times(lot) = IF lot.inst # inst THEN lot ELSE [lot EXCEPT !.qty = qty] OBVIOUS
  <2> HIDE DEF qty, Times
  <2>5. [lot EXCEPT !.qty = qty] \in LotsOf(I) /\ [lot EXCEPT !.qty = qty].qty = qty BY <2>3 DEF LotsOf
  <2>6. /\ [lot EXCEPT !.qty = qty].inst = lot.inst /\ [lot EXCEPT !.qty = qty].src = lot.src
        /\ [lot EXCEPT !.qty = qty].side = lot.side /\ [lot EXCEPT !.qty = qty].seq = lot.seq
        /\ [lot EXCEPT !.qty = qty].val = lot.val
    BY DEF LotsOf
  <2> QED BY <2>4, <2>5, <2>6 DEF qty
<1>3. after = SubSeq(all, 1, Len(lots))
  BY DEF Scaled
<1>4. \A j \in 1..Len(lots) : Times(lots[j]) \in LotsOf(I) BY <1>1, <1>2
<1> HIDE DEF Times, after
<1>5. all \in Seq(LotsOf(I)) /\ Len(all) = Len(lots)
  <2>1. all = [j \in 1..Len(lots) |-> Times(lots[j])] BY <1>1
  <2> QED BY <1>1, <1>4, <2>1, IsASeq
<1>6. /\ after \in Seq(LotsOf(I)) /\ Len(after) = Len(lots)
      /\ \A j \in DOMAIN lots : after[j] = Times(lots[j])
  <2>1. \A j \in DOMAIN lots : all[j] = Times(lots[j]) OBVIOUS
  <2> HIDE DEF all
  <2> QED BY <1>1, <1>3, <1>5, <2>1
<1> QED BY <1>1, <1>2, <1>6 DEF ScaledBy, SameLots, after

-----------------------------------------------------------------------------
(* Corporate actions *)

LEMMA ActionLotOpens ==
  ASSUME NEW I, NEW r \in Replays(I), NEW i \in Nat, NEW val \in Values,
         facts[i].dst \in I, facts[i].gets \in Nat
  PROVE  /\ Opens(ActionLot(r, i, val), r, Lot(facts[i].dst, i, "long", facts[i].gets, val, r.seq + 1), I)
         /\ ActionLot(r, i, val).seq = r.seq /\ ActionLot(r, i, val).ok = r.ok
<1> DEFINE lot == Lot(facts[i].dst, i, "long", facts[i].gets, val, r.seq + 1)
           s == ActionLot(r, i, val)
<1>1. r.seq \in Nat /\ r.lots \in Seq(LotsOf(I)) BY DEF Replays
<1>2. lot \in LotsOf(I) /\ lot.seq = r.seq + 1 BY <1>1 DEF Lot, LotsOf, Sides
<1>3. s = [r EXCEPT !.lots = Append(r.lots, lot)] BY DEF ActionLot, Replays
<1> HIDE DEF lot, s
<1>4. Append(r.lots, lot) \in Seq(LotsOf(I)) BY <1>1, <1>2
<1>5. s \in Replays(I) /\ s.lots = Append(r.lots, lot) /\ s.seq = r.seq /\ s.ok = r.ok
  BY <1>3, <1>4 DEF Replays
<1> QED BY <1>2, <1>5 DEF Opens, lot, s

\* The lots with another cost, and what is still to be taken out of it.
Reductions(lots, I) ==
  {t \in [lots : [DOMAIN lots -> LotsOf(I)], left : Int, known : BOOLEAN] :
     \A j \in DOMAIN lots :
       /\ t.lots[j].inst = lots[j].inst /\ t.lots[j].src = lots[j].src
       /\ t.lots[j].side = lots[j].side /\ t.lots[j].seq = lots[j].seq
       /\ t.lots[j].qty = lots[j].qty}

LEMMA ReduceOneReduces ==
  ASSUME NEW I, NEW lots \in Seq(LotsOf(I)), NEW t \in Reductions(lots, I), NEW j \in DOMAIN lots
  PROVE  ReduceOne(t, j) \in Reductions(lots, I)
<1> DEFINE lot == t.lots[j]
           part == IF lot.val <= t.left THEN lot.val ELSE t.left
           rest == [lot EXCEPT !.val = lot.val - part]
           u == [t EXCEPT !.lots = [t.lots EXCEPT ![j] = rest], !.left = t.left - part]
           v == [t EXCEPT !.known = FALSE]
<1>1. /\ t \in [lots : [DOMAIN lots -> LotsOf(I)], left : Int, known : BOOLEAN]
      /\ t.lots \in [DOMAIN lots -> LotsOf(I)] /\ t.left \in Int /\ lot \in LotsOf(I)
  BY DEF Reductions
<1>2. v \in Reductions(lots, I)
  <2>1. v \in [lots : [DOMAIN lots -> LotsOf(I)], left : Int, known : BOOLEAN] /\ v.lots = t.lots
    BY <1>1
  <2> HIDE DEF v
  <2> QED BY <2>1 DEF Reductions
<1>3. ASSUME lot.val # Unknown PROVE u \in Reductions(lots, I)
  <2>1. lot.val \in Int
    <3>1. lot.val \in Values BY <1>1, LotFields
    <3> QED BY <1>3, <3>1 DEF Values
  <2>2. part \in Int BY <1>1, <2>1
  <2> HIDE DEF part, lot
  <2>3. rest \in LotsOf(I)
    <3>1. lot.val - part \in Values BY <2>1, <2>2 DEF Values
    <3> QED BY <1>1, <3>1 DEF LotsOf
  <2>4. rest.inst = lot.inst /\ rest.src = lot.src /\ rest.side = lot.side /\ rest.seq = lot.seq /\ rest.qty = lot.qty
    BY <1>1 DEF LotsOf
  <2> HIDE DEF rest
  <2> DEFINE after == [t.lots EXCEPT ![j] = rest]
  <2>5. /\ after \in [DOMAIN lots -> LotsOf(I)] /\ after[j] = rest
        /\ \A i \in DOMAIN lots : i # j => after[i] = t.lots[i]
    BY <1>1, <2>3
  <2> HIDE DEF after
  <2>6. u = [t EXCEPT !.lots = after, !.left = t.left - part] BY DEF after
  <2>7. u \in [lots : [DOMAIN lots -> LotsOf(I)], left : Int, known : BOOLEAN] /\ u.lots = after
    <3>1. t.left - part \in Int BY <1>1, <2>2
    <3> QED BY <1>1, <2>5, <2>6, <3>1
  <2> HIDE DEF u
  <2>8. \A i \in DOMAIN lots :
          /\ t.lots[i].inst = lots[i].inst /\ t.lots[i].src = lots[i].src
          /\ t.lots[i].side = lots[i].side /\ t.lots[i].seq = lots[i].seq
          /\ t.lots[i].qty = lots[i].qty
    BY DEF Reductions
  <2>9. \A i \in DOMAIN lots :
          /\ after[i].inst = lots[i].inst /\ after[i].src = lots[i].src
          /\ after[i].side = lots[i].side /\ after[i].seq = lots[i].seq
          /\ after[i].qty = lots[i].qty
    BY <2>4, <2>5, <2>8 DEF lot
  <2> QED BY <2>7, <2>9 DEF Reductions
<1>4. ReduceOne(t, j) = IF t.left = 0 THEN t ELSE IF lot.val = Unknown THEN v ELSE u
  <2> DEFINE w == [t EXCEPT !.lots[j].val = t.lots[j].val - part, !.left = t.left - part]
  <2>1. ReduceOne(t, j) = IF t.left = 0 THEN t ELSE IF lot.val = Unknown THEN v ELSE w
    BY DEF ReduceOne
  <2>2. w = u BY <1>1
  <2> HIDE DEF u, v, w
  <2> QED BY <2>1, <2>2
<1> HIDE DEF u, v, lot
<1> QED BY <1>2, <1>3, <1>4

\* The lots value is taken out of, one after the other, and what comes of it.
ReduceRun(run, I, lots, order, value) ==
  /\ run \in [0..Len(order) -> Reductions(lots, I)]
  /\ run[0] = [lots |-> lots, left |-> value, known |-> TRUE]
  /\ \A k \in 1..Len(order) : run[k] = ReduceOne(run[k - 1], order[k])

LEMMA ReducedRuns ==
  ASSUME NEW I, NEW lots \in Seq(LotsOf(I)), NEW inst, NEW value \in Int
  PROVE  LET order == Ordered(lots, inst, "long", "fifo")
         IN  /\ order \in Seq(DOMAIN lots) /\ \A k \in DOMAIN order : order[k] \in Open(lots, inst, "long")
             /\ \E run : /\ ReduceRun(run, I, lots, order, value)
                          /\ ReducedBasis(lots, inst, value) = run[Len(order)]
<1> DEFINE N == Len(lots)
           T == Reductions(lots, I)
           X == 1..N
           base == [lots |-> lots, left |-> value, known |-> TRUE]
           order == Ordered(lots, inst, "long", "fifo")
           step == [p \in T \X X |-> ReduceOne(p[1], p[2])]
           D == DOMAIN order
           h == CHOOSE g : g = [s \in SUBSET D |-> IF s = {} THEN base ELSE ReduceOne(g[s \ {Max(s)}], order[Max(s)])]
<1>1. base \in T
  <2>1. base \in [lots : [DOMAIN lots -> LotsOf(I)], left : Int, known : BOOLEAN] /\ base.lots = lots
    OBVIOUS
  <2> HIDE DEF base
  <2> QED BY <2>1 DEF Reductions
<1>2. StaysIn(step, T, X) /\ \A t \in T, x \in X : step[<<t, x>>] = ReduceOne(t, x)
  <2>1. X = DOMAIN lots OBVIOUS
  <2>2. \A t \in T, x \in X : ReduceOne(t, x) \in T BY <2>1, ReduceOneReduces
  <2> HIDE DEF T, X
  <2> QED BY <2>2 DEF StaysIn
<1>3. ReducedBasis(lots, inst, value) = h[D]
  BY DEF ReducedBasis, FoldLeft, MapThenFoldSet
<1>4. /\ order \in Seq(X) /\ D = 1..Len(order) /\ Len(order) \in Nat /\ \A i \in D : order[i] \in X
      /\ \A k \in D : order[k] \in Open(lots, inst, "long")
      /\ X = DOMAIN lots
  <2>1. N \in Nat /\ lots \in [1..N -> LotsOf(I)] /\ X = DOMAIN lots OBVIOUS
  <2>2. Open(lots, inst, "long") \in SUBSET {j \in 1..N : lots[j].qty > 0} BY DEF Open
  <2>3. Unknown \notin Int BY LedgerAssumption
  <2>4. order \in Seq(X) /\ \A k \in DOMAIN order : order[k] \in Open(lots, inst, "long")
    BY <2>1, <2>2, <2>3, OrderOfLots DEF Ordered
  <2> HIDE DEF X, order
  <2> QED BY <2>1, <2>4
<1> HIDE DEF T, X, base, order, step
<1>5. \E g : g = [s \in SUBSET D |-> IF s = {} THEN base ELSE ReduceOne(g[s \ {Max(s)}], order[Max(s)])]
  <2>1. PICK g \in [SUBSET D -> T] : IsFold(g, step, base, order, Len(order))
    BY <1>1, <1>2, <1>4, FoldExists
  <2>2. ASSUME NEW s \in SUBSET D, s # {}
        PROVE  step[<<g[s \ {Max(s)}], order[Max(s)]>>] = ReduceOne(g[s \ {Max(s)}], order[Max(s)])
    <3>1. Max(s) \in s BY <1>4, <2>2, MaxOfIndices
    <3>2. order[Max(s)] \in X /\ g[s \ {Max(s)}] \in T BY <1>4, <2>1, <3>1
    <3> QED BY <1>2, <3>2
  <2>3. g = [s \in SUBSET D |-> IF s = {} THEN base ELSE step[<<g[s \ {Max(s)}], order[Max(s)]>>]]
    BY <1>4, <2>1 DEF IsFold
  <2>4. g = [s \in SUBSET D |-> IF s = {} THEN base ELSE ReduceOne(g[s \ {Max(s)}], order[Max(s)])]
    BY <2>2, <2>3
  <2> QED BY <2>4
<1>6. h = [s \in SUBSET D |-> IF s = {} THEN base ELSE ReduceOne(h[s \ {Max(s)}], order[Max(s)])]
  BY <1>5
<1> HIDE DEF h
<1>7. h[{}] = base BY <1>6
<1>8. ASSUME NEW s \in SUBSET D, s # {}, h[s \ {Max(s)}] \in T
      PROVE  h[s] = step[<<h[s \ {Max(s)}], order[Max(s)]>>]
  <2>1. Max(s) \in s BY <1>4, <1>8, MaxOfIndices
  <2>2. order[Max(s)] \in X BY <1>4, <2>1
  <2> QED BY <1>2, <1>6, <1>8, <2>2
<1>9. PICK run : Runs(run, T, step, base, order) /\ run[Len(order)] = h[D]
  <2>1. FoldsBy(h, T, step, base, order)
    BY <1>7, <1>8 DEF FoldsBy
  <2>2. \E run : Runs(run, T, step, base, order) /\ run[Len(order)] = h[DOMAIN order]
    <3> HIDE DEF D
    <3> QED BY <1>1, <1>2, <1>4, <2>1, FoldRuns
  <2> QED BY <2>2
<1>10. \A k \in 1..Len(order) : run[k] = ReduceOne(run[k - 1], order[k])
  <2> TAKE k \in 1..Len(order)
  <2>1. k - 1 \in 0..Len(order) /\ k \in D BY <1>4
  <2>2. run[k - 1] \in T /\ order[k] \in X BY <1>4, <1>9, <2>1 DEF Runs
  <2>3. run[k] = step[<<run[k - 1], order[k]>>] BY <1>9 DEF Runs
  <2> QED BY <1>2, <2>2, <2>3
<1>11. ReduceRun(run, I, lots, order, value) BY <1>9, <1>10 DEF Runs, ReduceRun, T, base
<1> QED BY <1>3, <1>4, <1>9, <1>11 DEF order

\* Taking value out of the lots leaves everything else.
LEMMA ReducedReduces ==
  ASSUME NEW I, NEW lots \in Seq(LotsOf(I)), NEW inst, NEW value \in Int
  PROVE  ReducedBasis(lots, inst, value) \in Reductions(lots, I)
<1> DEFINE order == Ordered(lots, inst, "long", "fifo")
<1>1. PICK run : ReduceRun(run, I, lots, order, value) /\ ReducedBasis(lots, inst, value) = run[Len(order)]
  BY ReducedRuns
<1>2. Len(order) \in 0..Len(order)
  <2>1. order \in Seq(DOMAIN lots) BY ReducedRuns
  <2> HIDE DEF order
  <2> QED BY <2>1
<1> HIDE DEF order
<1> QED BY <1>1, <1>2 DEF ReduceRun

LEMMA ReductionIsSame ==
  ASSUME NEW I, NEW lots \in Seq(LotsOf(I)), NEW t \in Reductions(lots, I)
  PROVE  /\ SameLots(lots, t.lots, I) /\ t.left \in Int
         /\ \A j \in DOMAIN lots : t.lots[j].qty = lots[j].qty
<1>1. t.lots \in [DOMAIN lots -> LotsOf(I)] /\ t.left \in Int BY DEF Reductions
<1>2. DOMAIN lots = 1..Len(lots) /\ Len(lots) \in Nat OBVIOUS
<1>3. t.lots \in Seq(LotsOf(I)) /\ Len(t.lots) = Len(lots)
  <2>1. t.lots = [j \in 1..Len(lots) |-> t.lots[j]] /\ \A j \in 1..Len(lots) : t.lots[j] \in LotsOf(I)
    BY <1>1, <1>2
  <2> QED BY <1>2, <2>1, IsASeq
<1> QED BY <1>1, <1>3 DEF SameLots, Reductions

\* An action that does not raise takes a whole number of lots of the source away, or
\* only some of their cost, and opens a lot of what the position gets.
ActionOf(s, r, mid, f, i, I) ==
  /\ mid \in Seq(LotsOf(I)) /\ SameLots(r.lots, mid, I)
  /\ \/ f.gets = 0 /\ s.lots = mid
     \/ \E val : s.lots = Append(mid, Lot(f.dst, i, "long", f.gets, val, r.seq + 1))

LEMMA SpinOffSpins ==
  ASSUME NEW I, NEW r \in Replays(I), NEW i \in Nat, IsFact(facts[i], I),
         IsAllocation(facts[i].parts), facts[i].parts # <<>>
  PROVE  LET s == SpinOff(r, i)
         IN  /\ s \in Replays(I) /\ (Numbered(r) => Numbered(s))
             /\ s.ok => \E mid : /\ ActionOf(s, r, mid, facts[i], i, I)
                                 /\ \A j \in DOMAIN r.lots : mid[j].qty = r.lots[j].qty
<1> DEFINE carried == facts[i].parts[1].carried
           reduced == ReducedBasis(r.lots, facts[i].inst, carried)
           m == [r EXCEPT !.lots = reduced.lots]
           s == SpinOff(r, i)
<1>1. carried \in Int /\ facts[i].dst \in I /\ facts[i].gets \in Nat BY DEF IsAllocation, IsFact
<1>2. r.lots \in Seq(LotsOf(I)) /\ r.realized \in Seq(Rows) BY DEF Replays
<1>3. reduced \in Reductions(r.lots, I) BY <1>1, <1>2, ReducedReduces
<1>4. s = IF ~reduced.known \/ reduced.left # 0 THEN Raise(r) ELSE ActionLot(m, i, carried)
  BY DEF SpinOff
<1> HIDE DEF reduced, carried
<1>5. SameLots(r.lots, reduced.lots, I) /\ \A j \in DOMAIN r.lots : reduced.lots[j].qty = r.lots[j].qty
  BY <1>2, <1>3, ReductionIsSame
<1>6. Touches(m, r, I) BY <1>2, <1>5, ChangeTouches
<1>7. m \in Replays(I) /\ m.lots = reduced.lots /\ m.seq = r.seq
  <2>1. m.lots = reduced.lots BY DEF Replays
  <2> HIDE DEF m
  <2> QED BY <1>6, <2>1 DEF Touches
<1> HIDE DEF m, s
<1>8. CASE ~reduced.known \/ reduced.left # 0
  <2>1. s = Raise(r) BY <1>4, <1>8
  <2>2. Touches(s, r, I) /\ ~s.ok BY <2>1, RaiseTouches
  <2> QED BY <2>2, TouchContinues DEF Continues, s
<1>9. CASE ~(~reduced.known \/ reduced.left # 0)
  <2> DEFINE lot == Lot(facts[i].dst, i, "long", facts[i].gets, carried, m.seq + 1)
  <2>1. s = ActionLot(m, i, carried) BY <1>4, <1>9
  <2>2. Opens(s, m, lot, I) BY <1>1, <1>7, <2>1, ActionLotOpens DEF Values
  <2> HIDE DEF lot
  <2>3. s \in Replays(I) /\ (Numbered(m) => Numbered(s)) /\ s.lots = Append(reduced.lots, lot)
    BY <1>7, <2>2, OpenedIsSound DEF Sound, Opens
  <2>4. Numbered(r) => Numbered(m) BY <1>6, TouchedIsSound DEF Sound
  <2>5. ActionOf(s, r, reduced.lots, facts[i], i, I)
    BY <1>5, <1>7, <2>3 DEF ActionOf, lot, SameLots
  <2> QED BY <1>5, <2>3, <2>4, <2>5 DEF s
<1> QED BY <1>8, <1>9

LEMMA ExchangeExchanges ==
  ASSUME NEW I, NEW r \in Replays(I), NEW i \in Nat, IsFact(facts[i], I),
         IsAllocation(facts[i].parts), facts[i].parts # <<>>
  PROVE  LET s == Exchange(r, i)
             n == facts[i].parts[1].qty
             taken == Take(r.lots, Ordered(r.lots, facts[i].inst, "long", "fifo"), n)
         IN  /\ s \in Replays(I) /\ (Numbered(r) => Numbered(s)) /\ n \in Nat
             /\ TakenFrom(r.lots, taken, Open(r.lots, facts[i].inst, "long"), "fifo", n, I)
             /\ s.ok => ActionOf(s, r, taken.lots, facts[i], i, I) /\ taken.left = 0
<1> DEFINE part == facts[i].parts[1]
           n == part.qty
           taken == Take(r.lots, Ordered(r.lots, facts[i].inst, "long", "fifo"), n)
           toCash == part.val - part.carried
           row == [side |-> "long", qty |-> n, open |-> toCash, close |-> facts[i].value]
           rows == IF toCash = 0 THEN r.realized ELSE Append(r.realized, row)
           m == [r EXCEPT !.lots = taken.lots, !.realized = rows]
           bad == \/ taken.left # 0 \/ ~AllKnown(taken.pieces) \/ PieceValue(taken.pieces) # part.val
                  \/ toCash < 0 \/ (toCash = 0 /\ facts[i].value > 0)
           s == Exchange(r, i)
<1>1. /\ n \in Nat /\ part.val \in Int /\ part.carried \in Int
      /\ facts[i].dst \in I /\ facts[i].gets \in Nat /\ facts[i].value \in Int
  BY DEF IsAllocation, IsFact
<1>2. r.lots \in Seq(LotsOf(I)) /\ r.realized \in Seq(Rows) BY DEF Replays
<1>3. TakenFrom(r.lots, taken, Open(r.lots, facts[i].inst, "long"), "fifo", n, I) BY <1>1, <1>2, TakeOpen
<1>4. s = IF bad THEN Raise(r) ELSE IF facts[i].gets = 0 THEN m ELSE ActionLot(m, i, part.carried)
  BY DEF Exchange, Exchanged, Replays
<1> HIDE DEF taken, part
<1>5. toCash \in Int BY <1>1
<1> HIDE DEF toCash, bad
<1>6. rows \in Seq(Rows)
  <2>1. row \in Rows BY <1>1, <1>5 DEF Rows, Sides
  <2> HIDE DEF row
  <2> QED BY <1>2, <2>1
<1> HIDE DEF rows
<1>7. SameLots(r.lots, taken.lots, I) BY <1>2, <1>3, TakenIsSame
<1>8. Touches(m, r, I) BY <1>6, <1>7, ChangeTouches
<1>9. m \in Replays(I) /\ m.lots = taken.lots /\ m.seq = r.seq
  <2>1. m.lots = taken.lots BY DEF Replays
  <2> HIDE DEF m
  <2> QED BY <1>8, <2>1 DEF Touches
<1>10. taken.lots \in Seq(LotsOf(I)) BY <1>3 DEF TakenFrom
<1>11. Numbered(r) => Numbered(m) BY <1>8, TouchedIsSound DEF Sound
<1> HIDE DEF m, s
<1>12. CASE bad
  <2>1. s = Raise(r) BY <1>4, <1>12
  <2>2. Touches(s, r, I) /\ ~s.ok BY <2>1, RaiseTouches
  <2> QED BY <1>1, <1>3, <2>2, TouchContinues DEF Continues, s, taken, part
<1>13. CASE ~bad
  <2>1. taken.left = 0 BY <1>13 DEF bad
  <2>2. CASE facts[i].gets = 0
    <3>1. s = m BY <1>4, <1>13, <2>2
    <3>2. ActionOf(s, r, taken.lots, facts[i], i, I) BY SMTT(30), <1>7, <1>9, <1>10, <2>2, <3>1 DEF ActionOf
    <3> QED BY <1>1, <1>3, <1>9, <1>11, <2>1, <3>1, <3>2 DEF s, taken, part
  <2>3. CASE facts[i].gets # 0
    <3> DEFINE lot == Lot(facts[i].dst, i, "long", facts[i].gets, part.carried, m.seq + 1)
    <3>1. s = ActionLot(m, i, part.carried) BY <1>4, <1>13, <2>3
    <3>2. Opens(s, m, lot, I) BY <1>1, <1>9, <3>1, ActionLotOpens DEF Values
    <3> HIDE DEF lot
    <3>3. s \in Replays(I) /\ (Numbered(m) => Numbered(s)) /\ s.lots = Append(taken.lots, lot)
      BY <1>9, <3>2, OpenedIsSound DEF Sound, Opens
    <3>4. ActionOf(s, r, taken.lots, facts[i], i, I)
      BY <1>7, <1>9, <1>10, <3>3 DEF ActionOf, lot
    <3> QED BY <1>1, <1>3, <1>11, <2>1, <3>3, <3>4 DEF s, taken, part
  <2> QED BY <2>2, <2>3
<1> QED BY <1>12, <1>13

LEMMA SettleTouches ==
  ASSUME NEW I, NEW r \in Replays(I), NEW i \in Nat, facts[i].value \in Int
  PROVE  Touches(SettleInCash(r, i), r, I) /\ SettleInCash(r, i).ok = r.ok
<1> DEFINE lots == r.lots
           closed == {j \in DOMAIN lots : lots[j].side = "long" /\ lots[j].qty > 0}
           total == QuantityOf(lots, closed)
           basis == ValueOf(lots, closed)
           Kept(j) == IF j \in closed THEN [lots[j] EXCEPT !.qty = 0, !.val = 0] ELSE lots[j]
           all == [j \in DOMAIN lots |-> Kept(j)]
           kept == SubSeq(all, 1, Len(lots))
           row == [side |-> "long", qty |-> total, open |-> basis, close |-> facts[i].value]
           rows == Append(r.realized, row)
           after == [r EXCEPT !.lots = kept, !.realized = rows]
           s == SettleInCash(r, i)
<1>1. lots \in Seq(LotsOf(I)) /\ r.realized \in Seq(Rows) BY DEF Replays
<1>2. s = IF facts[i].value = 0 \/ basis = 0 THEN r
          ELSE [r EXCEPT !.realized = rows, !.lots = kept]
  BY DEF SettleInCash, Replays
<1>3. [r EXCEPT !.realized = rows, !.lots = kept] = after BY DEF Replays
<1> HIDE DEF lots
<1>4. DOMAIN lots = 1..Len(lots) /\ Len(lots) \in Nat /\ \A j \in DOMAIN lots : lots[j] \in LotsOf(I)
  BY <1>1
<1>5. IsFiniteSet(closed)
  <2>1. IsFiniteSet(1..Len(lots)) /\ closed \in SUBSET (1..Len(lots)) BY <1>4, FS_Interval
  <2> HIDE DEF closed
  <2> QED BY <2>1, FS_Subset
<1>6. \A j \in closed : lots[j].qty \in Int /\ lots[j].val \in Values BY <1>4, LotFields
<1> HIDE DEF closed
<1>7. total \in Int /\ basis \in Int BY <1>5, <1>6, SumsAreIntegers
<1>8. rows \in Seq(Rows)
  <2>1. row \in Rows BY <1>7 DEF Rows, Sides
  <2> HIDE DEF row
  <2> QED BY <1>1, <2>1
<1>9. ASSUME NEW j \in DOMAIN lots
      PROVE  /\ Kept(j) \in LotsOf(I)
             /\ Kept(j).inst = lots[j].inst /\ Kept(j).src = lots[j].src
             /\ Kept(j).side = lots[j].side /\ Kept(j).seq = lots[j].seq
  <2> DEFINE lot == lots[j]
             zero == [lot EXCEPT !.qty = 0, !.val = 0]
  <2>1. lot \in LotsOf(I) BY <1>4
  <2>2. Kept(j) = IF j \in closed THEN zero ELSE lot OBVIOUS
  <2> HIDE DEF lot, Kept
  <2>3. zero \in LotsOf(I)
    <3>1. 0 \in Nat /\ 0 \in Values BY DEF Values
    <3> DEFINE qty == 0
               val == 0
    <3>2. qty \in Nat /\ val \in Values /\ zero = [lot EXCEPT !.qty = qty, !.val = val] BY <3>1
    <3> HIDE DEF qty, val, zero
    <3> QED BY <2>1, <3>2 DEF LotsOf
  <2>4. zero.inst = lot.inst /\ zero.src = lot.src /\ zero.side = lot.side /\ zero.seq = lot.seq
    BY <2>1 DEF LotsOf
  <2> QED BY <2>1, <2>2, <2>3, <2>4 DEF lot
<1> HIDE DEF Kept
<1>10. all \in Seq(LotsOf(I)) /\ Len(all) = Len(lots)
  <2>1. all = [j \in 1..Len(lots) |-> Kept(j)] /\ \A j \in 1..Len(lots) : Kept(j) \in LotsOf(I)
    BY <1>4, <1>9
  <2> HIDE DEF all
  <2> QED BY <1>4, <2>1, IsASeq
<1>11. kept \in Seq(LotsOf(I)) /\ Len(kept) = Len(lots) /\ \A j \in DOMAIN lots : kept[j] = Kept(j)
  <2>1. \A j \in DOMAIN lots : all[j] = Kept(j) OBVIOUS
  <2> HIDE DEF all
  <2> QED BY <1>4, <1>10, <2>1
<1> HIDE DEF kept, rows, s, total, basis
<1>12. SameLots(lots, kept, I) BY <1>9, <1>11 DEF SameLots
<1>13. Touches(after, r, I) /\ after.ok = r.ok
  <2>1. SameLots(r.lots, kept, I) BY <1>12 DEF lots
  <2>2. after.ok = r.ok BY DEF Replays
  <2> QED BY <1>8, <2>1, <2>2, ChangeTouches
<1>14. Touches(r, r, I) BY DEF Touches, SameLots, Replays
<1> QED BY <1>2, <1>3, <1>13, <1>14 DEF s

\* Whatever an action does, the replay is sound.
LEMMA ActionIsSound ==
  ASSUME NEW I, NEW r \in Replays(I), NEW i \in Nat, IsFact(facts[i], I), IsAllocation(facts[i].parts)
  PROVE  ApplyAction(r, i) \in Replays(I) /\ (Numbered(r) => Numbered(ApplyAction(r, i)))
<1>1. CASE facts[i].parts = <<>>
  <2>1. ApplyAction(r, i) = SettleInCash(r, i) BY <1>1 DEF ApplyAction
  <2>2. Touches(SettleInCash(r, i), r, I) BY SettleTouches DEF IsFact
  <2> QED BY <2>1, <2>2, TouchContinues DEF Continues
<1>2. CASE facts[i].parts # <<>> /\ facts[i].kind = "spin_off"
  <2>1. ApplyAction(r, i) = SpinOff(r, i) BY <1>2 DEF ApplyAction
  <2> QED BY <1>2, <2>1, SpinOffSpins
<1>3. CASE facts[i].parts # <<>> /\ facts[i].kind # "spin_off"
  <2>1. ApplyAction(r, i) = Exchange(r, i) BY <1>3 DEF ApplyAction
  <2> QED BY <1>3, <2>1, ExchangeExchanges
<1> QED BY <1>1, <1>2, <1>3

-----------------------------------------------------------------------------
(* The steps of the replays *)

LEMMA FactAt ==
  ASSUME NEW I, AreFacts(I), NEW i \in DOMAIN facts
  PROVE  i \in Nat /\ i \in 1..Len(facts) /\ IsFact(facts[i], I)
BY DEF AreFacts

LEMMA SplitTouches ==
  ASSUME NEW I, NEW r \in Replays(I), NEW inst, NEW ratio, ratio[1] \in Nat \ {0}, ratio[2] \in Nat \ {0}
  PROVE  /\ Touches([r EXCEPT !.lots = Scaled(r.lots, inst, ratio)], r, I)
         /\ [r EXCEPT !.lots = Scaled(r.lots, inst, ratio)].lots = Scaled(r.lots, inst, ratio)
         /\ ScaledBy(Scaled(r.lots, inst, ratio), r.lots, inst, ratio, I)
<1>1. r.lots \in Seq(LotsOf(I)) /\ r.realized \in Seq(Rows) BY DEF Replays
<1>2. ScaledBy(Scaled(r.lots, inst, ratio), r.lots, inst, ratio, I) BY <1>1, ScaledScales
<1>3. SameLots(r.lots, Scaled(r.lots, inst, ratio), I) BY <1>2 DEF ScaledBy
<1>4. [r EXCEPT !.lots = Scaled(r.lots, inst, ratio)].lots = Scaled(r.lots, inst, ratio) BY DEF Replays
<1> QED BY <1>1, <1>2, <1>3, <1>4, ChangeTouches

\* A step of the accounting replay; only an action takes a number twice.
LEMMA LotStepIsSound ==
  ASSUME NEW I, AreFacts(I), NEW i \in DOMAIN facts, NEW r \in Replays(I), NEW acc, NEW method, NEW short
  PROVE  LET s == LotStep(acc, method, short, r, i)
         IN  /\ s \in Replays(I) /\ (Numbered(r) => Numbered(s))
             /\ facts[i].kind \notin Actions => Continues(s, r, I)
<1> DEFINE fact == facts[i]
           s == LotStep(acc, method, short, r, i)
<1>1. i \in Nat /\ IsFact(fact, I) BY FactAt
<1>2. Continues(Raise(r), r, I) BY RaiseTouches, TouchContinues
<1>3. CASE fact.kind \in {"buy", "sell"}
  <2> DEFINE side == IF fact.kind = "buy" THEN "long" ELSE "short"
  <2>1. s = IF fact.kind = "sell" /\ ~Covered(r, i) /\ ~short THEN Raise(r) ELSE Trade(r, i, side, method)
    BY <1>3 DEF LotStep
  <2>2. side \in Sides BY DEF Sides
  <2> HIDE DEF side
  <2>3. TradeOf(Trade(r, i, side, method), r,
                Take(r.lots, Ordered(r.lots, fact.inst, OpposedSide(side), method), Size(fact)),
                fact, i, side, method, I)
    BY <1>3, <2>2, TradeTrades
  <2>4. Continues(Trade(r, i, side, method), r, I) BY <2>3, TradeContinues
  <2>5. Continues(s, r, I) BY <1>2, <2>1, <2>4
  <2> QED BY <2>5 DEF Continues
<1>4. CASE fact.kind = "split"
  <2>1. s = [r EXCEPT !.lots = Scaled(r.lots, fact.inst, fact.ratio)] BY <1>4 DEF LotStep
  <2>2. Touches(s, r, I) BY <1>1, <2>1, SplitTouches DEF IsFact
  <2>3. Continues(s, r, I) BY <2>2, TouchContinues
  <2> QED BY <2>3 DEF Continues
<1>5. CASE fact.kind = "transfer"
  <2>1. s = IF fact.acc = acc THEN GiveLots(r, fact) ELSE ReceiveLots(r, fact) BY <1>5 DEF LotStep
  <2>2. fact.parts \in CarriedLots /\ fact.inst \in I BY <1>1, <1>5 DEF IsFact
  <2>3. Continues(GiveLots(r, fact), r, I) BY <2>2, GiveLotsTouches, TouchContinues
  <2>4. Continues(ReceiveLots(r, fact), r, I) BY <2>2, ReceiveReceives, ReceiveContinues
  <2>5. Continues(s, r, I) BY <2>1, <2>3, <2>4
  <2> QED BY <2>5 DEF Continues
<1>6. CASE fact.kind = "move"
  <2>1. s = IF fact.qty < 0 THEN Raise(r) ELSE Opened(r, fact.inst, i, "long", fact.qty, Unknown)
    BY <1>6 DEF LotStep
  <2>2. ASSUME ~(fact.qty < 0) PROVE Continues(Opened(r, fact.inst, i, "long", fact.qty, Unknown), r, I)
    <3> DEFINE u == Opened(r, fact.inst, i, "long", fact.qty, Unknown)
               lot == Lot(fact.inst, i, "long", fact.qty, Unknown, r.seq + 1)
    <3>1. fact.inst \in I /\ fact.qty \in Nat /\ Unknown \in Values /\ "long" \in Sides
      BY <1>1, <2>2 DEF IsFact, Values, Sides
    <3>2. Opens(u, r, lot, I) /\ u.seq = r.seq + 1 BY <1>1, <3>1, OpenedOpens
    <3> HIDE DEF u, lot
    <3>3. Continues(u, r, I) BY <3>2, OpenContinues
    <3> QED BY <3>3 DEF u
  <2>3. Continues(s, r, I) BY <1>2, <2>1, <2>2
  <2> QED BY <2>3 DEF Continues
<1>7. CASE fact.kind \in Actions
  <2>1. s = ApplyAction(r, i) BY <1>7 DEF LotStep, Actions
  <2>2. IsAllocation(fact.parts) BY <1>1, <1>7 DEF IsFact
  <2> QED BY <1>1, <1>7, <2>1, <2>2, ActionIsSound
<1> QED BY <1>1, <1>3, <1>4, <1>5, <1>6, <1>7 DEF IsFact

\* What a plain leg does to the FIFO replay.
LEMMA PlainLegIsSound ==
  ASSUME NEW I, NEW i \in Nat, NEW r \in Replays(I), NEW inst \in I, NEW qty \in Int
  PROVE  Continues(PlainLeg(r, i, inst, qty), r, I)
<1> DEFINE s == PlainLeg(r, i, inst, qty)
           n == -qty
           taken == Take(r.lots, Ordered(r.lots, inst, "long", "fifo"), n)
<1>1. CASE qty > 0
  <2> DEFINE u == Opened(r, inst, i, "long", qty, Unknown)
             lot == Lot(inst, i, "long", qty, Unknown, r.seq + 1)
  <2>1. s = u BY <1>1 DEF PlainLeg
  <2>2. qty \in Nat /\ Unknown \in Values /\ "long" \in Sides BY <1>1 DEF Values, Sides
  <2>3. Opens(u, r, lot, I) /\ u.seq = r.seq + 1 BY <2>2, OpenedOpens
  <2> HIDE DEF u, lot
  <2> QED BY <2>1, <2>3, OpenContinues
<1>2. CASE qty = 0
  <2>1. s = r BY <1>2 DEF PlainLeg
  <2> QED BY <2>1 DEF Continues
<1>3. CASE qty < 0
  <2>1. s = IF taken.left # 0 THEN Raise(r) ELSE [r EXCEPT !.lots = taken.lots] BY <1>3 DEF PlainLeg
  <2>2. r.lots \in Seq(LotsOf(I)) /\ r.realized \in Seq(Rows) /\ n \in Nat BY <1>3 DEF Replays
  <2>3. TakenFrom(r.lots, taken, Open(r.lots, inst, "long"), "fifo", n, I) BY <2>2, TakeOpen
  <2> HIDE DEF taken
  <2>4. Touches([r EXCEPT !.lots = taken.lots], r, I) BY <2>2, <2>3, TakenIsSame, ChangeTouches
  <2>5. Touches(Raise(r), r, I) BY RaiseTouches
  <2> QED BY <2>1, <2>4, <2>5, TouchContinues
<1> QED BY <1>1, <1>2, <1>3

LEMMA ContinuesTwice ==
  ASSUME NEW I, NEW r, NEW s, NEW t, Continues(s, r, I), Continues(t, s, I)
  PROVE  Continues(t, r, I)
BY DEF Continues

\* A step of the FIFO replay.
LEMMA FifoStepIsSound ==
  ASSUME NEW I, AreFacts(I), NEW i \in DOMAIN facts, NEW r \in Replays(I), NEW acc
  PROVE  Continues(FifoStep(acc, r, i), r, I)
<1> DEFINE fact == facts[i]
           s == FifoStep(acc, r, i)
<1>1. i \in Nat /\ IsFact(fact, I) BY FactAt
<1>2. Continues(Raise(r), r, I) BY RaiseTouches, TouchContinues
<1>3. CASE fact.kind = "buy"
  <2> DEFINE u == Opened(r, fact.inst, i, "long", fact.qty, fact.value)
             lot == Lot(fact.inst, i, "long", fact.qty, fact.value, r.seq + 1)
  <2>1. s = u BY <1>3 DEF FifoStep
  <2>2. fact.qty \in Nat /\ fact.value \in Values /\ "long" \in Sides /\ fact.inst \in I
    BY <1>1, <1>3 DEF Values, Sides, IsFact
  <2>3. Opens(u, r, lot, I) /\ u.seq = r.seq + 1 BY <1>1, <2>2, OpenedOpens
  <2> HIDE DEF u, lot
  <2> QED BY <2>1, <2>3, OpenContinues
<1>4. CASE fact.kind = "sell"
  <2>1. s = IF Covered(r, i) THEN Trade(r, i, "short", "fifo") ELSE Raise(r) BY <1>4 DEF FifoStep
  <2>2. TradeOf(Trade(r, i, "short", "fifo"), r,
                Take(r.lots, Ordered(r.lots, fact.inst, OpposedSide("short"), "fifo"), Size(fact)),
                fact, i, "short", "fifo", I)
    <3>1. "short" \in Sides BY DEF Sides
    <3> QED BY <1>4, <3>1, TradeTrades
  <2>3. Continues(Trade(r, i, "short", "fifo"), r, I) BY <2>2, TradeContinues
  <2> QED BY <1>2, <2>1, <2>3
<1>5. CASE fact.kind = "split"
  <2>1. s = [r EXCEPT !.lots = Scaled(r.lots, fact.inst, fact.ratio)] BY <1>5 DEF FifoStep
  <2>2. Touches(s, r, I) BY <1>1, <2>1, SplitTouches DEF IsFact
  <2> QED BY <2>2, TouchContinues
<1>6. CASE fact.kind = "transfer"
  <2>1. s = IF fact.acc = acc THEN GiveOldest(r, fact) ELSE ReceiveLots(r, fact) BY <1>6 DEF FifoStep
  <2>2. fact.parts \in CarriedLots /\ fact.inst \in I /\ -fact.qty \in Nat BY <1>1, <1>6 DEF IsFact
  <2>3. Continues(GiveOldest(r, fact), r, I)
    <3> DEFINE n == -fact.qty
               taken == Take(r.lots, Ordered(r.lots, fact.inst, "long", "fifo"), n)
               u == Given(r, taken, PieceValue(fact.parts))
    <3>1. r.lots \in Seq(LotsOf(I)) /\ n \in Nat BY <2>2 DEF Replays
    <3>2. TakenFrom(r.lots, taken, Open(r.lots, fact.inst, "long"), "fifo", n, I)
      <4> HIDE DEF n
      <4> QED BY <3>1, TakeOpen
    <3>3. Touches(u, r, I)
      <4> HIDE DEF n, taken
      <4> QED BY <3>2, GivenTouches
    <3>4. GiveOldest(r, fact) = u BY DEF GiveOldest
    <3> HIDE DEF u
    <3> QED BY <3>3, <3>4, TouchContinues
  <2>4. Continues(ReceiveLots(r, fact), r, I) BY <2>2, ReceiveReceives, ReceiveContinues
  <2> QED BY <2>1, <2>3, <2>4
<1>7. CASE fact.kind \notin {"buy", "sell", "split", "transfer"}
  <2> DEFINE one == PlainLeg(r, i, fact.inst, fact.qty)
             two == PlainLeg(one, i, fact.dst, fact.gets)
  <2>1. s = IF one.ok THEN two ELSE one BY <1>7 DEF FifoStep, PlainLegs
  <2>2. fact.inst \in I /\ fact.dst \in I /\ fact.qty \in Int /\ fact.gets \in Int BY <1>1 DEF IsFact
  <2>3. Continues(one, r, I) BY <1>1, <2>2, PlainLegIsSound
  <2>4. one \in Replays(I) BY <2>3 DEF Continues
  <2> HIDE DEF one
  <2>5. Continues(two, one, I) BY <1>1, <2>2, <2>4, PlainLegIsSound
  <2> HIDE DEF two
  <2> QED BY <2>1, <2>3, <2>5, ContinuesTwice
<1> QED BY <1>3, <1>4, <1>5, <1>6, <1>7

-----------------------------------------------------------------------------
(* Replays of histories *)

Sounds(I) == {r \in Replays(I) : Numbered(r)}

\* The states that the accounting replay of a history runs through.
LotsRun(run, I, acc, history, method, short) ==
  /\ run \in [0..Len(history) -> Sounds(I)]
  /\ run[0] = EmptyReplay
  /\ \A n \in 1..Len(history) :
       run[n] = IF run[n - 1].ok THEN LotStep(acc, method, short, run[n - 1], history[n]) ELSE run[n - 1]

LEMMA ReplayLotsRuns ==
  ASSUME NEW I, AreFacts(I), NEW acc, NEW history \in Seq(DOMAIN facts), NEW method, NEW short
  PROVE  \E run : /\ LotsRun(run, I, acc, history, method, short)
                  /\ ReplayLots(acc, history, method, short) = run[Len(history)]
<1> DEFINE T == Sounds(I)
           X == DOMAIN facts
           Step(r, i) == IF r.ok THEN LotStep(acc, method, short, r, i) ELSE r
           step == [p \in T \X X |-> Step(p[1], p[2])]
           D == DOMAIN history
           h == CHOOSE g : g = [s \in SUBSET D |-> IF s = {} THEN EmptyReplay
                                                   ELSE Step(g[s \ {Max(s)}], history[Max(s)])]
<1>1. EmptyReplay \in T BY EmptyIsSound DEF Sounds, Sound
<1>2. StaysIn(step, T, X) /\ \A t \in T, x \in X : step[<<t, x>>] = Step(t, x)
  <2>1. \A t \in T, x \in X : Step(t, x) \in T
    BY LotStepIsSound DEF Sounds
  <2> HIDE DEF T, X, Step
  <2> QED BY <2>1 DEF StaysIn
<1>3. ReplayLots(acc, history, method, short) = h[D]
  BY DEF ReplayLots, FoldLeft, MapThenFoldSet
<1>4. history \in Seq(X) /\ D = 1..Len(history) /\ Len(history) \in Nat /\ \A i \in D : history[i] \in X
  OBVIOUS
<1> HIDE DEF T, X, step, Step
<1>5. \E g : g = [s \in SUBSET D |-> IF s = {} THEN EmptyReplay ELSE Step(g[s \ {Max(s)}], history[Max(s)])]
  <2>1. PICK g \in [SUBSET D -> T] : IsFold(g, step, EmptyReplay, history, Len(history))
    BY <1>1, <1>2, <1>4, FoldExists
  <2>2. ASSUME NEW s \in SUBSET D, s # {}
        PROVE  step[<<g[s \ {Max(s)}], history[Max(s)]>>] = Step(g[s \ {Max(s)}], history[Max(s)])
    <3>1. Max(s) \in s BY <1>4, <2>2, MaxOfIndices
    <3>2. history[Max(s)] \in X /\ g[s \ {Max(s)}] \in T BY <1>4, <2>1, <3>1
    <3> QED BY <1>2, <3>2
  <2>3. g = [s \in SUBSET D |-> IF s = {} THEN EmptyReplay ELSE step[<<g[s \ {Max(s)}], history[Max(s)]>>]]
    BY <1>4, <2>1 DEF IsFold
  <2>4. g = [s \in SUBSET D |-> IF s = {} THEN EmptyReplay ELSE Step(g[s \ {Max(s)}], history[Max(s)])]
    BY <2>2, <2>3
  <2> QED BY <2>4
<1>6. h = [s \in SUBSET D |-> IF s = {} THEN EmptyReplay ELSE Step(h[s \ {Max(s)}], history[Max(s)])]
  BY <1>5
<1> HIDE DEF h
<1>7. h[{}] = EmptyReplay BY <1>6
<1>8. ASSUME NEW s \in SUBSET D, s # {}, h[s \ {Max(s)}] \in T
      PROVE  h[s] = step[<<h[s \ {Max(s)}], history[Max(s)]>>]
  <2>1. Max(s) \in s BY <1>4, <1>8, MaxOfIndices
  <2>2. history[Max(s)] \in X BY <1>4, <2>1
  <2> QED BY <1>2, <1>6, <1>8, <2>2
<1>9. PICK run : Runs(run, T, step, EmptyReplay, history) /\ run[Len(history)] = h[D]
  <2>1. FoldsBy(h, T, step, EmptyReplay, history)
    BY <1>7, <1>8 DEF FoldsBy
  <2>2. \E run : Runs(run, T, step, EmptyReplay, history) /\ run[Len(history)] = h[DOMAIN history]
    <3> HIDE DEF D
    <3> QED BY <1>1, <1>2, <1>4, <2>1, FoldRuns
  <2> QED BY <2>2
<1>10. LotsRun(run, I, acc, history, method, short)
  <2>1. run \in [0..Len(history) -> T] /\ run[0] = EmptyReplay BY <1>9 DEF Runs
  <2>2. ASSUME NEW k \in 1..Len(history) PROVE run[k] = Step(run[k - 1], history[k])
    <3>1. k - 1 \in 0..Len(history) /\ history[k] \in X BY <1>4
    <3>2. run[k] = step[<<run[k - 1], history[k]>>] BY <1>9 DEF Runs
    <3> QED BY <1>2, <2>1, <3>1, <3>2
  <2> QED BY <2>1, <2>2 DEF LotsRun, T, Step
<1> QED BY <1>3, <1>9, <1>10

\* The states that the FIFO replay of a history runs through.
FifoRun(run, I, acc, history) ==
  /\ run \in [0..Len(history) -> Sounds(I)]
  /\ run[0] = EmptyReplay
  /\ \A n \in 1..Len(history) :
       run[n] = IF run[n - 1].ok THEN FifoStep(acc, run[n - 1], history[n]) ELSE run[n - 1]

LEMMA ReplayFifoRuns ==
  ASSUME NEW I, AreFacts(I), NEW acc, NEW history \in Seq(DOMAIN facts)
  PROVE  \E run : /\ FifoRun(run, I, acc, history)
                  /\ ReplayFifo(acc, history) = run[Len(history)]
<1> DEFINE T == Sounds(I)
           X == DOMAIN facts
           Step(r, i) == IF r.ok THEN FifoStep(acc, r, i) ELSE r
           step == [p \in T \X X |-> Step(p[1], p[2])]
           D == DOMAIN history
           h == CHOOSE g : g = [s \in SUBSET D |-> IF s = {} THEN EmptyReplay
                                                   ELSE Step(g[s \ {Max(s)}], history[Max(s)])]
<1>1. EmptyReplay \in T BY EmptyIsSound DEF Sounds, Sound
<1>2. StaysIn(step, T, X) /\ \A t \in T, x \in X : step[<<t, x>>] = Step(t, x)
  <2>1. \A t \in T, x \in X : Step(t, x) \in T
    BY FifoStepIsSound DEF Sounds, Continues
  <2> HIDE DEF T, X, Step
  <2> QED BY <2>1 DEF StaysIn
<1>3. ReplayFifo(acc, history) = h[D]
  BY DEF ReplayFifo, FoldLeft, MapThenFoldSet
<1>4. history \in Seq(X) /\ D = 1..Len(history) /\ Len(history) \in Nat /\ \A i \in D : history[i] \in X
  OBVIOUS
<1> HIDE DEF T, X, step, Step
<1>5. \E g : g = [s \in SUBSET D |-> IF s = {} THEN EmptyReplay ELSE Step(g[s \ {Max(s)}], history[Max(s)])]
  <2>1. PICK g \in [SUBSET D -> T] : IsFold(g, step, EmptyReplay, history, Len(history))
    BY <1>1, <1>2, <1>4, FoldExists
  <2>2. ASSUME NEW s \in SUBSET D, s # {}
        PROVE  step[<<g[s \ {Max(s)}], history[Max(s)]>>] = Step(g[s \ {Max(s)}], history[Max(s)])
    <3>1. Max(s) \in s BY <1>4, <2>2, MaxOfIndices
    <3>2. history[Max(s)] \in X /\ g[s \ {Max(s)}] \in T BY <1>4, <2>1, <3>1
    <3> QED BY <1>2, <3>2
  <2>3. g = [s \in SUBSET D |-> IF s = {} THEN EmptyReplay ELSE step[<<g[s \ {Max(s)}], history[Max(s)]>>]]
    BY <1>4, <2>1 DEF IsFold
  <2>4. g = [s \in SUBSET D |-> IF s = {} THEN EmptyReplay ELSE Step(g[s \ {Max(s)}], history[Max(s)])]
    BY <2>2, <2>3
  <2> QED BY <2>4
<1>6. h = [s \in SUBSET D |-> IF s = {} THEN EmptyReplay ELSE Step(h[s \ {Max(s)}], history[Max(s)])]
  BY <1>5
<1> HIDE DEF h
<1>7. h[{}] = EmptyReplay BY <1>6
<1>8. ASSUME NEW s \in SUBSET D, s # {}, h[s \ {Max(s)}] \in T
      PROVE  h[s] = step[<<h[s \ {Max(s)}], history[Max(s)]>>]
  <2>1. Max(s) \in s BY <1>4, <1>8, MaxOfIndices
  <2>2. history[Max(s)] \in X BY <1>4, <2>1
  <2> QED BY <1>2, <1>6, <1>8, <2>2
<1>9. PICK run : Runs(run, T, step, EmptyReplay, history) /\ run[Len(history)] = h[D]
  <2>1. FoldsBy(h, T, step, EmptyReplay, history)
    BY <1>7, <1>8 DEF FoldsBy
  <2>2. \E run : Runs(run, T, step, EmptyReplay, history) /\ run[Len(history)] = h[DOMAIN history]
    <3> HIDE DEF D
    <3> QED BY <1>1, <1>2, <1>4, <2>1, FoldRuns
  <2> QED BY <2>2
<1>10. FifoRun(run, I, acc, history)
  <2>1. run \in [0..Len(history) -> T] /\ run[0] = EmptyReplay BY <1>9 DEF Runs
  <2>2. ASSUME NEW k \in 1..Len(history) PROVE run[k] = Step(run[k - 1], history[k])
    <3>1. k - 1 \in 0..Len(history) /\ history[k] \in X BY <1>4
    <3>2. run[k] = step[<<run[k - 1], history[k]>>] BY <1>9 DEF Runs
    <3> QED BY <1>2, <2>1, <3>1, <3>2
  <2> QED BY <2>1, <2>2 DEF FifoRun, T, Step
<1> QED BY <1>3, <1>9, <1>10

LEMMA PrefixOf ==
  ASSUME NEW S, NEW history \in Seq(S), NEW m \in 0..Len(history)
  PROVE  /\ SubSeq(history, 1, m) \in Seq(S) /\ Len(SubSeq(history, 1, m)) = m
         /\ \A n \in 1..m : SubSeq(history, 1, m)[n] = history[n]
OBVIOUS

\* A run passes through the replays of all prefixes.
LEMMA LotsOfPrefix ==
  ASSUME NEW I, AreFacts(I), NEW acc, NEW history \in Seq(DOMAIN facts), NEW method, NEW short,
         NEW run, LotsRun(run, I, acc, history, method, short), NEW m \in 0..Len(history)
  PROVE  ReplayLots(acc, SubSeq(history, 1, m), method, short) = run[m]
<1> DEFINE first == SubSeq(history, 1, m)
<1>1. /\ first \in Seq(DOMAIN facts) /\ Len(first) = m /\ \A n \in 1..m : first[n] = history[n]
      /\ m \in Nat
  BY PrefixOf
<1> HIDE DEF first
<1>2. PICK part : /\ LotsRun(part, I, acc, first, method, short)
                  /\ ReplayLots(acc, first, method, short) = part[m]
  BY <1>1, ReplayLotsRuns
<1> DEFINE Q == {n \in 0..m : part[n] = run[n]}
<1>3. 0 \in Q BY <1>1, <1>2 DEF LotsRun
<1>4. ASSUME NEW n \in 1..m, n - 1 \in Q PROVE n \in Q
  <2>1. n \in 1..Len(history) /\ n \in 1..Len(first) /\ n \in 0..m BY <1>1, <1>4
  <2>2. part[n - 1] = run[n - 1] BY <1>4
  <2>3. part[n] = IF part[n - 1].ok THEN LotStep(acc, method, short, part[n - 1], first[n]) ELSE part[n - 1]
    BY <1>2, <2>1 DEF LotsRun
  <2>4. run[n] = IF run[n - 1].ok THEN LotStep(acc, method, short, run[n - 1], history[n]) ELSE run[n - 1]
    BY <2>1 DEF LotsRun
  <2>5. first[n] = history[n] BY <1>1
  <2>6. part[n] = run[n] BY <2>2, <2>3, <2>4, <2>5
  <2> QED BY <2>1, <2>6
<1>5. \A n \in 0..m : n \in Q
  <2> HIDE DEF Q
  <2> QED BY <1>1, <1>3, <1>4, CountUp
<1>6. part[m] = run[m] BY <1>1, <1>5
<1> QED BY <1>2, <1>6 DEF first

LEMMA FifoOfPrefix ==
  ASSUME NEW I, AreFacts(I), NEW acc, NEW history \in Seq(DOMAIN facts),
         NEW run, FifoRun(run, I, acc, history), NEW m \in 0..Len(history)
  PROVE  ReplayFifo(acc, SubSeq(history, 1, m)) = run[m]
<1> DEFINE first == SubSeq(history, 1, m)
<1>1. /\ first \in Seq(DOMAIN facts) /\ Len(first) = m /\ \A n \in 1..m : first[n] = history[n]
      /\ m \in Nat
  BY PrefixOf
<1> HIDE DEF first
<1>2. PICK part : FifoRun(part, I, acc, first) /\ ReplayFifo(acc, first) = part[m]
  BY <1>1, ReplayFifoRuns
<1> DEFINE Q == {n \in 0..m : part[n] = run[n]}
<1>3. 0 \in Q BY <1>1, <1>2 DEF FifoRun
<1>4. ASSUME NEW n \in 1..m, n - 1 \in Q PROVE n \in Q
  <2>1. n \in 1..Len(history) /\ n \in 1..Len(first) /\ n \in 0..m BY <1>1, <1>4
  <2>2. part[n - 1] = run[n - 1] BY <1>4
  <2>3. part[n] = IF part[n - 1].ok THEN FifoStep(acc, part[n - 1], first[n]) ELSE part[n - 1]
    BY <1>2, <2>1 DEF FifoRun
  <2>4. run[n] = IF run[n - 1].ok THEN FifoStep(acc, run[n - 1], history[n]) ELSE run[n - 1]
    BY <2>1 DEF FifoRun
  <2>5. first[n] = history[n] BY <1>1
  <2>6. part[n] = run[n] BY <2>2, <2>3, <2>4, <2>5
  <2> QED BY <2>1, <2>6
<1>5. \A n \in 0..m : n \in Q
  <2> HIDE DEF Q
  <2> QED BY <1>1, <1>3, <1>4, CountUp
<1>6. part[m] = run[m] BY <1>1, <1>5
<1> QED BY <1>2, <1>6 DEF first

\* Without actions, every lot has a number of its own.
LEMMA RunNumbersOnce ==
  ASSUME NEW I, AreFacts(I), NEW acc, NEW history \in Seq(DOMAIN facts), NEW method, NEW short,
         NEW run, LotsRun(run, I, acc, history, method, short),
         \A n \in DOMAIN history : facts[history[n]].kind \notin Actions
  PROVE  \A n \in 0..Len(history) : NumberedOnce(run[n])
<1> DEFINE Q == {n \in 0..Len(history) : NumberedOnce(run[n])}
<1>1. Len(history) \in Nat /\ DOMAIN history = 1..Len(history) OBVIOUS
<1>2. 0 \in Q BY <1>1, EmptyIsSound DEF LotsRun
<1>3. ASSUME NEW n \in 1..Len(history), n - 1 \in Q PROVE n \in Q
  <2>1. n \in 0..Len(history) /\ n - 1 \in 0..Len(history) /\ n \in DOMAIN history /\ history[n] \in DOMAIN facts
    BY <1>1
  <2>2. run[n - 1] \in Replays(I) /\ NumberedOnce(run[n - 1]) BY <1>3, <2>1 DEF LotsRun, Sounds
  <2>3. Continues(LotStep(acc, method, short, run[n - 1], history[n]), run[n - 1], I)
    BY <2>1, <2>2, LotStepIsSound
  <2>4. NumberedOnce(run[n]) BY <2>2, <2>3 DEF LotsRun, Continues
  <2> QED BY <2>1, <2>4
<1> HIDE DEF Q
<1>4. \A n \in 0..Len(history) : n \in Q BY <1>1, <1>2, <1>3, CountUp
<1> QED BY <1>4 DEF Q

-----------------------------------------------------------------------------
(* What was known of the ledger *)

\* The facts are a sequence, and each of them is known since the day it was recorded.
HistoryInv ==
  /\ today \in Nat \ {0}
  /\ facts \in Seq({facts[i] : i \in DOMAIN facts})
  /\ \A i \in DOMAIN facts :
       /\ facts[i].eff \in Nat /\ facts[i].eff <= today /\ facts[i].known \in 1..today
       /\ facts[i].acc \in book.accounts /\ facts[i].to \in book.accounts

\* A new fact at the end of the history, known from today.
Recorded(fact) ==
  /\ facts' = Append(facts, fact)
  /\ fact.known = today /\ fact.eff \in Nat /\ fact.eff <= today
  /\ fact.acc \in book.accounts /\ fact.to \in book.accounts
  /\ UNCHANGED <<today, book>>

\* Whatever is recorded is one new fact, which is known from today.
LEMMA RecordsToday ==
  ASSUME HistoryInv, NEW acc \in book.accounts, NEW inst, NEW eff \in EffectiveDays, RecordIn(acc, inst, eff)
  PROVE  \E fact : Recorded(fact)
<1>1. eff \in Nat /\ eff <= today
  BY DEF EffectiveDays, HistoryInv
<1>2. ASSUME NEW kind, NEW i, NEW qty, NEW value, NEW fact,
             fact.known = Fact(kind, acc, i, qty, value, eff).known,
             fact.eff = Fact(kind, acc, i, qty, value, eff).eff,
             fact.acc = Fact(kind, acc, i, qty, value, eff).acc,
             fact.to \in book.accounts,
             Record(fact)
      PROVE  \E f : Recorded(f)
  BY <1>1, <1>2 DEF Fact, Record, Recorded
<1>3. CASE Buy(acc, inst, eff) \/ Sell(acc, inst, eff) \/ Move(acc, inst, eff)
  <2>1. PICK kind, qty, value : Record(Fact(kind, acc, inst, qty, value, eff)) BY <1>3 DEF Buy, Sell, Move
  <2> DEFINE fact == Fact(kind, acc, inst, qty, value, eff)
  <2>2. fact.to = acc BY DEF Fact
  <2> HIDE DEF fact
  <2>3. /\ fact.known = Fact(kind, acc, inst, qty, value, eff).known
        /\ fact.eff = Fact(kind, acc, inst, qty, value, eff).eff
        /\ fact.acc = Fact(kind, acc, inst, qty, value, eff).acc
    BY DEF fact
  <2>4. Record(fact) BY <2>1 DEF fact
  <2> QED BY <1>2, <2>2, <2>3, <2>4
<1>4. CASE Split(acc, inst, eff)
  <2>1. PICK ratio : Record(SplitBy(acc, inst, eff, ratio)) BY <1>4 DEF Split
  <2> DEFINE qty == (Held(Past(acc, eff), acc, inst) * (ratio[1] - ratio[2])) \div ratio[2]
             plain == Fact("split", acc, inst, qty, 0, eff)
             fact == [plain EXCEPT !.ratio = ratio]
  <2>2. SplitBy(acc, inst, eff, ratio) = fact BY DEF SplitBy
  <2>3. fact.known = plain.known /\ fact.eff = plain.eff /\ fact.acc = plain.acc /\ fact.to = acc BY DEF Fact
  <2> HIDE DEF fact
  <2> QED BY <1>2, <2>1, <2>2, <2>3
<1>5. ASSUME NEW to \in book.accounts, Transfer(acc, to, inst, eff) PROVE \E f : Recorded(f)
  <2>1. PICK n, taken : Record([Fact("transfer", acc, inst, -n, 0, eff)
                                EXCEPT !.to = to, !.gets = n, !.parts = taken.pieces])
    BY <1>5 DEF Transfer
  <2> DEFINE plain == Fact("transfer", acc, inst, -n, 0, eff)
             fact == [plain EXCEPT !.to = to, !.gets = n, !.parts = taken.pieces]
  <2>2. fact.known = plain.known /\ fact.eff = plain.eff /\ fact.acc = plain.acc /\ fact.to = to BY DEF Fact
  <2> HIDE DEF fact
  <2> QED BY <1>2, <2>1, <2>2 DEF fact
<1>6. ASSUME NEW kind, NEW dst, NEW qty, NEW gets, NEW cash, NEW parts,
             Action(kind, acc, inst, dst, qty, gets, cash, eff, parts)
      PROVE  \E f : Recorded(f)
  <2> DEFINE plain == Fact(kind, acc, inst, qty, cash, eff)
             fact == [plain EXCEPT !.dst = dst, !.gets = gets, !.parts = parts]
  <2>1. Record(fact) BY <1>6 DEF Action
  <2>2. fact.known = plain.known /\ fact.eff = plain.eff /\ fact.acc = plain.acc /\ fact.to = acc BY DEF Fact
  <2> HIDE DEF fact
  <2> QED BY <1>2, <2>1, <2>2
<1>7. CASE ActOn(acc, inst, eff)
  BY <1>6, <1>7 DEF ActOn, Merger, SpinOffOf, CashInLieu
<1> QED BY <1>3, <1>4, <1>5, <1>7 DEF RecordIn

\* A history and the days it is known from.
LEMMA HistoryStep ==
  ASSUME HistoryInv, LedgerNext
  PROVE  (\E fact : Recorded(fact)) \/ NextDay
BY RecordsToday DEF LedgerNext

LEMMA HistoryInvHolds == LedgerSpec => []HistoryInv
<1>1. LedgerInit => HistoryInv
  BY DEF LedgerInit, HistoryInv
<1>2. HistoryInv /\ [LedgerNext]_ledgerVars => HistoryInv'
  <2> SUFFICES ASSUME HistoryInv, [LedgerNext]_ledgerVars PROVE HistoryInv'
    OBVIOUS
  <2>1. ASSUME NEW fact, Recorded(fact) PROVE HistoryInv'
    <3> DEFINE S == {facts[i] : i \in DOMAIN facts}
               T == {facts'[i] : i \in DOMAIN facts'}
    <3>1. facts \in Seq(S \cup {fact}) BY DEF HistoryInv
    <3>2. facts' = Append(facts, fact) /\ today' = today BY <2>1 DEF Recorded
    <3>3. /\ facts' \in Seq(S \cup {fact}) /\ DOMAIN facts' = 1..(Len(facts) + 1)
          /\ DOMAIN facts = 1..Len(facts) /\ Len(facts) \in Nat
          /\ facts'[Len(facts) + 1] = fact
          /\ \A i \in DOMAIN facts : facts'[i] = facts[i]
      <4> HIDE DEF S
      <4> QED BY <3>1, <3>2
    <3>4. facts' \in Seq(T)
      <4>1. \A i \in DOMAIN facts' : facts'[i] \in T OBVIOUS
      <4> HIDE DEF S, T
      <4>2. Len(facts') = Len(facts) + 1 /\ facts' = [i \in 1..Len(facts') |-> facts'[i]] BY <3>3
      <4> QED BY <3>3, <4>1, <4>2, IsASeq
    <3>5. \A i \in DOMAIN facts' :
            /\ facts'[i].eff \in Nat /\ facts'[i].eff <= today' /\ facts'[i].known \in 1..today'
            /\ facts'[i].acc \in book'.accounts /\ facts'[i].to \in book'.accounts
      BY <2>1, <3>2, <3>3 DEF HistoryInv, Recorded
    <3> QED BY <3>2, <3>4, <3>5 DEF HistoryInv
  <2>2. CASE NextDay BY <2>2 DEF NextDay, HistoryInv
  <2>3. CASE UNCHANGED ledgerVars BY <2>3 DEF ledgerVars, HistoryInv
  <2> QED BY <2>1, <2>2, <2>3, HistoryStep
<1> QED BY <1>1, <1>2, PTL DEF LedgerSpec

\* Effective order is total.
LEMMA EarlierIsTotal ==
  ASSUME HistoryInv, NEW S \in SUBSET DOMAIN facts
  PROVE  TotallyOrders({p \in S \X S : Earlier(p[1], p[2])}, S)
<1> DEFINE before == {p \in S \X S : Earlier(p[1], p[2])}
<1>1. \A i, j \in S : <<i, j>> \in before <=> Earlier(i, j) OBVIOUS
<1>2. \A i \in S : i \in Nat /\ facts[i].eff \in Nat BY DEF HistoryInv
<1> HIDE DEF before
<1>3. TotallyOrders(before, S) BY <1>1, <1>2 DEF TotallyOrders, Earlier
<1> QED BY <1>3 DEF before

\* What was seen with a knowledge cutoff before today stays when a fact is recorded.
LEMMA PastStays ==
  ASSUME HistoryInv, NEW fact, Recorded(fact), NEW acc, NEW asOf, NEW known \in 1..(today - 1)
  PROVE  Seen(acc, asOf, known)' = Seen(acc, asOf, known)
<1> DEFINE Sees(h, i) == /\ acc \in {h[i].acc, h[i].to}
                         /\ h[i].eff <= asOf
                         /\ h[i].known <= known
           Sooner(h, i, j) == h[i].eff < h[j].eff \/ (h[i].eff = h[j].eff /\ i < j)
           seen == {i \in DOMAIN facts : Sees(facts, i)}
           before == {p \in seen \X seen : Earlier(p[1], p[2])}
           order == Sorted(seen, before)
<1>1. /\ DOMAIN facts' = 1..(Len(facts) + 1) /\ DOMAIN facts = 1..Len(facts) /\ Len(facts) \in Nat
      /\ facts'[Len(facts) + 1] = fact
      /\ \A i \in DOMAIN facts : facts'[i] = facts[i]
  BY DEF Recorded, HistoryInv
<1>2. ~Sees(facts', Len(facts) + 1)
  BY <1>1 DEF Recorded, HistoryInv
<1>3. seen = {i \in DOMAIN facts' : Sees(facts', i)}
  BY <1>1, <1>2
<1>4. \A i, j \in seen : Earlier(i, j)' <=> Earlier(i, j)
  BY <1>1 DEF Earlier
<1>5. before = {p \in seen \X seen : Earlier(p[1], p[2])'}
  <2> HIDE DEF seen
  <2> QED BY <1>4
<1>6. Visible(acc, asOf, known) = order
  BY DEF Visible
<1>7. Visible(acc, asOf, known)' = order
  <2>1. Visible(acc, asOf, known)'
          = Sorted({i \in DOMAIN facts' : Sees(facts', i)},
                   {p \in {i \in DOMAIN facts' : Sees(facts', i)} \X {i \in DOMAIN facts' : Sees(facts', i)} :
                      Earlier(p[1], p[2])'})
    BY DEF Visible
  <2> HIDE DEF seen, before
  <2> QED BY <1>3, <1>5, <2>1
<1>8. IsFiniteSet(seen)
  <2>1. seen \in SUBSET (1..Len(facts)) /\ IsFiniteSet(1..Len(facts)) BY <1>1, FS_Interval
  <2> HIDE DEF seen
  <2> QED BY <2>1, FS_Subset
<1>9. Len(order) = Cardinality(seen)
  <2>1. Cardinality(seen) \in Nat BY <1>8, FS_CardinalityType
  <2> HIDE DEF seen, before
  <2> QED BY <2>1 DEF Sorted
<1>10. \A n \in 1..Cardinality(seen) : order[n] \in seen
  <2>1. TotallyOrders(before, seen) BY EarlierIsTotal
  <2> HIDE DEF seen, before
  <2> QED BY <1>8, <2>1, SortedHasEach
<1>11. \A i \in seen : facts'[i] = facts[i] BY <1>1
<1> HIDE DEF seen, order
<1>12. Seen(acc, asOf, known) = [n \in 1..Len(order) |-> facts[order[n]]]
  BY <1>6 DEF Seen
<1>13. Seen(acc, asOf, known)' = [n \in 1..Len(order) |-> facts'[order[n]]]
  BY <1>7 DEF Seen
<1> QED BY <1>9, <1>10, <1>11, <1>12, <1>13

\* Nothing that is recorded or backdated later changes what is reported of a
\* knowledge cutoff in the past: Store.transactions() filters by known_at.
THEOREM HistoryIsKept == LedgerSpec => NoHindsight
<1>1. HistoryInv /\ [LedgerNext]_ledgerVars
        => [\A acc \in book.accounts, asOf \in 1..book.days, known \in 1..(today - 1) :
              Seen(acc, asOf, known)' = Seen(acc, asOf, known)]_ledgerVars
  <2> SUFFICES ASSUME HistoryInv, LedgerNext,
                      NEW acc, NEW asOf, NEW known \in 1..(today - 1)
               PROVE  Seen(acc, asOf, known)' = Seen(acc, asOf, known)
    OBVIOUS
  <2>1. CASE NextDay
    <3>1. facts' = facts BY <2>1 DEF NextDay
    <3> QED BY <3>1 DEF Seen, Visible, Earlier
  <2> QED BY <2>1, HistoryStep, PastStays
<1> QED BY <1>1, HistoryInvHolds, PTL DEF LedgerSpec, NoHindsight

-----------------------------------------------------------------------------
(* The facts of a ledger *)

\* What is visible is a history: each fact once, in effective order.
LEMMA VisibleIsHistory ==
  ASSUME HistoryInv, NEW acc, NEW asOf, NEW known
  PROVE  LET history == Visible(acc, asOf, known)
             seen == {i \in DOMAIN facts : /\ acc \in {facts[i].acc, facts[i].to}
                                           /\ facts[i].eff <= asOf
                                           /\ facts[i].known <= known}
         IN  /\ history \in Seq(DOMAIN facts)
             /\ \A n \in DOMAIN history : history[n] \in seen
             /\ \A i \in seen : \E n \in DOMAIN history : history[n] = i
             /\ \A m, n \in DOMAIN history : m < n => Earlier(history[m], history[n])
<1> DEFINE seen == {i \in DOMAIN facts : /\ acc \in {facts[i].acc, facts[i].to}
                                         /\ facts[i].eff <= asOf
                                         /\ facts[i].known <= known}
           before == {p \in seen \X seen : Earlier(p[1], p[2])}
           order == Sorted(seen, before)
<1>1. Visible(acc, asOf, known) = order BY DEF Visible
<1>2. IsFiniteSet(seen)
  <2>1. DOMAIN facts = 1..Len(facts) /\ Len(facts) \in Nat BY DEF HistoryInv
  <2>2. IsFiniteSet(1..Len(facts)) BY ONLY <2>1, FS_Interval
  <2>3. seen \in SUBSET (1..Len(facts)) BY <2>1
  <2> HIDE DEF seen
  <2> QED BY <2>2, <2>3, FS_Subset
<1>3. seen \subseteq DOMAIN facts OBVIOUS
<1>4. TotallyOrders(before, seen)
  <2> HIDE DEF seen
  <2> QED BY <1>3, EarlierIsTotal
<1>5. \A i, j \in seen : <<i, j>> \in before <=> Earlier(i, j) OBVIOUS
<1> HIDE DEF seen, before
<1>6. Cardinality(seen) \in Nat BY <1>2, FS_CardinalityType
<1>7. /\ \A n \in 1..Cardinality(seen) : order[n] \in seen /\ Position(order[n], seen, before) = n - 1
      /\ \A i \in seen : order[Position(i, seen, before) + 1] = i
  BY <1>2, <1>4, SortedHasEach
<1>8. \A i \in seen : Position(i, seen, before) \in 0..(Cardinality(seen) - 1)
  BY <1>2, <1>4, PositionsFollowOrder
<1>9. \A i, j \in seen : Earlier(i, j) => Position(i, seen, before) < Position(j, seen, before)
  BY <1>2, <1>4, <1>5, PositionsFollowOrder
<1>10. order = [n \in 1..Cardinality(seen) |-> order[n]] BY DEF Sorted
<1> HIDE DEF order
<1>11. order \in Seq(DOMAIN facts) /\ DOMAIN order = 1..Cardinality(seen)
  BY <1>3, <1>6, <1>7, <1>10, IsASeq
<1>12. \A n \in DOMAIN order : order[n] \in seen BY <1>7, <1>11
<1>13. \A i \in seen : \E n \in DOMAIN order : order[n] = i
  <2> SUFFICES ASSUME NEW i \in seen PROVE \E n \in DOMAIN order : order[n] = i
    OBVIOUS
  <2>1. Position(i, seen, before) + 1 \in 1..Cardinality(seen) BY <1>6, <1>8
  <2> QED BY <2>1, <1>7, <1>11
<1>14. ASSUME NEW m \in DOMAIN order, NEW n \in DOMAIN order, m < n
       PROVE  Earlier(order[m], order[n])
  <2>1. Position(order[m], seen, before) = m - 1 /\ Position(order[n], seen, before) = n - 1
    BY <1>7, <1>11
  <2>2. m \in Nat /\ n \in Nat BY <1>6, <1>11
  <2>3. order[m] \in seen /\ order[n] \in seen BY <1>12
  <2>4. order[m] # order[n] BY <1>14, <2>1, <2>2
  <2>5. ~Earlier(order[n], order[m]) BY <1>9, <1>14, <2>1, <2>2, <2>3
  <2> QED BY <1>4, <1>5, <2>3, <2>4, <2>5 DEF TotallyOrders
<1> QED BY <1>1, <1>11, <1>12, <1>13, <1>14 DEF seen

\* What is held after a history is a sum.
LEMMA HeldIsSum ==
  ASSUME NEW T, NEW history \in Seq(T), NEW acc, NEW inst
  PROVE  /\ Held(history, acc, inst)
              = SumOver([n \in DOMAIN history |-> Delta(facts[history[n]], acc, inst)], DOMAIN history)
         /\ IsFiniteSet(DOMAIN history)
<1> DEFINE S == DOMAIN history
           d(n) == Delta(facts[history[n]], acc, inst)
           f == [n \in S |-> d(n)]
           Adds(g) == g = [s \in SUBSET S |-> IF s = {} THEN 0
                             ELSE d(CHOOSE x \in s : TRUE) + g[s \ {CHOOSE x \in s : TRUE}]]
<1>0. IsFiniteSet(S) BY FS_Interval
<1>1. Held(history, acc, inst) = (CHOOSE g : Adds(g))[S]
  BY DEF Held, MapThenSumSet, MapThenFoldSet
<1> HIDE DEF d
<1>2. \A g : Adds(g) <=> IsSum(g, f, S)
  <2>1. \A s \in SUBSET S : s # {} => f[First(s)] = d(First(s))
    BY FirstIsElement
  <2> HIDE DEF f
  <2> QED BY <2>1 DEF IsSum, First
<1>3. \E g : Adds(g)
  <2> HIDE DEF Adds, f
  <2> QED BY <1>0, <1>2, SumExists
<1>4. IsSum(CHOOSE g : Adds(g), f, S)
  <2> HIDE DEF Adds, f
  <2> QED BY <1>2, <1>3
<1>5. Held(history, acc, inst) = SumOver(f, S)
  <2> HIDE DEF Adds, f, S
  <2>1. S \in SUBSET S OBVIOUS
  <2> QED BY <1>0, <1>1, <1>4, <2>1, FoldIsSum
<1> QED BY <1>0, <1>5 DEF f, d

LEMMA DeltaIsInteger ==
  ASSUME NEW I, NEW f, IsFact(f, I), NEW acc, NEW inst
  PROVE  Delta(f, acc, inst) \in Int
BY DEF IsFact, Delta

LEMMA HeldIsInteger ==
  ASSUME NEW I, AreFacts(I), NEW history \in Seq(DOMAIN facts), NEW acc, NEW inst
  PROVE  Held(history, acc, inst) \in Int
<1> DEFINE f == [n \in DOMAIN history |-> Delta(facts[history[n]], acc, inst)]
<1>1. \A n \in DOMAIN history : f[n] \in Int
  <2> SUFFICES ASSUME NEW n \in DOMAIN history PROVE f[n] \in Int
    OBVIOUS
  <2>1. history[n] \in DOMAIN facts OBVIOUS
  <2> QED BY <2>1, DeltaIsInteger DEF AreFacts
<1> HIDE DEF f
<1>2. SumOver(f, DOMAIN history) \in Int BY <1>1, HeldIsSum, SumIsInteger
<1> QED BY <1>2, HeldIsSum DEF f

LEMMA PlainFact ==
  ASSUME NEW kind, NEW acc, NEW inst, NEW qty, NEW value, NEW eff
  PROVE  LET f == Fact(kind, acc, inst, qty, value, eff)
         IN  /\ f.kind = kind /\ f.acc = acc /\ f.inst = inst /\ f.qty = qty /\ f.value = value
             /\ f.to = acc /\ f.dst = inst /\ f.gets = 0 /\ f.ratio = <<1, 1>> /\ f.parts = <<>>
             /\ f.eff = eff /\ f.known = today
             /\ f.ratio[1] = 1 /\ f.ratio[2] = 1
BY DEF Fact

LEMMA TakeOpenTyped ==
  ASSUME NEW I, NEW lots \in Seq(LotsOf(I)), NEW inst, NEW side, NEW method, NEW n \in Nat
  PROVE  Take(lots, Ordered(lots, inst, side, method), n) \in Takes(I, Len(lots))
<1> DEFINE N == Len(lots)
           chosen == Open(lots, inst, side)
           order == InOrder(lots, chosen, method)
<1>1. N \in Nat /\ lots \in [1..N -> LotsOf(I)] /\ Unknown \notin Int BY LedgerAssumption
<1>2. chosen \in SUBSET {j \in 1..N : lots[j].qty > 0} BY DEF Open
<1> HIDE DEF chosen, N
<1>3. /\ order \in Seq(1..N) /\ \A k \in DOMAIN order : order[k] \in chosen
      /\ \A j \in chosen : \E k \in DOMAIN order : order[k] = j
      /\ \A k, l \in DOMAIN order : k < l => /\ order[k] # order[l]
                                             /\ Prefers(lots, method, order[k], order[l])
  BY <1>1, <1>2, OrderOfLots
<1> HIDE DEF order
<1>4. Take(lots, order, n) \in Takes(I, N) BY <1>1, <1>3, TakeIsGreedy
<1> QED BY <1>4 DEF order, chosen, N, Ordered

\* The lots of a plan carry known values.
LEMMA PlanTakes ==
  ASSUME HistoryInv, NEW I, AreFacts(I), NEW acc, NEW inst, NEW n \in Nat, NEW eff
  PROVE  LET planned == TransferPlan(acc, inst, n, eff)
         IN  AllKnown(planned.pieces) => planned.pieces \in CarriedLots
<1> DEFINE history == Past(acc, eff)
           r == ReplayFifo(acc, history)
           taken == Take(r.lots, Ordered(r.lots, inst, "long", "fifo"), n)
           planned == TransferPlan(acc, inst, n, eff)
<1>1. planned.pieces = taken.pieces BY DEF TransferPlan
<1>2. history \in Seq(DOMAIN facts) BY VisibleIsHistory DEF Past
<1> HIDE DEF history
<1>3. PICK run : FifoRun(run, I, acc, history) /\ r = run[Len(history)]
  BY <1>2, ReplayFifoRuns
<1>4. Len(history) \in 0..Len(history) BY <1>2
<1>5. r.lots \in Seq(LotsOf(I)) BY <1>3, <1>4 DEF FifoRun, Sounds, Replays
<1> HIDE DEF r
<1>6. taken.pieces \in Seq(Pieces)
  <2>1. TakenFrom(r.lots, taken, Open(r.lots, inst, "long"), "fifo", n, I) BY <1>5, TakeOpen
  <2> HIDE DEF taken
  <2> QED BY <2>1 DEF TakenFrom
<1> HIDE DEF taken, planned
<1>7. ASSUME AllKnown(planned.pieces) PROVE planned.pieces \in CarriedLots
  <2> DEFINE C == [src : Nat, qty : Nat, val : Int]
  <2>1. ASSUME NEW p \in DOMAIN taken.pieces PROVE taken.pieces[p] \in C
    <3>1. taken.pieces[p] \in Pieces /\ taken.pieces[p].val # Unknown BY <1>1, <1>6, <1>7 DEF AllKnown
    <3> QED BY <3>1 DEF Pieces, Values
  <2> HIDE DEF C
  <2>2. taken.pieces \in Seq(C) BY <1>6, <2>1, IsASeq
  <2> QED BY <1>1, <2>2 DEF CarriedLots, C
<1> QED BY <1>7 DEF planned

LEMMA BasisIsInteger ==
  ASSUME HistoryInv, NEW I, AreFacts(I), NEW acc, NEW inst, NEW eff, Held(Past(acc, eff), acc, inst) >= 0
  PROVE  TrueBasis(acc, inst, eff) \in Int /\ Held(Past(acc, eff), acc, inst) \in Nat
<1> DEFINE history == Past(acc, eff)
           held == Held(history, acc, inst)
           r == ReplayLots(acc, history, "fifo", book.short)
           taken == Take(r.lots, Ordered(r.lots, inst, "long", "fifo"), held)
<1>1. TrueBasis(acc, inst, eff) = PieceValue(taken.pieces) BY DEF TrueBasis
<1>2. history \in Seq(DOMAIN facts) BY VisibleIsHistory DEF Past
<1>3. held \in Nat
  <2> HIDE DEF history
  <2>1. held \in Int BY <1>2, HeldIsInteger
  <2>2. held >= 0 BY DEF history
  <2> QED BY <2>1, <2>2
<1> HIDE DEF history, held
<1>4. PICK run : LotsRun(run, I, acc, history, "fifo", book.short) /\ r = run[Len(history)]
  BY <1>2, ReplayLotsRuns
<1>5. Len(history) \in 0..Len(history) BY <1>2
<1>6. r.lots \in Seq(LotsOf(I)) BY <1>4, <1>5 DEF LotsRun, Sounds, Replays
<1> HIDE DEF r
<1>7. taken.pieces \in Seq(Pieces)
  <2>1. TakenFrom(r.lots, taken, Open(r.lots, inst, "long"), "fifo", held, I) BY <1>3, <1>6, TakeOpen
  <2> HIDE DEF taken
  <2> QED BY <2>1 DEF TakenFrom
<1> HIDE DEF taken
<1> QED BY <1>1, <1>3, <1>7, PieceValueIsInteger DEF held, history

\* What the legs of a fact move.
HasLegs(f, allocated) ==
  /\ f.kind # "transfer" => f.to = f.acc
  /\ f.kind \in {"buy", "sell", "split", "move"} => f.gets = 0
  /\ f.kind = "transfer" => /\ f.acc # f.to /\ f.dst = f.inst /\ f.gets = -f.qty
                            /\ QuantityOf(f.parts, DOMAIN f.parts) = f.gets
  /\ f.kind \in Actions => /\ allocated => f.parts # <<>>
                           /\ f.kind = "spin_off" => f.qty = 0 /\ f.gets > 0
                           /\ f.kind # "spin_off" /\ f.parts # <<>> =>
                                f.parts[1].qty = -f.qty /\ (f.gets = 0 => f.parts[1].carried = 0)
                           /\ f.value >= 0

\* A split is worked out from what is held, and all lots of the past can be split.
SplitFits(f, past) ==
  LET held == Held(past, f.acc, f.inst)
  IN  /\ (held * f.ratio[1]) % f.ratio[2] = 0
      /\ f.qty = (held * (f.ratio[1] - f.ratio[2])) \div f.ratio[2]
      /\ \A method \in book.methods \cup {"fifo"} :
           LET lots == ReplayLots(f.acc, past, method, book.short).lots
           IN  \A j \in DOMAIN lots : lots[j].inst = f.inst => (lots[j].qty * f.ratio[1]) % f.ratio[2] = 0

\* A transfer carries the oldest lots of the past.
TransferFits(f, past) ==
  LET r     == ReplayFifo(f.acc, past)
      taken == Take(r.lots, Ordered(r.lots, f.inst, "long", "fifo"), -f.qty)
  IN  r.ok /\ taken.left = 0 /\ AllKnown(taken.pieces) /\ f.parts = taken.pieces

Fits(f, past) ==
  /\ f.kind = "split" => SplitFits(f, past)
  /\ f.kind = "transfer" => TransferFits(f, past)

\* Every operation records one fact.
LEMMA RecordsFact ==
  ASSUME HistoryInv, book \in Books, AreFacts(book.instruments), NEW acc \in book.accounts,
         NEW inst \in book.instruments, NEW eff \in EffectiveDays, RecordIn(acc, inst, eff)
  PROVE  \E fact : /\ Recorded(fact) /\ IsFact(fact, book.instruments) /\ HasLegs(fact, book.allocated)
                   /\ Fits(fact, Past(fact.acc, fact.eff))
<1> DEFINE I == book.instruments
<1>1. IsBook(book) BY LedgerAssumption
<1> DEFINE Good == \E fact : /\ Recorded(fact) /\ IsFact(fact, I) /\ HasLegs(fact, book.allocated)
                            /\ Fits(fact, Past(fact.acc, fact.eff))
<1>0. eff \in Nat /\ eff <= today /\ today \in Nat BY DEF EffectiveDays, HistoryInv
<1>2. CASE Buy(acc, inst, eff)
  <2>1. PICK t \in Buys : Record(Fact("buy", acc, inst, t[1], t[2], eff)) BY <1>2 DEF Buy
  <2>2. t[1] \in Nat \ {0} /\ t[2] \in Nat BY LedgerAssumption
  <2> DEFINE f == Fact("buy", acc, inst, t[1], t[2], eff)
  <2>3. /\ f.kind = "buy" /\ f.inst = inst /\ f.dst = inst /\ f.qty = t[1] /\ f.value = t[2] /\ f.gets = 0
        /\ f.ratio[1] = 1 /\ f.ratio[2] = 1 /\ f.acc = acc /\ f.to = acc /\ f.eff = eff /\ f.known = today
    BY PlainFact
  <2> HIDE DEF f
  <2>4. IsFact(f, I) BY <2>2, <2>3 DEF IsFact, Actions
  <2>5. HasLegs(f, book.allocated) /\ Fits(f, Past(f.acc, f.eff)) BY <2>3 DEF HasLegs, Fits, Actions
  <2>6. Recorded(f) BY <1>0, <2>1, <2>3 DEF Record, Recorded, f
  <2> QED BY <2>4, <2>5, <2>6
<1>3. CASE Sell(acc, inst, eff)
  <2>1. PICK t \in book.sells : Record(Fact("sell", acc, inst, -t[1], t[2], eff)) BY <1>3 DEF Sell
  <2>2. t[1] \in Nat \ {0} /\ t[2] \in Nat BY <1>1 DEF IsBook
  <2> DEFINE f == Fact("sell", acc, inst, -t[1], t[2], eff)
  <2>3. /\ f.kind = "sell" /\ f.inst = inst /\ f.dst = inst /\ f.qty = -t[1] /\ f.value = t[2] /\ f.gets = 0
        /\ f.ratio[1] = 1 /\ f.ratio[2] = 1 /\ f.acc = acc /\ f.to = acc /\ f.eff = eff /\ f.known = today
    BY PlainFact
  <2> HIDE DEF f
  <2>4. IsFact(f, I) BY <2>2, <2>3 DEF IsFact, Actions
  <2>5. HasLegs(f, book.allocated) /\ Fits(f, Past(f.acc, f.eff)) BY <2>3 DEF HasLegs, Fits, Actions
  <2>6. Recorded(f) BY <1>0, <2>1, <2>3 DEF Record, Recorded, f
  <2> QED BY <2>4, <2>5, <2>6
<1>4. CASE Move(acc, inst, eff)
  <2>1. PICK n \in Moves : Record(Fact("move", acc, inst, n, 0, eff)) BY <1>4 DEF Move
  <2>2. n \in Int /\ n # 0 BY LedgerAssumption
  <2> DEFINE f == Fact("move", acc, inst, n, 0, eff)
  <2>3. /\ f.kind = "move" /\ f.inst = inst /\ f.dst = inst /\ f.qty = n /\ f.value = 0 /\ f.gets = 0
        /\ f.ratio[1] = 1 /\ f.ratio[2] = 1 /\ f.acc = acc /\ f.to = acc /\ f.eff = eff /\ f.known = today
    BY PlainFact
  <2> HIDE DEF f
  <2>4. IsFact(f, I) BY <2>2, <2>3 DEF IsFact, Actions
  <2>5. HasLegs(f, book.allocated) /\ Fits(f, Past(f.acc, f.eff)) BY <2>3 DEF HasLegs, Fits, Actions
  <2>6. Recorded(f) BY <1>0, <2>1, <2>3 DEF Record, Recorded, f
  <2> QED BY <2>4, <2>5, <2>6
<1>5. CASE Split(acc, inst, eff)
  <2>1. PICK ratio \in Ratios : Divides(ratio, acc, inst, eff) /\ Record(SplitBy(acc, inst, eff, ratio))
    BY <1>5 DEF Split
  <2>2. ratio[1] \in Nat \ {0} /\ ratio[2] \in Nat \ {0} BY LedgerAssumption
  <2> DEFINE held == Held(Past(acc, eff), acc, inst)
             qty == (held * (ratio[1] - ratio[2])) \div ratio[2]
             plain == Fact("split", acc, inst, qty, 0, eff)
             f == [plain EXCEPT !.ratio = ratio]
  <2>3. held \in Int
    <3>1. Past(acc, eff) \in Seq(DOMAIN facts) BY VisibleIsHistory DEF Past
    <3> QED BY <3>1, HeldIsInteger
  <2> HIDE DEF held
  <2>4. qty \in Int BY <2>2, <2>3
  <2> HIDE DEF qty
  <2>5. /\ f.kind = "split" /\ f.inst = inst /\ f.dst = inst /\ f.qty = qty /\ f.value = 0 /\ f.gets = 0
        /\ f.ratio = ratio /\ f.acc = acc /\ f.to = acc /\ f.eff = eff /\ f.known = today
    BY DEF Fact
  <2>6. SplitBy(acc, inst, eff, ratio) = f BY DEF SplitBy, held, qty
  <2> HIDE DEF f
  <2>7. IsFact(f, I) BY <2>2, <2>4, <2>5 DEF IsFact, Actions
  <2>8. HasLegs(f, book.allocated) BY <2>5 DEF HasLegs, Actions
  <2>9. SplitFits(f, Past(acc, eff)) BY <2>1, <2>5 DEF SplitFits, Divides, held, qty
  <2>10. Fits(f, Past(f.acc, f.eff)) BY <2>5, <2>9 DEF Fits
  <2>11. Recorded(f) BY <1>0, <2>1, <2>5, <2>6 DEF Record, Recorded
  <2> QED BY <2>7, <2>8, <2>10, <2>11
<1>6. ASSUME NEW to \in book.accounts, Transfer(acc, to, inst, eff) PROVE Good
  <2>1. PICK n \in {t[1] : t \in book.sells} : \E planned \in {TransferPlan(acc, inst, n, eff)} :
          /\ planned.left = 0 /\ AllKnown(planned.pieces)
          /\ Record([Fact("transfer", acc, inst, -n, 0, eff)
                     EXCEPT !.to = to, !.gets = n, !.parts = planned.pieces])
    BY <1>6 DEF Transfer
  <2> DEFINE parts == TransferPlan(acc, inst, n, eff).pieces
             plain == Fact("transfer", acc, inst, -n, 0, eff)
             f == [plain EXCEPT !.to = to, !.gets = n, !.parts = parts]
  <2>2. n \in Nat \ {0} BY <1>1 DEF IsBook
  <2>3. parts \in CarriedLots BY <2>1, <2>2, PlanTakes
  <2> HIDE DEF parts
  <2>4. /\ f.kind = "transfer" /\ f.inst = inst /\ f.dst = inst /\ f.qty = -n /\ f.value = 0 /\ f.gets = n
        /\ f.ratio = <<1, 1>> /\ f.ratio[1] = 1 /\ f.ratio[2] = 1 /\ f.parts = parts
        /\ f.acc = acc /\ f.to = to /\ f.eff = eff /\ f.known = today
    BY DEF Fact
  <2>5. Record(f) BY <2>1 DEF parts
  <2> HIDE DEF f
  <2>6. IsFact(f, I) BY <2>2, <2>3, <2>4 DEF IsFact, Actions
  <2> DEFINE past == Past(acc, eff)
             r == ReplayFifo(acc, past)
             taken == Take(r.lots, Ordered(r.lots, inst, "long", "fifo"), n)
             planned == TransferPlan(acc, inst, n, eff)
  <2>7. planned = [taken EXCEPT !.left = IF r.ok THEN taken.left ELSE n] BY DEF TransferPlan
  <2>8. TakenFrom(r.lots, taken, Open(r.lots, inst, "long"), "fifo", n, I) /\ taken \in Takes(I, Len(r.lots))
    <3>1. past \in Seq(DOMAIN facts) BY VisibleIsHistory DEF Past
    <3>2. PICK run : FifoRun(run, I, acc, past) /\ r = run[Len(past)]
      <4> HIDE DEF past
      <4> QED BY <3>1, ReplayFifoRuns
    <3>3. r.lots \in Seq(LotsOf(I))
      <4> HIDE DEF past, r
      <4>1. Len(past) \in 0..Len(past) BY <3>1
      <4> QED BY <3>2, <4>1 DEF FifoRun, Sounds, Replays
    <3> HIDE DEF r
    <3> QED BY <2>2, <3>3, TakeOpen, TakeOpenTyped
  <2>9. planned.left = 0 /\ AllKnown(planned.pieces) /\ planned.pieces = parts BY <2>1 DEF parts
  <2> HIDE DEF taken, past, planned
  <2>10. /\ taken.left \in Nat /\ QuantityOf(taken.pieces, DOMAIN taken.pieces) + taken.left = n
         /\ QuantityOf(taken.pieces, DOMAIN taken.pieces) \in Int
    <3> DEFINE C == Open(r.lots, inst, "long")
               S == DOMAIN r.lots
    <3>1. C \subseteq S BY DEF Open
    <3> HIDE DEF C, S, r
    <3>2. taken.left \in Nat /\ taken.pieces \in Seq(Pieces) BY <2>8 DEF TakenFrom, C
    <3>3. Conserves(taken, r.lots, n, S) BY <2>8, <3>1 DEF TakenFrom, C, S
    <3>4. QuantityOf(taken.pieces, DOMAIN taken.pieces) \in Int
      <4> DEFINE P == taken.pieces
      <4>1. IsFiniteSet(DOMAIN P) BY <3>2, FS_Interval
      <4>2. \A p \in DOMAIN P : P[p].qty \in Int /\ P[p].val \in Values
        <5>1. \A p \in DOMAIN P : P[p] \in Pieces BY <3>2
        <5> QED BY <5>1 DEF Pieces
      <4> HIDE DEF P
      <4>3. QuantityOf(P, DOMAIN P) \in Int BY <4>1, <4>2, SumsAreIntegers
      <4> QED BY <4>3 DEF P
    <3> QED BY <3>2, <3>3, <3>4 DEF Conserves
  <2>11. planned.pieces = taken.pieces /\ planned.left = (IF r.ok THEN taken.left ELSE n)
    BY <2>7, <2>8 DEF Takes
  <2>12. r.ok /\ taken.left = 0 /\ parts = taken.pieces /\ AllKnown(taken.pieces)
    BY <2>2, <2>9, <2>11
  <2>13. QuantityOf(parts, DOMAIN parts) = n BY <2>2, <2>10, <2>12
  <2>14. HasLegs(f, book.allocated) BY <1>6, <2>2, <2>4, <2>13 DEF HasLegs, Transfer, Actions
  <2>15. -f.qty = n BY <2>2, <2>4
  <2>16. TransferFits(f, Past(f.acc, f.eff)) BY <2>4, <2>12, <2>15 DEF TransferFits, taken, past
  <2>17. Fits(f, Past(f.acc, f.eff)) BY <2>4, <2>16 DEF Fits
  <2>18. Recorded(f) BY <1>0, <2>4, <2>5 DEF Record, Recorded
  <2> QED BY <2>6, <2>14, <2>17, <2>18
<1>7. ASSUME NEW kind \in Actions, NEW dst \in I, NEW qty \in Int, NEW gets \in Nat, NEW cash \in Int,
             NEW parts, IsAllocation(parts), book.allocated => parts # <<>>,
             kind = "spin_off" => qty = 0 /\ gets > 0,
             kind # "spin_off" /\ parts # <<>> => parts[1].qty = -qty /\ (gets = 0 => parts[1].carried = 0),
             cash >= 0,
             Action(kind, acc, inst, dst, qty, gets, cash, eff, parts)
      PROVE  Good
  <2> DEFINE plain == Fact(kind, acc, inst, qty, cash, eff)
             f == [plain EXCEPT !.dst = dst, !.gets = gets, !.parts = parts]
  <2>1. /\ f.kind = kind /\ f.inst = inst /\ f.dst = dst /\ f.qty = qty /\ f.value = cash /\ f.gets = gets
        /\ f.ratio = <<1, 1>> /\ f.ratio[1] = 1 /\ f.ratio[2] = 1 /\ f.parts = parts
        /\ f.acc = acc /\ f.to = acc /\ f.eff = eff /\ f.known = today
    BY DEF Fact
  <2>2. Record(f) BY <1>7 DEF Action
  <2> HIDE DEF f
  <2>3. IsFact(f, I) BY <1>7, <2>1 DEF IsFact, Actions
  <2>4. HasLegs(f, book.allocated) BY <1>7, <2>1 DEF HasLegs, Actions
  <2>5. Fits(f, Past(f.acc, f.eff)) BY <2>1 DEF Fits, Actions
  <2>6. Recorded(f) BY <1>0, <2>1, <2>2 DEF Record, Recorded
  <2> QED BY <2>3, <2>4, <2>5, <2>6
<1>8. IsAllocation(<<>>) BY DEF IsAllocation
<1>9. CASE ActOn(acc, inst, eff)
  <2> DEFINE held == Held(Past(acc, eff), acc, inst)
             basis == TrueBasis(acc, inst, eff)
  <2>1. \/ \E dst \in I : Merger(acc, inst, dst, eff, held, basis) \/ SpinOffOf(acc, inst, dst, eff, held, basis)
        \/ CashInLieu(acc, inst, eff, held, basis)
    BY <1>9 DEF ActOn
  <2>2. held >= 0 => basis \in Int /\ held \in Nat BY BasisIsInteger
  <2> HIDE DEF held, basis
  <2>3. ASSUME NEW dst \in I, Merger(acc, inst, dst, eff, held, basis) PROVE Good
    <3>1. PICK toCash \in {0, 2} :
            Action("merger", acc, inst, dst, -held, 2, IF toCash = 0 THEN 0 ELSE 3, eff,
                   Allocation(held, basis, basis - toCash))
      BY <2>3 DEF Merger
    <3>2. held \in Nat /\ basis \in Int BY <2>2, <2>3 DEF Merger
    <3> DEFINE parts == Allocation(held, basis, basis - toCash)
    <3>3. IsAllocation(parts) /\ parts # <<>> /\ parts[1].qty = held
      <4>1. basis - toCash \in Int /\ parts = Allocation(held, basis, basis - toCash) BY <3>2
      <4> HIDE DEF parts
      <4> QED BY ONLY <3>2, <4>1 DEF Allocation, IsAllocation
    <3>4. /\ -held \in Int /\ (IF toCash = 0 THEN 0 ELSE 3) \in Int /\ held = -(-held)
          /\ (IF toCash = 0 THEN 0 ELSE 3) >= 0
      BY <3>2
    <3>5. "merger" \in Actions BY DEF Actions
    <3>6. Action("merger", acc, inst, dst, -held, 2, IF toCash = 0 THEN 0 ELSE 3, eff, parts) BY <3>1
    <3> DEFINE cash == IF toCash = 0 THEN 0 ELSE 3
               qty == -held
    <3>7. 2 \in Nat /\ 2 # 0 /\ "merger" # "spin_off" OBVIOUS
    <3> HIDE DEF Good, parts, cash, qty
    <3>8. Action("merger", acc, inst, dst, qty, 2, cash, eff, parts) /\ qty \in Int /\ cash \in Int
          /\ cash >= 0 /\ parts[1].qty = -qty
      BY <3>3, <3>4, <3>6 DEF cash, qty
    <3> QED BY <1>7, <2>3, <3>3, <3>5, <3>7, <3>8
  <2>4. ASSUME NEW dst \in I, SpinOffOf(acc, inst, dst, eff, held, basis) PROVE Good
    <3>1. PICK carried \in {0, 2} :
            Action("spin_off", acc, inst, dst, 0, 2, 0, eff, Allocation(held, basis, carried))
      BY <2>4 DEF SpinOffOf
    <3>2. held \in Nat /\ basis \in Int BY <2>2, <2>4 DEF SpinOffOf
    <3> DEFINE parts == Allocation(held, basis, carried)
    <3>3. IsAllocation(parts) /\ parts # <<>>
      <4>1. carried \in Int /\ parts = Allocation(held, basis, carried) OBVIOUS
      <4> HIDE DEF parts
      <4> QED BY ONLY <3>2, <4>1 DEF Allocation, IsAllocation
    <3>5. "spin_off" \in Actions BY DEF Actions
    <3>6. Action("spin_off", acc, inst, dst, 0, 2, 0, eff, parts) BY <3>1
    <3> HIDE DEF Good, parts
    <3> QED BY <1>7, <2>4, <3>3, <3>5, <3>6
  <2>5. ASSUME CashInLieu(acc, inst, eff, held, basis) PROVE Good
    <3> DEFINE parts == IF book.allocated THEN Allocation(held, basis, 0) ELSE <<>>
    <3>1. Action("cash_in_lieu", acc, inst, inst, -held, 0, 4, eff, parts)
      BY <2>5 DEF CashInLieu
    <3>2. held > 0 /\ (held >= 0 => held \in Nat /\ basis \in Int) BY <2>2, <2>5 DEF CashInLieu
    <3>3. held \in Nat /\ basis \in Int
      <4>1. CASE held >= 0 BY <4>1, <3>2
      <4>2. CASE ~(held >= 0)
        <5>1. held \in Int
          <6>1. Past(acc, eff) \in Seq(DOMAIN facts) BY VisibleIsHistory DEF Past
          <6> QED BY <6>1, HeldIsInteger DEF held
        <5> QED BY <3>2, <4>2, <5>1
      <4> QED BY <4>1, <4>2
    <3>4. IsAllocation(parts) /\ (book.allocated => parts # <<>>) /\ (parts # <<>> => parts[1].qty = held /\ parts[1].carried = 0)
      <4> DEFINE some == Allocation(held, basis, 0)
      <4>1. parts = some \/ (parts = <<>> /\ ~book.allocated) OBVIOUS
      <4>2. 0 \in Int OBVIOUS
      <4> HIDE DEF parts
      <4>3. IsAllocation(some) /\ some # <<>> /\ some[1].qty = held /\ some[1].carried = 0
        BY ONLY <3>3, <4>2 DEF Allocation, IsAllocation, some
      <4> HIDE DEF parts, some
      <4> QED BY <1>8, <4>1, <4>3
    <3>5. "cash_in_lieu" \in Actions /\ -held \in Int /\ held = -(-held) BY <3>3 DEF Actions
    <3> HIDE DEF Good, parts
    <3> QED BY <1>7, <3>1, <3>4, <3>5
  <2> QED BY <2>1, <2>3, <2>4, <2>5
<1> QED BY <1>2, <1>3, <1>4, <1>5, <1>6, <1>9 DEF RecordIn

\* The book stays, and the facts are of its instruments.
BookInv == book \in Books /\ AreFacts(book.instruments)

LEMMA BookInvHolds == LedgerSpec => []BookInv
<1>1. LedgerInit => BookInv
  BY DEF LedgerInit, BookInv, AreFacts
<1>2. HistoryInv /\ HistoryInv' /\ BookInv /\ [LedgerNext]_ledgerVars => BookInv'
  <2> SUFFICES ASSUME HistoryInv, HistoryInv', BookInv, [LedgerNext]_ledgerVars PROVE BookInv'
    OBVIOUS
  <2>1. ASSUME NEW acc \in book.accounts, NEW inst \in book.instruments, NEW eff \in EffectiveDays,
               RecordIn(acc, inst, eff)
        PROVE  BookInv'
    <3>1. PICK fact : facts' = Append(facts, fact) /\ IsFact(fact, book.instruments)
      BY SMTT(30), <2>1, RecordsFact DEF BookInv, Recorded
    <3>2. book' = book
      BY <2>1 DEF RecordIn, Buy, Sell, Move, Split, Transfer, ActOn, Merger, SpinOffOf, CashInLieu, Action, Record
    <3>3. /\ DOMAIN facts' = 1..(Len(facts) + 1) /\ DOMAIN facts = 1..Len(facts) /\ Len(facts) \in Nat
          /\ facts'[Len(facts) + 1] = fact
          /\ \A i \in DOMAIN facts : facts'[i] = facts[i]
      BY <3>1 DEF HistoryInv
    <3>4. \A i \in DOMAIN facts' : IsFact(facts'[i], book'.instruments)
      BY <3>1, <3>2, <3>3 DEF BookInv, AreFacts
    <3>5. facts' \in Seq({facts'[i] : i \in DOMAIN facts'}) BY DEF HistoryInv
    <3> QED BY <3>2, <3>4, <3>5 DEF BookInv, AreFacts
  <2>2. CASE NextDay BY <2>2 DEF NextDay, BookInv, AreFacts
  <2>3. CASE UNCHANGED ledgerVars BY <2>3 DEF ledgerVars, BookInv, AreFacts
  <2> QED BY <2>1, <2>2, <2>3 DEF LedgerNext
<1> QED BY <1>1, <1>2, HistoryInvHolds, PTL DEF LedgerSpec

\* The report on a history, and the one on the history without its last fact.
LEMMA ReportSteps ==
  ASSUME NEW I, AreFacts(I), NEW acc, NEW history \in Seq(DOMAIN facts), NEW method, NEW short,
         history # <<>>, ReplayLots(acc, history, method, short).ok
  PROVE  LET before == ReplayLots(acc, Front(history), method, short)
         IN  /\ before \in Replays(I) /\ Numbered(before) /\ Last(history) \in DOMAIN facts
             /\ ReplayLots(acc, history, method, short) = LotStep(acc, method, short, before, Last(history))
<1> DEFINE len == Len(history)
<1>1. len \in 1..Len(history) /\ len - 1 \in 0..len /\ len \in 0..len /\ history[len] \in DOMAIN facts
  OBVIOUS
<1>2. PICK run : /\ LotsRun(run, I, acc, history, method, short)
                 /\ ReplayLots(acc, history, method, short) = run[len]
  BY ReplayLotsRuns
<1>3. ReplayLots(acc, Front(history), method, short) = run[len - 1]
  BY <1>1, <1>2, LotsOfPrefix DEF Front
<1>4. run[len - 1] \in Replays(I) /\ Numbered(run[len - 1]) BY <1>1, <1>2 DEF LotsRun, Sounds
<1>5. run[len] = IF run[len - 1].ok THEN LotStep(acc, method, short, run[len - 1], history[len]) ELSE run[len - 1]
  BY <1>1, <1>2 DEF LotsRun
<1>6. run[len] = LotStep(acc, method, short, run[len - 1], history[len])
  <2>1. run[len].ok BY <1>2
  <2> QED BY <1>5, <2>1
<1> QED BY <1>1, <1>2, <1>3, <1>4, <1>6 DEF Last

\* The lots a trade closes are those that its method prefers.
LEMMA TradeKeepsOrder ==
  ASSUME NEW I, NEW r \in Replays(I), Numbered(r), NEW s, NEW taken, NEW f, NEW i, NEW side, NEW method,
         TradeOf(s, r, taken, f, i, side, method, I), Unknown \notin Int,
         NEW j \in DOMAIN r.lots, NEW k \in DOMAIN r.lots,
         r.lots[j].inst = r.lots[k].inst, r.lots[j].side = r.lots[k].side,
         s.lots[j].qty < r.lots[j].qty, s.lots[k].qty > 0
  PROVE  ~Prefers(r.lots, method, k, j)
<1> DEFINE chosen == Open(r.lots, f.inst, OpposedSide(side))
<1>1. r.lots \in Seq(LotsOf(I)) BY DEF Replays
<1>2. TakenFrom(r.lots, taken, chosen, method, Size(f), I) BY DEF TradeOf
<1>3. /\ taken.lots \in Seq(LotsOf(I)) /\ Len(taken.lots) = Len(r.lots)
      /\ DOMAIN taken.lots = DOMAIN r.lots
  <2> HIDE DEF chosen
  <2>1. taken.lots \in Seq(LotsOf(I)) /\ Len(taken.lots) = Len(r.lots) BY <1>2 DEF TakenFrom
  <2> QED BY <1>1, <2>1
<1>4. s.lots[j] = taken.lots[j] /\ s.lots[k] = taken.lots[k]
  <2>1. CASE s.lots = taken.lots BY <2>1
  <2>2. CASE \E lot : s.lots = Append(taken.lots, lot) BY <1>3, <2>2
  <2> QED BY <2>1, <2>2 DEF TradeOf
<1>5. r.lots[j] \in LotsOf(I) /\ r.lots[k] \in LotsOf(I) /\ taken.lots[j] \in LotsOf(I) /\ taken.lots[k] \in LotsOf(I)
  BY <1>1, <1>3
<1>6. /\ r.lots[j].qty \in Nat /\ r.lots[k].qty \in Nat /\ taken.lots[j].qty \in Nat /\ taken.lots[k].qty \in Nat
  BY <1>5, LotFields
<1>7. j \in chosen
  <2> HIDE DEF chosen
  <2>1. j \notin chosen => taken.lots[j] = r.lots[j] BY <1>2 DEF TakenFrom
  <2> QED BY <1>4, <1>6, <2>1
<1>8. r.lots[k].qty > 0
  <2> HIDE DEF chosen
  <2>1. LeftOf(taken.lots[k], r.lots[k]) BY <1>2 DEF TakenFrom
  <2> QED BY <1>4, <1>6, <2>1 DEF LeftOf
<1>9. k \in chosen BY <1>7, <1>8 DEF Open
<1>10. ASSUME Prefers(r.lots, method, k, j) PROVE FALSE
  <2> HIDE DEF chosen
  <2>1. taken.lots[k].qty = 0 BY <1>2, <1>4, <1>7, <1>9, <1>10 DEF TakenFrom
  <2> QED BY <1>4, <1>6, <2>1
<1> QED BY <1>10

\* Under every accounting policy of every ledger, a trade closes the lots in the
\* order of the method: lots are numbered as they are opened, the replay of the
\* history without the trade is where it starts, and what it takes is greedy.
THEOREM LotsCloseInMethodOrder == LedgerSpec => []ClosedInMethodOrder
<1>1. HistoryInv /\ BookInv => ClosedInMethodOrder
  <2> SUFFICES ASSUME HistoryInv, BookInv, NEW acc \in book.accounts, NEW method \in book.methods
               PROVE  LET history == Visible(acc, today, today)
                          after   == ReplayLots(acc, history, method, book.short).lots
                          before  == ReplayLots(acc, Front(history), method, book.short).lots
                          Better(k, j) == CASE method = "fifo" -> k < j
                                            [] method = "lifo" -> k > j /\ before[k].seq # before[j].seq
                                            [] method = "hifo" -> Dearer(before[k], before[j])
                      IN  /\ history # <<>>
                          /\ facts[Last(history)].kind \in {"buy", "sell"}
                          /\ ReplayLots(acc, history, method, book.short).ok
                          => \A j, k \in DOMAIN before :
                               /\ before[j].inst = before[k].inst /\ before[j].side = before[k].side
                               /\ after[j].qty < before[j].qty /\ after[k].qty > 0
                               => ~Better(k, j)
    BY DEF ClosedInMethodOrder
  <2> DEFINE I == book.instruments
             history == Visible(acc, today, today)
             s == ReplayLots(acc, history, method, book.short)
             r == ReplayLots(acc, Front(history), method, book.short)
             i == Last(history)
             Better(k, j) == CASE method = "fifo" -> k < j
                               [] method = "lifo" -> k > j /\ r.lots[k].seq # r.lots[j].seq
                               [] method = "hifo" -> Dearer(r.lots[k], r.lots[j])
  <2> SUFFICES ASSUME history # <<>>, facts[i].kind \in {"buy", "sell"}, s.ok,
                      NEW j \in DOMAIN r.lots, NEW k \in DOMAIN r.lots,
                      r.lots[j].inst = r.lots[k].inst, r.lots[j].side = r.lots[k].side,
                      s.lots[j].qty < r.lots[j].qty, s.lots[k].qty > 0
               PROVE  ~Better(k, j)
    OBVIOUS
  <2>1. /\ AreFacts(I) /\ method \in {"fifo", "lifo", "hifo"} /\ Unknown \notin Int
    BY LedgerAssumption DEF BookInv, IsBook
  <2>2. history \in Seq(DOMAIN facts) BY VisibleIsHistory
  <2> HIDE DEF history
  <2>3. r \in Replays(I) /\ Numbered(r) /\ i \in DOMAIN facts /\ s = LotStep(acc, method, book.short, r, i)
    BY <2>1, <2>2, ReportSteps
  <2> HIDE DEF r, s, i, I
  <2> DEFINE side == IF facts[i].kind = "buy" THEN "long" ELSE "short"
             taken == Take(r.lots, Ordered(r.lots, facts[i].inst, OpposedSide(side), method), Size(facts[i]))
  <2>4. s = Trade(r, i, side, method)
    <3>1. s = Raise(r) \/ s = Trade(r, i, side, method) BY <2>3 DEF LotStep
    <3>2. ~Raise(r).ok BY <2>3, RaiseTouches
    <3> QED BY <3>1, <3>2
  <2>5. side \in Sides BY DEF Sides
  <2> HIDE DEF side
  <2>6. TradeOf(s, r, taken, facts[i], i, side, method, I)
    BY <2>1, <2>3, <2>4, <2>5, TradeTrades
  <2> HIDE DEF taken
  <2>7. ~Prefers(r.lots, method, k, j) BY <2>1, <2>3, <2>6, TradeKeepsOrder
  <2>8. /\ j \in Nat /\ k \in Nat
        /\ r.lots[j].seq \in Nat /\ r.lots[k].seq \in Nat
        /\ j < k => r.lots[j].seq <= r.lots[k].seq
        /\ k < j => r.lots[k].seq <= r.lots[j].seq
    <3>1. r.lots \in Seq(LotsOf(I)) BY <2>3 DEF Replays
    <3>2. r.lots[j] \in LotsOf(I) /\ r.lots[k] \in LotsOf(I) BY <3>1
    <3> QED BY <2>3, <3>1, <3>2, LotFields DEF Numbered
  <2>9. Better(k, j) => Prefers(r.lots, method, k, j)
    <3>1. CASE method = "fifo" BY <2>8, <3>1 DEF Prefers, Ahead
    <3>2. CASE method = "lifo" BY <2>8, <3>2 DEF Prefers, Ahead
    <3>3. CASE method = "hifo" BY <3>3 DEF Prefers, Ahead
    <3> QED BY <2>1, <3>1, <3>2, <3>3
  <2> QED BY <2>7, <2>9
<1> QED BY <1>1, HistoryInvHolds, BookInvHolds, PTL

\* A lot of an action gives its number to the next lot too; in a ledger without
\* actions every lot that is reported has a number of its own, so that "newer" is
\* never in doubt.
NumbersAreOnce ==
  \A acc \in book.accounts, asOf, known \in Nat, method \in book.methods :
    (\A i \in DOMAIN facts : facts[i].kind \notin Actions) => NumberedOnce(Report(acc, asOf, known, method))

\* So the sort keys of replay_lots() order the lots of a ledger without actions in one
\* way (_ordered_candidates() of analytics/lot_accounting.py).
THEOREM LotsAreNumberedOnce == LedgerSpec => []NumbersAreOnce
<1>1. HistoryInv /\ BookInv => NumbersAreOnce
  <2> SUFFICES ASSUME HistoryInv, BookInv, NEW acc, NEW asOf, NEW known, NEW method,
                      \A i \in DOMAIN facts : facts[i].kind \notin Actions
               PROVE  NumberedOnce(Report(acc, asOf, known, method))
    BY DEF NumbersAreOnce
  <2> DEFINE I == book.instruments
             history == Visible(acc, asOf, known)
  <2>1. AreFacts(I) BY DEF BookInv
  <2>2. history \in Seq(DOMAIN facts) BY VisibleIsHistory
  <2> HIDE DEF history, I
  <2>3. PICK run : /\ LotsRun(run, I, acc, history, method, book.short)
                   /\ ReplayLots(acc, history, method, book.short) = run[Len(history)]
    BY <2>1, <2>2, ReplayLotsRuns
  <2>4. \A n \in DOMAIN history : facts[history[n]].kind \notin Actions BY <2>2
  <2>5. Len(history) \in 0..Len(history) BY <2>2
  <2>6. NumberedOnce(run[Len(history)]) BY <2>1, <2>2, <2>3, <2>4, <2>5, RunNumbersOnce
  <2> QED BY <2>3, <2>6 DEF Report, history
<1> QED BY <1>1, HistoryInvHolds, BookInvHolds, PTL

Listed(h, m) == {h[k] : k \in 1..m}

\* A sequence without repetitions has as many elements as it is long.
LEMMA ListedOnce ==
  ASSUME NEW S, NEW h \in Seq(S), \A k, l \in DOMAIN h : k < l => h[k] # h[l], NEW m \in 0..Len(h)
  PROVE  IsFiniteSet(Listed(h, m)) /\ Cardinality(Listed(h, m)) = m
<1> DEFINE E(n) == {h[k] : k \in 1..n}
           Q == {n \in 0..Len(h) : IsFiniteSet(E(n)) /\ Cardinality(E(n)) = n}
<1>1. Len(h) \in Nat /\ DOMAIN h = 1..Len(h) OBVIOUS
<1>2. 0 \in Q
  <2>1. E(0) = {} OBVIOUS
  <2>2. IsFiniteSet(E(0)) /\ Cardinality(E(0)) = 0
    <3> HIDE DEF E
    <3> QED BY <2>1, FS_EmptySet
  <2> QED BY <1>1, <2>2
<1>3. ASSUME NEW n \in 1..Len(h), n - 1 \in Q PROVE n \in Q
  <2>1. n \in Nat /\ n - 1 \in 0..Len(h) /\ n \in 0..Len(h) BY <1>1
  <2>2. E(n) = E(n - 1) \cup {h[n]}
    <3>1. 1..n = 1..(n - 1) \cup {n} BY <2>1
    <3> QED BY <3>1
  <2>3. h[n] \notin E(n - 1) BY <1>1, <2>1
  <2>4. IsFiniteSet(E(n - 1)) /\ Cardinality(E(n - 1)) = n - 1 BY <1>3
  <2> DEFINE U == E(n - 1)
             x == h[n]
  <2>5. E(n) = U \cup {x} /\ x \notin U /\ IsFiniteSet(U) /\ Cardinality(U) = n - 1 BY <2>2, <2>3, <2>4
  <2> HIDE DEF U, E, x
  <2>6. IsFiniteSet(U \cup {x}) /\ Cardinality(U \cup {x}) = Cardinality(U) + 1 BY <2>5, FS_AddElement
  <2>7. IsFiniteSet(E(n)) /\ Cardinality(E(n)) = n BY <2>1, <2>5, <2>6
  <2> QED BY <2>1, <2>7
<1> HIDE DEF Q
<1>4. m \in Q BY <1>1, <1>2, <1>3, CountUp
<1> QED BY <1>4 DEF Q, Listed

\* There is only one sequence of the elements of a set in a total order.
LEMMA SortedIsOnly ==
  ASSUME NEW S, IsFiniteSet(S), NEW before, TotallyOrders(before, S),
         NEW h \in Seq(S), \A x \in S : \E k \in DOMAIN h : h[k] = x,
         \A k, l \in DOMAIN h : k < l => <<h[k], h[l]>> \in before
  PROVE  h = Sorted(S, before)
<1>1. Len(h) \in Nat /\ DOMAIN h = 1..Len(h) /\ \A k \in DOMAIN h : h[k] \in S OBVIOUS
<1>2. \A k, l \in DOMAIN h : k < l => h[k] # h[l] BY <1>1 DEF TotallyOrders
<1>3. Cardinality(S) = Len(h)
  <2>1. S = Listed(h, Len(h)) BY <1>1 DEF Listed
  <2>2. Len(h) \in 0..Len(h) BY <1>1
  <2> QED BY <1>2, <2>1, <2>2, ListedOnce
<1>4. ASSUME NEW n \in 1..Len(h) PROVE Position(h[n], S, before) = n - 1
  <2>1. \A k \in DOMAIN h : <<h[k], h[n]>> \in before <=> k < n
    <3> SUFFICES ASSUME NEW k \in DOMAIN h, <<h[k], h[n]>> \in before PROVE k < n
      BY <1>1
    <3>1. k \in Nat /\ n \in Nat /\ n \in DOMAIN h BY <1>1
    <3>2. k # n BY <1>1, <3>1 DEF TotallyOrders
    <3>3. CASE n < k
      <4>1. <<h[n], h[k]>> \in before BY <3>1, <3>3
      <4>2. h[n] \in S /\ h[k] \in S BY <1>1, <3>1
      <4> QED BY <4>1, <4>2 DEF TotallyOrders
    <3> QED BY <3>1, <3>2, <3>3
  <2>2. {y \in S : <<y, h[n]>> \in before} = {h[k] : k \in 1..(n - 1)}
    <3>1. ASSUME NEW y \in S, <<y, h[n]>> \in before PROVE y \in {h[k] : k \in 1..(n - 1)}
      <4>1. PICK k \in DOMAIN h : h[k] = y OBVIOUS
      <4>2. k \in 1..(n - 1) BY <1>1, <2>1, <3>1, <4>1
      <4> QED BY <4>1, <4>2
    <3>2. ASSUME NEW k \in 1..(n - 1) PROVE h[k] \in S /\ <<h[k], h[n]>> \in before
      <4>1. k \in DOMAIN h /\ k < n BY <1>1
      <4> QED BY <1>1, <2>1, <4>1
    <3> QED BY <3>1, <3>2
  <2>3. n - 1 \in 0..Len(h) BY <1>1
  <2>4. Cardinality({h[k] : k \in 1..(n - 1)}) = n - 1
    <3> DEFINE m == n - 1
    <3>1. m \in 0..Len(h) BY <2>3
    <3> HIDE DEF m
    <3>2. Cardinality(Listed(h, m)) = m BY <1>2, <3>1, ListedOnce
    <3> QED BY <3>2 DEF m, Listed
  <2> QED BY <2>2, <2>4 DEF Position
<1>5. \A x \in S : Sorted(S, before)[Position(x, S, before) + 1] = x BY SortedHasEach
<1>6. ASSUME NEW n \in 1..Len(h) PROVE h[n] = Sorted(S, before)[n]
  <2>1. h[n] \in S /\ n \in Nat /\ (n - 1) + 1 = n BY <1>1
  <2> QED BY <1>4, <1>5, <2>1
<1>7. Sorted(S, before) = [n \in 1..Len(h) |-> Sorted(S, before)[n]] BY <1>3 DEF Sorted
<1>8. h = [n \in 1..Len(h) |-> h[n]] BY <1>1
<1> HIDE <1>1
<1> QED BY <1>6, <1>7, <1>8

-----------------------------------------------------------------------------
(* Facts in effective order *)

InEffect(S) == Sorted(S, {p \in S \X S : Earlier(p[1], p[2])})

\* Each fact once, in effective order.
LEMMA HistoryOf ==
  ASSUME HistoryInv, NEW S \in SUBSET DOMAIN facts
  PROVE  /\ InEffect(S) \in Seq(S) /\ InEffect(S) \in Seq(DOMAIN facts)
         /\ \A i \in S : \E n \in DOMAIN InEffect(S) : InEffect(S)[n] = i
         /\ \A m, n \in DOMAIN InEffect(S) : m < n => Earlier(InEffect(S)[m], InEffect(S)[n])
<1> DEFINE before == {p \in S \X S : Earlier(p[1], p[2])}
           order == InEffect(S)
<1>1. order = Sorted(S, before) BY DEF InEffect
<1>2. IsFiniteSet(S)
  <2>1. DOMAIN facts = 1..Len(facts) /\ Len(facts) \in Nat BY DEF HistoryInv
  <2>2. IsFiniteSet(1..Len(facts)) BY <2>1, FS_Interval
  <2> QED BY <2>1, <2>2, FS_Subset
<1>4. TotallyOrders(before, S) BY EarlierIsTotal
<1>5. \A i, j \in S : <<i, j>> \in before <=> Earlier(i, j) OBVIOUS
<1> HIDE DEF before, order
<1>6. Cardinality(S) \in Nat BY <1>2, FS_CardinalityType
<1>7. /\ \A n \in 1..Cardinality(S) : order[n] \in S /\ Position(order[n], S, before) = n - 1
      /\ \A i \in S : order[Position(i, S, before) + 1] = i
  BY <1>1, <1>2, <1>4, SortedHasEach
<1>8. \A i \in S : Position(i, S, before) \in 0..(Cardinality(S) - 1)
  BY <1>2, <1>4, PositionsFollowOrder
<1>9. \A i, j \in S : Earlier(i, j) => Position(i, S, before) < Position(j, S, before)
  BY <1>2, <1>4, <1>5, PositionsFollowOrder
<1>10. order = [n \in 1..Cardinality(S) |-> order[n]] BY <1>1 DEF Sorted
<1>11. order \in Seq(S) /\ order \in Seq(DOMAIN facts) /\ DOMAIN order = 1..Cardinality(S)
  BY <1>6, <1>7, <1>10, IsASeq
<1>12. \A n \in DOMAIN order : order[n] \in S BY <1>7, <1>11
<1>13. \A i \in S : \E n \in DOMAIN order : order[n] = i
  <2> SUFFICES ASSUME NEW i \in S PROVE \E n \in DOMAIN order : order[n] = i
    OBVIOUS
  <2>1. Position(i, S, before) + 1 \in 1..Cardinality(S) BY <1>6, <1>8
  <2> QED BY <2>1, <1>7, <1>11
<1>14. ASSUME NEW m \in DOMAIN order, NEW n \in DOMAIN order, m < n
       PROVE  Earlier(order[m], order[n])
  <2>1. Position(order[m], S, before) = m - 1 /\ Position(order[n], S, before) = n - 1
    BY <1>7, <1>11
  <2>2. m \in Nat /\ n \in Nat BY <1>6, <1>11
  <2>3. order[m] \in S /\ order[n] \in S BY <1>12
  <2>4. order[m] # order[n] BY <1>14, <2>1, <2>2
  <2>5. ~Earlier(order[n], order[m]) BY <1>9, <1>14, <2>1, <2>2, <2>3
  <2> QED BY <1>4, <1>5, <2>3, <2>4, <2>5 DEF TotallyOrders
<1> QED BY <1>11, <1>13, <1>14 DEF order

LEMMA HistoryIsOnly ==
  ASSUME HistoryInv, NEW S \in SUBSET DOMAIN facts, NEW h \in Seq(S),
         \A i \in S : \E n \in DOMAIN h : h[n] = i,
         \A m, n \in DOMAIN h : m < n => Earlier(h[m], h[n])
  PROVE  h = InEffect(S)
<1> DEFINE before == {p \in S \X S : Earlier(p[1], p[2])}
<1>1. IsFiniteSet(S)
  <2>1. DOMAIN facts = 1..Len(facts) /\ Len(facts) \in Nat BY DEF HistoryInv
  <2>2. IsFiniteSet(1..Len(facts)) BY <2>1, FS_Interval
  <2> QED BY <2>1, <2>2, FS_Subset
<1>2. TotallyOrders(before, S) BY EarlierIsTotal
<1>3. \A m, n \in DOMAIN h : m < n => <<h[m], h[n]>> \in before OBVIOUS
<1>4. InEffect(S) = Sorted(S, before) BY DEF InEffect
<1> HIDE DEF before
<1> QED BY <1>1, <1>2, <1>3, <1>4, SortedIsOnly

\* What has happened to an account before a fact, when the fact was recorded.
Before(acc, i) ==
  InEffect({j \in DOMAIN facts : j < i /\ acc \in {facts[j].acc, facts[j].to} /\ facts[j].eff <= facts[i].eff})

\* Where nothing is backdated before a fact, the history before it is that one.
LEMMA PrefixIsBefore ==
  ASSUME HistoryInv, NEW acc, NEW asOf \in Nat, NEW m \in DOMAIN Visible(acc, asOf, today),
         LET i == Visible(acc, asOf, today)[m]
         IN  \A j \in DOMAIN facts : i < j => facts[i].eff <= facts[j].eff
  PROVE  SubSeq(Visible(acc, asOf, today), 1, m - 1) = Before(acc, Visible(acc, asOf, today)[m])
<1> DEFINE h == Visible(acc, asOf, today)
           S == {i \in DOMAIN facts : /\ acc \in {facts[i].acc, facts[i].to}
                                      /\ facts[i].eff <= asOf
                                      /\ facts[i].known <= today}
           i == h[m]
           B == {j \in DOMAIN facts : j < i /\ acc \in {facts[j].acc, facts[j].to} /\ facts[j].eff <= facts[i].eff}
           first == SubSeq(h, 1, m - 1)
<1>1. h = InEffect(S) BY DEF Visible, InEffect
<1>2. \A j \in DOMAIN facts : facts[j].known <= today /\ facts[j].eff \in Nat /\ j \in Nat BY DEF HistoryInv
<1>3. \A j \in DOMAIN facts : i < j => facts[i].eff <= facts[j].eff OBVIOUS
<1>4. /\ h \in Seq(S) /\ h \in Seq(DOMAIN facts)
      /\ \A j \in S : \E n \in DOMAIN h : h[n] = j
      /\ \A k, n \in DOMAIN h : k < n => Earlier(h[k], h[n])
  <2>1. S \in SUBSET DOMAIN facts OBVIOUS
  <2> HIDE DEF S, h
  <2> QED BY <1>1, <2>1, HistoryOf
<1>5. m \in DOMAIN h OBVIOUS
<1> HIDE DEF h
<1>6. m \in 1..Len(h) /\ Len(h) \in Nat /\ DOMAIN h = 1..Len(h) /\ m - 1 \in 0..Len(h) BY <1>4, <1>5
<1>7. i \in S BY <1>4, <1>5
<1>8. facts[i].eff \in Nat /\ facts[i].eff <= asOf /\ i \in DOMAIN facts /\ i \in Nat BY <1>2, <1>7
<1>9. /\ first \in Seq(DOMAIN facts) /\ Len(first) = m - 1 /\ DOMAIN first = 1..(m - 1)
      /\ \A n \in 1..(m - 1) : first[n] = h[n]
  BY <1>4, <1>6, PrefixOf
<1> HIDE DEF first, i
<1>10. ASSUME NEW n \in 1..(m - 1) PROVE h[n] \in B
  <2>1. n \in DOMAIN h /\ n < m BY <1>6
  <2>2. Earlier(h[n], i) /\ h[n] \in S BY <1>4, <1>5, <2>1 DEF i
  <2>3. h[n] \in DOMAIN facts /\ h[n] \in Nat /\ facts[h[n]].eff \in Nat BY <1>2, <2>2
  <2>4. h[n] < i /\ facts[h[n]].eff <= facts[i].eff BY <1>3, <1>8, <2>2, <2>3 DEF Earlier
  <2> QED BY <2>2, <2>3, <2>4
<1>11. ASSUME NEW j \in B PROVE \E n \in DOMAIN first : first[n] = j
  <2>1. j \in DOMAIN facts /\ j < i /\ facts[j].eff <= facts[i].eff /\ j \in Nat /\ facts[j].eff \in Nat BY <1>2
  <2>2. Earlier(j, i) /\ ~Earlier(i, j) /\ j # i BY <1>8, <2>1 DEF Earlier
  <2>4. j \in S
    <3>1. facts[j].eff <= asOf BY <1>7, <1>8, <2>1
    <3> QED BY <1>2, <2>1, <3>1
  <2>5. PICK n \in DOMAIN h : h[n] = j BY <1>4, <2>4
  <2>6. n < m
    <3>1. n \in Nat /\ m \in Nat BY <1>6
    <3>2. n # m BY <2>2, <2>5 DEF i
    <3>3. ~(m < n) BY <1>4, <1>5, <2>2, <2>5 DEF i
    <3> QED BY <3>1, <3>2, <3>3
  <2>7. n \in 1..(m - 1) BY <1>6, <2>6
  <2> QED BY <1>9, <2>5, <2>7
<1>12. \A k, n \in DOMAIN first : k < n => Earlier(first[k], first[n]) BY <1>4, <1>6, <1>9
<1>13. B \in SUBSET DOMAIN facts OBVIOUS
<1> HIDE DEF B
<1>14. first \in Seq(B) BY <1>9, <1>10, IsASeq
<1>15. first = InEffect(B) BY <1>11, <1>12, <1>13, <1>14, HistoryIsOnly
<1> QED BY <1>15 DEF Before, B, first, i, h

-----------------------------------------------------------------------------
(* What recording leaves alone *)

\* A fact that stays is replayed the same way.
LEMMA LotStepStays ==
  ASSUME NEW acc, NEW method, NEW short, NEW r, NEW i, facts'[i] = facts[i]
  PROVE  LotStep(acc, method, short, r, i)' = LotStep(acc, method, short, r, i)
<1>1. \A side : Trade(r, i, side, method)' = Trade(r, i, side, method) BY DEF Trade, Traded
<1>2. Covered(r, i)' <=> Covered(r, i) BY DEF Covered
<1>3. SpinOff(r, i)' = SpinOff(r, i) BY DEF SpinOff, ActionLot
<1>4. Exchange(r, i)' = Exchange(r, i) BY DEF Exchange, Exchanged, ActionLot
<1>5. SettleInCash(r, i)' = SettleInCash(r, i) BY DEF SettleInCash
<1>6. ApplyAction(r, i)' = ApplyAction(r, i) BY <1>3, <1>4, <1>5 DEF ApplyAction
<1> QED BY <1>1, <1>2, <1>6 DEF LotStep

LEMMA FifoStepStays ==
  ASSUME NEW acc, NEW r, NEW i, facts'[i] = facts[i]
  PROVE  FifoStep(acc, r, i)' = FifoStep(acc, r, i)
<1>1. Trade(r, i, "short", "fifo")' = Trade(r, i, "short", "fifo") BY DEF Trade, Traded
<1>2. Covered(r, i)' <=> Covered(r, i) BY DEF Covered
<1> QED BY <1>1, <1>2 DEF FifoStep

\* What the lemmas say of any state, as predicates that can be primed.
LotsRunAnywhere ==
  \A I, acc, history, method, short :
    AreFacts(I) /\ history \in Seq(DOMAIN facts) =>
      \E run : /\ LotsRun(run, I, acc, history, method, short)
               /\ ReplayLots(acc, history, method, short) = run[Len(history)]

FifoRunAnywhere ==
  \A I, acc, history :
    AreFacts(I) /\ history \in Seq(DOMAIN facts) =>
      \E run : FifoRun(run, I, acc, history) /\ ReplayFifo(acc, history) = run[Len(history)]

HeldAnywhere ==
  \A T, acc, inst : \A history \in Seq(T) :
    Held(history, acc, inst)
      = SumOver([n \in DOMAIN history |-> Delta(facts[history[n]], acc, inst)], DOMAIN history)

LEMMA Anywhere == LotsRunAnywhere /\ FifoRunAnywhere /\ HeldAnywhere
<1>1. LotsRunAnywhere BY ReplayLotsRuns DEF LotsRunAnywhere
<1>2. FifoRunAnywhere BY ReplayFifoRuns DEF FifoRunAnywhere
<1>3. HeldAnywhere BY HeldIsSum DEF HeldAnywhere
<1> QED BY <1>1, <1>2, <1>3

LEMMA LotsStay ==
  ASSUME NEW I, AreFacts(I), AreFacts(I)', NEW acc, NEW h \in Seq(DOMAIN facts), NEW method, NEW short,
         h \in Seq(DOMAIN facts'), \A i \in DOMAIN facts : facts'[i] = facts[i]
  PROVE  ReplayLots(acc, h, method, short)' = ReplayLots(acc, h, method, short)
<1>1. PICK old : LotsRun(old, I, acc, h, method, short) /\ ReplayLots(acc, h, method, short) = old[Len(h)]
  BY ReplayLotsRuns
<1>2. LotsRunAnywhere' BY Anywhere, PTL
<1>3. PICK new : LotsRun(new, I, acc, h, method, short)' /\ ReplayLots(acc, h, method, short)' = new[Len(h)]
  BY <1>2 DEF LotsRunAnywhere
<1> DEFINE Q == {n \in 0..Len(h) : new[n] = old[n]}
<1>4. Len(h) \in Nat /\ \A n \in 1..Len(h) : h[n] \in DOMAIN facts OBVIOUS
<1>5. 0 \in Q BY <1>1, <1>3, <1>4 DEF LotsRun
<1>6. ASSUME NEW n \in 1..Len(h), n - 1 \in Q PROVE n \in Q
  <2>1. new[n - 1] = old[n - 1] /\ n \in 0..Len(h) BY <1>4, <1>6
  <2>2. new[n] = IF new[n - 1].ok THEN LotStep(acc, method, short, new[n - 1], h[n])' ELSE new[n - 1]
    BY <1>3 DEF LotsRun
  <2>3. old[n] = IF old[n - 1].ok THEN LotStep(acc, method, short, old[n - 1], h[n]) ELSE old[n - 1]
    BY <1>1 DEF LotsRun
  <2>4. facts'[h[n]] = facts[h[n]] BY <1>4
  <2>5. LotStep(acc, method, short, new[n - 1], h[n])' = LotStep(acc, method, short, new[n - 1], h[n])
    BY <2>4, LotStepStays
  <2> QED BY <2>1, <2>2, <2>3, <2>5
<1> HIDE DEF Q
<1>7. \A n \in 0..Len(h) : n \in Q BY <1>4, <1>5, <1>6, CountUp
<1>8. Len(h) \in 0..Len(h) BY <1>4
<1> QED BY <1>1, <1>3, <1>7, <1>8 DEF Q

LEMMA FifoStays ==
  ASSUME NEW I, AreFacts(I), AreFacts(I)', NEW acc, NEW h \in Seq(DOMAIN facts),
         h \in Seq(DOMAIN facts'), \A i \in DOMAIN facts : facts'[i] = facts[i]
  PROVE  ReplayFifo(acc, h)' = ReplayFifo(acc, h)
<1>1. PICK old : FifoRun(old, I, acc, h) /\ ReplayFifo(acc, h) = old[Len(h)]
  BY ReplayFifoRuns
<1>2. FifoRunAnywhere' BY Anywhere, PTL
<1>3. PICK new : FifoRun(new, I, acc, h)' /\ ReplayFifo(acc, h)' = new[Len(h)]
  BY <1>2 DEF FifoRunAnywhere
<1> DEFINE Q == {n \in 0..Len(h) : new[n] = old[n]}
<1>4. Len(h) \in Nat /\ \A n \in 1..Len(h) : h[n] \in DOMAIN facts OBVIOUS
<1>5. 0 \in Q BY <1>1, <1>3, <1>4 DEF FifoRun
<1>6. ASSUME NEW n \in 1..Len(h), n - 1 \in Q PROVE n \in Q
  <2>1. new[n - 1] = old[n - 1] /\ n \in 0..Len(h) BY <1>4, <1>6
  <2>2. new[n] = IF new[n - 1].ok THEN FifoStep(acc, new[n - 1], h[n])' ELSE new[n - 1]
    BY <1>3 DEF FifoRun
  <2>3. old[n] = IF old[n - 1].ok THEN FifoStep(acc, old[n - 1], h[n]) ELSE old[n - 1]
    BY <1>1 DEF FifoRun
  <2>4. facts'[h[n]] = facts[h[n]] BY <1>4
  <2>5. FifoStep(acc, new[n - 1], h[n])' = FifoStep(acc, new[n - 1], h[n])
    BY <2>4, FifoStepStays
  <2> QED BY <2>1, <2>2, <2>3, <2>5
<1> HIDE DEF Q
<1>7. \A n \in 0..Len(h) : n \in Q BY <1>4, <1>5, <1>6, CountUp
<1>8. Len(h) \in 0..Len(h) BY <1>4
<1> QED BY <1>1, <1>3, <1>7, <1>8 DEF Q

LEMMA HeldStays ==
  ASSUME NEW acc, NEW inst, NEW h \in Seq(DOMAIN facts), \A i \in DOMAIN facts : facts'[i] = facts[i]
  PROVE  Held(h, acc, inst)' = Held(h, acc, inst)
<1>1. HeldAnywhere' BY Anywhere, PTL
<1> DEFINE old == [n \in DOMAIN h |-> Delta(facts[h[n]], acc, inst)]
           new == [n \in DOMAIN h |-> Delta(facts'[h[n]], acc, inst)]
<1>2. Held(h, acc, inst)' = SumOver(new, DOMAIN h) BY <1>1 DEF HeldAnywhere
<1>3. Held(h, acc, inst) = SumOver(old, DOMAIN h) BY HeldIsSum
<1>4. \A n \in DOMAIN h : h[n] \in DOMAIN facts OBVIOUS
<1>5. new = old BY <1>4
<1> QED BY <1>2, <1>3, <1>5

-----------------------------------------------------------------------------
(* What was worked out when a fact was recorded *)

\* Every fact was made of what was known of the past of its account.
FactsFit ==
  \A i \in DOMAIN facts : \A fact, past :
    fact = facts[i] /\ past = Before(fact.acc, i) => HasLegs(fact, book.allocated) /\ Fits(fact, past)

\* What lies before a recorded fact stays, and before a new one lies the past.
LEMMA BeforeStays ==
  ASSUME HistoryInv, NEW fact, Recorded(fact), NEW n, n = Len(facts) + 1
  PROVE  /\ DOMAIN facts' = 1..n /\ DOMAIN facts = 1..(n - 1) /\ n \in Nat \ {0} /\ facts'[n] = fact
         /\ \A i \in DOMAIN facts : facts'[i] = facts[i]
         /\ \A acc : \A i \in DOMAIN facts : Before(acc, i)' = Before(acc, i) /\ Before(acc, i) \in Seq(DOMAIN facts)
         /\ \A acc : Before(acc, n)' = Past(acc, fact.eff) /\ Past(acc, fact.eff) \in Seq(DOMAIN facts)
<1>1. /\ DOMAIN facts' = 1..n /\ DOMAIN facts = 1..(n - 1) /\ n \in Nat \ {0} /\ facts'[n] = fact
      /\ \A i \in DOMAIN facts : facts'[i] = facts[i]
  BY DEF Recorded, HistoryInv
<1> DEFINE After(S) == Sorted(S, {p \in S \X S : Earlier(p[1], p[2])'})
<1>2. ASSUME NEW S \in SUBSET DOMAIN facts PROVE After(S) = InEffect(S)
  <2> DEFINE before == {p \in S \X S : Earlier(p[1], p[2])}
             after == {p \in S \X S : Earlier(p[1], p[2])'}
  <2>1. \A i, j \in S : Earlier(i, j)' <=> Earlier(i, j) BY <1>1 DEF Earlier
  <2>2. before = after BY <2>1
  <2>3. InEffect(S) = Sorted(S, before) /\ After(S) = Sorted(S, after) BY DEF InEffect
  <2> QED BY <2>2, <2>3
<1> DEFINE B(acc, i) == {j \in DOMAIN facts : j < i /\ acc \in {facts[j].acc, facts[j].to} /\ facts[j].eff <= facts[i].eff}
           P(acc) == {j \in DOMAIN facts : acc \in {facts[j].acc, facts[j].to} /\ facts[j].eff <= fact.eff}
<1>3. ASSUME NEW acc, NEW i \in DOMAIN facts
      PROVE  Before(acc, i)' = Before(acc, i) /\ Before(acc, i) \in Seq(DOMAIN facts)
  <2> DEFINE B2 == {j \in DOMAIN facts' : j < i /\ acc \in {facts'[j].acc, facts'[j].to} /\ facts'[j].eff <= facts'[i].eff}
  <2>1. B2 = B(acc, i) BY <1>1
  <2>2. Before(acc, i)' = After(B2) /\ Before(acc, i) = InEffect(B(acc, i)) BY DEF Before, InEffect
  <2>3. B(acc, i) \in SUBSET DOMAIN facts OBVIOUS
  <2> HIDE DEF B, B2, After
  <2> QED BY <1>2, <2>1, <2>2, <2>3, HistoryOf
<1>4. ASSUME NEW acc
      PROVE  Before(acc, n)' = Past(acc, fact.eff) /\ Past(acc, fact.eff) \in Seq(DOMAIN facts)
  <2> DEFINE B2 == {j \in DOMAIN facts' : j < n /\ acc \in {facts'[j].acc, facts'[j].to} /\ facts'[j].eff <= facts'[n].eff}
  <2>1. B2 = P(acc) BY <1>1
  <2>2. Before(acc, n)' = After(B2) BY <1>1 DEF Before, InEffect
  <2>3. Past(acc, fact.eff) = InEffect(P(acc))
    <3> DEFINE V == {j \in DOMAIN facts : /\ acc \in {facts[j].acc, facts[j].to}
                                          /\ facts[j].eff <= fact.eff
                                          /\ facts[j].known <= today}
    <3>1. V = P(acc) BY DEF HistoryInv
    <3>2. Past(acc, fact.eff) = InEffect(V) BY DEF Past, Visible, InEffect
    <3> QED BY <3>1, <3>2
  <2>4. P(acc) \in SUBSET DOMAIN facts OBVIOUS
  <2> HIDE DEF P, B2, After
  <2> QED BY <1>2, <2>1, <2>2, <2>3, <2>4, HistoryOf
<1> QED BY <1>1, <1>3, <1>4

LEMMA FitsStay ==
  ASSUME NEW I, AreFacts(I), AreFacts(I)', book' = book, \A i \in DOMAIN facts : facts'[i] = facts[i],
         NEW f, NEW past \in Seq(DOMAIN facts), past \in Seq(DOMAIN facts'), Fits(f, past)
  PROVE  Fits(f, past)'
<1>1. ASSUME NEW acc, NEW method
      PROVE  ReplayLots(acc, past, method, book.short)' = ReplayLots(acc, past, method, book.short)
  <2>1. PICK short : short = book.short OBVIOUS
  <2>2. ReplayLots(acc, past, method, short)' = ReplayLots(acc, past, method, short) BY LotsStay
  <2> QED BY <2>1, <2>2
<1>2. \A acc : ReplayFifo(acc, past)' = ReplayFifo(acc, past) BY FifoStays
<1>3. \A acc, inst : Held(past, acc, inst)' = Held(past, acc, inst) BY HeldStays
<1>4. SplitFits(f, past) => SplitFits(f, past)' BY <1>1, <1>3 DEF SplitFits
<1>5. TransferFits(f, past) => TransferFits(f, past)' BY <1>2 DEF TransferFits
<1> QED BY <1>4, <1>5 DEF Fits

\* Everything the lemmas need to know of a state.
LedgerInv == HistoryInv /\ BookInv /\ FactsFit

LEMMA LedgerInvHolds == LedgerSpec => []LedgerInv
<1>1. LedgerInit => FactsFit
  BY DEF LedgerInit, FactsFit
<1>2. HistoryInv /\ HistoryInv' /\ BookInv /\ BookInv' /\ FactsFit /\ [LedgerNext]_ledgerVars => FactsFit'
  <2> SUFFICES ASSUME HistoryInv, HistoryInv', BookInv, BookInv', FactsFit, [LedgerNext]_ledgerVars
               PROVE  FactsFit'
    OBVIOUS
  <2>1. PICK I : I = book.instruments OBVIOUS
  <2>2. ASSUME NEW acc \in book.accounts, NEW inst \in book.instruments, NEW eff \in EffectiveDays,
               RecordIn(acc, inst, eff)
        PROVE  FactsFit'
    <3>1. PICK fact : /\ Recorded(fact) /\ IsFact(fact, I) /\ HasLegs(fact, book.allocated)
                      /\ Fits(fact, Past(fact.acc, fact.eff))
      BY <2>1, <2>2, RecordsFact DEF BookInv
    <3>2. PICK n : n = Len(facts) + 1 OBVIOUS
    <3>3. /\ DOMAIN facts' = 1..n /\ DOMAIN facts = 1..(n - 1) /\ n \in Nat \ {0} /\ facts'[n] = fact
          /\ \A i \in DOMAIN facts : facts'[i] = facts[i]
          /\ \A a : \A i \in DOMAIN facts : Before(a, i)' = Before(a, i) /\ Before(a, i) \in Seq(DOMAIN facts)
          /\ \A a : Before(a, n)' = Past(a, fact.eff) /\ Past(a, fact.eff) \in Seq(DOMAIN facts)
      BY <3>1, <3>2, BeforeStays
    <3>4. book' = book BY <3>1 DEF Recorded
    <3>5. AreFacts(I) /\ AreFacts(I)' BY <2>1, <3>4 DEF BookInv
    <3>6. \A past \in Seq(DOMAIN facts) : past \in Seq(DOMAIN facts')
      <4>1. DOMAIN facts \subseteq DOMAIN facts' BY <3>3
      <4> QED BY <4>1
    <3>7. ASSUME NEW i \in DOMAIN facts', NEW f, NEW past, f = facts'[i], past = Before(f.acc, i)'
          PROVE  HasLegs(f, book'.allocated) /\ Fits(f, past)'
      <4>1. HasLegs(f, book.allocated) /\ Fits(f, past) /\ past \in Seq(DOMAIN facts)
        <5>1. CASE i = n
          <6>1. f = fact /\ past = Past(fact.acc, fact.eff) BY <3>3, <3>7, <5>1
          <6> QED BY <3>1, <3>3, <6>1
        <5>2. CASE i \in DOMAIN facts
          <6>1. f = facts[i] /\ past = Before(f.acc, i) /\ past \in Seq(DOMAIN facts) BY <3>3, <3>7, <5>2
          <6> QED BY <5>2, <6>1 DEF FactsFit
        <5> QED BY <3>3, <5>1, <5>2
      <4>2. Fits(f, past)' BY <3>3, <3>4, <3>5, <3>6, <4>1, FitsStay
      <4> QED BY <3>4, <4>1, <4>2
    <3> QED BY <3>7 DEF FactsFit
  <2>3. CASE facts' = facts /\ book' = book
    <3>1. AreFacts(I) /\ AreFacts(I)' BY <2>1, <2>3 DEF BookInv
    <3>2. ASSUME NEW i \in DOMAIN facts, NEW a
          PROVE  Before(a, i)' = Before(a, i) /\ Before(a, i) \in Seq(DOMAIN facts)
      <4> DEFINE B == {j \in DOMAIN facts : j < i /\ a \in {facts[j].acc, facts[j].to} /\ facts[j].eff <= facts[i].eff}
      <4>1. Before(a, i)' = Before(a, i) BY <2>3 DEF Before, InEffect, Earlier
      <4>2. B \in SUBSET DOMAIN facts /\ Before(a, i) = InEffect(B) BY DEF Before
      <4> HIDE DEF B
      <4> QED BY <4>1, <4>2, HistoryOf
    <3>3. ASSUME NEW i \in DOMAIN facts, NEW f, NEW past, f = facts'[i], past = Before(f.acc, i)'
          PROVE  HasLegs(f, book'.allocated) /\ Fits(f, past)'
      <4>1. f = facts[i] /\ past = Before(f.acc, i) /\ past \in Seq(DOMAIN facts) BY <2>3, <3>2, <3>3
      <4>2. HasLegs(f, book.allocated) /\ Fits(f, past) BY <4>1 DEF FactsFit
      <4>3. Fits(f, past)' BY <2>3, <3>1, <4>1, <4>2, FitsStay
      <4> QED BY <2>3, <4>2, <4>3
    <3> QED BY <2>3, <3>3 DEF FactsFit
  <2>4. (NextDay \/ UNCHANGED ledgerVars) => facts' = facts /\ book' = book BY DEF NextDay, ledgerVars
  <2> QED BY <2>2, <2>3, <2>4 DEF LedgerNext
<1> QED BY <1>1, <1>2, HistoryInvHolds, BookInvHolds, PTL DEF LedgerSpec, LedgerInv

-----------------------------------------------------------------------------
(* What lots explain *)

Having(lots, inst, side) == {j \in DOMAIN lots : lots[j].inst = inst /\ lots[j].side = side}

LEMMA TotalOf ==
  ASSUME NEW I, NEW lots \in Seq(LotsOf(I)), NEW inst, NEW side
  PROVE  /\ Total(lots, inst, side) = QuantityOf(lots, Having(lots, inst, side))
         /\ Total(lots, inst, side) \in Int
         /\ IsFiniteSet(Having(lots, inst, side)) /\ Having(lots, inst, side) \in SUBSET DOMAIN lots
<1> DEFINE S == Having(lots, inst, side)
<1>1. Total(lots, inst, side) = QuantityOf(lots, S) BY DEF Total, Having
<1>2. S \in SUBSET DOMAIN lots /\ DOMAIN lots = 1..Len(lots) /\ Len(lots) \in Nat BY DEF Having
<1>3. IsFiniteSet(S)
  <2>1. IsFiniteSet(1..Len(lots)) BY <1>2, FS_Interval
  <2> HIDE DEF S
  <2> QED BY <1>2, <2>1, FS_Subset
<1>4. \A j \in S : lots[j].qty \in Int /\ lots[j].val \in Values
  <2>1. \A j \in DOMAIN lots : lots[j] \in LotsOf(I) OBVIOUS
  <2> QED BY <1>2, <2>1, LotFields
<1> HIDE DEF S
<1>5. QuantityOf(lots, S) \in Int BY <1>3, <1>4, SumsAreIntegers
<1> QED BY <1>1, <1>2, <1>3, <1>5 DEF S

\* What is opened is added.
LEMMA TotalOpened ==
  ASSUME NEW I, NEW lots \in Seq(LotsOf(I)), NEW lot \in LotsOf(I), NEW inst, NEW side
  PROVE  Total(Append(lots, lot), inst, side)
           = Total(lots, inst, side) + (IF lot.inst = inst /\ lot.side = side THEN lot.qty ELSE 0)
<1> DEFINE S == Having(lots, inst, side)
           longer == Append(lots, lot)
           n == Len(lots) + 1
           T == Having(longer, inst, side)
<1>1. /\ longer \in Seq(LotsOf(I)) /\ DOMAIN longer = 1..n /\ DOMAIN lots = 1..(n - 1) /\ n \in Nat \ {0}
      /\ longer[n] = lot /\ \A j \in DOMAIN lots : longer[j] = lots[j]
  OBVIOUS
<1>2. T = IF lot.inst = inst /\ lot.side = side THEN S \cup {n} ELSE S
  <2> HIDE DEF longer, n
  <2>1. 1..n = 1..(n - 1) \cup {n} /\ n \notin 1..(n - 1) BY <1>1
  <2>2. S = {j \in 1..(n - 1) : longer[j].inst = inst /\ longer[j].side = side} BY <1>1 DEF Having
  <2>3. T = {j \in 1..n : longer[j].inst = inst /\ longer[j].side = side} BY <1>1 DEF Having
  <2> HIDE DEF S, T
  <2>4. CASE lot.inst = inst /\ lot.side = side BY <1>1, <2>1, <2>2, <2>3, <2>4
  <2>5. CASE ~(lot.inst = inst /\ lot.side = side) BY <1>1, <2>1, <2>2, <2>3, <2>5
  <2> QED BY <2>4, <2>5
<1>3. Countable(LotsOf(I)) /\ lot.qty \in Int BY LotFields DEF Countable
<1>4. /\ QuantityOf(lots, S) \in Int
      /\ QuantityOf(longer, S) = QuantityOf(lots, S)
      /\ QuantityOf(longer, S \cup {n}) = QuantityOf(lots, S) + lot.qty
  <2>1. S \in SUBSET DOMAIN lots BY DEF Having
  <2> HIDE DEF S
  <2> QED BY <1>3, <2>1, QuantityOfLonger
<1>5. Total(lots, inst, side) = QuantityOf(lots, S) BY TotalOf
<1>6. Total(longer, inst, side) = QuantityOf(longer, T)
  <2> HIDE DEF longer
  <2> QED BY <1>1, TotalOf DEF T
<1> HIDE DEF S, T, longer, n
<1> QED BY <1>2, <1>3, <1>4, <1>5, <1>6 DEF longer

\* What is taken is gone, and only there.
LEMMA TotalTaken ==
  ASSUME NEW I, NEW lots \in Seq(LotsOf(I)), NEW taken, NEW chosen, NEW method, NEW n \in Nat,
         TakenFrom(lots, taken, chosen, method, n, I),
         NEW from, NEW at, chosen \subseteq Open(lots, from, at), NEW inst, NEW side
  PROVE  Total(taken.lots, inst, side)
           = Total(lots, inst, side) - (IF inst = from /\ side = at THEN n - taken.left ELSE 0)
<1> DEFINE S == Having(lots, inst, side)
           after == taken.lots
<1>1. SameLots(lots, after, I) /\ after \in Seq(LotsOf(I)) /\ taken.left \in Nat
  <2>1. SameLots(lots, after, I) BY TakenIsSame
  <2>2. after \in Seq(LotsOf(I)) /\ taken.left \in Nat BY DEF TakenFrom
  <2> QED BY <2>1, <2>2
<1>2. Having(after, inst, side) = S
  <2> HIDE DEF after
  <2> QED BY <1>1 DEF Having, SameLots
<1>3. Total(lots, inst, side) = QuantityOf(lots, S) /\ S \in SUBSET DOMAIN lots /\ IsFiniteSet(S)
      /\ Total(lots, inst, side) \in Int
  BY TotalOf
<1>4. Total(after, inst, side) = QuantityOf(after, S)
  <2> HIDE DEF after, S
  <2> QED BY <1>1, <1>2, TotalOf
<1>5. CASE inst = from /\ side = at
  <2>1. chosen \subseteq S BY <1>5 DEF Open, Having
  <2> HIDE DEF S
  <2>2. Conserves(taken, lots, n, S) BY <1>3, <2>1 DEF TakenFrom
  <2> HIDE DEF after
  <2>3. QuantityOf(after, S) \in Int /\ QuantityOf(after, S) + n = QuantityOf(lots, S) + taken.left
    BY <2>2 DEF Conserves, after
  <2> DEFINE q == QuantityOf(after, S)
             p == QuantityOf(lots, S)
             left == taken.left
  <2>4. q \in Int /\ p \in Int /\ left \in Nat /\ q + n = p + left BY <1>1, <1>3, <2>3
  <2>5. Total(after, inst, side) = q /\ Total(lots, inst, side) = p BY <1>3, <1>4
  <2> HIDE DEF q, p, left
  <2>6. q = p - (n - left) BY <2>4
  <2>7. Total(after, inst, side) = Total(lots, inst, side) - (n - left) BY <2>5, <2>6
  <2> QED BY <1>5, <2>7 DEF after, left
<1>6. CASE ~(inst = from /\ side = at)
  <2>1. S \cap chosen = {} BY <1>6 DEF Open, Having
  <2> HIDE DEF S
  <2>2. \A j \in S : after[j] = lots[j] BY <1>3, <2>1 DEF TakenFrom
  <2>3. \A j \in S : lots[j].qty \in Int
    <3>1. \A j \in DOMAIN lots : lots[j] \in LotsOf(I) OBVIOUS
    <3> QED BY <1>3, <3>1, LotFields
  <2> HIDE DEF after
  <2>4. QuantityOf(lots, S) = QuantityOf(after, S) BY <1>3, <2>2, <2>3, QuantitiesAgree
  <2> QED BY <1>3, <1>4, <1>6, <2>4 DEF after
<1> QED BY <1>5, <1>6

\* Lots that keep their quantities.
LEMMA TotalKept ==
  ASSUME NEW I, NEW lots \in Seq(LotsOf(I)), NEW after, SameLots(lots, after, I),
         \A j \in DOMAIN lots : after[j].qty = lots[j].qty, NEW inst, NEW side
  PROVE  Total(after, inst, side) = Total(lots, inst, side)
<1> DEFINE S == Having(lots, inst, side)
<1>1. Having(after, inst, side) = S /\ after \in Seq(LotsOf(I)) BY DEF Having, SameLots
<1>2. Total(lots, inst, side) = QuantityOf(lots, S) /\ S \in SUBSET DOMAIN lots /\ IsFiniteSet(S)
  BY TotalOf
<1>3. Total(after, inst, side) = QuantityOf(after, S) BY <1>1, TotalOf
<1>4. \A j \in S : lots[j].qty \in Int
  <2>1. \A j \in DOMAIN lots : lots[j] \in LotsOf(I) OBVIOUS
  <2> QED BY <1>2, <2>1, LotFields
<1> HIDE DEF S
<1>5. QuantityOf(lots, S) = QuantityOf(after, S) BY <1>2, <1>4, QuantitiesAgree
<1> QED BY <1>2, <1>3, <1>5

Net(lots, inst) == Total(lots, inst, "long") - Total(lots, inst, "short")

LEMMA NetIsInteger ==
  ASSUME NEW I, NEW lots \in Seq(LotsOf(I)), NEW inst
  PROVE  Net(lots, inst) \in Int /\ Total(lots, inst, "long") \in Int /\ Total(lots, inst, "short") \in Int
BY TotalOf DEF Net

\* The net of an instrument changes by n if it is the one in question.
Adds(after, lots, of, n, inst) == Net(after, inst) = Net(lots, inst) + (IF of = inst THEN n ELSE 0)

\* A trade changes what is held of its instrument by its quantity.
LEMMA NetOfTrade ==
  ASSUME NEW I, NEW r \in Replays(I), NEW s, NEW taken, NEW f, NEW i, NEW side \in Sides, NEW method,
         TradeOf(s, r, taken, f, i, side, method, I), f.qty \in Int,
         side = "long" => f.qty > 0, side = "short" => f.qty < 0, NEW inst
  PROVE  Adds(s.lots, r.lots, f.inst, f.qty, inst)
<1> SUFFICES Net(s.lots, inst) = Net(r.lots, inst) + (IF f.inst = inst THEN f.qty ELSE 0) BY DEF Adds
<1> DEFINE chosen == Open(r.lots, f.inst, OpposedSide(side))
           n == Size(f)
           lots == taken.lots
<1>1. r.lots \in Seq(LotsOf(I)) BY DEF Replays
<1>2. n \in Nat /\ f.qty = IF side = "long" THEN n ELSE -n BY DEF Size, Sides
<1>3. TakenFrom(r.lots, taken, chosen, method, n, I) BY DEF TradeOf
<1>4. lots \in Seq(LotsOf(I)) /\ taken.left \in Nat BY <1>3 DEF TakenFrom
<1>5. \A at : Total(lots, inst, at)
               = Total(r.lots, inst, at) - (IF inst = f.inst /\ at = OpposedSide(side) THEN n - taken.left ELSE 0)
  <2>1. chosen \subseteq Open(r.lots, f.inst, OpposedSide(side)) OBVIOUS
  <2> HIDE DEF chosen, n, lots
  <2> DEFINE from == f.inst
             where == OpposedSide(side)
  <2>2. chosen \subseteq Open(r.lots, from, where) BY <2>1
  <2> HIDE DEF from, where
  <2>3. TakenFrom(r.lots, taken, chosen, method, n, I) BY <1>3
  <2>4. ASSUME NEW at
        PROVE  Total(taken.lots, inst, at)
                 = Total(r.lots, inst, at) - (IF inst = from /\ at = where THEN n - taken.left ELSE 0)
    <3> DEFINE before == r.lots
    <3>1. before \in Seq(LotsOf(I)) /\ chosen \subseteq Open(before, from, where)
           /\ TakenFrom(before, taken, chosen, method, n, I)
      BY <1>1, <2>2, <2>3
    <3> HIDE DEF before
    <3>2. Total(taken.lots, inst, at)
            = Total(before, inst, at) - (IF inst = from /\ at = where THEN n - taken.left ELSE 0)
      BY ONLY SMTT(30), <1>2, <3>1, TotalTaken
    <3> QED BY <3>2 DEF before
  <2> SUFFICES ASSUME NEW at
               PROVE  Total(taken.lots, inst, at)
                        = Total(r.lots, inst, at)
                            - (IF inst = f.inst /\ at = OpposedSide(side) THEN n - taken.left ELSE 0)
    BY DEF lots
  <2> QED BY <2>4 DEF from, where
<1>6. /\ Total(r.lots, inst, "long") \in Int /\ Total(r.lots, inst, "short") \in Int
      /\ Total(lots, inst, "long") \in Int /\ Total(lots, inst, "short") \in Int
  <2> HIDE DEF lots
  <2> QED BY <1>1, <1>4, NetIsInteger
<1>7. \A at : Total(s.lots, inst, at)
               = Total(lots, inst, at) + (IF inst = f.inst /\ at = side THEN taken.left ELSE 0)
  <2>1. CASE taken.left = 0 /\ s.lots = lots
    <3> SUFFICES ASSUME NEW at
                 PROVE Total(lots, inst, at) = Total(lots, inst, at) + (IF inst = f.inst /\ at = side THEN 0 ELSE 0)
      BY <2>1
    <3>1. Total(lots, inst, at) \in Int BY <1>4, TotalOf
    <3> QED BY <3>1
  <2>2. CASE \E val : /\ s.lots = Append(lots, Lot(f.inst, i, side, taken.left, val, r.seq + 1))
                      /\ Lot(f.inst, i, side, taken.left, val, r.seq + 1) \in LotsOf(I)
    <3>1. PICK val : /\ s.lots = Append(lots, Lot(f.inst, i, side, taken.left, val, r.seq + 1))
                     /\ Lot(f.inst, i, side, taken.left, val, r.seq + 1) \in LotsOf(I)
      BY <2>2
    <3> DEFINE lot == Lot(f.inst, i, side, taken.left, val, r.seq + 1)
    <3>2. lot \in LotsOf(I) /\ lot.inst = f.inst /\ lot.side = side /\ lot.qty = taken.left BY <3>1 DEF Lot
    <3>3. s.lots = Append(lots, lot) BY <3>1
    <3> HIDE DEF lot, lots
    <3>4. \A at : Total(s.lots, inst, at)
                   = Total(lots, inst, at) + (IF lot.inst = inst /\ lot.side = at THEN lot.qty ELSE 0)
      BY <1>4, <3>2, <3>3, TotalOpened
    <3> QED BY <3>2, <3>4
  <2> QED BY <2>1, <2>2 DEF TradeOf
<1> DEFINE left == taken.left
           sl == Total(s.lots, inst, "long")
           ss == Total(s.lots, inst, "short")
           rl == Total(r.lots, inst, "long")
           rs == Total(r.lots, inst, "short")
<1>8. rl \in Int /\ rs \in Int /\ left \in Nat BY <1>4, <1>6
<1>9. CASE inst # f.inst
  <2>1. sl = rl + 0 - 0 /\ ss = rs + 0 - 0 BY <1>5, <1>6, <1>7, <1>9
  <2> HIDE DEF sl, ss, rl, rs
  <2>2. sl - ss = rl - rs + 0 BY <1>8, <2>1
  <2> QED BY <1>9, <2>2 DEF Net, sl, ss, rl, rs
<1>10. CASE inst = f.inst /\ side = "long"
  <2>1. OpposedSide(side) = "short" /\ f.qty = n BY <1>2, <1>10 DEF OpposedSide
  <2>2. sl = rl - 0 + left /\ ss = rs - (n - left) + 0 BY <1>5, <1>6, <1>7, <1>10, <2>1
  <2> HIDE DEF sl, ss, rl, rs, left, n
  <2>3. sl - ss = rl - rs + n BY <1>2, <1>8, <2>2
  <2> QED BY <1>10, <2>1, <2>3 DEF Net, sl, ss, rl, rs
<1>11. CASE inst = f.inst /\ side = "short"
  <2>1. OpposedSide(side) = "long" /\ f.qty = -n BY <1>2, <1>11 DEF OpposedSide
  <2>2. sl = rl - (n - left) + 0 BY <1>5, <1>6, <1>7, <1>11, <2>1
  <2>3. ss = rs - 0 + left BY <1>5, <1>6, <1>7, <1>11, <2>1
  <2> HIDE DEF sl, ss, rl, rs, left, n
  <2>4. sl - ss = rl - rs + (-n) BY <1>2, <1>8, <2>2, <2>3
  <2> QED BY <1>11, <2>1, <2>4 DEF Net, sl, ss, rl, rs
<1> QED BY <1>9, <1>10, <1>11 DEF Sides

\* A long lot that is opened adds to the net of its instrument, ...
LEMMA NetOpened ==
  ASSUME NEW I, NEW lots \in Seq(LotsOf(I)), NEW lot \in LotsOf(I), lot.side = "long", NEW inst
  PROVE  Net(Append(lots, lot), inst) = Net(lots, inst) + (IF lot.inst = inst THEN lot.qty ELSE 0)
<1> DEFINE longer == Append(lots, lot)
           l == Total(lots, inst, "long")
           s == Total(lots, inst, "short")
           l2 == Total(longer, inst, "long")
           s2 == Total(longer, inst, "short")
           q == lot.qty
<1>1. l \in Int /\ s \in Int /\ q \in Int BY NetIsInteger, LotFields
<1>2. l2 = l + (IF lot.inst = inst THEN q ELSE 0) /\ s2 = s + 0 BY TotalOpened
<1>3. Net(longer, inst) = l2 - s2 /\ Net(lots, inst) = l - s BY DEF Net
<1> HIDE DEF l, s, l2, s2, q
<1>4. Net(longer, inst) = Net(lots, inst) + (IF lot.inst = inst THEN q ELSE 0) BY <1>1, <1>2, <1>3
<1> QED BY <1>4 DEF q

\* ... long lots that are taken are gone from it, ...
LEMMA NetTaken ==
  ASSUME NEW I, NEW lots \in Seq(LotsOf(I)), NEW taken, NEW chosen, NEW method, NEW n \in Nat,
         TakenFrom(lots, taken, chosen, method, n, I),
         NEW from, chosen \subseteq Open(lots, from, "long"), taken.left = 0, NEW inst
  PROVE  Net(taken.lots, inst) = Net(lots, inst) - (IF inst = from THEN n ELSE 0)
<1> DEFINE after == taken.lots
           l == Total(lots, inst, "long")
           s == Total(lots, inst, "short")
           l2 == Total(after, inst, "long")
           s2 == Total(after, inst, "short")
<1>1. l \in Int /\ s \in Int BY NetIsInteger
<1>2. l2 = l - (IF inst = from THEN n - 0 ELSE 0) /\ s2 = s - 0
  <2>1. Total(taken.lots, inst, "long")
          = Total(lots, inst, "long") - (IF inst = from /\ "long" = "long" THEN n - taken.left ELSE 0)
    BY ONLY SMTT(30), TotalTaken, lots \in Seq(LotsOf(I)), n \in Nat, TakenFrom(lots, taken, chosen, method, n, I),
            chosen \subseteq Open(lots, from, "long")
  <2>2. Total(taken.lots, inst, "short")
          = Total(lots, inst, "short") - (IF inst = from /\ "short" = "long" THEN n - taken.left ELSE 0)
    BY ONLY TotalTaken, lots \in Seq(LotsOf(I)), n \in Nat, TakenFrom(lots, taken, chosen, method, n, I),
            chosen \subseteq Open(lots, from, "long")
  <2> QED BY <2>1, <2>2
<1>3. Net(after, inst) = l2 - s2 /\ Net(lots, inst) = l - s BY DEF Net
<1> HIDE DEF l, s, l2, s2
<1>4. Net(after, inst) = Net(lots, inst) - (IF inst = from THEN n ELSE 0) BY <1>1, <1>2, <1>3
<1> QED BY <1>4

\* ... and lots that keep their quantities keep it.
LEMMA NetKept ==
  ASSUME NEW I, NEW lots \in Seq(LotsOf(I)), NEW after, SameLots(lots, after, I),
         \A j \in DOMAIN lots : after[j].qty = lots[j].qty, NEW inst
  PROVE  Net(after, inst) = Net(lots, inst)
BY TotalKept DEF Net

\* What the first parts hold, part by part.
LEMMA QuantityOfParts ==
  ASSUME NEW parts \in CarriedLots
  PROVE  /\ Len(parts) \in Nat /\ DOMAIN parts = 1..Len(parts)
         /\ \A n \in 1..Len(parts) : parts[n] \in [src : Nat, qty : Nat, val : Int]
         /\ QuantityOf(parts, 1..0) = 0
         /\ \A n \in 0..Len(parts) : QuantityOf(parts, 1..n) \in Int
         /\ \A n \in 1..Len(parts) :
              QuantityOf(parts, 1..n) = QuantityOf(parts, 1..(n - 1)) + parts[n].qty
<1>1. /\ Len(parts) \in Nat /\ DOMAIN parts = 1..Len(parts)
      /\ \A n \in 1..Len(parts) : parts[n] \in [src : Nat, qty : Nat, val : Int]
  <2> DEFINE T == [src : Nat, qty : Nat, val : Int]
  <2>1. parts \in Seq(T) BY DEF CarriedLots
  <2> HIDE DEF T
  <2>2. Len(parts) \in Nat /\ DOMAIN parts = 1..Len(parts) /\ \A n \in 1..Len(parts) : parts[n] \in T
    BY <2>1
  <2> QED BY <2>2 DEF T
<1>2. \A n \in 1..Len(parts) : parts[n].qty \in Int
  <2> TAKE n \in 1..Len(parts)
  <2>1. parts[n] \in [src : Nat, qty : Nat, val : Int] BY <1>1
  <2> QED BY <2>1
<1> DEFINE f == [j \in DOMAIN parts |-> parts[j].qty]
<1>3. \A n \in 0..Len(parts) : QuantityOf(parts, 1..n) = SumOver([j \in 1..n |-> parts[j].qty], 1..n)
  <2> TAKE n \in 0..Len(parts)
  <2>1. IsFiniteSet(1..n) BY <1>1, FS_Interval
  <2> QED BY <2>1, QuantityIsSum
<1>4. \A n \in 0..Len(parts) : IsFiniteSet(1..n) BY <1>1, FS_Interval
<1>5. \A n \in 0..Len(parts) : QuantityOf(parts, 1..n) = SumOver(f, 1..n) /\ SumOver(f, 1..n) \in Int
  <2> TAKE n \in 0..Len(parts)
  <2> DEFINE g == [j \in 1..n |-> parts[j].qty]
  <2>1. \A j \in 1..n : g[j] = f[j] /\ f[j] \in Int BY <1>1, <1>2
  <2>2. QuantityOf(parts, 1..n) = SumOver(g, 1..n) /\ IsFiniteSet(1..n) BY <1>3, <1>4
  <2> HIDE DEF f, g
  <2>3. SumOver(g, 1..n) = SumOver(f, 1..n) BY <2>1, <2>2, SumsOfEquals
  <2>4. SumOver(f, 1..n) \in Int BY <2>1, <2>2, SumIsInteger
  <2> QED BY <2>2, <2>3, <2>4
<1>6. \A n \in 1..Len(parts) : f[n] = parts[n].qty /\ f[n] \in Int BY <1>1, <1>2
<1> HIDE DEF f
<1>7. QuantityOf(parts, 1..0) = 0
  <2>1. 1..0 = {} OBVIOUS
  <2>2. SumOver(f, {}) = 0 BY SumUnfolds, FS_EmptySet
  <2> QED BY <1>1, <1>5, <2>1, <2>2
<1>8. ASSUME NEW n \in 1..Len(parts)
      PROVE  QuantityOf(parts, 1..n) = QuantityOf(parts, 1..(n - 1)) + parts[n].qty
  <2>1. n \in 0..Len(parts) /\ n - 1 \in 0..Len(parts) /\ n \in 1..n BY <1>1
  <2>2. (1..n) \ {n} = 1..(n - 1) BY <1>1
  <2>3. SumOver(f, 1..n) = f[n] + SumOver(f, 1..(n - 1))
    <3> DEFINE S == 1..n
    <3>1. IsFiniteSet(S) /\ n \in S /\ \A x \in S : f[x] \in Int BY <1>1, <1>4, <1>6, <2>1
    <3> HIDE DEF S
    <3>2. SumOver(f, S) = f[n] + SumOver(f, S \ {n}) BY <3>1, SumSplits
    <3> QED BY <2>2, <3>2 DEF S
  <2>4. SumOver(f, 1..(n - 1)) \in Int /\ QuantityOf(parts, 1..(n - 1)) = SumOver(f, 1..(n - 1))
        /\ QuantityOf(parts, 1..n) = SumOver(f, 1..n)
    BY <1>5, <2>1
  <2> HIDE DEF f
  <2> QED BY <1>6, <2>3, <2>4
<1> QED BY <1>1, <1>5, <1>7, <1>8

\* The receiving side adds what the parts hold.
LEMMA NetReceived ==
  ASSUME NEW I, NEW r \in Replays(I), NEW s, NEW fact, fact.parts \in CarriedLots,
         ReceivedAfter(s, r, fact, I), NEW inst
  PROVE  Net(s.lots, inst)
           = Net(r.lots, inst) + (IF fact.inst = inst THEN QuantityOf(fact.parts, DOMAIN fact.parts) ELSE 0)
<1> DEFINE N == Len(fact.parts)
           M == Len(r.lots)
           parts == fact.parts
           lots == s.lots
           some(n) == IF fact.inst = inst THEN QuantityOf(parts, 1..n) ELSE 0
           Q == {n \in 0..N : Net(SubSeq(lots, 1, M + n), inst) = Net(r.lots, inst) + some(n)}
<1>1. /\ r.lots \in Seq(LotsOf(I)) /\ lots \in Seq(LotsOf(I)) /\ M \in Nat /\ N \in Nat /\ Len(lots) = M + N
      /\ DOMAIN r.lots = 1..M /\ DOMAIN parts = 1..N
      /\ \A j \in 1..M : lots[j] = r.lots[j]
  BY DEF Replays, ReceivedAfter, CarriedLots
<1>2. \A n \in 1..N : lots[M + n] = Lot(fact.inst, parts[n].src, "long", parts[n].qty, parts[n].val, r.seq + n)
  BY <1>1 DEF ReceivedAfter
<1>3. /\ QuantityOf(parts, 1..0) = 0
      /\ \A n \in 0..N : QuantityOf(parts, 1..n) \in Int
      /\ \A n \in 1..N : parts[n] \in [src : Nat, qty : Nat, val : Int]
      /\ \A n \in 1..N : QuantityOf(parts, 1..n) = QuantityOf(parts, 1..(n - 1)) + parts[n].qty
  BY QuantityOfParts
<1>4. Net(r.lots, inst) \in Int BY <1>1, NetIsInteger
<1> HIDE DEF N, M, parts, lots
<1>5. 0 \in Q
  <2>1. SubSeq(lots, 1, M + 0) = r.lots
    <3>1. SubSeq(lots, 1, M) \in Seq(LotsOf(I)) /\ Len(SubSeq(lots, 1, M)) = M
          /\ \A n \in 1..M : SubSeq(lots, 1, M)[n] = lots[n]
      BY <1>1, PrefixOf
    <3>2. Len(r.lots) = M BY DEF M
    <3>3. \A n \in 1..M : SubSeq(lots, 1, M)[n] = r.lots[n] BY <1>1, <3>1
    <3>4. SubSeq(lots, 1, M) = r.lots BY <1>1, <3>1, <3>2, <3>3, SeqEqual
    <3> QED BY <1>1, <3>4
  <2>2. some(0) = 0 BY <1>3
  <2>3. Net(SubSeq(lots, 1, M + 0), inst) = Net(r.lots, inst) + 0
    <3> DEFINE u == SubSeq(lots, 1, M + 0)
               v == r.lots
               x == Net(v, inst)
    <3>1. u = v BY <2>1
    <3> HIDE DEF u, v
    <3>2. Net(u, inst) = x BY <3>1
    <3>3. x \in Int BY <1>4 DEF v
    <3> HIDE DEF x
    <3>4. x = x + 0 BY <3>3
    <3>5. Net(u, inst) = x + 0 BY <3>2, <3>4
    <3> QED BY <3>5 DEF u, v, x
  <2> HIDE DEF some
  <2>4. 0 \in 0..N BY <1>1
  <2>5. Net(SubSeq(lots, 1, M + 0), inst) = Net(r.lots, inst) + some(0) BY <2>2, <2>3
  <2> QED BY <2>4, <2>5
<1>6. ASSUME NEW n \in 1..N, n - 1 \in Q
      PROVE  n \in Q
  <2> DEFINE p == SubSeq(lots, 1, M + (n - 1))
             lot == lots[M + n]
             rest == Net(p, inst)
             all == Net(SubSeq(lots, 1, M + n), inst)
             base == Net(r.lots, inst)
             a == QuantityOf(parts, 1..(n - 1))
             b == QuantityOf(parts, 1..n)
             q == parts[n].qty
  <2>1. M + n \in DOMAIN lots /\ M + (n - 1) \in 0..Len(lots) /\ M + n \in 0..Len(lots)
        /\ M + n = (M + (n - 1)) + 1 /\ n - 1 \in 0..N /\ n \in 0..N
    BY <1>1
  <2>2. p \in Seq(LotsOf(I)) BY <1>1, <2>1, PrefixOf
  <2>3. SubSeq(lots, 1, M + n) = Append(p, lot)
    <3> DEFINE k == M + (n - 1)
    <3>1. k \in 0..Len(lots) /\ k + 1 \in 0..Len(lots) /\ M + n = k + 1 BY <2>1
    <3> HIDE DEF k
    <3>2. SubSeq(lots, 1, k) \in Seq(LotsOf(I)) /\ Len(SubSeq(lots, 1, k)) = k
          /\ \A x \in 1..k : SubSeq(lots, 1, k)[x] = lots[x]
      BY <1>1, <3>1, PrefixOf
    <3>3. SubSeq(lots, 1, k + 1) \in Seq(LotsOf(I)) /\ Len(SubSeq(lots, 1, k + 1)) = k + 1
          /\ \A x \in 1..(k + 1) : SubSeq(lots, 1, k + 1)[x] = lots[x]
      BY <1>1, <3>1, PrefixOf
    <3>4. lots[k + 1] \in LotsOf(I) BY <1>1, <3>1
    <3> DEFINE u == SubSeq(lots, 1, k)
               v == SubSeq(lots, 1, k + 1)
               w == Append(u, lots[k + 1])
    <3>5. w \in Seq(LotsOf(I)) /\ Len(w) = k + 1 /\ (\A x \in 1..k : w[x] = u[x]) /\ w[k + 1] = lots[k + 1]
      <4>1. u \in Seq(LotsOf(I)) /\ Len(u) = k BY <3>2
      <4> HIDE DEF u
      <4> QED BY <3>1, <3>4, <4>1
    <3>6. \A x \in 1..(k + 1) : v[x] = w[x] BY <3>1, <3>2, <3>3, <3>5
    <3> HIDE DEF u, v, w
    <3>7. v = w BY <3>3, <3>5, <3>6, SeqEqual DEF v
    <3> QED BY <3>1, <3>7 DEF u, v, w, k
  <2>4. lot \in LotsOf(I) BY <1>1, <2>1
  <2>5. lot.side = "long" /\ lot.inst = fact.inst /\ lot.qty = q
    <3>1. lots[M + n] = Lot(fact.inst, parts[n].src, "long", parts[n].qty, parts[n].val, r.seq + n)
      BY <1>2
    <3> DEFINE x == Lot(fact.inst, parts[n].src, "long", parts[n].qty, parts[n].val, r.seq + n)
    <3>2. x.side = "long" /\ x.inst = fact.inst /\ x.qty = parts[n].qty BY DEF Lot
    <3> HIDE DEF x
    <3>3. lots[M + n] = x BY <3>1 DEF x
    <3> QED BY <3>2, <3>3
  <2>6. rest \in Int /\ base \in Int /\ a \in Int /\ q \in Int
    <3>1. q \in Int
      <4>1. parts[n] \in [src : Nat, qty : Nat, val : Int] BY <1>3
      <4> QED BY <4>1
    <3>2. a \in Int BY <1>3, <2>1
    <3>3. rest \in Int
      <4> HIDE DEF p
      <4> QED BY <2>2, NetIsInteger
    <3> QED BY <1>4, <3>1, <3>2, <3>3
  <2>7. rest = base + (IF fact.inst = inst THEN a ELSE 0) BY <1>6
  <2>8. b = a + q BY <1>3
  <2>9. all = rest + (IF fact.inst = inst THEN q ELSE 0)
    <3> HIDE DEF p, lot, q
    <3>1. Net(Append(p, lot), inst) = Net(p, inst) + (IF lot.inst = inst THEN lot.qty ELSE 0)
      BY <2>2, <2>4, <2>5, NetOpened
    <3> QED BY <2>3, <2>5, <3>1
  <2> HIDE DEF rest, base, all, a, b, q
  <2>10. all = base + (IF fact.inst = inst THEN b ELSE 0) BY <2>6, <2>7, <2>8, <2>9
  <2> QED BY <2>1, <2>10 DEF all, base, b
<1>7. \A n \in 0..N : n \in Q
  <2> HIDE DEF Q
  <2> QED BY <1>1, <1>5, <1>6, CountUp
<1>8. N \in Q BY <1>1, <1>7
<1>9. SubSeq(lots, 1, M + N) = lots
  <2>1. SubSeq(lots, 1, M + N) \in Seq(LotsOf(I)) /\ Len(SubSeq(lots, 1, M + N)) = M + N
        /\ \A n \in 1..(M + N) : SubSeq(lots, 1, M + N)[n] = lots[n]
    BY <1>1, PrefixOf
  <2> QED BY <1>1, <2>1, SeqEqual
<1> QED BY <1>1, <1>8, <1>9 DEF lots, parts

\* What a recorded lot gives away is gone.
LEMMA NetOfGiveOne ==
  ASSUME NEW I, NEW r \in Replays(I), NEW from, NEW p \in [src : Nat, qty : Nat, val : Int],
         GiveOne(r, from, p).ok, NEW inst
  PROVE  /\ r.ok
         /\ Net(GiveOne(r, from, p).lots, inst) = Net(r.lots, inst) - (IF inst = from THEN p.qty ELSE 0)
<1> DEFINE lots == r.lots
           n == p.qty
           chosen == {j \in Open(lots, from, "long") : lots[j].src = p.src}
           taken == Take(lots, OrderedFrom(lots, from, p.src), n)
           s == Given(r, taken, p.val)
<1>1. lots \in Seq(LotsOf(I)) /\ n \in Nat /\ chosen \subseteq Open(lots, from, "long") BY DEF Replays
<1>2. TakenFrom(lots, taken, chosen, "fifo", n, I)
  <2>1. TakenFrom(lots, Take(lots, OrderedFrom(lots, from, p.src), n),
                  {j \in Open(lots, from, "long") : lots[j].src = p.src}, "fifo", n, I)
    <3> HIDE DEF lots, n
    <3> QED BY <1>1, TakeFromSource
  <2> QED BY <2>1
<1>3. r.ok /\ GiveOne(r, from, p) = s BY DEF GiveOne
<1> HIDE DEF taken, chosen, n
<1>4. ~Raise(r).ok /\ [r EXCEPT !.lots = taken.lots].lots = taken.lots
  <2>1. ~Raise(r).ok BY RaiseTouches
  <2> QED BY <2>1 DEF Replays
<1>5. taken.left = 0 /\ s.lots = taken.lots BY <1>3, <1>4 DEF Given
<1> HIDE DEF lots, s
<1>6. Net(taken.lots, inst) = Net(lots, inst) - (IF inst = from THEN n ELSE 0)
  BY ONLY SMTT(30), <1>1, <1>2, <1>5, NetTaken
<1> QED BY <1>3, <1>5, <1>6 DEF lots, n

\* The giving side of a transfer loses what the parts hold.
LEMMA NetGiven ==
  ASSUME NEW I, NEW r \in Replays(I), NEW fact, fact.parts \in CarriedLots, GiveLots(r, fact).ok, NEW inst
  PROVE  Net(GiveLots(r, fact).lots, inst)
           = Net(r.lots, inst) - (IF inst = fact.inst THEN QuantityOf(fact.parts, DOMAIN fact.parts) ELSE 0)
<1> DEFINE N == Len(fact.parts)
           parts == fact.parts
           from == fact.inst
           some(n) == IF inst = from THEN QuantityOf(parts, 1..n) ELSE 0
<1>1. PICK run : GiveRun(run, r, fact.inst, fact.parts, I) /\ GiveLots(r, fact) = run[Len(fact.parts)]
  BY GiveRuns
<1> DEFINE Q == {n \in 0..N : run[n].ok => Net(run[n].lots, inst) = Net(r.lots, inst) - some(n)}
<1>2. N \in Nat /\ DOMAIN parts = 1..N BY DEF CarriedLots
<1>3. /\ run \in [0..N -> {t \in Replays(I) : Touches(t, r, I)}] /\ run[0] = r
      /\ \A n \in 1..N : run[n] = GiveOne(run[n - 1], from, parts[n])
  BY <1>1 DEF GiveRun
<1>4. \A n \in 0..N : run[n] \in Replays(I) BY <1>3
<1>5. /\ QuantityOf(parts, 1..0) = 0
      /\ \A n \in 0..N : QuantityOf(parts, 1..n) \in Int
      /\ \A n \in 1..N : parts[n] \in [src : Nat, qty : Nat, val : Int]
      /\ \A n \in 1..N : QuantityOf(parts, 1..n) = QuantityOf(parts, 1..(n - 1)) + parts[n].qty
  BY QuantityOfParts
<1> HIDE DEF N, parts, from
<1>6. \A n \in 0..N : Net(run[n].lots, inst) \in Int
  <2> TAKE n \in 0..N
  <2>1. run[n].lots \in Seq(LotsOf(I)) BY <1>4 DEF Replays
  <2> QED BY <2>1, NetIsInteger
<1>7. 0 \in Q
  <2>1. 0 \in 0..N /\ some(0) = 0 BY <1>2, <1>5
  <2> DEFINE x == Net(r.lots, inst)
  <2>2. x \in Int /\ Net(run[0].lots, inst) = x BY <1>3, <1>6, <2>1
  <2> HIDE DEF x
  <2>3. Net(run[0].lots, inst) = x - some(0) BY <2>1, <2>2
  <2> QED BY <2>1, <2>3 DEF x
<1>8. ASSUME NEW n \in 1..N, n - 1 \in Q
      PROVE  n \in Q
  <2> SUFFICES ASSUME run[n].ok
               PROVE  Net(run[n].lots, inst) = Net(r.lots, inst) - some(n)
    BY <1>2
  <2> DEFINE t == run[n - 1]
             p == parts[n]
             x == Net(r.lots, inst)
             y == Net(t.lots, inst)
             z == Net(run[n].lots, inst)
             a == QuantityOf(parts, 1..(n - 1))
             b == QuantityOf(parts, 1..n)
             q == p.qty
  <2>1. n - 1 \in 0..N /\ n \in 0..N /\ 0 \in 0..N BY <1>2
  <2>2. t \in Replays(I) /\ p \in [src : Nat, qty : Nat, val : Int] /\ run[n] = GiveOne(t, from, p)
    BY <1>3, <1>4, <1>5, <2>1
  <2>3. t.ok /\ z = y - (IF inst = from THEN q ELSE 0)
    <3> HIDE DEF t, p
    <3>1. GiveOne(t, from, p).ok BY <2>2
    <3>2. t.ok /\ Net(GiveOne(t, from, p).lots, inst) = Net(t.lots, inst) - (IF inst = from THEN p.qty ELSE 0)
      BY ONLY <2>2, <3>1, NetOfGiveOne
    <3> QED BY <2>2, <3>2
  <2>4. y = x - (IF inst = from THEN a ELSE 0) BY <1>8, <2>3
  <2>5. b = a + q BY <1>5
  <2>6. a \in Int /\ x \in Int BY <1>3, <1>5, <1>6, <2>1
  <2>7. q \in Int
    <3> HIDE DEF p
    <3> QED BY <2>2
  <2> HIDE DEF x, y, z, a, b, q
  <2>8. z = x - (IF inst = from THEN b ELSE 0) BY <2>3, <2>4, <2>5, <2>6, <2>7
  <2> QED BY <2>8 DEF x, z, b
<1>9. \A n \in 0..N : n \in Q
  <2> HIDE DEF Q
  <2> QED BY <1>2, <1>7, <1>8, CountUp
<1>10. N \in Q BY <1>2, <1>9
<1> QED BY <1>1, <1>2, <1>10 DEF N, parts, from

\* An action opens what it gives.
LEMMA NetOfAction ==
  ASSUME NEW I, NEW s \in Replays(I), NEW r, NEW mid, NEW f, NEW i, ActionOf(s, r, mid, f, i, I),
         f.gets \in Nat, NEW inst
  PROVE  Net(s.lots, inst) = Net(mid, inst) + (IF f.dst = inst THEN f.gets ELSE 0)
<1>1. mid \in Seq(LotsOf(I)) BY DEF ActionOf
<1>2. Net(mid, inst) \in Int BY <1>1, NetIsInteger
<1>3. CASE f.gets = 0 /\ s.lots = mid BY <1>2, <1>3
<1>4. CASE \E val : s.lots = Append(mid, Lot(f.dst, i, "long", f.gets, val, r.seq + 1))
  <2>1. PICK val : s.lots = Append(mid, Lot(f.dst, i, "long", f.gets, val, r.seq + 1)) BY <1>4
  <2> DEFINE lot == Lot(f.dst, i, "long", f.gets, val, r.seq + 1)
  <2>2. lot.side = "long" /\ lot.inst = f.dst /\ lot.qty = f.gets BY DEF Lot
  <2>3. s.lots = Append(mid, lot) BY <2>1
  <2> HIDE DEF lot
  <2>4. s.lots \in Seq(LotsOf(I)) BY DEF Replays
  <2>5. lot \in LotsOf(I)
    <3> DEFINE lots == Append(mid, lot)
               n == Len(mid) + 1
    <3>1. lots[n] = lot /\ n \in DOMAIN lots /\ lots \in Seq(LotsOf(I)) BY <1>1, <2>3, <2>4
    <3> HIDE DEF lots, n
    <3> QED BY <3>1
  <2>6. Net(Append(mid, lot), inst) = Net(mid, inst) + (IF lot.inst = inst THEN lot.qty ELSE 0)
    BY <1>1, <2>2, <2>5, NetOpened
  <2> QED BY <2>2, <2>3, <2>6
<1> QED BY <1>3, <1>4 DEF ActionOf

\* A quotient without a remainder, ...
LEMMA WholeQuotient ==
  ASSUME NEW x \in Int, NEW d \in Nat \ {0}, x % d = 0
  PROVE  x \div d \in Int /\ (x \div d) * d = x
OBVIOUS

\* ... of a product, ...
LEMMA ProductQuotient ==
  ASSUME NEW a \in Int, NEW d \in Nat \ {0}
  PROVE  (a * d) \div d = a
OBVIOUS

\* ... and what a split of a holding books.
LEMMA SplitBooks ==
  ASSUME NEW held \in Int, NEW after \in Int, NEW p \in Nat \ {0}, NEW d \in Nat \ {0},
         after * d = held * p
  PROVE  after = held + ((held * (p - d)) \div d)
<1>1. held * (p - d) = held * p - held * d OBVIOUS
<1>2. (after - held) * d = after * d - held * d OBVIOUS
<1>3. held * (p - d) = (after - held) * d BY <1>1, <1>2
<1> DEFINE a == after - held
           x == held * (p - d)
<1>4. a \in Int /\ x = a * d BY <1>3
<1> HIDE DEF a, x
<1>5. x \div d = a BY <1>4, ProductQuotient
<1>6. x \div d = after - held BY <1>5 DEF a
<1> DEFINE y == x \div d
<1>7. y = after - held BY <1>6
<1> HIDE DEF y
<1>8. after = held + y BY <1>7
<1> QED BY <1>8 DEF y, x

\* A split multiplies what the lots of its instrument hold.
LEMMA TotalScaled ==
  ASSUME NEW I, NEW lots \in Seq(LotsOf(I)), NEW after, NEW inst, NEW ratio,
         ratio[1] \in Nat \ {0}, ratio[2] \in Nat \ {0}, ScaledBy(after, lots, inst, ratio, I),
         \A j \in DOMAIN lots : lots[j].inst = inst => (lots[j].qty * ratio[1]) % ratio[2] = 0, NEW side
  PROVE  Total(after, inst, side) * ratio[2] = Total(lots, inst, side) * ratio[1]
<1> DEFINE p == ratio[1]
           d == ratio[2]
           S == Having(lots, inst, side)
           f == [j \in S |-> lots[j].qty]
           g == [j \in S |-> after[j].qty]
           h == [j \in S |-> lots[j].qty * p]
<1>1. SameLots(lots, after, I) /\ after \in Seq(LotsOf(I)) BY DEF ScaledBy, SameLots
<1>2. S \in SUBSET DOMAIN lots /\ Total(lots, inst, side) = QuantityOf(lots, S) /\ IsFiniteSet(S) BY TotalOf
<1>3. Having(after, inst, side) = S BY <1>1 DEF Having, SameLots
<1>4. Total(after, inst, side) = QuantityOf(after, S) BY <1>1, <1>3, TotalOf
<1>5. p \in Nat \ {0} /\ d \in Nat \ {0} OBVIOUS
<1>6. \A j \in S : lots[j].inst = inst BY DEF Having
<1>7. \A j \in S : lots[j].qty \in Int /\ after[j].qty \in Int
  <2>1. \A j \in DOMAIN lots : lots[j] \in LotsOf(I) /\ after[j] \in LotsOf(I) BY <1>1 DEF SameLots
  <2> HIDE DEF S
  <2> QED BY <1>2, <2>1, LotFields
<1>8. \A j \in S : (lots[j].qty * p) % d = 0 /\ after[j].qty = (lots[j].qty * p) \div d
  <2>1. \A j \in DOMAIN lots : lots[j].inst = inst => after[j].qty = (lots[j].qty * p) \div d BY DEF ScaledBy
  <2>2. \A j \in DOMAIN lots : lots[j].inst = inst => (lots[j].qty * p) % d = 0 OBVIOUS
  <2> HIDE DEF S, p, d
  <2> QED BY <1>2, <1>6, <2>1, <2>2
<1> HIDE DEF p, d, S
<1>9. \A j \in S : after[j].qty * d = lots[j].qty * p
  <2> TAKE j \in S
  <2> DEFINE x == lots[j].qty
             y == after[j].qty
  <2>1. x \in Int /\ y \in Int /\ (x * p) % d = 0 /\ y = (x * p) \div d BY <1>7, <1>8
  <2> HIDE DEF x, y
  <2> DEFINE z == x * p
  <2>2. z \in Int /\ z % d = 0 /\ y = z \div d BY <1>5, <2>1
  <2> HIDE DEF z
  <2>3. y * d = z BY <1>5, <2>2, WholeQuotient
  <2> QED BY <2>3 DEF x, y, z
<1>10. \A j \in S : /\ f[j] \in Int /\ g[j] \in Int /\ h[j] = f[j] * p /\ h[j] = g[j] * d
  BY <1>7, <1>9
<1>11. QuantityOf(lots, S) = SumOver(f, S) /\ QuantityOf(after, S) = SumOver(g, S) BY <1>2, QuantityIsSum
<1> HIDE DEF f, g, h
<1>12. SumOver(h, S) = SumOver(f, S) * p
  <2>1. p \in Int /\ \A j \in S : f[j] \in Int /\ h[j] = f[j] * p BY <1>5, <1>10
  <2> QED BY ONLY <1>2, <2>1, SumScaled
<1>13. SumOver(h, S) = SumOver(g, S) * d
  <2>1. d \in Int /\ \A j \in S : g[j] \in Int /\ h[j] = g[j] * d BY <1>5, <1>10
  <2> QED BY ONLY <1>2, <2>1, SumScaled
<1>14. Total(after, inst, side) * d = Total(lots, inst, side) * p
  BY ONLY <1>2, <1>4, <1>11, <1>12, <1>13
<1> QED BY <1>14 DEF p, d

\* The lots of other instruments are left alone.
LEMMA TotalNotScaled ==
  ASSUME NEW I, NEW lots \in Seq(LotsOf(I)), NEW after, NEW inst, NEW ratio,
         ScaledBy(after, lots, inst, ratio, I), NEW other, other # inst, NEW side
  PROVE  Total(after, other, side) = Total(lots, other, side)
<1> DEFINE S == Having(lots, other, side)
<1>1. SameLots(lots, after, I) /\ after \in Seq(LotsOf(I)) BY DEF ScaledBy, SameLots
<1>2. S \in SUBSET DOMAIN lots /\ Total(lots, other, side) = QuantityOf(lots, S) /\ IsFiniteSet(S) BY TotalOf
<1>3. Having(after, other, side) = S BY <1>1 DEF Having, SameLots
<1>4. Total(after, other, side) = QuantityOf(after, S) BY <1>1, <1>3, TotalOf
<1>5. \A j \in S : after[j] = lots[j] BY DEF Having, ScaledBy
<1>6. \A j \in S : lots[j].qty \in Int
  <2>1. \A j \in DOMAIN lots : lots[j] \in LotsOf(I) OBVIOUS
  <2> HIDE DEF S
  <2> QED BY <1>2, <2>1, LotFields
<1> HIDE DEF S
<1>7. QuantityOf(lots, S) = QuantityOf(after, S) BY <1>2, <1>5, <1>6, QuantitiesAgree
<1> QED BY <1>2, <1>4, <1>7

\* A split is what the lots of its account make of it.
SplitOf(f, lots) ==
  /\ \A j \in DOMAIN lots : lots[j].inst = f.inst => (lots[j].qty * f.ratio[1]) % f.ratio[2] = 0
  /\ f.qty = (Net(lots, f.inst) * (f.ratio[1] - f.ratio[2])) \div f.ratio[2]

\* If the lots explained the holding that a split was worked out from, they
\* explain the holding after it.
LEMMA NetOfSplit ==
  ASSUME NEW I, NEW lots \in Seq(LotsOf(I)), NEW after, NEW f, f.ratio[1] \in Nat \ {0}, f.ratio[2] \in Nat \ {0},
         ScaledBy(after, lots, f.inst, f.ratio, I), SplitOf(f, lots), NEW inst
  PROVE  Adds(after, lots, f.inst, f.qty, inst)
<1> SUFFICES Net(after, inst) = Net(lots, inst) + (IF f.inst = inst THEN f.qty ELSE 0) BY DEF Adds
<1> DEFINE p == f.ratio[1]
           d == f.ratio[2]
           of == f.inst
           held == Net(lots, f.inst)
<1>1. after \in Seq(LotsOf(I)) BY DEF ScaledBy, SameLots
<1>2. CASE inst # of
  <2>1. Total(after, inst, "long") = Total(lots, inst, "long")
    BY <1>2, TotalNotScaled
  <2>2. Total(after, inst, "short") = Total(lots, inst, "short")
    BY <1>2, TotalNotScaled
  <2>3. Net(after, inst) = Net(lots, inst) BY <2>1, <2>2 DEF Net
  <2>4. Net(lots, inst) \in Int BY NetIsInteger
  <2> QED BY <1>2, <2>3, <2>4
<1>3. CASE inst = of
  <2> DEFINE l == Total(lots, of, "long")
             s == Total(lots, of, "short")
             l2 == Total(after, of, "long")
             s2 == Total(after, of, "short")
             ratio == f.ratio
             n == Net(after, of)
  <2>1. l \in Int /\ s \in Int /\ l2 \in Int /\ s2 \in Int BY <1>1, NetIsInteger
  <2>2. l2 * d = l * p /\ s2 * d = s * p
    <3>1. ratio[1] \in Nat \ {0} /\ ratio[2] \in Nat \ {0} /\ ScaledBy(after, lots, of, ratio, I)
          /\ \A j \in DOMAIN lots : lots[j].inst = of => (lots[j].qty * ratio[1]) % ratio[2] = 0
      BY DEF SplitOf
    <3> HIDE DEF ratio, of
    <3>2. \A side : Total(after, of, side) * ratio[2] = Total(lots, of, side) * ratio[1]
      BY ONLY <3>1, lots \in Seq(LotsOf(I)), TotalScaled
    <3> QED BY <3>2 DEF ratio
  <2>3. p \in Nat \ {0} /\ d \in Nat \ {0} OBVIOUS
  <2>4. n = l2 - s2 /\ held = l - s BY DEF Net
  <2>5. f.qty = (held * (p - d)) \div d BY DEF SplitOf
  <2> DEFINE base == Net(lots, of)
  <2>10. base = held OBVIOUS
  <2> HIDE DEF l, s, l2, s2, n, p, d, of, held, base
  <2>6. n * d = l2 * d - s2 * d /\ held * p = l * p - s * p BY <2>1, <2>3, <2>4
  <2>7. n \in Int /\ held \in Int /\ n * d = held * p BY <2>1, <2>2, <2>4, <2>6
  <2>8. n = held + ((held * (p - d)) \div d) BY ONLY <2>3, <2>7, SplitBooks
  <2> QED BY <1>3, <2>5, <2>8, <2>10 DEF n, of, base
<1> QED BY <1>2, <1>3

Gains(after, lots, f, acc, inst) == Net(after, inst) = Net(lots, inst) + Delta(f, acc, inst)

\* What a fact of one leg changes.
LEMMA DeltaOfOne ==
  ASSUME NEW f, NEW acc, f.acc = acc, f.to = acc, f.gets = 0, f.qty \in Int, NEW inst
  PROVE  Delta(f, acc, inst) = IF f.inst = inst THEN f.qty ELSE 0
BY DEF Delta

LEMMA TradeGains ==
  ASSUME NEW I, AreFacts(I), NEW i \in DOMAIN facts, NEW f, f = facts[i], f.kind \in {"buy", "sell"},
         NEW acc, f.acc = acc, f.to = acc, f.gets = 0,
         NEW r \in Replays(I), NEW method, NEW side, side = (IF f.kind = "buy" THEN "long" ELSE "short"), NEW inst
  PROVE  Gains(Trade(r, i, side, method).lots, r.lots, f, acc, inst)
<1>1. IsFact(f, I) BY FactAt
<1>2. f.qty \in Int /\ (f.kind = "buy" => f.qty > 0) /\ (f.kind = "sell" => f.qty < 0) BY <1>1 DEF IsFact
<1>3. side \in Sides /\ (side = "long" => f.qty > 0) /\ (side = "short" => f.qty < 0) BY <1>2 DEF Sides
<1> DEFINE s == Trade(r, i, side, method)
           taken == Take(r.lots, Ordered(r.lots, facts[i].inst, OpposedSide(side), method), Size(facts[i]))
<1>4. TradeOf(s, r, taken, f, i, side, method, I) BY <1>3, TradeTrades
<1> HIDE DEF s, taken
<1>5. Adds(s.lots, r.lots, f.inst, f.qty, inst)
  BY ONLY <1>2, <1>3, <1>4, r \in Replays(I), NetOfTrade
<1>6. Delta(f, acc, inst) = IF f.inst = inst THEN f.qty ELSE 0 BY <1>2, DeltaOfOne
<1> QED BY <1>5, <1>6 DEF Gains, Adds, s

LEMMA SplitGains ==
  ASSUME NEW I, NEW f, IsFact(f, I), NEW acc, f.acc = acc, f.to = acc, f.gets = 0,
         NEW r \in Replays(I), SplitOf(f, r.lots), NEW inst
  PROVE  Gains(Scaled(r.lots, f.inst, f.ratio), r.lots, f, acc, inst)
<1> DEFINE lots == r.lots
           after == Scaled(lots, f.inst, f.ratio)
           of == f.inst
           ratio == f.ratio
<1>1. f.ratio[1] \in Nat \ {0} /\ f.ratio[2] \in Nat \ {0} /\ f.qty \in Int BY DEF IsFact
<1>2. lots \in Seq(LotsOf(I)) BY DEF Replays
<1>3. ScaledBy(after, lots, f.inst, f.ratio, I)
  <2>1. ratio[1] \in Nat \ {0} /\ ratio[2] \in Nat \ {0} BY <1>1
  <2> HIDE DEF lots, of, ratio
  <2>2. ScaledBy(Scaled(lots, of, ratio), lots, of, ratio, I) BY ONLY <1>2, <2>1, ScaledScales
  <2> QED BY <2>2 DEF of, ratio
<1>4. SplitOf(f, lots) OBVIOUS
<1> HIDE DEF after, lots
<1>7. Adds(after, lots, f.inst, f.qty, inst)
  BY ONLY <1>1, <1>2, <1>3, <1>4, NetOfSplit
<1>8. Delta(f, acc, inst) = IF f.inst = inst THEN f.qty ELSE 0 BY <1>1, DeltaOfOne
<1> QED BY <1>7, <1>8 DEF Gains, Adds, after, lots

LEMMA TransferGains ==
  ASSUME NEW I, NEW f, IsFact(f, I), f.kind = "transfer", NEW allocated, HasLegs(f, allocated),
         NEW acc \in {f.acc, f.to}, NEW r \in Replays(I), NEW inst
  PROVE  /\ f.acc = acc /\ GiveLots(r, f).ok => Gains(GiveLots(r, f).lots, r.lots, f, acc, inst)
         /\ f.acc # acc => Gains(ReceiveLots(r, f).lots, r.lots, f, acc, inst)
<1> DEFINE n == QuantityOf(f.parts, DOMAIN f.parts)
           x == Net(r.lots, inst)
<1>1. /\ f.parts \in CarriedLots /\ f.inst \in I /\ f.qty \in Int /\ f.gets \in Nat
      /\ f.acc # f.to /\ f.dst = f.inst /\ f.gets = -f.qty /\ n = f.gets
  BY DEF IsFact, HasLegs
<1>2. x \in Int
  <2>1. r.lots \in Seq(LotsOf(I)) BY DEF Replays
  <2> QED BY <2>1, NetIsInteger
<1>3. ASSUME f.acc = acc, GiveLots(r, f).ok
      PROVE  Gains(GiveLots(r, f).lots, r.lots, f, acc, inst)
  <2>1. Net(GiveLots(r, f).lots, inst) = x - (IF inst = f.inst THEN n ELSE 0)
    BY ONLY <1>1, <1>3, r \in Replays(I), NetGiven
  <2>2. Delta(f, acc, inst) = IF f.inst = inst THEN f.qty ELSE 0 BY <1>1, <1>3 DEF Delta
  <2> DEFINE y == Net(GiveLots(r, f).lots, inst)
             q == f.qty
  <2>3. y = x - (IF inst = f.inst THEN n ELSE 0) /\ n = -q /\ q \in Int BY <1>1, <2>1
  <2> HIDE DEF x, y, n, q
  <2>4. y = x + (IF f.inst = inst THEN q ELSE 0) BY <1>2, <2>3
  <2> QED BY <2>2, <2>4 DEF Gains, x, y, q
<1>4. ASSUME f.acc # acc
      PROVE  Gains(ReceiveLots(r, f).lots, r.lots, f, acc, inst)
  <2> DEFINE s == ReceiveLots(r, f)
  <2>1. ReceivedAfter(s, r, f, I) BY <1>1, ReceiveReceives
  <2> HIDE DEF s
  <2>2. Net(s.lots, inst) = x + (IF f.inst = inst THEN n ELSE 0)
    BY ONLY <1>1, <2>1, r \in Replays(I), NetReceived
  <2>3. Delta(f, acc, inst) = IF f.inst = inst THEN f.gets ELSE 0 BY <1>1, <1>4 DEF Delta
  <2> QED BY <1>1, <2>2, <2>3 DEF Gains, s
<1> QED BY <1>3, <1>4

LEMMA MoveGains ==
  ASSUME NEW I, NEW f, IsFact(f, I), NEW acc, f.acc = acc, f.to = acc, f.gets = 0, f.qty \in Nat,
         NEW r \in Replays(I), NEW i \in Nat, NEW inst
  PROVE  Gains(Opened(r, f.inst, i, "long", f.qty, Unknown).lots, r.lots, f, acc, inst)
<1> DEFINE s == Opened(r, f.inst, i, "long", f.qty, Unknown)
           lot == Lot(f.inst, i, "long", f.qty, Unknown, r.seq + 1)
<1>1. f.inst \in I /\ "long" \in Sides /\ Unknown \in Values BY DEF IsFact, Sides, Values
<1>2. Opens(s, r, lot, I)
  <2> DEFINE of == f.inst
             n == f.qty
  <2>1. of \in I /\ n \in Nat BY <1>1
  <2> HIDE DEF of, n
  <2>2. Opens(Opened(r, of, i, "long", n, Unknown), r, Lot(of, i, "long", n, Unknown, r.seq + 1), I)
    BY <1>1, <2>1, OpenedOpens
  <2> QED BY <2>2 DEF of, n
<1>3. lot.side = "long" /\ lot.inst = f.inst /\ lot.qty = f.qty BY DEF Lot
<1>4. r.lots \in Seq(LotsOf(I)) BY DEF Replays
<1>5. lot \in LotsOf(I) /\ s.lots = Append(r.lots, lot) BY <1>2 DEF Opens
<1> HIDE DEF s, lot
<1>6. Net(Append(r.lots, lot), inst) = Net(r.lots, inst) + (IF lot.inst = inst THEN lot.qty ELSE 0)
  BY <1>3, <1>4, <1>5, NetOpened
<1>7. Delta(f, acc, inst) = IF f.inst = inst THEN f.qty ELSE 0 BY DeltaOfOne
<1> QED BY <1>3, <1>5, <1>6, <1>7 DEF Gains, s

LEMMA ActionGains ==
  ASSUME NEW I, NEW i \in Nat, NEW f, f = facts[i], IsFact(f, I), f.kind \in Actions, HasLegs(f, TRUE),
         NEW acc, f.acc = acc, NEW r \in Replays(I), ApplyAction(r, i).ok, NEW inst
  PROVE  Gains(ApplyAction(r, i).lots, r.lots, f, acc, inst)
<1>1. /\ f.to = acc /\ f.parts # <<>> /\ IsAllocation(f.parts)
      /\ f.kind = "spin_off" => f.qty = 0
      /\ f.kind # "spin_off" => f.parts[1].qty = -f.qty
      /\ f.qty \in Int /\ f.gets \in Nat /\ f.inst \in I /\ f.dst \in I
  BY DEF HasLegs, IsFact, Actions
<1> DEFINE x == Net(r.lots, inst)
           s == ApplyAction(r, i)
           q == f.qty
           g == f.gets
<1>2. r.lots \in Seq(LotsOf(I)) BY DEF Replays
<1>3. x \in Int BY <1>2, NetIsInteger
<1>4. Delta(f, acc, inst) = (IF f.inst = inst THEN q ELSE 0) + (IF f.dst = inst THEN g ELSE 0)
  BY <1>1 DEF Delta
<1>5. CASE f.kind = "spin_off"
  <2>1. s = SpinOff(r, i) BY <1>1, <1>5 DEF ApplyAction
  <2>2. s \in Replays(I) /\ \E mid : /\ ActionOf(s, r, mid, f, i, I)
                                     /\ \A j \in DOMAIN r.lots : mid[j].qty = r.lots[j].qty
    <3>1. /\ SpinOff(r, i) \in Replays(I)
          /\ SpinOff(r, i).ok => \E mid : /\ ActionOf(SpinOff(r, i), r, mid, facts[i], i, I)
                                          /\ \A j \in DOMAIN r.lots : mid[j].qty = r.lots[j].qty
      BY <1>1, SpinOffSpins
    <3> HIDE DEF s
    <3>2. SpinOff(r, i).ok BY <2>1 DEF s
    <3> QED BY <2>1, <3>1, <3>2
  <2>3. PICK mid : ActionOf(s, r, mid, f, i, I) /\ \A j \in DOMAIN r.lots : mid[j].qty = r.lots[j].qty
    BY <2>2
  <2> HIDE DEF s
  <2>4. SameLots(r.lots, mid, I) BY <2>3 DEF ActionOf
  <2>5. Net(mid, inst) = x BY <1>2, <2>3, <2>4, NetKept
  <2>6. Net(s.lots, inst) = Net(mid, inst) + (IF f.dst = inst THEN f.gets ELSE 0)
    BY ONLY <1>1, <2>2, <2>3, NetOfAction
  <2>7. q = 0 /\ g \in Nat BY <1>1, <1>5
  <2>8. Net(s.lots, inst) = x + (IF f.dst = inst THEN g ELSE 0) BY <2>5, <2>6
  <2> HIDE DEF x, q, g
  <2>9. Net(s.lots, inst) = x + Delta(f, acc, inst) BY <1>3, <1>4, <2>7, <2>8
  <2> QED BY <2>9 DEF Gains, x, s
<1>6. CASE f.kind # "spin_off"
  <2> DEFINE n == f.parts[1].qty
             taken == Take(r.lots, Ordered(r.lots, f.inst, "long", "fifo"), n)
             lots == r.lots
             from == f.inst
             y == Net(taken.lots, inst)
  <2>1. s = Exchange(r, i) BY <1>1, <1>6 DEF ApplyAction
  <2>2. /\ s \in Replays(I) /\ n \in Nat
        /\ TakenFrom(r.lots, taken, Open(r.lots, f.inst, "long"), "fifo", n, I)
        /\ ActionOf(s, r, taken.lots, f, i, I) /\ taken.left = 0
    <3>1. LET t == Exchange(r, i)
              m == facts[i].parts[1].qty
              took == Take(r.lots, Ordered(r.lots, facts[i].inst, "long", "fifo"), m)
          IN  /\ t \in Replays(I) /\ m \in Nat
              /\ TakenFrom(r.lots, took, Open(r.lots, facts[i].inst, "long"), "fifo", m, I)
              /\ t.ok => ActionOf(t, r, took.lots, facts[i], i, I) /\ took.left = 0
      BY <1>1, ExchangeExchanges
    <3>2. Exchange(r, i).ok BY <2>1
    <3> HIDE DEF s
    <3> QED BY <2>1, <3>1, <3>2
  <2> HIDE DEF s, taken, n
  <2>3. Net(s.lots, inst) = Net(taken.lots, inst) + (IF f.dst = inst THEN f.gets ELSE 0)
    BY ONLY <1>1, <2>2, NetOfAction
  <2>4. Net(taken.lots, inst) = Net(lots, inst) - (IF inst = from THEN n ELSE 0)
    <3> DEFINE chosen == Open(lots, from, "long")
    <3>1. TakenFrom(lots, taken, chosen, "fifo", n, I) /\ chosen \subseteq Open(lots, from, "long")
          /\ lots \in Seq(LotsOf(I)) /\ n \in Nat /\ taken.left = 0
      BY <1>2, <2>2
    <3> HIDE DEF chosen, lots, from
    <3> QED BY ONLY <3>1, NetTaken
  <2>5. n = -q /\ q \in Int /\ g \in Nat BY <1>1, <1>6 DEF n
  <2>6. Net(s.lots, inst) = y + (IF f.dst = inst THEN g ELSE 0) /\ y = x - (IF inst = f.inst THEN n ELSE 0)
    BY <2>3, <2>4
  <2> HIDE DEF x, q, g, y
  <2>7. Net(s.lots, inst) = x + Delta(f, acc, inst) BY <1>3, <1>4, <2>5, <2>6
  <2> QED BY <2>7 DEF Gains, x, s
<1> QED BY <1>5, <1>6

\* Every fact changes what the lots of an account hold by its legs.
LEMMA StepGains ==
  ASSUME NEW I, AreFacts(I), NEW i \in DOMAIN facts, NEW f, f = facts[i], HasLegs(f, TRUE),
         NEW acc \in {f.acc, f.to}, NEW method, NEW short, NEW r \in Replays(I), r.ok,
         f.kind = "split" => SplitOf(f, r.lots),
         LotStep(acc, method, short, r, i).ok, NEW inst
  PROVE  Gains(LotStep(acc, method, short, r, i).lots, r.lots, f, acc, inst)
<1> DEFINE s == LotStep(acc, method, short, r, i)
<1>1. IsFact(f, I) /\ i \in Nat BY FactAt
<1>2. f.kind \in {"buy", "sell", "split", "transfer", "move"} \cup Actions /\ f.qty \in Int
  BY <1>1 DEF IsFact
<1>3. /\ f.kind # "transfer" => f.acc = acc /\ f.to = acc
      /\ f.kind \in {"buy", "sell", "split", "move"} => f.gets = 0
  BY DEF HasLegs
<1>5. ~Raise(r).ok BY RaiseTouches
<1>6. CASE f.kind \in {"buy", "sell"}
  <2> DEFINE side == IF f.kind = "buy" THEN "long" ELSE "short"
  <2>1. s = Trade(r, i, side, method) BY <1>5, <1>6 DEF LotStep
  <2> HIDE DEF side
  <2>2. Gains(Trade(r, i, side, method).lots, r.lots, f, acc, inst)
    BY <1>3, <1>6, TradeGains DEF side
  <2> QED BY <2>1, <2>2
<1>7. CASE f.kind = "split"
  <2>1. s.lots = Scaled(r.lots, f.inst, f.ratio) BY <1>7 DEF LotStep, Replays
  <2>2. Gains(Scaled(r.lots, f.inst, f.ratio), r.lots, f, acc, inst)
    BY <1>1, <1>3, <1>7, SplitGains
  <2> QED BY <2>1, <2>2
<1>8. CASE f.kind = "transfer"
  <2>1. s = IF f.acc = acc THEN GiveLots(r, f) ELSE ReceiveLots(r, f) BY <1>8 DEF LotStep
  <2>2. /\ f.acc = acc /\ GiveLots(r, f).ok => Gains(GiveLots(r, f).lots, r.lots, f, acc, inst)
        /\ f.acc # acc => Gains(ReceiveLots(r, f).lots, r.lots, f, acc, inst)
    BY <1>1, <1>8, TransferGains
  <2> QED BY <2>1, <2>2
<1>9. CASE f.kind = "move"
  <2>1. f.qty >= 0 /\ s = Opened(r, f.inst, i, "long", f.qty, Unknown)
    <3>1. s = IF f.qty < 0 THEN Raise(r) ELSE Opened(r, f.inst, i, "long", f.qty, Unknown) BY <1>9 DEF LotStep
    <3>2. s.ok OBVIOUS
    <3> HIDE DEF s
    <3>3. ~(f.qty < 0) BY <1>5, <3>1, <3>2
    <3> QED BY <1>2, <3>1, <3>3
  <2>2. f.qty \in Nat BY <1>2, <2>1
  <2>3. Gains(Opened(r, f.inst, i, "long", f.qty, Unknown).lots, r.lots, f, acc, inst)
    BY <1>1, <1>3, <1>9, <2>2, MoveGains
  <2> QED BY <2>1, <2>3
<1>10. CASE f.kind \in Actions
  <2>1. s = ApplyAction(r, i) BY <1>10 DEF LotStep, Actions
  <2>2. ApplyAction(r, i).ok BY <2>1
  <2>3. f.acc = acc BY <1>3, <1>10 DEF Actions
  <2>4. Gains(ApplyAction(r, i).lots, r.lots, f, acc, inst)
    BY <1>1, <1>10, <2>2, <2>3, ActionGains
  <2> QED BY <2>1, <2>4
<1> QED BY <1>2, <1>6, <1>7, <1>8, <1>9, <1>10

\* What is held grows with each fact of a history by its legs.
LEMMA HeldGrows ==
  ASSUME NEW I, AreFacts(I), NEW h \in Seq(DOMAIN facts), NEW acc, NEW inst
  PROVE  /\ Held(SubSeq(h, 1, 0), acc, inst) = 0
         /\ \A m \in 1..Len(h) : /\ Held(SubSeq(h, 1, m - 1), acc, inst) \in Int
                                 /\ Delta(facts[h[m]], acc, inst) \in Int
                                 /\ Held(SubSeq(h, 1, m), acc, inst)
                                      = Held(SubSeq(h, 1, m - 1), acc, inst) + Delta(facts[h[m]], acc, inst)
<1> DEFINE f == [n \in 1..Len(h) |-> Delta(facts[h[n]], acc, inst)]
<1>1. Len(h) \in Nat /\ DOMAIN h = 1..Len(h) /\ \A n \in 1..Len(h) : h[n] \in DOMAIN facts OBVIOUS
<1>2. \A n \in 1..Len(h) : Delta(facts[h[n]], acc, inst) \in Int
  <2> TAKE n \in 1..Len(h)
  <2> DEFINE fact == facts[h[n]]
  <2>1. IsFact(fact, I) BY <1>1, FactAt
  <2> HIDE DEF fact
  <2>2. Delta(fact, acc, inst) \in Int BY <2>1, DeltaIsInteger
  <2> QED BY <2>2 DEF fact
<1>3. \A n \in 1..Len(h) : f[n] = Delta(facts[h[n]], acc, inst) /\ f[n] \in Int BY <1>2
<1>4. ASSUME NEW m \in 0..Len(h)
      PROVE  Held(SubSeq(h, 1, m), acc, inst) = SumOver(f, 1..m) /\ IsFiniteSet(1..m)
             /\ SumOver(f, 1..m) \in Int
  <2> DEFINE p == SubSeq(h, 1, m)
             g == [n \in DOMAIN p |-> Delta(facts[p[n]], acc, inst)]
             S == 1..m
  <2>1. p \in Seq(DOMAIN facts) /\ Len(p) = m /\ \A n \in 1..m : p[n] = h[n] BY PrefixOf
  <2>2. DOMAIN p = S BY <2>1
  <2>3. IsFiniteSet(S) /\ \A n \in S : n \in 1..Len(h)
    <3>1. IsFiniteSet(1..m) BY <1>1, FS_Interval
    <3>2. \A n \in 1..m : n \in 1..Len(h) BY <1>1
    <3> QED BY <3>1, <3>2
  <2>4. \A n \in S : g[n] = f[n] /\ f[n] \in Int
    <3> TAKE n \in S
    <3>1. p[n] = h[n] /\ n \in DOMAIN p /\ n \in 1..Len(h) BY <2>1, <2>2, <2>3
    <3> HIDE DEF p, S, f
    <3>2. g[n] = Delta(facts[p[n]], acc, inst) BY <3>1
    <3> QED BY <1>3, <3>1, <3>2
  <2>5. Held(p, acc, inst) = SumOver(g, DOMAIN p)
    <3> HIDE DEF p
    <3> QED BY <2>1, HeldIsSum
  <2> HIDE DEF p, g, S, f
  <2>6. SumOver(g, S) = SumOver(f, S) /\ SumOver(f, S) \in Int BY <2>3, <2>4, SumsOfEquals, SumIsInteger
  <2> QED BY <2>2, <2>3, <2>5, <2>6 DEF p, S
<1> HIDE DEF f
<1>5. Held(SubSeq(h, 1, 0), acc, inst) = 0
  <2>1. 0 \in 0..Len(h) /\ 1..0 = {} BY <1>1
  <2>2. Held(SubSeq(h, 1, 0), acc, inst) = SumOver(f, 1..0) BY <1>4, <2>1
  <2>3. SumOver(f, {}) = 0 BY SumUnfolds, FS_EmptySet
  <2> QED BY <2>1, <2>2, <2>3
<1>6. ASSUME NEW m \in 1..Len(h)
      PROVE  /\ Held(SubSeq(h, 1, m - 1), acc, inst) \in Int
             /\ Held(SubSeq(h, 1, m), acc, inst)
                  = Held(SubSeq(h, 1, m - 1), acc, inst) + Delta(facts[h[m]], acc, inst)
  <2> DEFINE S == 1..m
             T == 1..(m - 1)
             x == Held(SubSeq(h, 1, m), acc, inst)
             y == Held(SubSeq(h, 1, m - 1), acc, inst)
             d == Delta(facts[h[m]], acc, inst)
  <2>1. m \in 0..Len(h) /\ m - 1 \in 0..Len(h) /\ m \in S /\ S \ {m} = T /\ S \subseteq 1..Len(h) BY <1>1
  <2>2. x = SumOver(f, S) /\ IsFiniteSet(S) BY <1>4, <2>1
  <2>3. y = SumOver(f, T) /\ SumOver(f, T) \in Int BY <1>4, <2>1
  <2>4. d = f[m] /\ f[m] \in Int BY <1>3
  <2>5. \A n \in S : f[n] \in Int BY <1>3, <2>1
  <2> HIDE DEF S, T, x, y, d
  <2>6. SumOver(f, S) = f[m] + SumOver(f, S \ {m}) BY <2>1, <2>2, <2>5, SumSplits
  <2> DEFINE v == f[m]
             w == SumOver(f, T)
  <2>7. x = v + w /\ y = w /\ w \in Int /\ d = v /\ v \in Int BY <2>1, <2>2, <2>3, <2>4, <2>6
  <2> HIDE DEF v, w
  <2>8. y \in Int /\ x = y + d BY SMTT(30), <2>7
  <2> QED BY <2>8 DEF x, y, d
<1> QED BY <1>2, <1>5, <1>6

\* A split in a history is worked out from the lots of the facts before it.
LEMMA SplitsFit ==
  ASSUME LedgerInv, NothingBackdatedBeforeDerived, NEW acc, NEW asOf \in Nat, NEW method \in book.methods \cup {"fifo"},
         NEW h, h = Visible(acc, asOf, today), NEW m \in 1..Len(h),
         NEW f, f = facts[h[m]], f.kind = "split", f.acc = acc,
         NEW r, r = ReplayLots(acc, SubSeq(h, 1, m - 1), method, book.short),
         Net(r.lots, f.inst) = Held(SubSeq(h, 1, m - 1), acc, f.inst)
  PROVE  SplitOf(f, r.lots)
<1> DEFINE i == h[m]
           past == SubSeq(h, 1, m - 1)
<1>1. HistoryInv /\ FactsFit BY DEF LedgerInv
<1>2. h \in Seq(DOMAIN facts) /\ m \in DOMAIN h /\ i \in DOMAIN facts
  <2>1. h \in Seq(DOMAIN facts) BY <1>1, VisibleIsHistory
  <2> QED BY <2>1
<1>3. \A j \in DOMAIN facts : i < j => facts[i].eff <= facts[j].eff
  <2> TAKE j \in DOMAIN facts
  <2>1. facts[i].kind \in Derived BY DEF Derived
  <2> HIDE DEF i
  <2> QED BY <1>2, <2>1 DEF NothingBackdatedBeforeDerived
<1>4. past = Before(acc, i)
  BY <1>1, <1>2, <1>3, PrefixIsBefore
<1> HIDE DEF i
<1>5. f = facts[i] BY DEF i
<1> HIDE DEF past
<1>6. Fits(f, past) BY <1>1, <1>2, <1>4, <1>5 DEF FactsFit
<1>7. SplitFits(f, past) BY <1>6 DEF Fits
<1>8. r = ReplayLots(f.acc, past, method, book.short) /\ Net(r.lots, f.inst) = Held(past, f.acc, f.inst)
  BY SMTT(30) DEF past
<1>9. /\ f.qty = (Held(past, f.acc, f.inst) * (f.ratio[1] - f.ratio[2])) \div f.ratio[2]
      /\ \A j \in DOMAIN r.lots : r.lots[j].inst = f.inst => (r.lots[j].qty * f.ratio[1]) % f.ratio[2] = 0
  <2> DEFINE lots == ReplayLots(f.acc, past, method, book.short).lots
  <2>1. \A j \in DOMAIN lots : lots[j].inst = f.inst => (lots[j].qty * f.ratio[1]) % f.ratio[2] = 0
    BY SMTT(30), <1>7 DEF SplitFits
  <2>2. f.qty = (Held(past, f.acc, f.inst) * (f.ratio[1] - f.ratio[2])) \div f.ratio[2]
    BY <1>7 DEF SplitFits
  <2>3. r.lots = lots BY <1>8
  <2> HIDE DEF lots
  <2> QED BY ZenonT(30), <2>1, <2>2, <2>3
<1> QED BY <1>8, <1>9 DEF SplitOf

Explained(r, h, m, acc, I) == \A inst \in I : Net(r.lots, inst) = Held(SubSeq(h, 1, m), acc, inst)

\* At the start there are no lots.
LEMMA NetOfNone == \A inst : Net(EmptyReplay.lots, inst) = 0
<1> TAKE inst
<1> DEFINE none == <<>>
           f == [j \in {} |-> none[j].qty]
<1>1. EmptyReplay.lots = none BY DEF EmptyReplay
<1>2. QuantityOf(none, {}) = SumOver(f, {})
  <2> HIDE DEF none
  <2> QED BY QuantityIsSum, FS_EmptySet
<1>3. \A side : Total(none, inst, side) = QuantityOf(none, {}) BY DEF Total
<1> HIDE DEF none, f
<1>4. SumOver(f, {}) = 0 BY SumUnfolds, FS_EmptySet
<1> QED BY <1>1, <1>2, <1>3, <1>4 DEF Net

\* At each fact of a history, the lots the replay has made so far explain what
\* is held so far.
LEMMA RunExplains ==
  ASSUME LedgerInv, book.allocated, NothingBackdatedBeforeDerived, NEW acc, NEW asOf \in Nat,
         NEW method \in book.methods, NEW h, h = Visible(acc, asOf, today), NEW I, I = book.instruments,
         NEW run, LotsRun(run, I, acc, h, method, book.short)
  PROVE  \A m \in 0..Len(h) : run[m].ok => Explained(run[m], h, m, acc, I)
<1> DEFINE N == Len(h)
           Q == {m \in 0..N : run[m].ok => Explained(run[m], h, m, acc, I)}
           short == book.short
<1>1. HistoryInv /\ FactsFit /\ AreFacts(I) /\ book \in Books BY DEF LedgerInv, BookInv
<1>2. h \in Seq(DOMAIN facts) /\ \A n \in DOMAIN h : acc \in {facts[h[n]].acc, facts[h[n]].to}
  BY <1>1, VisibleIsHistory
<1>3. N \in Nat /\ DOMAIN h = 1..N BY <1>2
<1>4. book.allocated = TRUE
  <2>1. IsBook(book) BY <1>1, LedgerAssumption
  <2> QED BY <2>1 DEF IsBook
<1>5. /\ run \in [0..N -> Sounds(I)] /\ run[0] = EmptyReplay
      /\ \A n \in 1..N :
           run[n] = IF run[n - 1].ok THEN LotStep(acc, method, short, run[n - 1], h[n]) ELSE run[n - 1]
  BY DEF LotsRun
<1>6. \A m \in 0..N : run[m] \in Replays(I) BY <1>5 DEF Sounds
<1>7. 0 \in Q
  <2>1. \A inst : Net(run[0].lots, inst) = 0 BY <1>5, NetOfNone
  <2>2. \A inst : Held(SubSeq(h, 1, 0), acc, inst) = 0 BY <1>1, <1>2, HeldGrows
  <2> QED BY <1>3, <2>1, <2>2 DEF Explained
<1>8. ASSUME NEW m \in 1..N, m - 1 \in Q
      PROVE  m \in Q
  <2> SUFFICES ASSUME run[m].ok, NEW inst \in I
               PROVE  Net(run[m].lots, inst) = Held(SubSeq(h, 1, m), acc, inst)
    BY <1>3 DEF Explained
  <2> DEFINE r == run[m - 1]
             i == h[m]
             f == facts[i]
  <2>1. m - 1 \in 0..N /\ m \in 0..N /\ m \in DOMAIN h BY <1>3
  <2>2. r \in Replays(I) BY <1>6, <2>1
  <2>3. r.ok /\ run[m] = LotStep(acc, method, short, r, i) BY <1>5
  <2>4. i \in DOMAIN facts /\ acc \in {f.acc, f.to} BY <1>2, <2>1
  <2>5. HasLegs(f, TRUE)
    <3> HIDE DEF i
    <3>1. HasLegs(f, book.allocated) BY <1>1, <2>4 DEF FactsFit
    <3> QED BY <1>4, <3>1
  <2>6. \A x \in I : Net(r.lots, x) = Held(SubSeq(h, 1, m - 1), acc, x) BY <1>8, <2>3 DEF Explained
  <2>7. r = ReplayLots(acc, SubSeq(h, 1, m - 1), method, short)
    BY <1>1, <1>2, <2>1, LotsOfPrefix
  <2>8. IsFact(f, I) BY <1>1, <2>4, FactAt
  <2>9. ASSUME f.kind = "split"
        PROVE  SplitOf(f, r.lots)
    <3>1. f.acc = acc BY <2>4, <2>5, <2>9 DEF HasLegs
    <3>2. Net(r.lots, f.inst) = Held(SubSeq(h, 1, m - 1), acc, f.inst) BY <2>6, <2>8 DEF IsFact
    <3>3. f = facts[h[m]] OBVIOUS
    <3> HIDE DEF f, r
    <3> QED BY <2>7, <2>9, <3>1, <3>2, <3>3, SplitsFit
  <2>10. LotStep(acc, method, short, r, i).ok BY <2>3
  <2>11. f = facts[i] OBVIOUS
  <2> DEFINE after == LotStep(acc, method, short, r, i).lots
  <2> HIDE DEF r, i, f
  <2>12. Gains(LotStep(acc, method, short, r, i).lots, r.lots, f, acc, inst)
    BY ONLY <1>1, <2>2, <2>3, <2>4, <2>5, <2>9, <2>10, <2>11, StepGains
  <2>13. /\ Held(SubSeq(h, 1, m - 1), acc, inst) \in Int /\ Delta(f, acc, inst) \in Int
         /\ Held(SubSeq(h, 1, m), acc, inst) = Held(SubSeq(h, 1, m - 1), acc, inst) + Delta(f, acc, inst)
    <3>1. \A n \in 1..Len(h) : /\ Held(SubSeq(h, 1, n - 1), acc, inst) \in Int
                               /\ Delta(facts[h[n]], acc, inst) \in Int
                               /\ Held(SubSeq(h, 1, n), acc, inst)
                                    = Held(SubSeq(h, 1, n - 1), acc, inst) + Delta(facts[h[n]], acc, inst)
      BY ONLY <1>1, <1>2, HeldGrows
    <3>2. m \in 1..Len(h) /\ f = facts[h[m]] BY DEF f, i
    <3> QED BY <3>1, <3>2
  <2>14. Net(run[m].lots, inst) = Net(r.lots, inst) + Delta(f, acc, inst) BY <2>3, <2>12 DEF Gains
  <2>15. Net(r.lots, inst) = Held(SubSeq(h, 1, m - 1), acc, inst) BY <2>6
  <2> QED BY <2>13, <2>14, <2>15
<1>9. \A m \in 0..N : m \in Q
  <2> HIDE DEF Q, N
  <2> QED BY <1>3, <1>7, <1>8, CountUp
<1> QED BY <1>9

\* Every holding is explained by open lots: in every ledger with basis
\* allocations in which no fact was backdated before one that was worked out
\* from the history, at every cutoff and under every method, the net quantity of
\* the lots that replay_lots leaves open is the position that state() reports.
THEOREM LotsExplainHoldings == LedgerSpec => []HoldingsExplained
<1>1. LedgerInv => HoldingsExplained
  <2> SUFFICES ASSUME LedgerInv, book.allocated, NothingBackdatedBeforeDerived, NEW acc \in book.accounts,
                      NEW asOf \in 1..today, NEW method \in book.methods,
                      NEW history, history = Visible(acc, asOf, today),
                      ReplayLots(acc, history, method, book.short).ok,
                      NEW inst \in book.instruments
               PROVE  Net(ReplayLots(acc, history, method, book.short).lots, inst) = Held(history, acc, inst)
    BY DEF HoldingsExplained, Net
  <2>1. PICK I : I = book.instruments OBVIOUS
  <2>2. HistoryInv /\ AreFacts(I) BY <2>1 DEF LedgerInv, BookInv
  <2>3. history \in Seq(DOMAIN facts) BY <2>2, VisibleIsHistory
  <2>4. asOf \in Nat BY <2>2 DEF HistoryInv
  <2>5. PICK run : /\ LotsRun(run, I, acc, history, method, book.short)
                   /\ ReplayLots(acc, history, method, book.short) = run[Len(history)]
    BY <2>2, <2>3, ReplayLotsRuns
  <2>6. \A m \in 0..Len(history) : run[m].ok => Explained(run[m], history, m, acc, I)
    BY <2>1, <2>4, <2>5, RunExplains
  <2>7. Len(history) \in 0..Len(history) BY <2>3
  <2>8. SubSeq(history, 1, Len(history)) = history
    <3>1. /\ SubSeq(history, 1, Len(history)) \in Seq(DOMAIN facts)
          /\ Len(SubSeq(history, 1, Len(history))) = Len(history)
          /\ \A n \in 1..Len(history) : SubSeq(history, 1, Len(history))[n] = history[n]
      BY <2>3, <2>7, PrefixOf
    <3> QED BY <2>3, <3>1, SeqEqual
  <2> QED BY <2>1, <2>5, <2>6, <2>7, <2>8 DEF Explained
<1> QED BY <1>1, LedgerInvHolds, PTL

-----------------------------------------------------------------------------
(* The two FIFO replays *)

\* While there is something left to take, the next of the oldest lots is the
\* oldest one that is left of those from its transaction.
LEMMA OldestIsNext ==
  ASSUME NEW I, NEW N \in Nat, NEW lots \in [1..N -> LotsOf(I)], NEW from,
         NEW order, order = Ordered(lots, from, "long", "fifo"),
         NEW after \in [1..N -> LotsOf(I)], NEW left \in Nat, left > 0, NEW k \in DOMAIN order,
         Greedy(lots, after, order, k - 1, left), NEW j, j = order[k]
  PROVE  /\ j \in 1..N /\ after[j] = lots[j] /\ after[j].qty > 0
         /\ LET next == OrderedFrom(after, from, after[j].src)
            IN  next \in Seq(1..N) /\ 1 \in DOMAIN next /\ next[1] = j
<1> DEFINE chosen == Open(lots, from, "long")
           same == {i \in Open(after, from, "long") : after[i].src = after[j].src}
           next == InOrder(after, same, "fifo")
<1>1. Unknown \notin Int BY LedgerAssumption
<1>2. chosen \in SUBSET {i \in 1..N : lots[i].qty > 0} /\ same \in SUBSET {i \in 1..N : after[i].qty > 0}
  BY DEF Open
<1>3. order = InOrder(lots, chosen, "fifo") /\ next = OrderedFrom(after, from, after[j].src)
  BY DEF Ordered, OrderedFrom
<1>4. \A i \in 1..N : /\ i \in chosen <=> lots[i].inst = from /\ lots[i].side = "long" /\ lots[i].qty > 0
                      /\ i \in same <=> /\ after[i].inst = from /\ after[i].side = "long" /\ after[i].qty > 0
                                        /\ after[i].src = after[j].src
  BY DEF Open
<1>5. \A i \in 1..N : LeftOf(after[i], lots[i]) /\ after[i].qty \in Nat /\ lots[i].qty \in Nat
  <2>1. \A i \in 1..N : after[i] \in LotsOf(I) /\ lots[i] \in LotsOf(I) OBVIOUS
  <2>2. \A i \in 1..N : after[i].qty \in Nat /\ lots[i].qty \in Nat BY <2>1, LotFields
  <2>3. DOMAIN lots = 1..N OBVIOUS
  <2> QED BY <2>2, <2>3 DEF Greedy
<1> HIDE DEF chosen, same, next
<1>6. /\ order \in Seq(1..N) /\ \A m \in DOMAIN order : order[m] \in chosen
      /\ \A i \in chosen : \E m \in DOMAIN order : order[m] = i
      /\ \A m, l \in DOMAIN order : m < l => /\ order[m] # order[l]
                                             /\ Prefers(lots, "fifo", order[m], order[l])
  <2> DEFINE o == InOrder(lots, chosen, "fifo")
  <2> HIDE DEF o
  <2>1. o = order BY <1>3 DEF o
  <2>2. /\ o \in Seq(1..N) /\ \A m \in DOMAIN o : o[m] \in chosen
        /\ \A i \in chosen : \E m \in DOMAIN o : o[m] = i
        /\ \A m, l \in DOMAIN o : m < l => o[m] # o[l] /\ Prefers(lots, "fifo", o[m], o[l])
    BY <1>1, <1>2, OrderOfLots DEF o
  <2> QED BY <2>1, <2>2
<1>7. /\ next \in Seq(1..N) /\ \A m \in DOMAIN next : next[m] \in same
      /\ \A i \in same : \E m \in DOMAIN next : next[m] = i
      /\ \A m, l \in DOMAIN next : m < l => /\ next[m] # next[l]
                                            /\ Prefers(after, "fifo", next[m], next[l])
  BY <1>1, <1>2, OrderOfLots DEF next
<1>8. DOMAIN order = 1..Len(order) /\ DOMAIN next = 1..Len(next) /\ Len(order) \in Nat /\ Len(next) \in Nat
  BY <1>6, <1>7
<1>9. j \in chosen /\ j \in 1..N BY <1>2, <1>6
<1>10. after[j] = lots[j]
  <2>1. \A m \in 1..(k - 1) : order[m] # j
    <3>1. \A m \in 1..(k - 1) : m \in DOMAIN order /\ m < k BY <1>8
    <3> QED BY <1>6, <3>1
  <2>2. DOMAIN lots = 1..N OBVIOUS
  <2> QED BY <1>9, <2>1, <2>2 DEF Greedy
<1>11. j \in same BY <1>4, <1>9, <1>10
<1>12. PICK m \in DOMAIN next : next[m] = j BY <1>7, <1>11
<1>13. m = 1
  <2> SUFFICES ASSUME m # 1
               PROVE  FALSE
    OBVIOUS
  <2>1. 1 \in DOMAIN next /\ 1 < m BY <1>8
  <2> DEFINE x == next[1]
  <2>2. x \in same /\ x # j /\ Prefers(after, "fifo", x, j) BY <1>7, <1>12, <2>1
  <2> HIDE DEF x
  <2>3. x \in 1..N /\ after[x].qty > 0 BY <1>2, <2>2
  <2>4. x \in chosen
    <3>1. lots[x].inst = from /\ lots[x].side = "long" /\ lots[x].qty > 0
      BY <1>4, <1>5, <2>2, <2>3 DEF LeftOf
    <3> QED BY <1>4, <2>3, <3>1
  <2>5. PICK l \in DOMAIN order : order[l] = x BY <1>6, <2>4
  <2>6. ~(l < k)
    <3> SUFFICES ASSUME l < k
                 PROVE  FALSE
      OBVIOUS
    <3>1. l \in 1..(k - 1) BY <1>8
    <3>2. after[x].qty = 0 BY <2>5, <3>1 DEF Greedy
    <3> QED BY <2>3, <3>2
  <2>7. l # k BY <2>2, <2>5
  <2>8. k < l BY <1>8, <2>6, <2>7
  <2>9. Prefers(lots, "fifo", j, x) BY <1>6, <2>5, <2>8
  <2>10. Prefers(lots, "fifo", x, j)
    <3>1. after[x].seq = lots[x].seq /\ after[j].seq = lots[j].seq BY <1>5, <1>9, <2>3 DEF LeftOf
    <3> QED BY <2>2, <3>1 DEF Prefers, Ahead
  <2> QED BY <1>1, <1>2, <1>9, <2>4, <2>9, <2>10, PreferenceIsAsymmetric
<1> QED BY <1>3, <1>4, <1>7, <1>9, <1>10, <1>11, <1>12, <1>13

\* What the first lot holds is taken from it alone.
LEMMA TakeFromFirst ==
  ASSUME NEW I, NEW N \in Nat, NEW lots \in [1..N -> LotsOf(I)], NEW order \in Seq(1..N), 1 \in DOMAIN order,
         NEW n \in Nat, NEW first, first = TakeOne([lots |-> lots, pieces |-> <<>>, left |-> n], order[1]),
         first.left = 0
  PROVE  Take(lots, order, n) = first
<1>1. PICK run : TakeRun(run, I, N, lots, order, n) /\ Take(lots, order, n) = run[Len(order)]
  BY TakeRuns
<1> DEFINE M == Len(order)
           Q == {k \in 0..M : k > 0 => run[k] = first}
<1>2. M \in Nat /\ M > 0 BY DEF M
<1>3. 0 \in Q BY <1>2
<1>4. ASSUME NEW k \in 1..M, k - 1 \in Q
      PROVE  k \in Q
  <2>1. run[k] = TakeOne(run[k - 1], order[k]) BY <1>1 DEF TakeRun
  <2>2. CASE k = 1
    <3>1. run[0] = [lots |-> lots, pieces |-> <<>>, left |-> n] BY <1>1 DEF TakeRun
    <3> QED BY <2>1, <2>2, <3>1
  <2>3. CASE k # 1
    <3>1. run[k - 1] = first BY SMTT(30), <1>2, <1>4, <2>3
    <3>2. run[k] = first BY <2>1, <3>1 DEF TakeOne
    <3> QED BY <3>2
  <2> QED BY <2>2, <2>3
<1>5. \A k \in 0..M : k \in Q
  <2> HIDE DEF Q, M
  <2> QED BY <1>2, <1>3, <1>4, CountUp
<1> QED BY <1>1, <1>2, <1>5

\* What is taken of a lot would have been taken of it alone.
PieceOf(t, u, j, piece) ==
  /\ piece \in Pieces /\ u.pieces = Append(t.pieces, piece)
  /\ piece.src = t.lots[j].src
  /\ LET alone == TakeOne([lots |-> t.lots, pieces |-> <<>>, left |-> piece.qty], j)
     IN  alone.lots = u.lots /\ alone.pieces = <<piece>> /\ alone.left = 0

LEMMA TakesAlone ==
  ASSUME NEW I, NEW N \in Nat, NEW t \in Takes(I, N), NEW j \in 1..N, t.left > 0, t.lots[j].qty > 0
  PROVE  \E piece : PieceOf(t, TakeOne(t, j), j, piece)
<1> DEFINE lot == t.lots[j]
           used == IF lot.qty <= t.left THEN lot.qty ELSE t.left
           part == IF lot.val = Unknown \/ used = lot.qty THEN lot.val ELSE (lot.val * used) \div lot.qty
           rest == [lot EXCEPT !.qty = @ - used, !.val = IF @ = Unknown THEN Unknown ELSE @ - part]
           piece == [src |-> lot.src, qty |-> used, val |-> part]
           u == TakeOne(t, j)
           t1 == [lots |-> t.lots, pieces |-> <<>>, left |-> used]
           alone == TakeOne(t1, j)
<1>1. t.left \in Nat /\ lot \in LotsOf(I) /\ t.pieces \in Seq(Pieces) BY DEF Takes
<1>2. used \in Nat /\ used > 0 /\ used <= lot.qty /\ used - used = 0
  <2>1. lot.qty \in Nat /\ lot.qty > 0 BY <1>1, LotFields
  <2> DEFINE q == lot.qty
             l == t.left
  <2>2. q \in Nat /\ q > 0 /\ l \in Nat /\ l > 0 /\ used = IF q <= l THEN q ELSE l BY <1>1, <2>1
  <2> HIDE DEF q, l, used
  <2>3. used \in Nat /\ used > 0 /\ used <= q /\ used - used = 0 BY <2>2
  <2> QED BY <2>3 DEF q
<1>3. u = [lots |-> [t.lots EXCEPT ![j] = rest], pieces |-> Append(t.pieces, piece), left |-> t.left - used]
  BY DEF TakeOne
<1>4. (IF lot.qty <= used THEN lot.qty ELSE used) = used
  <2>1. lot.qty \in Nat BY <1>1, LotFields
  <2> HIDE DEF lot, used
  <2> QED BY <1>2, <2>1
<1>5. alone = [lots |-> [t.lots EXCEPT ![j] = rest], pieces |-> Append(<<>>, piece), left |-> used - used]
  <2>1. t1.lots = t.lots /\ t1.pieces = <<>> /\ t1.left = used OBVIOUS
  <2> DEFINE used1 == IF t1.lots[j].qty <= t1.left THEN t1.lots[j].qty ELSE t1.left
             lot1 == t1.lots[j]
             part1 == IF lot1.val = Unknown \/ used1 = lot1.qty THEN lot1.val ELSE (lot1.val * used1) \div lot1.qty
  <2>2. alone = IF t1.left = 0 THEN t1
                ELSE [lots   |-> [t1.lots EXCEPT ![j] = [lot1 EXCEPT !.qty = @ - used1,
                                                                     !.val = IF @ = Unknown THEN Unknown ELSE @ - part1]],
                      pieces |-> Append(t1.pieces, [src |-> lot1.src, qty |-> used1, val |-> part1]),
                      left   |-> t1.left - used1]
    BY DEF TakeOne
  <2>3. lot1 = lot BY <2>1
  <2>4. used1 = used BY <1>4, <2>1
  <2> HIDE DEF used1, lot1, t1
  <2>5. part1 = part BY <2>3, <2>4
  <2> HIDE DEF part1, part, alone
  <2>6. t1.left # 0 BY <1>2, <2>1
  <2> HIDE DEF used, lot
  <2> QED BY <2>1, <2>2, <2>3, <2>4, <2>5, <2>6
<1>6. piece \in Pieces
  <2>1. Append(t.pieces, piece) \in Seq(Pieces)
    <3>1. u \in Takes(I, N) BY TakeOneTyped
    <3> HIDE DEF u, piece
    <3> QED BY <1>3, <3>1 DEF Takes
  <2> DEFINE p == Append(t.pieces, piece)
             n == Len(t.pieces) + 1
  <2>2. n \in DOMAIN p /\ p[n] = piece
    <3> HIDE DEF piece
    <3> QED BY <1>1
  <2> HIDE DEF n, p, piece
  <2>3. p \in Seq(Pieces) BY <2>1 DEF p
  <2> QED BY <2>2, <2>3
<1>7. Append(<<>>, piece) = <<piece>>
  <2> HIDE DEF piece
  <2> QED OBVIOUS
<1>8. piece.src = lot.src /\ piece.qty = used OBVIOUS
<1> HIDE DEF rest, part
<1>9. PieceOf(t, u, j, piece)
  <2>1. alone = TakeOne([lots |-> t.lots, pieces |-> <<>>, left |-> piece.qty], j) BY <1>8
  <2> HIDE DEF alone, u, piece, t1, used
  <2> QED BY <1>2, <1>3, <1>5, <1>6, <1>7, <1>8, <2>1 DEF PieceOf
<1> QED BY <1>9

LEMMA PieceValueOfOne ==
  ASSUME NEW piece \in Pieces
  PROVE  PieceValue(<<piece>>) = Known(piece.val)
<1> DEFINE p == <<piece>>
           f == [j \in DOMAIN p |-> Known(p[j].val)]
<1>1. DOMAIN p = {1} /\ p[1] = piece OBVIOUS
<1>2. IsFiniteSet(DOMAIN p) BY <1>1, FS_Singleton
<1>3. PieceValue(p) = SumOver(f, DOMAIN p)
  <2>1. ValueOf(p, DOMAIN p) = SumOver([j \in DOMAIN p |-> Known(p[j].val)], DOMAIN p)
    <3> HIDE DEF p
    <3> QED BY <1>2, ValueIsSum
  <2> QED BY <2>1 DEF PieceValue
<1>4. f[1] = Known(piece.val) BY <1>1
<1>5. Known(piece.val) \in Int
  <2>1. piece.val \in Values BY DEF Pieces
  <2> QED BY <2>1, KnownIsInteger
<1>6. SumOver(f, {1}) = Known(piece.val)
  <2> HIDE DEF f, p
  <2>1. IsFiniteSet({1}) /\ 1 \in {1} /\ \A x \in {1} : f[x] \in Int BY <1>1, <1>2, <1>4, <1>5
  <2>2. SumOver(f, {1}) = f[1] + SumOver(f, {1} \ {1}) BY <2>1, SumSplits
  <2>3. {1} \ {1} = {} OBVIOUS
  <2>4. SumOver(f, {}) = 0 BY SumUnfolds, FS_EmptySet
  <2> DEFINE v == Known(piece.val)
             w == SumOver(f, {1} \ {1})
             x == SumOver(f, {1})
  <2>5. v \in Int /\ w = 0 /\ x = v + w BY <1>4, <1>5, <2>2, <2>3, <2>4
  <2> HIDE DEF v, w, x
  <2>6. x = v BY <2>5
  <2> QED BY <2>6 DEF v, x
<1> QED BY <1>1, <1>3, <1>6

\* A carried lot is given as the plan took it.
LEMMA GivesPiece ==
  ASSUME NEW I, NEW g \in Replays(I), g.ok, NEW N, N = Len(g.lots), NEW t \in Takes(I, N), g.lots = t.lots,
         NEW from, NEW j \in 1..N, NEW next, next = OrderedFrom(t.lots, from, t.lots[j].src),
         next \in Seq(1..N), 1 \in DOMAIN next, next[1] = j,
         NEW u, NEW piece, PieceOf(t, u, j, piece), piece.val \in Int
  PROVE  GiveOne(g, from, piece) = [g EXCEPT !.lots = u.lots]
<1> DEFINE lots == t.lots
           n == piece.qty
           alone == TakeOne([lots |-> lots, pieces |-> <<>>, left |-> n], j)
<1>1. lots \in [1..N -> LotsOf(I)] /\ N \in Nat BY DEF Takes, Replays
<1>2. piece \in Pieces /\ n \in Nat BY DEF PieceOf, Pieces
<1>3. piece.src = lots[j].src /\ alone.lots = u.lots /\ alone.pieces = <<piece>> /\ alone.left = 0
  BY DEF PieceOf
<1>4. alone = TakeOne([lots |-> lots, pieces |-> <<>>, left |-> n], next[1]) OBVIOUS
<1>5. GiveOne(g, from, piece) = Given(g, Take(lots, OrderedFrom(lots, from, piece.src), n), piece.val)
  BY DEF GiveOne
<1>6. OrderedFrom(lots, from, piece.src) = next BY <1>3
<1> HIDE DEF alone, lots, n
<1>7. Take(lots, next, n) = alone BY ONLY <1>1, <1>2, <1>3, <1>4, next \in Seq(1..N), 1 \in DOMAIN next, TakeFromFirst
<1>8. Unknown \notin Int BY LedgerAssumption
<1>9. AllKnown(alone.pieces) /\ PieceValue(alone.pieces) = piece.val
  <2>1. piece.val # Unknown BY <1>8
  <2>2. PieceValue(<<piece>>) = piece.val BY <1>2, <2>1, PieceValueOfOne DEF Known
  <2>3. AllKnown(<<piece>>) BY <2>1 DEF AllKnown
  <2> QED BY <1>3, <2>2, <2>3
<1>10. Given(g, alone, piece.val) = [g EXCEPT !.lots = alone.lots] BY <1>3, <1>9 DEF Given
<1> QED BY <1>3, <1>5, <1>6, <1>7, <1>10

\* What was taken first comes first in what was taken in the end.
IsStartOf(u, v) == Len(u) <= Len(v) /\ \A p \in 1..Len(u) : u[p] = v[p]

LEMMA PiecesGrow ==
  ASSUME NEW I, NEW N \in Nat, NEW lots \in [1..N -> LotsOf(I)], NEW order \in Seq(1..N), NEW n \in Nat,
         NEW run, TakeRun(run, I, N, lots, order, n)
  PROVE  \A m \in 0..Len(order) : \A k \in 0..m : IsStartOf(run[k].pieces, run[m].pieces)
<1> DEFINE M == Len(order)
           Q == {m \in 0..M : \A k \in 0..m : IsStartOf(run[k].pieces, run[m].pieces)}
<1>1. M \in Nat OBVIOUS
<1>2. /\ run \in [0..M -> Takes(I, N)] /\ \A k \in 1..M : run[k] = TakeOne(run[k - 1], order[k])
  BY DEF TakeRun
<1>3. \A k \in 0..M : run[k].pieces \in Seq(Pieces) BY <1>2 DEF Takes
<1>4. 0 \in Q
  <2>1. \A k \in 0..0 : k = 0 OBVIOUS
  <2>2. run[0].pieces \in Seq(Pieces) BY <1>1, <1>3
  <2>3. Len(run[0].pieces) \in Nat BY <2>2
  <2> QED BY <1>1, <2>1, <2>3 DEF IsStartOf
<1>5. ASSUME NEW m \in 1..M, m - 1 \in Q
      PROVE  m \in Q
  <2> SUFFICES ASSUME NEW k \in 0..m
               PROVE  IsStartOf(run[k].pieces, run[m].pieces)
    BY <1>1
  <2> DEFINE x == run[k].pieces
             y == run[m - 1].pieces
             z == run[m].pieces
  <2>1. x \in Seq(Pieces) /\ y \in Seq(Pieces) /\ z \in Seq(Pieces) /\ m - 1 \in 0..M
    <3>1. k \in 0..M /\ m - 1 \in 0..M /\ m \in 0..M BY <1>1
    <3> QED BY <1>3, <3>1
  <2>2. CASE k = m
    <3>1. Len(x) \in Nat BY SMTT(30), <2>1
    <3> QED BY <2>2, <3>1 DEF IsStartOf
  <2>3. CASE k # m
    <3>1. k \in 0..(m - 1) BY <1>1, <2>3
    <3>2. IsStartOf(x, y) BY <1>5, <3>1
    <3>3. z = y \/ \E piece : z = Append(y, piece)
      <4> DEFINE t == run[m - 1]
                 j == order[m]
      <4>1. run[m] = TakeOne(t, j) BY <1>2
      <4> HIDE DEF t, j
      <4>2. TakeOne(t, j).pieces = t.pieces \/ \E piece : TakeOne(t, j).pieces = Append(t.pieces, piece)
        BY DEF TakeOne
      <4> QED BY <4>1, <4>2 DEF t
    <3> HIDE DEF x, y, z
    <3>4. IsStartOf(y, z)
      <4>1. CASE z = y
        <5>1. Len(y) \in Nat BY <2>1
        <5> QED BY <4>1, <5>1 DEF IsStartOf
      <4>2. CASE \E piece : z = Append(y, piece)
        <5>1. PICK piece : z = Append(y, piece) BY <4>2
        <5>2. Len(z) = Len(y) + 1 /\ Len(y) \in Nat /\ \A p \in 1..Len(y) : z[p] = y[p] BY <2>1, <5>1
        <5> QED BY <5>2 DEF IsStartOf
      <4> QED BY <3>3, <4>1, <4>2
    <3>5. Len(x) \in Nat /\ Len(y) \in Nat /\ Len(z) \in Nat BY <2>1
    <3>6. Len(x) <= Len(y) /\ Len(y) <= Len(z) /\ (\A p \in 1..Len(x) : x[p] = y[p])
          /\ (\A p \in 1..Len(y) : y[p] = z[p])
      BY <3>2, <3>4 DEF IsStartOf
    <3>7. Len(x) <= Len(z) BY <3>5, <3>6
    <3>8. \A p \in 1..Len(x) : p \in 1..Len(y) BY <3>5, <3>6
    <3>9. IsStartOf(x, z) BY <3>6, <3>7, <3>8 DEF IsStartOf
    <3> QED BY <3>9 DEF x, z
  <2> QED BY <2>2, <2>3
<1> HIDE DEF Q, M
<1>6. \A m \in 0..M : m \in Q BY <1>1, <1>4, <1>5, CountUp
<1> QED BY <1>6 DEF Q, M

\* The two givings do the same: the recorded lots, one after the other, are the
\* oldest lots they were planned from.
LEMMA GivingsAgree ==
  ASSUME NEW I, NEW r \in Replays(I), r.ok, NEW f, NEW n \in Nat, NEW taken,
         taken = Take(r.lots, Ordered(r.lots, f.inst, "long", "fifo"), n),
         taken.left = 0, f.parts = taken.pieces, f.parts \in CarriedLots
  PROVE  GiveLots(r, f) = [r EXCEPT !.lots = taken.lots]
<1> DEFINE N == Len(r.lots)
           lots == r.lots
           from == f.inst
           parts == f.parts
           order == Ordered(lots, from, "long", "fifo")
           M == Len(order)
           K == Len(parts)
<1>1. N \in Nat /\ lots \in [1..N -> LotsOf(I)] /\ lots \in Seq(LotsOf(I)) /\ DOMAIN lots = 1..N BY DEF Replays
<1>2. Unknown \notin Int BY LedgerAssumption
<1>3. order \in Seq(1..N) /\ \A k, l \in DOMAIN order : k < l => order[k] # order[l]
  <2> DEFINE chosen == Open(lots, from, "long")
             o == InOrder(lots, chosen, "fifo")
  <2>1. chosen \in SUBSET {i \in 1..N : lots[i].qty > 0} BY <1>1 DEF Open
  <2>2. o = order BY DEF Ordered
  <2> HIDE DEF chosen, N, lots, order, o
  <2>3. /\ o \in Seq(1..N) /\ \A m \in DOMAIN o : o[m] \in chosen
        /\ \A i \in chosen : \E m \in DOMAIN o : o[m] = i
        /\ \A m, l \in DOMAIN o : m < l => o[m] # o[l] /\ Prefers(lots, "fifo", o[m], o[l])
    BY <1>1, <1>2, <2>1, OrderOfLots DEF o
  <2> QED BY <2>2, <2>3
<1>4. parts = taken.pieces /\ parts \in CarriedLots /\ K \in Nat /\ DOMAIN parts = 1..K
      /\ \A p \in 1..K : parts[p].val \in Int
  <2> DEFINE T == [src : Nat, qty : Nat, val : Int]
  <2>1. parts \in Seq(T) BY DEF CarriedLots
  <2>2. \A p \in T : p.val \in Int OBVIOUS
  <2> HIDE DEF T, parts
  <2>3. K \in Nat /\ DOMAIN parts = 1..K /\ \A p \in 1..K : parts[p] \in T BY <2>1
  <2> QED BY <2>2, <2>3 DEF parts
<1> DEFINE D == 1..N
<1> HIDE DEF N
<1>5. PICK gr : GiveRun(gr, r, from, parts, I) /\ GiveLots(r, f) = gr[K]
  <2>1. PICK run : GiveRun(run, r, f.inst, f.parts, I) /\ GiveLots(r, f) = run[Len(f.parts)] BY GiveRuns
  <2> QED BY <2>1
<1>6. taken = Take(lots, order, n) OBVIOUS
<1>7. N = Len(lots) BY DEF N
<1> HIDE DEF lots, from, parts, order
<1>8. PICK tr : TakeRun(tr, I, N, lots, order, n) /\ taken = tr[M]
  BY <1>1, <1>3, <1>6, TakeRuns
<1>9. \A k \in 0..M : tr[k] \in Takes(I, N) /\ Greedy(lots, tr[k].lots, order, k, tr[k].left)
  <2>1. \A k \in 0..Len(order) : tr[k] \in Takes(I, N) /\ Greedy(lots, tr[k].lots, order, k, tr[k].left)
    BY <1>1, <1>3, <1>8, TakeRunIsGreedy
  <2> QED BY <2>1
<1>10. M \in Nat /\ DOMAIN order = 1..M BY <1>3
<1>11. \A k \in 0..M : IsStartOf(tr[k].pieces, parts)
  <2>1. \A m \in 0..Len(order) : \A k \in 0..m : IsStartOf(tr[k].pieces, tr[m].pieces)
    BY <1>1, <1>3, <1>8, PiecesGrow
  <2>2. M \in 0..Len(order) BY <1>10
  <2> QED BY <1>4, <1>8, <2>1, <2>2
<1>12. /\ tr[0] = [lots |-> lots, pieces |-> <<>>, left |-> n]
       /\ \A k \in 1..M : tr[k] = TakeOne(tr[k - 1], order[k])
  BY <1>8 DEF TakeRun
<1>13. /\ gr \in [0..K -> {t \in Replays(I) : Touches(t, r, I)}] /\ gr[0] = r
       /\ \A p \in 1..K : gr[p] = GiveOne(gr[p - 1], from, parts[p])
  BY <1>5 DEF GiveRun
<1>14. \A k \in 0..M : tr[k].pieces \in Seq(Pieces) /\ tr[k].left \in Nat /\ tr[k].lots \in [1..N -> LotsOf(I)]
  BY <1>9 DEF Takes
<1> HIDE DEF M, K
<1> DEFINE c(k) == Len(tr[k].pieces)
           Q == {k \in 0..M : /\ c(k) <= K /\ gr[c(k)] = [r EXCEPT !.lots = tr[k].lots]
                              /\ tr[k].left > 0 => c(k) = k}
<1>15. \A k \in 0..M : c(k) <= K /\ c(k) \in Nat /\ \A p \in 1..c(k) : tr[k].pieces[p] = parts[p]
  <2> TAKE k \in 0..M
  <2>1. tr[k].pieces \in Seq(Pieces) BY <1>14
  <2>2. IsStartOf(tr[k].pieces, parts) BY <1>11
  <2> QED BY <2>1, <2>2 DEF IsStartOf, K
<1>16. 0 \in Q
  <2>1. c(0) = 0 /\ tr[0].lots = lots BY <1>12
  <2>2. [r EXCEPT !.lots = lots] = r BY DEF lots, Replays
  <2>3. 0 \in 0..M BY <1>10
  <2>4. 0 <= K BY <1>4
  <2> QED BY <1>13, <2>1, <2>2, <2>3, <2>4
<1>17. ASSUME NEW k \in 1..M, k - 1 \in Q
       PROVE  k \in Q
  <2> DEFINE t == tr[k - 1]
             u == tr[k]
             j == order[k]
             g == gr[c(k - 1)]
  <2>1. k - 1 \in 0..M /\ k \in 0..M /\ k \in DOMAIN order /\ k \in Nat BY <1>10
  <2>2. u = TakeOne(t, j) /\ j \in 1..N /\ t \in Takes(I, N)
    <3>1. j \in 1..N
      <4> DEFINE S == 1..N
      <4>1. order \in Seq(S) /\ k \in 1..Len(order) BY <1>3, <1>10 DEF M
      <4> HIDE DEF S
      <4>2. order[k] \in S BY ONLY <4>1
      <4> QED BY <4>2 DEF S
    <3> QED BY <1>9, <1>12, <2>1, <3>1
  <2>3. g = [r EXCEPT !.lots = t.lots] /\ (t.left > 0 => c(k - 1) = k - 1) BY <1>17
  <2>4. CASE t.left = 0
    <3>1. u = t
      <4> HIDE DEF t, u, j
      <4> QED BY <2>2, <2>4 DEF TakeOne
    <3>2. c(k) = c(k - 1) BY <3>1
    <3>3. u.left = 0 BY <2>4, <3>1
    <3> QED BY <1>15, <2>1, <2>3, <3>1, <3>2, <3>3
  <2>5. CASE t.left # 0
    <3>1. t.left \in Nat /\ t.left > 0 BY <1>14, <2>1, <2>5
    <3>2. /\ t.lots[j] = lots[j] /\ t.lots[j].qty > 0
          /\ LET next == OrderedFrom(t.lots, from, t.lots[j].src)
             IN  next \in Seq(1..N) /\ 1 \in DOMAIN next /\ next[1] = j
      <4> DEFINE after == t.lots
                 left == t.left
      <4>1. after \in [1..N -> LotsOf(I)] /\ left \in Nat /\ left > 0 /\ Greedy(lots, after, order, k - 1, left)
        BY <1>9, <1>14, <2>1, <3>1
      <4>2. order = Ordered(lots, from, "long", "fifo") BY DEF order
      <4>3. j = order[k] OBVIOUS
      <4> HIDE DEF after, left, j
      <4>4. /\ after[j] = lots[j] /\ after[j].qty > 0
            /\ LET next == OrderedFrom(after, from, after[j].src)
               IN  next \in Seq(1..N) /\ 1 \in DOMAIN next /\ next[1] = j
        BY ONLY <1>1, <2>1, <4>1, <4>2, <4>3, OldestIsNext
      <4> QED BY <4>4 DEF after
    <3>3. PICK piece : PieceOf(t, u, j, piece)
      <4>1. \E piece : PieceOf(t, TakeOne(t, j), j, piece)
        <5> HIDE DEF t, j
        <5> QED BY <1>1, <2>2, <3>1, <3>2, TakesAlone
      <4> QED BY <2>2, <4>1
    <3>4. u.pieces = Append(t.pieces, piece) /\ t.pieces \in Seq(Pieces)
      BY <1>14, <2>1, <3>3 DEF PieceOf
    <3>5. c(k) = k /\ u.pieces[k] = piece
      <4> DEFINE x == t.pieces
                 y == u.pieces
      <4>1. y = Append(x, piece) /\ x \in Seq(Pieces) /\ Len(x) = k - 1 BY <2>3, <3>1, <3>4
      <4> HIDE DEF x, y
      <4>2. Len(y) = k /\ y[k] = piece BY <2>1, <4>1
      <4> QED BY <4>2 DEF y
    <3>6. k \in 1..K /\ parts[k] = piece
      <4>1. c(k) <= K /\ c(k) \in Nat /\ \A p \in 1..c(k) : u.pieces[p] = parts[p] BY <1>15, <2>1
      <4> DEFINE m == c(k)
      <4>2. m = k /\ m <= K /\ \A p \in 1..m : u.pieces[p] = parts[p] BY <3>5, <4>1
      <4> HIDE DEF m
      <4>3. k \in 1..m BY <2>1, <4>2
      <4> QED BY <1>4, <2>1, <3>5, <4>2, <4>3 DEF K
    <3>7. gr[k] = GiveOne(gr[k - 1], from, piece) BY <1>13, <3>6
    <3>8. gr[k - 1] = g BY <2>3, <3>1
    <3>9. g \in Replays(I) /\ g.ok /\ g.lots = t.lots /\ g.seq = r.seq
      <4>1. k - 1 \in 0..K BY <1>4, <3>6 DEF K
      <4>2. gr[k - 1] \in Replays(I) BY <1>13, <4>1
      <4> HIDE DEF t
      <4>3. g.ok /\ g.lots = t.lots /\ g.seq = r.seq BY <2>3 DEF Replays
      <4> QED BY <3>8, <4>2, <4>3
    <3>10. GiveOne(g, from, piece) = [g EXCEPT !.lots = u.lots]
      <4> DEFINE next == OrderedFrom(t.lots, from, t.lots[j].src)
      <4>1. next \in Seq(1..N) /\ 1 \in DOMAIN next /\ next[1] = j BY <3>2
      <4>2. N = Len(g.lots)
        <5>1. t.lots \in [1..N -> LotsOf(I)] BY <1>14, <2>1
        <5>2. g.lots \in Seq(LotsOf(I)) BY <3>9 DEF Replays
        <5> DEFINE x == g.lots
        <5>3. x \in [1..N -> LotsOf(I)] /\ x \in Seq(LotsOf(I)) BY <3>9, <5>1, <5>2
        <5> HIDE DEF x
        <5>4. N = Len(x) BY <1>1, <5>3
        <5> QED BY <5>4 DEF x
      <4>3. piece.val \in Int BY <1>4, <3>6 DEF K, parts
      <4>4. next = OrderedFrom(t.lots, from, t.lots[j].src) OBVIOUS
      <4> HIDE DEF t, u, j, g, next
      <4> QED BY ONLY <2>2, <3>3, <3>9, <4>1, <4>2, <4>3, <4>4, GivesPiece
    <3>11. gr[k] = [r EXCEPT !.lots = u.lots]
      <4>1. gr[k] = [g EXCEPT !.lots = u.lots] BY <3>7, <3>8, <3>10
      <4>2. g = [r EXCEPT !.lots = t.lots] BY <2>3
      <4> HIDE DEF g, t, u
      <4> QED BY <4>1, <4>2 DEF Replays
    <3> QED BY <1>15, <2>1, <3>5, <3>11
  <2> QED BY <2>4, <2>5
<1>18. \A k \in 0..M : k \in Q
  <2> HIDE DEF Q
  <2> QED BY <1>10, <1>16, <1>17, CountUp
<1>19. M \in Q /\ M \in 0..M BY <1>10, <1>18
<1>20. c(M) = K
  <2>1. tr[M].pieces = parts BY <1>4, <1>8 DEF parts
  <2> QED BY <2>1 DEF K
<1>21. gr[K] = [r EXCEPT !.lots = tr[M].lots] BY <1>19, <1>20
<1> QED BY <1>5, <1>8, <1>21

NoShorts(r) == \A j \in DOMAIN r.lots : r.lots[j].side = "long"

\* No lot becomes a short one, ...
LEMMA SameLotsStayLong ==
  ASSUME NEW I, NEW r \in Replays(I), NEW s, SameLots(r.lots, s.lots, I), NoShorts(r)
  PROVE  NoShorts(s)
<1>1. Len(s.lots) = Len(r.lots) /\ s.lots \in Seq(LotsOf(I)) /\ r.lots \in Seq(LotsOf(I))
  BY DEF SameLots, Replays
<1>2. DOMAIN s.lots = DOMAIN r.lots BY <1>1
<1> QED BY <1>2 DEF SameLots, NoShorts

LEMMA OpenedStaysLong ==
  ASSUME NEW I, NEW r \in Replays(I), NEW s, NEW lot, s.lots = Append(r.lots, lot), lot.side = "long", NoShorts(r)
  PROVE  NoShorts(s)
<1> DEFINE lots == r.lots
           longer == Append(lots, lot)
           n == Len(lots) + 1
<1>1. /\ lots \in Seq(LotsOf(I)) /\ Len(lots) \in Nat /\ DOMAIN lots = 1..Len(lots)
      /\ DOMAIN longer = 1..n /\ longer[n] = lot /\ \A j \in 1..Len(lots) : longer[j] = lots[j]
  BY DEF Replays
<1>2. \A j \in 1..n : j = n \/ j \in 1..Len(lots) BY <1>1
<1> HIDE DEF n, longer, lots
<1>3. \A j \in 1..n : longer[j].side = "long" BY <1>1, <1>2 DEF NoShorts, lots
<1> QED BY <1>1, <1>3 DEF NoShorts, longer, lots

LEMMA ReceivedStaysLong ==
  ASSUME NEW I, NEW r \in Replays(I), NEW s, NEW fact, fact.parts \in CarriedLots, ReceivedAfter(s, r, fact, I),
         NoShorts(r)
  PROVE  NoShorts(s)
<1> DEFINE M == Len(r.lots)
           K == Len(fact.parts)
<1>1. /\ M \in Nat /\ K \in Nat /\ DOMAIN r.lots = 1..M /\ DOMAIN fact.parts = 1..K
      /\ s.lots \in Seq(LotsOf(I)) /\ Len(s.lots) = M + K
  BY DEF Replays, ReceivedAfter, CarriedLots
<1> HIDE DEF M, K
<1>2. DOMAIN s.lots = 1..(M + K)
  <2> DEFINE x == s.lots
             n == M + K
  <2>1. x \in Seq(LotsOf(I)) /\ Len(x) = n BY <1>1
  <2> HIDE DEF x, n
  <2>2. DOMAIN x = 1..n BY <2>1
  <2> QED BY <2>2 DEF x, n
<1>3. SUFFICES ASSUME NEW j \in 1..(M + K)
               PROVE  s.lots[j].side = "long"
  BY <1>2 DEF NoShorts
<1>4. CASE j <= M
  <2>1. j \in DOMAIN r.lots BY <1>1, <1>4
  <2> QED BY <2>1 DEF NoShorts, ReceivedAfter, M
<1>5. CASE ~(j <= M)
  <2> DEFINE p == j - M
  <2>1. p \in 1..K /\ j = M + p
    <3>1. M \in Nat /\ K \in Nat /\ j \in 1..(M + K) BY <1>1
    <3> QED BY ONLY <1>5, <3>1
  <2> HIDE DEF p
  <2>2. s.lots[M + p] = Lot(fact.inst, fact.parts[p].src, "long", fact.parts[p].qty, fact.parts[p].val, r.seq + p)
    BY <1>1, <2>1 DEF ReceivedAfter, M
  <2>3. s.lots[M + p].side = "long" BY <2>2 DEF Lot
  <2> QED BY <2>1, <2>3
<1> QED BY <1>4, <1>5

\* Nothing is taken out of no lots.
LEMMA TakeOfNone ==
  ASSUME NEW I, NEW N \in Nat, NEW lots \in [1..N -> LotsOf(I)], NEW order \in Seq(1..N), NEW n \in Nat,
         order = <<>>
  PROVE  Take(lots, order, n) = [lots |-> lots, pieces |-> <<>>, left |-> n]
<1>0. N \in Nat /\ lots \in [1..N -> LotsOf(I)] /\ order \in Seq(1..N) /\ n \in Nat OBVIOUS
<1>1. PICK run : TakeRun(run, I, N, lots, order, n) /\ Take(lots, order, n) = run[Len(order)]
  BY ONLY <1>0, TakeRuns
<1>2. Len(order) = 0 OBVIOUS
<1>3. run[0] = [lots |-> lots, pieces |-> <<>>, left |-> n] BY <1>1 DEF TakeRun
<1> QED BY <1>1, <1>2, <1>3

\* ... a buy closes none and opens one lot of what was bought, ...
LEMMA BuyOpens ==
  ASSUME NEW I, AreFacts(I), NEW i \in DOMAIN facts, NEW f, f = facts[i], f.kind = "buy",
         NEW r \in Replays(I), NoShorts(r)
  PROVE  Trade(r, i, "long", "fifo") = Opened(r, f.inst, i, "long", f.qty, f.value)
<1> DEFINE N == Len(r.lots)
           n == f.qty
           value == f.value
           lots == r.lots
           order == Ordered(lots, f.inst, "short", "fifo")
<1>1. IsFact(f, I) BY FactAt
<1>2. n \in Nat \ {0} /\ value \in Int BY <1>1 DEF IsFact
<1>3. N \in Nat /\ lots \in [1..N -> LotsOf(I)] /\ DOMAIN lots = 1..N BY DEF Replays
<1>4. order = <<>>
  <2> DEFINE none == Open(lots, f.inst, "short")
             o == InOrder(lots, none, "fifo")
  <2>1. none = {} BY <1>3 DEF Open, NoShorts
  <2>2. o = order BY DEF Ordered
  <2>3. none \in SUBSET {j \in 1..N : lots[j].qty > 0} BY <2>1
  <2>4. Unknown \notin Int BY LedgerAssumption
  <2> HIDE DEF none, N, lots, order, o
  <2>5. /\ o \in Seq(1..N) /\ \A m \in DOMAIN o : o[m] \in none
        /\ \A j \in none : \E m \in DOMAIN o : o[m] = j
        /\ \A m, l \in DOMAIN o : m < l => o[m] # o[l] /\ Prefers(lots, "fifo", o[m], o[l])
    BY <1>3, <2>3, <2>4, OrderOfLots DEF o
  <2>6. DOMAIN o = {} BY <2>1, <2>5
  <2>7. o = <<>> BY <2>5, <2>6
  <2> QED BY <2>2, <2>7
<1>5. Take(lots, order, n) = [lots |-> lots, pieces |-> <<>>, left |-> n]
  <2> HIDE DEF order, lots, N, n
  <2>1. order \in Seq(1..N) /\ n \in Nat BY <1>2, <1>4
  <2> QED BY ONLY <1>3, <1>4, <2>1, TakeOfNone
<1> DEFINE taken == [lots |-> lots, pieces |-> <<>>, left |-> n]
<1>6. Trade(r, i, "long", "fifo") = Traded(r, i, "long", n, taken)
  <2>1. OpposedSide("long") = "short" BY DEF OpposedSide
  <2>2. (IF facts[i].qty > 0 THEN facts[i].qty ELSE -facts[i].qty) = n BY <1>2
  <2> HIDE DEF n
  <2> QED BY <1>5, <2>1, <2>2 DEF Trade
<1>7. n - n = 0 /\ n # 0 /\ (value * n) \div n = value BY <1>2, ProductQuotient
<1>8. taken.left = n /\ taken.lots = r.lots /\ taken.pieces = <<>> OBVIOUS
<1>9. [r EXCEPT !.lots = r.lots, !.realized = r.realized] = r BY DEF Replays
<1>10. facts[i].value = value /\ facts[i].inst = f.inst OBVIOUS
<1> HIDE DEF taken, n, value, lots
<1>11. Traded(r, i, "long", n, taken) = Opened(r, f.inst, i, "long", n, value)
  BY <1>7, <1>8, <1>9, <1>10 DEF Traded
<1> QED BY <1>6, <1>11 DEF n, value

\* ... and a sell that is covered leaves nothing to take.
LEMMA CoveredTakesAll ==
  ASSUME NEW I, NEW lots \in Seq(LotsOf(I)), NEW from, NEW method, NEW n \in Nat,
         Total(lots, from, "long") >= n
  PROVE  Take(lots, Ordered(lots, from, "long", method), n).left = 0
<1> DEFINE taken == Take(lots, Ordered(lots, from, "long", method), n)
           chosen == Open(lots, from, "long")
           S == Having(lots, from, "long")
           after == taken.lots
           f == [j \in S |-> after[j].qty]
<1>1. TakenFrom(lots, taken, chosen, method, n, I) BY TakeOpen
<1>2. Total(lots, from, "long") = QuantityOf(lots, S) /\ S \in SUBSET DOMAIN lots /\ IsFiniteSet(S)
      /\ Total(lots, from, "long") \in Int
  BY TotalOf
<1>3. chosen \subseteq S BY DEF Open, Having
<1>4. \A j \in S \ chosen : ~(lots[j].qty > 0) BY DEF Open, Having
<1> HIDE DEF taken, chosen, S
<1>5. QuantityOf(after, S) + n = QuantityOf(lots, S) + taken.left /\ taken.left \in Nat
  BY <1>1, <1>2, <1>3 DEF TakenFrom, Conserves
<1>6. SUFFICES ASSUME taken.left > 0
               PROVE  FALSE
  BY <1>5 DEF taken
<1>7. \A j \in S : after[j].qty = 0
  <2> TAKE j \in S
  <2>1. CASE j \in chosen BY <1>1, <1>6, <2>1 DEF TakenFrom
  <2>2. CASE j \notin chosen
    <3>1. after[j] = lots[j] BY <1>1, <1>2, <2>2 DEF TakenFrom
    <3>2. lots[j] \in LotsOf(I) BY <1>2
    <3>3. lots[j].qty \in Nat BY <3>2, LotFields
    <3> QED BY <1>4, <2>2, <3>1, <3>3
  <2> QED BY <2>1, <2>2
<1>8. QuantityOf(after, S) = SumOver(f, S) BY <1>2, QuantityIsSum
<1>9. \A j \in S : f[j] = 0 BY <1>7
<1> HIDE DEF f, after
<1>10. SumOver(f, S) = 0
  <2>1. SumOver(f, S) = SumOver(f, {})
    <3>1. {} \in SUBSET S /\ (\A j \in S : f[j] \in Int) /\ \A j \in S \ {} : f[j] = 0 BY <1>9
    <3> QED BY ONLY <1>2, <3>1, SumWithoutZeros
  <2>2. SumOver(f, {}) = 0 BY SumUnfolds, FS_EmptySet
  <2> QED BY <2>1, <2>2
<1> DEFINE a == QuantityOf(lots, S)
           left == taken.left
<1>11. 0 + n = a + left /\ left \in Nat /\ left > 0 /\ a \in Int /\ a >= n
  BY <1>2, <1>5, <1>6, <1>8, <1>10
<1> HIDE DEF a, left
<1> QED BY <1>11

\* The lots a transfer carries are the oldest ones that are open.
PlannedFrom(f, lots) ==
  LET taken == Take(lots, Ordered(lots, f.inst, "long", "fifo"), -f.qty)
  IN  taken.left = 0 /\ AllKnown(taken.pieces) /\ f.parts = taken.pieces

\* What one replay makes of a fact, the other one does too; there is no short lot.
Agree(s, t) == s = t /\ NoShorts(s)

LEMMA TradesAgree ==
  ASSUME NEW I, AreFacts(I), NEW i \in DOMAIN facts, NEW f, f = facts[i], f.kind \in {"buy", "sell"},
         NEW acc, NEW r \in Replays(I), r.ok, NoShorts(r), LotStep(acc, "fifo", FALSE, r, i).ok
  PROVE  Agree(LotStep(acc, "fifo", FALSE, r, i), FifoStep(acc, r, i))
<1>1. IsFact(f, I) BY FactAt
<1>2. CASE f.kind = "buy"
  <2> DEFINE s == Opened(r, f.inst, i, "long", f.qty, f.value)
             lot == Lot(f.inst, i, "long", f.qty, f.value, r.seq + 1)
  <2>1. LotStep(acc, "fifo", FALSE, r, i) = Trade(r, i, "long", "fifo") BY <1>2 DEF LotStep
  <2>2. FifoStep(acc, r, i) = s BY <1>2 DEF FifoStep
  <2>3. Trade(r, i, "long", "fifo") = s BY <1>2, BuyOpens
  <2>4. s.lots = Append(r.lots, lot) BY DEF Opened, Replays
  <2>5. lot.side = "long" BY DEF Lot
  <2> HIDE DEF s, lot
  <2>6. NoShorts(s) BY <2>4, <2>5, OpenedStaysLong
  <2> QED BY <2>1, <2>2, <2>3, <2>6 DEF Agree
<1>3. CASE f.kind = "sell"
  <2> DEFINE s == Trade(r, i, "short", "fifo")
             n == Size(f)
             taken == Take(r.lots, Ordered(r.lots, f.inst, OpposedSide("short"), "fifo"), n)
  <2>1. Covered(r, i)
    <3>1. ~Raise(r).ok BY DEF Raise, Replays
    <3> QED BY <1>3, <3>1 DEF LotStep
  <2>2. LotStep(acc, "fifo", FALSE, r, i) = s BY <1>3, <2>1 DEF LotStep
  <2>3. FifoStep(acc, r, i) = s BY <1>3, <2>1 DEF FifoStep
  <2>4. n = -f.qty /\ n \in Nat BY <1>1, <1>3 DEF IsFact, Size
  <2>5. Total(r.lots, f.inst, "long") >= n BY <2>1, <2>4 DEF Covered
  <2>6. OpposedSide("short") = "long" BY DEF OpposedSide
  <2>7. TradeOf(s, r, taken, f, i, "short", "fifo", I) BY TradeTrades DEF Sides
  <2>8. r.lots \in Seq(LotsOf(I)) BY DEF Replays
  <2>9. taken.left = 0
    <3>1. taken = Take(r.lots, Ordered(r.lots, f.inst, "long", "fifo"), n) BY <2>6
    <3> HIDE DEF n, taken
    <3> QED BY ONLY <2>4, <2>5, <2>8, <3>1, CoveredTakesAll
  <2> HIDE DEF s, n, taken
  <2>10. s.lots = taken.lots BY <2>7, <2>9 DEF TradeOf
  <2>11. SameLots(r.lots, s.lots, I) BY <2>7, <2>8, <2>10, TakenIsSame DEF TradeOf
  <2>12. NoShorts(s) BY <2>11, SameLotsStayLong
  <2> QED BY <2>2, <2>3, <2>12 DEF Agree
<1> QED BY <1>2, <1>3

LEMMA TransfersAgree ==
  ASSUME NEW I, AreFacts(I), NEW i \in DOMAIN facts, NEW f, f = facts[i], f.kind = "transfer",
         NEW acc, NEW r \in Replays(I), r.ok, NoShorts(r), f.acc = acc => PlannedFrom(f, r.lots)
  PROVE  Agree(LotStep(acc, "fifo", FALSE, r, i), FifoStep(acc, r, i))
<1>1. IsFact(f, I) BY FactAt
<1>2. f.parts \in CarriedLots /\ f.inst \in I BY <1>1 DEF IsFact
<1>3. CASE f.acc = acc
  <2> DEFINE n == -f.qty
             taken == Take(r.lots, Ordered(r.lots, f.inst, "long", "fifo"), n)
             s == [r EXCEPT !.lots = taken.lots]
  <2>1. taken.left = 0 /\ AllKnown(taken.pieces) /\ f.parts = taken.pieces BY <1>3 DEF PlannedFrom
  <2>2. n \in Nat BY <1>1 DEF IsFact
  <2>3. GiveLots(r, f) = s
    <3> HIDE DEF n
    <3>1. taken = Take(r.lots, Ordered(r.lots, f.inst, "long", "fifo"), n) OBVIOUS
    <3> HIDE DEF taken
    <3>2. GiveLots(r, f) = [r EXCEPT !.lots = taken.lots] BY ONLY <1>2, <2>1, <2>2, <3>1, r \in Replays(I), r.ok, GivingsAgree
    <3> QED BY <3>2 DEF taken
  <2>4. GiveOldest(r, f) = s
    <3>1. GiveOldest(r, f) = Given(r, taken, PieceValue(f.parts)) BY DEF GiveOldest
    <3> HIDE DEF taken
    <3> QED BY <2>1, <3>1 DEF Given
  <2>5. LotStep(acc, "fifo", FALSE, r, i) = GiveLots(r, f) BY <1>3 DEF LotStep
  <2>6. FifoStep(acc, r, i) = GiveOldest(r, f) BY <1>3 DEF FifoStep
  <2>7. r.lots \in Seq(LotsOf(I)) BY DEF Replays
  <2>8. SameLots(r.lots, taken.lots, I)
    <3> HIDE DEF n
    <3>1. TakenFrom(r.lots, taken, Open(r.lots, f.inst, "long"), "fifo", n, I)
      BY <2>2, <2>7, TakeOpen
    <3> HIDE DEF taken
    <3> QED BY <2>7, <3>1, TakenIsSame
  <2>9. s.lots = taken.lots BY DEF Replays
  <2> HIDE DEF s, taken
  <2>10. NoShorts(s) BY <2>8, <2>9, SameLotsStayLong
  <2> QED BY <2>3, <2>4, <2>5, <2>6, <2>10 DEF Agree
<1>4. CASE f.acc # acc
  <2> DEFINE s == ReceiveLots(r, f)
  <2>1. LotStep(acc, "fifo", FALSE, r, i) = s BY <1>4 DEF LotStep
  <2>2. FifoStep(acc, r, i) = s BY <1>4 DEF FifoStep
  <2>3. ReceivedAfter(s, r, f, I) BY <1>2, ReceiveReceives
  <2> HIDE DEF s
  <2>4. NoShorts(s) BY <1>2, <2>3, ReceivedStaysLong
  <2> QED BY <2>1, <2>2, <2>4 DEF Agree
<1> QED BY <1>3, <1>4

LEMMA OthersAgree ==
  ASSUME NEW I, AreFacts(I), NEW i \in DOMAIN facts, NEW f, f = facts[i], f.kind \in {"split", "move"},
         HasLegs(f, book.allocated), NEW acc, NEW r \in Replays(I), r.ok, NoShorts(r),
         LotStep(acc, "fifo", FALSE, r, i).ok
  PROVE  Agree(LotStep(acc, "fifo", FALSE, r, i), FifoStep(acc, r, i))
<1>1. IsFact(f, I) BY FactAt
<1>2. CASE f.kind = "split"
  <2> DEFINE s == [r EXCEPT !.lots = Scaled(r.lots, f.inst, f.ratio)]
  <2>1. LotStep(acc, "fifo", FALSE, r, i) = s BY <1>2 DEF LotStep
  <2>2. FifoStep(acc, r, i) = s BY <1>2 DEF FifoStep
  <2>3. f.ratio[1] \in Nat \ {0} /\ f.ratio[2] \in Nat \ {0} BY <1>1 DEF IsFact
  <2>4. Touches(s, r, I) BY <2>3, SplitTouches
  <2> HIDE DEF s
  <2>5. NoShorts(s) BY <2>4, SameLotsStayLong DEF Touches
  <2> QED BY <2>1, <2>2, <2>5 DEF Agree
<1>3. CASE f.kind = "move"
  <2> DEFINE s == Opened(r, f.inst, i, "long", f.qty, Unknown)
             lot == Lot(f.inst, i, "long", f.qty, Unknown, r.seq + 1)
  <2>1. f.qty \in Int /\ f.qty # 0 /\ f.gets = 0 BY <1>1, <1>3 DEF IsFact, HasLegs
  <2>2. f.qty > 0 /\ LotStep(acc, "fifo", FALSE, r, i) = s
    <3>1. ~Raise(r).ok BY DEF Raise, Replays
    <3>2. LotStep(acc, "fifo", FALSE, r, i) = IF f.qty < 0 THEN Raise(r) ELSE s BY <1>3 DEF LotStep
    <3> HIDE DEF s
    <3>3. ~(f.qty < 0) BY <3>1, <3>2
    <3>4. LotStep(acc, "fifo", FALSE, r, i) = s BY <3>2, <3>3
    <3>5. f.qty > 0 BY <2>1, <3>3
    <3> QED BY <3>4, <3>5
  <2>3. s.lots = Append(r.lots, lot) /\ s.ok BY DEF Opened, Replays
  <2>4. lot.side = "long" BY DEF Lot
  <2>5. PlainLeg(r, i, f.inst, f.qty) = s BY <2>2 DEF PlainLeg
  <2> HIDE DEF s, lot
  <2>6. PlainLeg(s, i, f.dst, f.gets) = s BY <2>1 DEF PlainLeg
  <2>7. PlainLegs(r, i, f) = s BY <2>3, <2>5, <2>6 DEF PlainLegs
  <2>8. FifoStep(acc, r, i) = PlainLegs(r, i, f) BY <1>3 DEF FifoStep
  <2>9. NoShorts(s) BY <2>3, <2>4, OpenedStaysLong
  <2> QED BY <2>2, <2>7, <2>8, <2>9 DEF Agree
<1> QED BY <1>2, <1>3

\* A transfer took the lots that the FIFO replay has open when it comes to it.
LEMMA TransfersPlanned ==
  ASSUME LedgerInv, NothingBackdatedBeforeDerived, NEW acc, NEW asOf \in Nat,
         NEW h, h = Visible(acc, asOf, today), NEW m \in 1..Len(h),
         NEW f, f = facts[h[m]], f.kind = "transfer", f.acc = acc,
         NEW r, r = ReplayFifo(acc, SubSeq(h, 1, m - 1))
  PROVE  PlannedFrom(f, r.lots)
<1> DEFINE i == h[m]
           past == SubSeq(h, 1, m - 1)
<1>1. HistoryInv /\ FactsFit BY DEF LedgerInv
<1>2. h \in Seq(DOMAIN facts) /\ m \in DOMAIN h /\ i \in DOMAIN facts
  <2>1. h \in Seq(DOMAIN facts) BY <1>1, VisibleIsHistory
  <2> QED BY <2>1
<1>3. \A j \in DOMAIN facts : i < j => facts[i].eff <= facts[j].eff
  <2> TAKE j \in DOMAIN facts
  <2>1. facts[i].kind \in Derived BY DEF Derived
  <2> HIDE DEF i
  <2> QED BY <1>2, <2>1 DEF NothingBackdatedBeforeDerived
<1>4. past = Before(acc, i)
  BY <1>1, <1>2, <1>3, PrefixIsBefore
<1> HIDE DEF i
<1>5. f = facts[i] BY DEF i
<1>6. r = ReplayFifo(acc, past) OBVIOUS
<1> HIDE DEF past
<1>7. Fits(f, past) BY <1>1, <1>2, <1>4, <1>5 DEF FactsFit
<1>8. TransferFits(f, past) BY <1>7 DEF Fits
<1>9. r = ReplayFifo(f.acc, past) BY <1>6
<1> QED BY <1>8, <1>9 DEF TransferFits, PlannedFrom

LEMMA StepsAgree ==
  ASSUME NEW I, AreFacts(I), NEW i \in DOMAIN facts, NEW f, f = facts[i], f.kind \notin Actions,
         HasLegs(f, book.allocated), NEW acc, NEW r \in Replays(I), r.ok, NoShorts(r),
         f.kind = "transfer" /\ f.acc = acc => PlannedFrom(f, r.lots),
         LotStep(acc, "fifo", FALSE, r, i).ok
  PROVE  Agree(LotStep(acc, "fifo", FALSE, r, i), FifoStep(acc, r, i))
<1>1. IsFact(f, I) BY FactAt
<1>2. f.kind \in {"buy", "sell", "split", "transfer", "move"} BY <1>1 DEF IsFact
<1>3. CASE f.kind \in {"buy", "sell"} BY <1>3, TradesAgree
<1>4. CASE f.kind = "transfer" BY <1>4, TransfersAgree
<1>5. CASE f.kind \in {"split", "move"} BY <1>5, OthersAgree
<1> QED BY <1>2, <1>3, <1>4, <1>5

\* At each fact of a history without actions, the two FIFO replays have made the
\* same of the facts before it, if neither has raised.
LEMMA RunsAgree ==
  ASSUME LedgerInv, NothingBackdatedBeforeDerived, NEW acc, NEW asOf \in Nat,
         NEW h, h = Visible(acc, asOf, today), NEW I, I = book.instruments,
         \A n \in DOMAIN h : facts[h[n]].kind \notin Actions,
         NEW run, LotsRun(run, I, acc, h, "fifo", FALSE), NEW fifo, FifoRun(fifo, I, acc, h)
  PROVE  \A m \in 0..Len(h) : run[m].ok /\ fifo[m].ok => Agree(run[m], fifo[m])
<1> DEFINE N == Len(h)
           Q == {m \in 0..N : run[m].ok /\ fifo[m].ok => Agree(run[m], fifo[m])}
<1>1. HistoryInv /\ FactsFit /\ AreFacts(I) /\ book \in Books BY DEF LedgerInv, BookInv
<1>2. h \in Seq(DOMAIN facts) BY <1>1, VisibleIsHistory
<1>3. N \in Nat /\ DOMAIN h = 1..N BY <1>2
<1>4. /\ run \in [0..N -> Sounds(I)] /\ run[0] = EmptyReplay
      /\ \A n \in 1..N :
           run[n] = IF run[n - 1].ok THEN LotStep(acc, "fifo", FALSE, run[n - 1], h[n]) ELSE run[n - 1]
  BY DEF LotsRun
<1>5. /\ fifo[0] = EmptyReplay
      /\ \A n \in 1..N :
           fifo[n] = IF fifo[n - 1].ok THEN FifoStep(acc, fifo[n - 1], h[n]) ELSE fifo[n - 1]
  BY DEF FifoRun
<1>6. 0 \in Q
  <2>1. NoShorts(EmptyReplay) BY DEF NoShorts, EmptyReplay
  <2> QED BY <1>3, <1>4, <1>5, <2>1 DEF Agree
<1>7. ASSUME NEW m \in 1..N, m - 1 \in Q
      PROVE  m \in Q
  <2> SUFFICES ASSUME run[m].ok, fifo[m].ok
               PROVE  Agree(run[m], fifo[m])
    BY <1>3
  <2> DEFINE r == run[m - 1]
             i == h[m]
             f == facts[i]
  <2>1. m - 1 \in 0..N /\ m \in DOMAIN h BY <1>3
  <2>2. r \in Replays(I) BY <1>4, <2>1 DEF Sounds
  <2>3. r.ok /\ run[m] = LotStep(acc, "fifo", FALSE, r, i) BY <1>4
  <2>4. fifo[m - 1].ok /\ fifo[m] = FifoStep(acc, fifo[m - 1], i) BY <1>5
  <2>5. r = fifo[m - 1] /\ NoShorts(r) BY <1>7, <2>3, <2>4 DEF Agree
  <2>6. i \in DOMAIN facts BY <1>2, <2>1
  <2>7. HasLegs(f, book.allocated)
    <3> HIDE DEF i
    <3> QED BY <1>1, <2>6 DEF FactsFit
  <2>8. fifo[m - 1] = ReplayFifo(acc, SubSeq(h, 1, m - 1))
    BY <1>1, <1>2, <2>1, FifoOfPrefix
  <2>9. ASSUME f.kind = "transfer", f.acc = acc
        PROVE  PlannedFrom(f, r.lots)
    <3>1. f = facts[h[m]] OBVIOUS
    <3>2. r = ReplayFifo(acc, SubSeq(h, 1, m - 1)) BY <2>5, <2>8
    <3> HIDE DEF f, r
    <3> QED BY <2>9, <3>1, <3>2, TransfersPlanned
  <2>10. f.kind \notin Actions /\ f = facts[i] BY <2>1
  <2> HIDE DEF r, i, f
  <2>11. Agree(LotStep(acc, "fifo", FALSE, r, i), FifoStep(acc, r, i))
    BY ZenonT(30), <1>1, <2>2, <2>3, <2>5, <2>6, <2>7, <2>9, <2>10, StepsAgree
  <2> QED BY <2>3, <2>4, <2>5, <2>11
<1>8. \A m \in 0..N : m \in Q
  <2> HIDE DEF Q, N
  <2> QED BY <1>3, <1>6, <1>7, CountUp
<1> QED BY <1>8

\* The two FIFO implementations agree: in every ledger in which no fact was
\* backdated before one that was worked out from the history, at every cutoff,
\* replay_fifo and replay_lots without shorts leave the same lots and the same
\* realized results, if neither raises and no action is on the way.
THEOREM FifosAgree == LedgerSpec => []FifoAgrees
<1>1. LedgerInv => FifoAgrees
  <2> SUFFICES ASSUME LedgerInv, NothingBackdatedBeforeDerived, NEW acc \in book.accounts,
                      NEW asOf \in 1..today, NEW history, history = Visible(acc, asOf, today),
                      ReplayFifo(acc, history).ok, ReplayLots(acc, history, "fifo", FALSE).ok,
                      \A n \in DOMAIN history : facts[history[n]].kind \notin Actions
               PROVE  ReplayFifo(acc, history) = ReplayLots(acc, history, "fifo", FALSE)
    BY DEF FifoAgrees
  <2>1. PICK I : I = book.instruments OBVIOUS
  <2>2. HistoryInv /\ AreFacts(I) BY <2>1 DEF LedgerInv, BookInv
  <2>3. history \in Seq(DOMAIN facts) BY <2>2, VisibleIsHistory
  <2>4. asOf \in Nat BY <2>2 DEF HistoryInv
  <2>5. PICK run : /\ LotsRun(run, I, acc, history, "fifo", FALSE)
                   /\ ReplayLots(acc, history, "fifo", FALSE) = run[Len(history)]
    BY ZenonT(30), <2>2, <2>3, ReplayLotsRuns
  <2>6. PICK fifo : FifoRun(fifo, I, acc, history) /\ ReplayFifo(acc, history) = fifo[Len(history)]
    BY <2>2, <2>3, ReplayFifoRuns
  <2>7. \A m \in 0..Len(history) : run[m].ok /\ fifo[m].ok => Agree(run[m], fifo[m])
    BY <2>1, <2>4, <2>5, <2>6, RunsAgree
  <2>8. Len(history) \in 0..Len(history) BY <2>3
  <2> QED BY <2>5, <2>6, <2>7, <2>8 DEF Agree
<1> QED BY <1>1, LedgerInvHolds, PTL

\* Without short lots, what is held is what the long ones hold.
LEMMA NetWithoutShorts ==
  ASSUME NEW I, NEW r \in Replays(I), NoShorts(r), NEW inst
  PROVE  Net(r.lots, inst) = Total(r.lots, inst, "long") /\ Total(r.lots, inst, "long") \in Int
<1> DEFINE lots == r.lots
           none == Having(lots, inst, "short")
           f == [j \in none |-> lots[j].qty]
<1>1. lots \in Seq(LotsOf(I)) BY DEF Replays
<1>2. none = {} BY DEF Having, NoShorts
<1>3. Total(lots, inst, "short") = QuantityOf(lots, none) /\ Total(lots, inst, "long") \in Int
  BY <1>1, TotalOf
<1>4. QuantityOf(lots, none) = SumOver(f, none) BY <1>2, QuantityIsSum, FS_EmptySet
<1> HIDE DEF lots, none, f
<1>5. SumOver(f, none) = 0 BY <1>2, SumUnfolds, FS_EmptySet
<1>6. Net(lots, inst) = Total(lots, inst, "long") BY <1>3, <1>4, <1>5 DEF Net
<1> QED BY <1>3, <1>6 DEF lots

\* A sell of what is held is covered.
LEMMA SellIsCovered ==
  ASSUME NEW I, AreFacts(I), NEW i \in DOMAIN facts, NEW f, f = facts[i], f.kind = "sell", HasLegs(f, TRUE),
         NEW acc, f.acc = acc, NEW r \in Replays(I), NoShorts(r),
         Net(r.lots, f.inst) + Delta(f, acc, f.inst) >= 0
  PROVE  Covered(r, i)
<1> DEFINE held == Total(r.lots, f.inst, "long")
           n == f.qty
<1>1. IsFact(f, I) BY FactAt
<1>2. n \in Int /\ f.to = f.acc /\ f.gets = 0 BY <1>1 DEF IsFact, HasLegs
<1>3. Delta(f, acc, f.inst) = n BY <1>2, DeltaOfOne
<1>4. Net(r.lots, f.inst) = held /\ held \in Int BY NetWithoutShorts
<1> HIDE DEF held, n
<1>5. held >= -n BY <1>2, <1>3, <1>4
<1> QED BY <1>5 DEF Covered, held, n

\* If sells are covered, it makes no difference whether shorts are allowed.
LEMMA ShortsMakeNoDifference ==
  ASSUME NEW acc, NEW method, NEW short, NEW r, NEW i, facts[i].kind = "sell" => Covered(r, i)
  PROVE  LotStep(acc, method, short, r, i) = LotStep(acc, method, FALSE, r, i)
BY DEF LotStep

\* A fact that neither sells nor moves away what is not held does not raise.
LEMMA StepsReplay ==
  ASSUME NEW I, AreFacts(I), NEW i \in DOMAIN facts, NEW f, f = facts[i], f.kind \notin Actions,
         NEW acc, NEW r \in Replays(I), r.ok, NoShorts(r),
         f.kind = "transfer" /\ f.acc = acc => PlannedFrom(f, r.lots),
         f.kind = "sell" => Covered(r, i), f.kind = "move" => f.qty > 0
  PROVE  LotStep(acc, "fifo", FALSE, r, i).ok
<1> DEFINE s == LotStep(acc, "fifo", FALSE, r, i)
<1>1. IsFact(f, I) BY FactAt
<1>2. f.kind \in {"buy", "sell", "split", "transfer", "move"} BY <1>1 DEF IsFact
<1>3. CASE f.kind \in {"buy", "sell"}
  <2> DEFINE side == IF f.kind = "buy" THEN "long" ELSE "short"
  <2>1. side \in Sides BY DEF Sides
  <2>2. s = Trade(r, i, side, "fifo") BY <1>3 DEF LotStep
  <2> HIDE DEF side, s
  <2>3. Trade(r, i, side, "fifo").ok = r.ok BY <1>3, <2>1, TradeTrades DEF TradeOf
  <2> QED BY <2>2, <2>3 DEF s
<1>4. CASE f.kind = "split"
  <2>1. s = [r EXCEPT !.lots = Scaled(r.lots, f.inst, f.ratio)] BY <1>4 DEF LotStep
  <2> QED BY <2>1 DEF Replays
<1>5. CASE f.kind = "transfer" /\ f.acc = acc
  <2> DEFINE n == -f.qty
             taken == Take(r.lots, Ordered(r.lots, f.inst, "long", "fifo"), n)
  <2>1. taken.left = 0 /\ AllKnown(taken.pieces) /\ f.parts = taken.pieces BY <1>5 DEF PlannedFrom
  <2>2. n \in Nat /\ f.parts \in CarriedLots BY <1>1, <1>5 DEF IsFact
  <2>3. s = GiveLots(r, f) BY <1>5 DEF LotStep
  <2> HIDE DEF n, s
  <2>4. taken = Take(r.lots, Ordered(r.lots, f.inst, "long", "fifo"), n) OBVIOUS
  <2> HIDE DEF taken
  <2>5. GiveLots(r, f) = [r EXCEPT !.lots = taken.lots]
    BY ONLY <2>1, <2>2, <2>4, r \in Replays(I), r.ok, GivingsAgree
  <2> QED BY <2>3, <2>5 DEF Replays, s
<1>6. CASE f.kind = "transfer" /\ f.acc # acc
  <2>1. s = ReceiveLots(r, f) BY <1>6 DEF LotStep
  <2> QED BY <2>1 DEF ReceiveLots, Replays
<1>7. CASE f.kind = "move"
  <2>1. f.qty \in Int /\ ~(f.qty < 0) BY <1>1, <1>7 DEF IsFact
  <2>2. s = Opened(r, f.inst, i, "long", f.qty, Unknown) BY <1>7, <2>1 DEF LotStep
  <2> QED BY <2>2 DEF Opened, Replays
<1> QED BY <1>2, <1>3, <1>4, <1>5, <1>6, <1>7

\* What the replays have made of the first m facts of a history: the same lots, none
\* of them short, which explain what is held.
Replayed(lots, shorts, fifo, h, m, acc, I) ==
  /\ lots.ok /\ shorts = lots /\ Agree(lots, fifo) /\ Explained(lots, h, m, acc, I)

LEMMA RunsReplay ==
  ASSUME LedgerInv, NothingBackdatedBeforeDerived, NEW acc, NEW asOf \in Nat,
         NEW h, h = Visible(acc, asOf, today), NEW I, I = book.instruments,
         \A n \in DOMAIN h : facts[h[n]].kind \notin Actions,
         \A n \in DOMAIN h : facts[h[n]].kind = "move" => facts[h[n]].qty > 0,
         \A n \in 1..Len(h), inst \in I : Held(SubSeq(h, 1, n), acc, inst) >= 0,
         NEW run, LotsRun(run, I, acc, h, "fifo", FALSE),
         NEW shorts, LotsRun(shorts, I, acc, h, "fifo", book.short),
         NEW fifo, FifoRun(fifo, I, acc, h)
  PROVE  \A m \in 0..Len(h) : Replayed(run[m], shorts[m], fifo[m], h, m, acc, I)
<1> DEFINE N == Len(h)
           Q == {m \in 0..N : Replayed(run[m], shorts[m], fifo[m], h, m, acc, I)}
           short == book.short
<1>1. HistoryInv /\ FactsFit /\ AreFacts(I) /\ book \in Books BY DEF LedgerInv, BookInv
<1>2. h \in Seq(DOMAIN facts) /\ \A n \in DOMAIN h : acc \in {facts[h[n]].acc, facts[h[n]].to}
  BY <1>1, VisibleIsHistory
<1>3. N \in Nat /\ DOMAIN h = 1..N BY <1>2
<1>4. /\ run \in [0..N -> Sounds(I)] /\ run[0] = EmptyReplay
      /\ \A n \in 1..N :
           run[n] = IF run[n - 1].ok THEN LotStep(acc, "fifo", FALSE, run[n - 1], h[n]) ELSE run[n - 1]
  BY DEF LotsRun
<1>5. /\ shorts[0] = EmptyReplay
      /\ \A n \in 1..N :
           shorts[n] = IF shorts[n - 1].ok THEN LotStep(acc, "fifo", short, shorts[n - 1], h[n]) ELSE shorts[n - 1]
  BY DEF LotsRun
<1>6. /\ fifo[0] = EmptyReplay
      /\ \A n \in 1..N :
           fifo[n] = IF fifo[n - 1].ok THEN FifoStep(acc, fifo[n - 1], h[n]) ELSE fifo[n - 1]
  BY DEF FifoRun
<1>7. 0 \in Q
  <2>1. NoShorts(EmptyReplay) /\ EmptyReplay.ok BY DEF NoShorts, EmptyReplay
  <2>2. \A inst : Held(SubSeq(h, 1, 0), acc, inst) = 0 BY <1>1, <1>2, HeldGrows
  <2>3. Explained(EmptyReplay, h, 0, acc, I) BY <2>2, NetOfNone DEF Explained
  <2> QED BY <1>3, <1>4, <1>5, <1>6, <2>1, <2>3 DEF Replayed, Agree
<1>8. ASSUME NEW m \in 1..N, m - 1 \in Q
      PROVE  m \in Q
  <2> DEFINE r == run[m - 1]
             i == h[m]
             f == facts[i]
             s == LotStep(acc, "fifo", FALSE, r, i)
  <2>1. m - 1 \in 0..N /\ m \in 0..N /\ m \in DOMAIN h BY <1>3
  <2>2. r \in Replays(I) BY <1>4, <2>1 DEF Sounds
  <2>3. /\ r.ok /\ shorts[m - 1] = r /\ fifo[m - 1] = r /\ NoShorts(r)
        /\ \A x \in I : Net(r.lots, x) = Held(SubSeq(h, 1, m - 1), acc, x)
    BY <1>8 DEF Replayed, Agree, Explained
  <2>4. run[m] = s /\ shorts[m] = LotStep(acc, "fifo", short, r, i) /\ fifo[m] = FifoStep(acc, r, i)
    BY ZenonT(30), <1>4, <1>5, <1>6, <2>3
  <2>5. i \in DOMAIN facts /\ acc \in {f.acc, f.to} /\ f = facts[i] BY <1>2, <2>1
  <2>6. f.kind \notin Actions /\ (f.kind = "move" => f.qty > 0) BY <2>1
  <2>7. HasLegs(f, book.allocated) /\ HasLegs(f, TRUE)
    <3> HIDE DEF i
    <3>1. HasLegs(f, book.allocated) BY <1>1, <2>5 DEF FactsFit
    <3> HIDE DEF f
    <3>2. HasLegs(f, TRUE) BY <2>6, <3>1 DEF HasLegs
    <3> QED BY <3>1, <3>2
  <2>8. IsFact(f, I) BY <1>1, <2>5, FactAt
  <2>9. r = ReplayLots(acc, SubSeq(h, 1, m - 1), "fifo", short)
    BY <1>1, <1>2, <2>1, <2>3, LotsOfPrefix
  <2>10. r = ReplayFifo(acc, SubSeq(h, 1, m - 1))
    BY <1>1, <1>2, <2>1, <2>3, FifoOfPrefix
  <2>11. \A inst \in I : /\ Held(SubSeq(h, 1, m - 1), acc, inst) \in Int /\ Delta(f, acc, inst) \in Int
                         /\ Held(SubSeq(h, 1, m), acc, inst)
                              = Held(SubSeq(h, 1, m - 1), acc, inst) + Delta(f, acc, inst)
                         /\ Held(SubSeq(h, 1, m), acc, inst) >= 0
    <3> TAKE inst \in I
    <3>1. \A n \in 1..Len(h) : /\ Held(SubSeq(h, 1, n - 1), acc, inst) \in Int
                               /\ Delta(facts[h[n]], acc, inst) \in Int
                               /\ Held(SubSeq(h, 1, n), acc, inst)
                                    = Held(SubSeq(h, 1, n - 1), acc, inst) + Delta(facts[h[n]], acc, inst)
      BY ONLY <1>1, <1>2, HeldGrows
    <3>2. m \in 1..Len(h) /\ f = facts[h[m]] BY DEF f, i
    <3>3. Held(SubSeq(h, 1, m), acc, inst) >= 0 OBVIOUS
    <3> HIDE DEF f
    <3> QED BY <3>1, <3>2, <3>3
  <2>12. ASSUME f.kind = "split"
         PROVE  SplitOf(f, r.lots)
    <3>1. f.acc = acc BY <2>5, <2>7, <2>12 DEF HasLegs
    <3>2. Net(r.lots, f.inst) = Held(SubSeq(h, 1, m - 1), acc, f.inst) BY <2>3, <2>8 DEF IsFact
    <3>3. f = facts[h[m]] /\ "fifo" \in book.methods \cup {"fifo"} OBVIOUS
    <3> HIDE DEF f, r
    <3> QED BY <2>9, <2>12, <3>1, <3>2, <3>3, SplitsFit
  <2>13. ASSUME f.kind = "transfer", f.acc = acc
         PROVE  PlannedFrom(f, r.lots)
    <3>1. f = facts[h[m]] OBVIOUS
    <3> HIDE DEF f, r
    <3> QED BY <2>10, <2>13, <3>1, TransfersPlanned
  <2> HIDE DEF r, i, f
  <2>14. ASSUME f.kind = "sell"
         PROVE  Covered(r, i)
    <3>1. f.acc = acc /\ f.inst \in I BY <2>5, <2>7, <2>8, <2>14 DEF HasLegs, IsFact
    <3> DEFINE held == Held(SubSeq(h, 1, m - 1), acc, f.inst)
               delta == Delta(f, acc, f.inst)
    <3>2. Net(r.lots, f.inst) = held /\ held + delta >= 0
      <4>1. Held(SubSeq(h, 1, m), acc, f.inst) = held + delta /\ Held(SubSeq(h, 1, m), acc, f.inst) >= 0
        BY <2>11, <3>1
      <4> QED BY <2>3, <3>1, <4>1
    <3>3. Net(r.lots, f.inst) + Delta(f, acc, f.inst) >= 0 BY <3>2
    <3> QED BY <1>1, <2>2, <2>3, <2>5, <2>7, <2>14, <3>1, <3>3, SellIsCovered
  <2>15. s.ok /\ LotStep(acc, "fifo", short, r, i) = s
    <3>1. LotStep(acc, "fifo", FALSE, r, i).ok
      BY <1>1, <2>2, <2>3, <2>5, <2>6, <2>13, <2>14, StepsReplay
    <3>2. LotStep(acc, "fifo", short, r, i) = LotStep(acc, "fifo", FALSE, r, i)
      <4>1. facts[i].kind = "sell" => Covered(r, i) BY <2>5, <2>14
      <4> HIDE DEF short
      <4> QED BY ONLY <4>1, ShortsMakeNoDifference
    <3> QED BY <3>1, <3>2
  <2>16. Agree(s, FifoStep(acc, r, i))
    BY <1>1, <2>2, <2>3, <2>5, <2>6, <2>7, <2>13, <2>15, StepsAgree
  <2>17. Explained(s, h, m, acc, I)
    <3> SUFFICES ASSUME NEW inst \in I
                 PROVE  Net(s.lots, inst) = Held(SubSeq(h, 1, m), acc, inst)
      BY DEF Explained
    <3>1. Gains(LotStep(acc, "fifo", FALSE, r, i).lots, r.lots, f, acc, inst)
      BY ZenonT(30), <1>1, <2>2, <2>3, <2>5, <2>7, <2>12, <2>15, StepGains
    <3>2. Net(s.lots, inst) = Net(r.lots, inst) + Delta(f, acc, inst) BY <3>1 DEF Gains
    <3>3. Net(r.lots, inst) = Held(SubSeq(h, 1, m - 1), acc, inst) BY <2>3
    <3> HIDE DEF s
    <3> QED BY <2>11, <3>2, <3>3
  <2> HIDE DEF s
  <2>18. Replayed(run[m], shorts[m], fifo[m], h, m, acc, I)
    BY <2>4, <2>15, <2>16, <2>17 DEF Replayed
  <2> QED BY <2>1, <2>18
<1>9. \A m \in 0..N : m \in Q
  <2> HIDE DEF Q, N
  <2> QED BY <1>3, <1>7, <1>8, CountUp
<1> QED BY <1>9

WithoutActions == \A i \in DOMAIN facts : facts[i].kind \notin Actions

\* In every ledger without corporate actions, a history that never goes below
\* zero and has no unlinked outgoing transfer is replayed by replay_fifo and by
\* replay_lots, neither of which raises, whatever was traded, split and
\* transferred in it, if no fact was backdated before one that was worked out from
\* the history.
THEOREM HistoriesReplay == LedgerSpec => [](WithoutActions => AlwaysReplays)
<1>1. LedgerInv => (WithoutActions => AlwaysReplays)
  <2> SUFFICES ASSUME LedgerInv, WithoutActions, NothingBackdatedBeforeDerived, NEW acc \in book.accounts,
                      NEW asOf \in 1..today, NEW history, history = Visible(acc, asOf, today),
                      \A n \in 1..Len(history), inst \in book.instruments :
                        Held(SubSeq(history, 1, n), acc, inst) >= 0,
                      \A n \in DOMAIN history : facts[history[n]].kind = "move" => facts[history[n]].qty > 0
               PROVE  ReplayFifo(acc, history).ok /\ ReplayLots(acc, history, "fifo", FALSE).ok
    BY DEF AlwaysReplays
  <2>1. PICK I : I = book.instruments OBVIOUS
  <2>2. HistoryInv /\ AreFacts(I) BY <2>1 DEF LedgerInv, BookInv
  <2>3. history \in Seq(DOMAIN facts) BY <2>2, VisibleIsHistory
  <2>4. asOf \in Nat BY <2>2 DEF HistoryInv
  <2>5. PICK run : /\ LotsRun(run, I, acc, history, "fifo", FALSE)
                   /\ ReplayLots(acc, history, "fifo", FALSE) = run[Len(history)]
    BY ONLY ZenonT(30), <2>2, <2>3, ReplayLotsRuns
  <2>6. PICK shorts : /\ LotsRun(shorts, I, acc, history, "fifo", book.short)
                      /\ ReplayLots(acc, history, "fifo", book.short) = shorts[Len(history)]
    BY ONLY <2>2, <2>3, ReplayLotsRuns
  <2>7. PICK fifo : FifoRun(fifo, I, acc, history) /\ ReplayFifo(acc, history) = fifo[Len(history)]
    BY <2>2, <2>3, ReplayFifoRuns
  <2>8. \A n \in DOMAIN history : facts[history[n]].kind \notin Actions BY <2>3 DEF WithoutActions
  <2>9. \A m \in 0..Len(history) : Replayed(run[m], shorts[m], fifo[m], history, m, acc, I)
    BY <2>1, <2>4, <2>5, <2>6, <2>7, <2>8, RunsReplay
  <2>10. Len(history) \in 0..Len(history) BY <2>3
  <2> QED BY <2>5, <2>7, <2>9, <2>10 DEF Replayed, Agree
<1> QED BY <1>1, LedgerInvHolds, PTL

===============================================================================
