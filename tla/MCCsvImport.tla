----------------------------- MODULE MCCsvImport -----------------------------
(***************************************************************************)
(* Instances of CsvImport for TLC: three exports of one broker that agree  *)
(* on event x or contradict each other, two accounts, and legacy bookings  *)
(* of x made before external ids were account-scoped.                      *)
(***************************************************************************)
EXTENDS CsvImport, TLC

CONSTANTS ja, jb, jc, old1, old2

MCRow(ext, economics, dated) ==
  [ext |-> ext, economics |-> economics, dated |-> dated, date |-> 0]

\* An export, and one that contradicts it.
Export == {MCRow("x", "buy", TRUE)}
Contradicting == {MCRow("x", "sell", TRUE)}

\* The export with one more row that has no date.
Undated == Export \cup {MCRow("z", "deposit", FALSE)}

MCContents == {Export, Contradicting, Undated}

MCAccount == (ja :> "main" @@ jb :> "main" @@ jc :> "other"
              @@ old1 :> "main" @@ old2 :> "main")

LegacyTx(by, economics, bytes) ==
  [job |-> by, ext |-> "x", known |-> 0, art |-> bytes,
   semantic |-> [economics |-> economics, effective |-> 0]]
MCLegacyTxs == {LegacyTx(old1, "buy", Export), LegacyTx(old2, "sell", Contradicting)}

ConnSymmetry == Permutations(Conns)
=============================================================================
