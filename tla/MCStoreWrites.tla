---------------------------- MODULE MCStoreWrites ----------------------------
(***************************************************************************)
(* Instances of StoreWrites for TLC: one job of each kind, and a second    *)
(* import of the same file, which cites the artifact of the first one.     *)
(***************************************************************************)
EXTENDS StoreWrites, TLC

CONSTANTS jl, js, ji, jr, dl, ds, df

MCKind == (jl :> "ledger" @@ js :> "scoped" @@ ji :> "import" @@ jr :> "import")
MCDigest == (jl :> dl @@ js :> ds @@ ji :> df @@ jr :> df)

\* The same without the repeated import.
MCKind3 == (jl :> "ledger" @@ js :> "scoped" @@ ji :> "import")
MCDigest3 == (jl :> dl @@ js :> ds @@ ji :> df)

ConnSymmetry == Permutations(Conns)
=============================================================================
