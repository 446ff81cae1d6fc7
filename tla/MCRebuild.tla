------------------------------ MODULE MCRebuild ------------------------------
(***************************************************************************)
(* Two accounts, a file that gives times and one that does not, and the  *)
(* uses of a home, each with the operations that meet in it.               *)
(***************************************************************************)
EXTENDS Rebuild, TLC

CONSTANTS a1, a2

MCFiles == {[dated |-> TRUE, eff |-> 1, amount |-> 3],
            [dated |-> FALSE, eff |-> 1, amount |-> 5]}

MCBooks ==
  { [ops |-> {"portfolio.create", "portfolio.set_membership", "crash"},
     dates |-> {1, 3}, prices |-> {}, batches |-> 4],
    [ops |-> {"portfolio.create", "portfolio.set_membership", "ledger.import_csv",
              "decision.create", "decision.link_transaction"},
     dates |-> {1}, prices |-> {}, batches |-> 5],
    [ops |-> {"portfolio.create", "policy.create", "policy.add_version",
              "planning.create", "decision.create", "decision.link_policy",
              "decision.review"},
     dates |-> {1, 4}, prices |-> {}, batches |-> 5],
    [ops |-> {"portfolio.create", "portfolio.set_membership", "ledger.import_csv",
              "policy.create", "planning.create"},
     dates |-> {1}, prices |-> {}, batches |-> 5],
    [ops |-> {"research.ingest_text", "research.create_claim",
              "research.create_contradiction", "research.create_thesis",
              "research.revise_thesis", "research.link", "ledger.import_csv"},
     dates |-> {1}, prices |-> {}, batches |-> 4],
    [ops |-> {"ledger.import_csv", "ledger.record_correction",
              "ledger.record_corporate_action"},
     dates |-> {1}, prices |-> {}, batches |-> 3],
    [ops |-> {"portfolio.create", "policy.create", "planning.create",
              "market.import_csv", "market.import_snapshot"},
     dates |-> {1}, prices |-> {1, 2}, batches |-> 5] }

Symmetry == Permutations(Accounts)
=============================================================================
