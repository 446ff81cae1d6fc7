----------------------------- MODULE MCLedgerLots -----------------------------
(***************************************************************************)
(* Small ledgers for TLC.  A buy is of two or four at a unit price of one  *)
(* or two, a sell of two to six at three: lots are closed in part, several *)
(* at once and beyond what is held.                                        *)
(***************************************************************************)
EXTENDS LedgerLots

CONSTANTS a1, a2, i1, i2

MCBuys == {<<2, 4>>, <<4, 4>>}
MCMoves == {2, -2}
MCRatios == {<<2, 1>>, <<1, 2>>}

\* Two accounts trade, split and transfer in the order things happen.
Transfers ==
  [accounts |-> {a1, a2}, instruments |-> {i1},
   kinds |-> {"buy", "sell", "split", "transfer", "move"}, sells |-> {<<4, 12>>},
   methods |-> {"fifo"}, short |-> FALSE, allocated |-> TRUE, backdated |-> FALSE, days |-> 2]

\* Every lot method and shorts, over buys and sells that may be backdated.
Trades ==
  [accounts |-> {a1}, instruments |-> {i1},
   kinds |-> {"buy", "sell"}, sells |-> {<<2, 6>>, <<6, 18>>},
   methods |-> {"fifo", "lifo", "hifo"}, short |-> TRUE, allocated |-> TRUE, backdated |-> TRUE, days |-> 2]

\* Corporate actions with a true basis allocation, whose lots LIFO closes as well.
Allocated ==
  [accounts |-> {a1}, instruments |-> {i1, i2},
   kinds |-> {"buy", "sell"} \cup Actions, sells |-> {<<2, 6>>, <<4, 12>>},
   methods |-> {"fifo", "lifo"}, short |-> FALSE, allocated |-> TRUE, backdated |-> FALSE, days |-> 1]

\* Transfers and splits among facts that may be backdated before them.
Late ==
  [accounts |-> {a1, a2}, instruments |-> {i1},
   kinds |-> {"buy", "sell", "split", "transfer"}, sells |-> {<<2, 6>>},
   methods |-> {"fifo"}, short |-> FALSE, allocated |-> TRUE, backdated |-> TRUE, days |-> 2]

\* Cash for a whole position without a basis allocation.
Unallocated ==
  [accounts |-> {a1}, instruments |-> {i1},
   kinds |-> {"buy", "sell", "cash_in_lieu"}, sells |-> {<<2, 6>>},
   methods |-> {"fifo", "lifo"}, short |-> FALSE, allocated |-> FALSE, backdated |-> FALSE, days |-> 2]

MCBooks == {Transfers, Trades, Allocated, Unallocated, Late}

\* Accounts only differ by name: a1 is the one that is used first.
FirstInA1 == facts # <<>> => facts[1].acc = a1
=============================================================================
