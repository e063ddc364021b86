------------------------ MODULE MCChainAccumulation ------------------------
(* A small instance of ChainAccumulation: two strikes, the second quoted   *)
(* only beside the first, so that the bucket gate has two contracts.       *)
EXTENDS ChainAccumulation, TLC

QuoteAndTrade == {"bid", "ask", "iv", "lastTradeDate"}
ActivityFields == {"volume", "contractSymbol"}
Occ == {8, 9}

Contract(bid, ask, iv, date, volume, symbol) ==
    [bid |-> bid, ask |-> ask, iv |-> iv, lastTradeDate |-> date,
     volume |-> volume, contractSymbol |-> symbol]

(* A full quote; zeros, with a later trade; no ask but a later iv; a       *)
(* bucket of which no contract is quoted; one of which one contract is.    *)
Full == Contract(1, 2, 1, 1, 0, 9)
Zeros == Contract(0, 0, 0, 2, 1, 1)
Later == Contract(0, Bad, 3, 2, 2, Absent)
Odd == Contract(1, Absent, 0, Bad, Absent, 1)

YfAnswers ==
    {Empty, 1 :> Full, 1 :> Later, (1 :> Zeros) @@ (2 :> Zeros), (1 :> Odd) @@ (2 :> Full)}

TvFull == Contract(0, 4, 2, 1, 3, 3)
TvLate == Contract(3, Bad, Absent, 3, 0, 8)
TvAnswers == {Empty, 1 :> TvFull, 1 :> TvLate, (1 :> TvFull) @@ (2 :> TvLate)}

=============================================================================
