----------------------------- MODULE ChainScores -----------------------------
(***************************************************************************)
(* The blocks of score transactions the chain may carry, and how the      *)
(* reputation consensus judges a block's scores against an index of rows   *)
(* (used by the pipeline ScoreChain).                                      *)
(***************************************************************************)
EXTENDS RatingsRepo, ReputationRules

CONSTANTS
    StartHeight,  \* the height of the first modelled block
    MaxBlocks,    \* the longest chain modelled
    TimeSteps,    \* seconds between consecutive blocks
    TxChoices,    \* the score transactions a block may carry
    MaxTxs        \* transactions per block

\* The consensus with the repository over the index rows in store.
RC(store) == INSTANCE ReputationConsensus WITH
    GetScoreContentCount <- LAMBDA t, f, o, h, x, vs, d :
                                GetScoreContentCount(store, t, f, o, h, x, vs, d)

\* <<reputation verdict, lottery verdict>> of row r judged against store.
Judge(store, r) ==
    LET c == Instance(r.height) IN
    << RC(store)!AllowModifyReputation(c, ScoreData(r), r, r.height, FALSE),
       RC(store)!AllowModifyReputation(c, ScoreData(r), r, r.height, TRUE) >>

LedgerRows(L) == UNION {Rows(L[i].block) : i \in DOMAIN L}

TipTime(L) == IF L = << >> THEN 0 ELSE L[Len(L)].block.time

\* The blocks that can be connected on top of chain L.
NewBlocks(L) ==
    [height : {StartHeight + Len(L)},
     time   : {TipTime(L) + s : s \in TimeSteps},
     txs    : UNION {[1..n -> TxChoices] : n \in 1..MaxTxs}]

=============================================================================
