----------------------------- MODULE ScoreChain -----------------------------
(***************************************************************************)
(* The block pipeline that drives the reputation consensus (spec.md 5): a  *)
(* single writer connects one block at a time, transaction by transaction, *)
(* indexing each score into the ratings store before judging it (the      *)
(* count query excludes the transaction itself) and committing the store   *)
(* incrementally; the host may abort a block mid-way, rolling back the     *)
(* rows it indexed, and a reorg disconnects the tip block and removes its  *)
(* rows.  The store is the state the consensus reads; the chain holds the  *)
(* committed blocks with the verdicts the consensus gave their scores.     *)
(***************************************************************************)
EXTENDS ChainScores

NoBlock == [none |-> TRUE]

VARIABLES
    chain,     \* connected blocks with their verdicts
    store,     \* the ratings store: index rows of score transactions
    pending,   \* the block being connected, or NoBlock
    cursor,    \* position of the next transaction of pending
    judged     \* verdicts of pending's transactions so far

vars == <<chain, store, pending, cursor, judged>>

\* Mutant: the verdicts of an aborted block are not cleared.
BeginBlock_keeps_judged ==
    /\ pending = NoBlock
    /\ Len(chain) < MaxBlocks
    /\ \E b \in NewBlocks(chain) : pending' = b
    /\ cursor' = 1
    /\ UNCHANGED <<chain, store, judged>>

\* Begin connecting a block on top of the chain.
BeginBlock ==
    /\ pending = NoBlock
    /\ Len(chain) < MaxBlocks
    /\ \E b \in NewBlocks(chain) : pending' = b
    /\ cursor' = 1
    /\ judged' = << >>
    /\ UNCHANGED <<chain, store>>

\* Index the next transaction and judge it against the store.
ConnectTx ==
    /\ pending # NoBlock
    /\ cursor <= Len(pending.txs)
    /\ LET r == Row(pending, cursor) IN
          /\ store' = store \cup {r}
          /\ judged' = Append(judged, Judge(store \cup {r}, r))
    /\ cursor' = cursor + 1
    /\ UNCHANGED <<chain, pending>>

\* All transactions done: the block joins the chain with its verdicts.
CommitBlock ==
    /\ pending # NoBlock
    /\ cursor > Len(pending.txs)
    /\ chain' = Append(chain, [block |-> pending, verdicts |-> judged])
    /\ pending' = NoBlock
    /\ UNCHANGED <<store, cursor, judged>>

\* The host aborts the block: the rows it indexed are rolled back.
AbortBlock ==
    /\ pending # NoBlock
    /\ store' = store \ Rows(pending)
    /\ pending' = NoBlock
    /\ judged' = << >>
    /\ UNCHANGED <<chain, cursor>>

\* A reorg disconnects the tip block and removes its rows.
DisconnectTip ==
    /\ pending = NoBlock
    /\ chain # << >>
    /\ store' = store \ Rows(chain[Len(chain)].block)
    /\ chain' = SubSeq(chain, 1, Len(chain) - 1)
    /\ UNCHANGED <<pending, cursor, judged>>

Init ==
    /\ chain = << >>
    /\ store = {}
    /\ pending = NoBlock
    /\ cursor = 1
    /\ judged = << >>

Next ==
    \/ BeginBlock
    \/ ConnectTx
    \/ CommitBlock
    \/ AbortBlock
    \/ DisconnectTip

Spec == Init /\ [][Next]_vars

(***************************************************************************)
(* Type invariant: every connected block was a block the chain below it   *)
(* could deliver and carries one pair of verdicts per transaction; while  *)
(* a block is being connected, judged holds exactly one verdict pair per  *)
(* transaction already indexed.                                            *)
(***************************************************************************)
TypeOK ==
    /\ \A i \in DOMAIN chain :
          /\ chain[i].block \in NewBlocks(SubSeq(chain, 1, i - 1))
          /\ chain[i].verdicts \in [DOMAIN chain[i].block.txs -> BOOLEAN \X BOOLEAN]
    /\ pending # NoBlock => pending \in NewBlocks(chain)
    /\ cursor \in 1..MaxTxs + 1
    /\ judged \in Seq(BOOLEAN \X BOOLEAN)
    /\ pending # NoBlock => Len(judged) = cursor - 1

\* Positions <<block, transaction>> of the chain and their rows.
Positions == UNION {{<<i, k>> : k \in DOMAIN chain[i].block.txs} : i \in DOMAIN chain}

RowAt(p) == Row(chain[p[1]].block, p[2])

AcceptedAt(p, v) == chain[p[1]].verdicts[p[2]][v]

(***************************************************************************)
(* The one-to-one limit (AllowModifyReputationOverPost): for every post    *)
(* score the chain accepts, for reputation or for the lottery, the         *)
(* accepted scores of the same pair with a counted value, up to and        *)
(* including it and at most GetScoresOneToOneDepth seconds older, number   *)
(* no more than GetScoresOneToOne of the rule at its height, across block  *)
(* boundaries, aborts and reorgs.                                          *)
(***************************************************************************)
OneToOneLimit ==
    \A v \in {1, 2}, p \in Positions :
        LET s      == RowAt(p)
            c      == Instance(s.height)
            values == RC(store)!PostScoreValues(v = 2)
            window == {q \in Positions :
                          /\ q[1] < p[1] \/ (q[1] = p[1] /\ q[2] <= p[2])
                          /\ AcceptedAt(q, v)
                          /\ RowAt(q).from = s.from /\ RowAt(q).to = s.to
                          /\ RowAt(q).value \in values
                          /\ s.time - RowAt(q).time <= Getter(c, "GetScoresOneToOneDepth")}
        IN  AcceptedAt(p, v) /\ s.value \in values =>
                Cardinality(window) <= Getter(c, "GetScoresOneToOne")
=============================================================================
