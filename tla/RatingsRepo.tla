----------------------------- MODULE RatingsRepo -----------------------------
(***************************************************************************)
(* The ratings repository the reputation consensus queries                 *)
(* (PocketDb::RatingsRepoInst; its implementation is not under src/, so    *)
(* its three queries are modelled from spec.md 4.4), over an index of      *)
(* score rows, and the score transactions of a block as index rows.        *)
(***************************************************************************)
EXTENDS Integers, Sequences, FiniteSets

CONSTANTS
    Address,    \* addresses (an address's id and hash are the same value)
    RepOf,      \* address -> cached reputation, or NoData
    LikersOf,   \* address -> cached likers count, or NoData
    NoData

\* A block of post scores: txs[i] = [from, to, value].
\* Row(b, i): the index row of the i-th transaction of block b.  A
\* transaction is identified by its block and position.
Row(b, i) ==
    [id     |-> <<b.height, b.time, i>>,
     type   |-> "ACTION_SCORE_POST",
     from   |-> b.txs[i].from,
     to     |-> b.txs[i].to,
     value  |-> b.txs[i].value,
     height |-> b.height,
     time   |-> b.time]

Rows(b) == {Row(b, i) : i \in DOMAIN b.txs}

\* The ScoreDataDto the consensus receives for a row.
ScoreData(r) ==
    [ScoreType |-> r.type,
     ScoreAddressId |-> r.from, ScoreAddressHash |-> r.from,
     ContentAddressId |-> r.to, ContentAddressHash |-> r.to]

Answer(v) == IF v = NoData THEN <<FALSE, 0>> ELSE <<TRUE, v>>

\* user_reputation and user_likers_count: cached per address.
GetUserReputation(a, h)  == Answer(RepOf[a])
GetUserLikersCount(a, h) == Answer(LikersOf[a])

\* score_content_count over the index rows: scores of the given type from
\* f to o with a value in vs, at or below height h, at most d seconds
\* older than the transaction tx being validated, tx itself excluded.
GetScoreContentCount(rows, t, f, o, h, tx, vs, d) ==
    <<TRUE, Cardinality({r \in rows : /\ r.type = t /\ r.from = f /\ r.to = o
                                      /\ r.value \in vs /\ r.height <= h
                                      /\ r.time >= tx.time - d
                                      /\ r.id # tx.id})>>
=============================================================================
