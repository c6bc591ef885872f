---------------------------- MODULE ScoreComment ----------------------------
(***************************************************************************)
(* The comment-score transaction model (PocketTx::ScoreComment in          *)
(* src/src/pocketdb/models/dto/ScoreComment.cpp): how it reads its fields  *)
(* from a JSON payload, writes them back, and builds the canonical string  *)
(* its hash is taken over.  The digest itself is abstracted to the string  *)
(* it hashes: two transactions get the same hash exactly when their        *)
(* canonical strings are equal (a collision of the digest is not           *)
(* modelled).  Strings are sequences of characters; the fields of the      *)
(* Transaction base class, not under src/, are left out.                   *)
(***************************************************************************)
EXTENDS Integers, Sequences

\* A JSON value of a payload field: absent, a string or an integer number.
JAbsent    == [type |-> "absent"]
JStr(s)    == [type |-> "str", v |-> s]
JNum(n)    == [type |-> "num", v |-> n]

\* A field of the model: the shared_ptr is null, or points to a value.
Unset   == [present |-> FALSE]
Some(v) == [present |-> TRUE, v |-> v]

\* *ptr if set, else the default the code writes.
ValueOr(f, default) == IF f.present THEN f.v ELSE default

\* TryGetStr / TryGetInt64: the field is present with the right type.
TryGet(src, k, type) == IF src[k].type = type THEN Some(src[k].v) ELSE Unset

\* ScoreComment::Deserialize(src).
Deserialize(src) ==
    [address   |-> TryGet(src, "address", "str"),
     commentid |-> TryGet(src, "commentid", "str"),
     value     |-> TryGet(src, "value", "num")]

\* Mutant: the RPC reader forgets the value.
DeserializeRpc_no_value(src) ==
    [address   |-> TryGet(src, "txAddress", "str"),
     commentid |-> TryGet(src, "commentid", "str"),
     value     |-> Unset]

\* ScoreComment::DeserializeRpc(src): a client request names the sender
\* "txAddress".
DeserializeRpc(src) ==
    [address   |-> TryGet(src, "txAddress", "str"),
     commentid |-> TryGet(src, "commentid", "str"),
     value     |-> TryGet(src, "value", "num")]

\* ScoreComment::Serialize(): an unset field is written as "" or 0.
Serialize(tx) ==
    [address   |-> JStr(ValueOr(tx.address, << >>)),
     commentid |-> JStr(ValueOr(tx.commentid, << >>)),
     value     |-> JNum(ValueOr(tx.value, 0))]

\* std::to_string of a non-negative integer, digit by digit.
RECURSIVE Digits(_)
Digits(n) ==
    LET d == <<"0", "1", "2", "3", "4", "5", "6", "7", "8", "9">>[(n % 10) + 1]
    IN  IF n < 10 THEN <<d>> ELSE Digits(n \div 10) \o <<d>>

\* std::to_string(int64_t).
ToString(n) == IF n < 0 THEN <<"-">> \o Digits(-n) ELSE Digits(n)

\* Mutant: the address taken into the canonical string.
BuildHash_with_address(tx) ==
    ValueOr(tx.address, << >>) \o ValueOr(tx.commentid, << >>)
        \o (IF tx.value.present THEN ToString(tx.value.v) ELSE << >>)

\* ScoreComment::BuildHash(): commentid, then the decimal value, with no
\* separator, an unset field contributing nothing.
BuildHash(tx) ==
    ValueOr(tx.commentid, << >>)
        \o (IF tx.value.present THEN ToString(tx.value.v) ELSE << >>)
=============================================================================
