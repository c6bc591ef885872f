--------------------------- MODULE MC_ScoreComment ---------------------------
(***************************************************************************)
(* Materializes pairs of comment-score payloads whose fields are absent,   *)
(* of the right type, or of the wrong type, and compares the canonical     *)
(* strings of the models built from them.                                  *)
(***************************************************************************)
EXTENDS ScoreComment

\* Payload field values: absent, well typed, and a number where a string
\* belongs or a string where a number belongs.  The values 2 and 12 with
\* the comment ids "a1" and "a" give the same concatenation.
Payloads ==
    [address   : {JAbsent, JStr(<<"x">>)},
     txAddress : {JAbsent, JStr(<<"y">>)},
     commentid : {JAbsent, JStr(<<"a">>), JStr(<<"a", "1">>), JNum(1)},
     value     : {JAbsent, JNum(2), JNum(12), JNum(-1), JStr(<<"2">>)}]

VARIABLES p1, p2

vars == <<p1, p2>>

Init == p1 \in Payloads /\ p2 \in Payloads

\* Another payload is materialized in place of one of the two.
Materialize1 == p1' \in Payloads /\ UNCHANGED p2
Materialize2 == p2' \in Payloads /\ UNCHANGED p1

Spec == Init /\ [][Materialize1 \/ Materialize2]_vars

(***************************************************************************)
(* Hash determinism (spec.md 8): two payloads that agree on the canonical  *)
(* fields commentid and value give models with the same canonical string,  *)
(* whatever else (the address) they carry, and whether each is read from  *)
(* the chain (Deserialize) or from a client request (DeserializeRpc).      *)
(***************************************************************************)
Materialize(path, p) == IF path = "chain" THEN Deserialize(p) ELSE DeserializeRpc(p)

HashDeterminism ==
    p1.commentid = p2.commentid /\ p1.value = p2.value =>
        \A path1, path2 \in {"chain", "rpc"} :
            BuildHash(Materialize(path1, p1)) = BuildHash(Materialize(path2, p2))

(***************************************************************************)
(* Idempotence of materialization (spec.md 8): serializing the model built *)
(* from a payload (ScoreComment::Serialize) and materializing the result   *)
(* again gives a model with the same canonical string.                     *)
(***************************************************************************)
RoundTripKeepsHash ==
    LET m == Deserialize(p1)
    IN  BuildHash(Deserialize(Serialize(m))) = BuildHash(m)
=============================================================================
