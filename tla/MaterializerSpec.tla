-------------------------- MODULE MaterializerSpec --------------------------
(***************************************************************************)
(* The materializer as spec.md states it (4.2, 6, 7): the OP_RETURN tag    *)
(* table, the legacy table-name classification, and what deserialize_block *)
(* must deliver: one model per entry, in key order, skipping entries that  *)
(* classify to no supported kind and entries that fail to decode           *)
(* (DecodeError is per-transaction and non-fatal; no error is raised out   *)
(* of the call).  The reference the code is checked against.               *)
(***************************************************************************)
EXTENDS Sequences, SequencesExt

\* The OP_RETURN tag table of 4.2.
TagKind ==
    [ OR_POST |-> "CONTENT_POST", OR_POSTEDIT |-> "CONTENT_POST",
      OR_VIDEO |-> "CONTENT_VIDEO", OR_SERVER_PING |-> "CONTENT_SERVERPING",
      OR_SCORE |-> "ACTION_SCORE_POST", OR_COMPLAIN |-> "ACTION_COMPLAIN",
      OR_SUBSCRIBE |-> "ACTION_SUBSCRIBE",
      OR_SUBSCRIBEPRIVATE |-> "ACTION_SUBSCRIBE_PRIVATE",
      OR_UNSUBSCRIBE |-> "ACTION_SUBSCRIBE_CANCEL",
      OR_USERINFO |-> "ACCOUNT_USER", OR_VIDEO_SERVER |-> "ACCOUNT_VIDEO_SERVER",
      OR_MESSAGE_SERVER |-> "ACCOUNT_MESSAGE_SERVER",
      OR_BLOCKING |-> "ACTION_BLOCKING", OR_UNBLOCKING |-> "ACTION_BLOCKING_CANCEL",
      OR_COMMENT |-> "CONTENT_COMMENT", OR_COMMENT_EDIT |-> "CONTENT_COMMENT",
      OR_COMMENT_DELETE |-> "CONTENT_COMMENT_DELETE",
      OR_COMMENT_SCORE |-> "ACTION_SCORE_COMMENT" ]

\* classify_from_chain: the second token of an OP_RETURN script.
SpecClassifyChain(script) ==
    IF Len(script) >= 2 /\ script[1] = "OP_RETURN" /\ script[2] \in DOMAIN TagKind
    THEN TagKind[script[2]] ELSE "NOT_SUPPORTED"

\* The table names with a fixed kind.
TableKind ==
    [ Users |-> "ACCOUNT_USER", Posts |-> "CONTENT_POST",
      Comment |-> "CONTENT_COMMENT", Scores |-> "ACTION_SCORE_POST",
      CommentScores |-> "ACTION_SCORE_COMMENT", Complains |-> "ACTION_COMPLAIN" ]

\* classify_from_legacy: "flag == true" is a JSON true.
SpecClassifyLegacy(table, p) ==
    IF table \in DOMAIN TableKind THEN TableKind[table]
    ELSE IF table = "Blocking"
    THEN IF p.unblocking = "true" THEN "ACTION_BLOCKING_CANCEL" ELSE "ACTION_BLOCKING"
    ELSE IF table = "Subscribes"
    THEN IF p.unsubscribe = "true" THEN "ACTION_SUBSCRIBE_CANCEL"
         ELSE IF p.private = "true" THEN "ACTION_SUBSCRIBE_PRIVATE"
         ELSE "ACTION_SUBSCRIBE"
    ELSE "NOT_SUPPORTED"

\* An entry that decodes: its envelope has a string "t" and its "d" decodes
\* to a JSON payload.
Decodes(e) == e.t # "none" /\ e.d.form = "json"

\* The models deserialize_block delivers for the entries of a block.
SpecDeliver(entries) ==
    LET kept == SelectSeq(entries, LAMBDA e :
                    Decodes(e) /\ SpecClassifyLegacy(e.t, e.d) # "NOT_SUPPORTED")
    IN  [i \in DOMAIN kept |->
            [kind |-> SpecClassifyLegacy(kept[i].t, kept[i].d), data |-> kept[i].d]]
=============================================================================
