------------------------ MODULE TransactionSerializer ------------------------
(***************************************************************************)
(* The transaction materializer (PocketServices::TransactionSerializer in  *)
(* src/src/pocketdb/services/TransactionSerializer.hpp): classification of *)
(* a chain transaction by the OP_RETURN tag of its first output, of a      *)
(* legacy record by its table name, BuildInstance, and the loop of         *)
(* DeserializeBlock over the entries of a block payload.                   *)
(*                                                                         *)
(* Data is abstracted to what classification tells apart.  A disassembled  *)
(* script is its sequence of tokens.  A JSON value the code reads with     *)
(* isBool/get_bool is one of JTrue, JFalse, JOther (present but not a      *)
(* bool) and JNone (absent).  A payload "d" is a record of its form and   *)
(* the three flags ParseType reads; the form is "json", "garbage" when     *)
(* base64/JSON decoding fails, or "missing" when the key is missing or not *)
(* a string (get_str throws).  An entry of a block is a record [t, d]; an  *)
(* entry that is not a string, or not a JSON object, throws exactly as one *)
(* without "t" and is represented by t = JNone.  A block payload is a      *)
(* record of whether it parses and its entries in key order.               *)
(***************************************************************************)
EXTENDS Integers, Sequences

JTrue  == "true"
JFalse == "false"
JOther == "other"
JNone  == "none"

\* The object txDataSrc holds after a failed read: every key absent.
EmptyObject ==
    [form |-> "json", unblocking |-> JNone, unsubscribe |-> JNone, private |-> JNone]

\* The result of BuildInstance when it returns nullptr.
Null == [kind |-> "nullptr", data |-> EmptyObject]

NOT_SUPPORTED == "NOT_SUPPORTED"

\* ConvertOpReturnToType: the chain of tag comparisons, first match wins.
ConvertOpReturnToType(op) ==
    CASE op \in {"OR_POST", "OR_POSTEDIT"} -> "CONTENT_POST"
      [] op = "OR_VIDEO"            -> "CONTENT_VIDEO"
      [] op = "OR_SERVER_PING"      -> "CONTENT_SERVERPING"
      [] op = "OR_SCORE"            -> "ACTION_SCORE_POST"
      [] op = "OR_COMPLAIN"         -> "ACTION_COMPLAIN"
      [] op = "OR_SUBSCRIBE"        -> "ACTION_SUBSCRIBE"
      [] op = "OR_SUBSCRIBEPRIVATE" -> "ACTION_SUBSCRIBE_PRIVATE"
      [] op = "OR_UNSUBSCRIBE"      -> "ACTION_SUBSCRIBE_CANCEL"
      [] op = "OR_USERINFO"         -> "ACCOUNT_USER"
      [] op = "OR_VIDEO_SERVER"     -> "ACCOUNT_VIDEO_SERVER"
      [] op = "OR_MESSAGE_SERVER"   -> "ACCOUNT_MESSAGE_SERVER"
      [] op = "OR_BLOCKING"         -> "ACTION_BLOCKING"
      [] op = "OR_UNBLOCKING"       -> "ACTION_BLOCKING_CANCEL"
      [] op \in {"OR_COMMENT", "OR_COMMENT_EDIT"} -> "CONTENT_COMMENT"
      [] op = "OR_COMMENT_DELETE"   -> "CONTENT_COMMENT_DELETE"
      [] op = "OR_COMMENT_SCORE"    -> "ACTION_SCORE_COMMENT"
      [] OTHER                      -> NOT_SUPPORTED

\* ParseType(tx, vasm): the first output's script starts with OP_RETURN and
\* its disassembly has a second token.  (The disassembly of a script that
\* starts with OP_RETURN always starts with the token "OP_RETURN".)
ParseTypeOfTx(script) ==
    IF script # << >> /\ script[1] = "OP_RETURN" /\ Len(script) >= 2
    THEN ConvertOpReturnToType(script[2])
    ELSE NOT_SUPPORTED

\* exists(k) && isBool() && get_bool(): only a JSON true counts.
IsTrue(src, k) == src[k] = JTrue

\* Mutant: the private flag tested before the unsubscribe flag.
ParseType_private_first(table, src) ==
    CASE table = "Users"         -> "ACCOUNT_USER"
      [] table = "Posts"         -> "CONTENT_POST"
      [] table = "Comment"       -> "CONTENT_COMMENT"
      [] table = "Scores"        -> "ACTION_SCORE_POST"
      [] table = "CommentScores" -> "ACTION_SCORE_COMMENT"
      [] table = "Blocking"      ->
            IF IsTrue(src, "unblocking") THEN "ACTION_BLOCKING_CANCEL"
            ELSE "ACTION_BLOCKING"
      [] table = "Subscribes"    ->
            IF IsTrue(src, "private") THEN "ACTION_SUBSCRIBE_PRIVATE"
            ELSE IF IsTrue(src, "unsubscribe") THEN "ACTION_SUBSCRIBE_CANCEL"
            ELSE "ACTION_SUBSCRIBE"
      [] table = "Complains"     -> "ACTION_COMPLAIN"
      [] OTHER                   -> NOT_SUPPORTED

\* ParseType(reindexerTable, reindexerSrc): the legacy classification.
ParseType(table, src) ==
    CASE table = "Users"         -> "ACCOUNT_USER"
      [] table = "Posts"         -> "CONTENT_POST"
      [] table = "Comment"       -> "CONTENT_COMMENT"
      [] table = "Scores"        -> "ACTION_SCORE_POST"
      [] table = "CommentScores" -> "ACTION_SCORE_COMMENT"
      [] table = "Blocking"      ->
            IF IsTrue(src, "unblocking") THEN "ACTION_BLOCKING_CANCEL"
            ELSE "ACTION_BLOCKING"
      [] table = "Subscribes"    ->
            IF IsTrue(src, "unsubscribe") THEN "ACTION_SUBSCRIBE_CANCEL"
            ELSE IF IsTrue(src, "private") THEN "ACTION_SUBSCRIBE_PRIVATE"
            ELSE "ACTION_SUBSCRIBE"
      [] table = "Complains"     -> "ACTION_COMPLAIN"
      [] OTHER                   -> NOT_SUPPORTED

\* The kinds the switch of BuildInstance constructs an object for; every
\* other kind (including the video/server kinds) yields nullptr.
Constructed ==
    {"ACCOUNT_USER", "CONTENT_POST", "CONTENT_COMMENT", "ACTION_SCORE_POST",
     "ACTION_SCORE_COMMENT", "ACTION_SUBSCRIBE", "ACTION_SUBSCRIBE_PRIVATE",
     "ACTION_SUBSCRIBE_CANCEL", "ACTION_BLOCKING", "ACTION_BLOCKING_CANCEL",
     "ACTION_COMPLAIN"}

\* An entry on which DeserializeBlock throws: entrySrc.get_str() on a
\* non-string, or src["t"] / src["d"] .get_str() on a missing or non-string
\* value (the entry JSON failing to parse leaves src null, whose keys are
\* all missing).
Throws(e) == e.t = JNone \/ e.d.form = "missing"

\* DecodeBase64 then txDataSrc.read: a failed read leaves no keys.
DecodePayload(d) == IF d.form = "garbage" THEN EmptyObject ELSE d

\* BuildInstance(src) on an entry that does not throw: the object built
\* (its kind and the data it was deserialized from), or Null.
BuildInstance(e) ==
    LET src  == DecodePayload(e.d)
        kind == ParseType(e.t, src)
    IN  IF kind \in Constructed THEN [kind |-> kind, data |-> src] ELSE Null

\* Mutant: a nullptr result pushed onto the output as well.
Collect_keeps_null(out, tx) == Append(out, tx)

\* The body of the DeserializeBlock loop after BuildInstance.
Collect(out, tx) == IF tx # Null THEN Append(out, tx) ELSE out

\* pocketData.read(src) then getKeys(): an unparsable block has no keys.
Keys(blob) == IF blob.parses THEN blob.entries ELSE << >>
=============================================================================
