----------------------------- MODULE CommentsRpc -----------------------------
(***************************************************************************)
(* The comment RPCs of src/src/pocketdb/web/PocketCommentsRpc.cpp:        *)
(* GetComments routes a request to GetCommentsByIds or GetCommentsByPost, *)
(* and GetLastComments reads its page size.  Each operator gives the      *)
(* query the RPC hands to the web repository, with ok = FALSE when the    *)
(* call throws (get_str on a value that is not a string, a non-array id   *)
(* list, the "Invalid postid" check).  JSON values and Param are those of *)
(* FeedRequest.                                                            *)
(***************************************************************************)
EXTENDS FeedRequest

\* Every item of an array is a string (get_str does not throw).
AllStr(xs) == \A k \in DOMAIN xs : xs[k].type = "str"

\* A string parameter read with get_str when the request has it.
GetStrOk(req, i) == Len(req) > i => Param(req, i).type = "str"

\* The cmnIds loop over params[3], as GetComments and GetCommentsByIds
\* both run it: a non-array throws, so does a non-string item.
CommentIds(req) ==
    LET p == Param(req, 3) IN
    IF Len(req) <= 3 THEN [ok |-> TRUE, ids |-> << >>]
    ELSE [ok  |-> p.type = "arr" /\ AllStr(p.items),
          ids |-> IF p.type = "arr" /\ AllStr(p.items)
                  THEN [k \in DOMAIN p.items |-> p.items[k].s] ELSE << >>]

\* GetCommentsByIds: the address, then the ids.
GetCommentsByIds(req) ==
    [ok |-> GetStrOk(req, 2) /\ CommentIds(req).ok, query |-> "byIds",
     post |-> << >>, parent |-> << >>,
     address |-> StrOr(Param(req, 2), << >>), ids |-> CommentIds(req).ids]

\* GetCommentsByPost: an empty postid is refused only when the request
\* has fewer than three parameters.
GetCommentsByPost(req) ==
    [ok |-> /\ GetStrOk(req, 0)
            /\ Len(req) > 0 => Param(req, 0).s # << >> \/ Len(req) >= 3
            /\ GetStrOk(req, 1)
            /\ GetStrOk(req, 2),
     query |-> "byPost", ids |-> << >>,
     post |-> StrOr(Param(req, 0), << >>), parent |-> StrOr(Param(req, 1), << >>),
     address |-> StrOr(Param(req, 2), << >>)]

Failed == [GetCommentsByPost(<< >>) EXCEPT !.ok = FALSE, !.query = "none"]

\* GetComments: the ids are read once to choose the route, then read again
\* by the handler chosen.
GetComments(req) ==
    IF ~CommentIds(req).ok THEN Failed
    ELSE IF CommentIds(req).ids # << >> THEN GetCommentsByIds(req)
    ELSE GetCommentsByPost(req)

\* GetLastComments: the page size (a number is taken as is) and the
\* language; the address is read with get_str and then not used.
GetLastCommentsParams(req) ==
    [ok    |-> GetStrOk(req, 1) /\ GetStrOk(req, 2),
     count |-> IF Param(req, 0).type = "num" THEN Param(req, 0).n ELSE 10,
     lang  |-> StrOr(Param(req, 2), << >>)]
=============================================================================
