--------------------------- MODULE MC_FeedRequest ---------------------------
(***************************************************************************)
(* Calls the feed and comment RPCs with requests whose exclusion arrays hold blank,    *)
(* padded and non-string items around the cut, invalid addresses, and      *)
(* negative or legacy window parameters, and checks what the parsing       *)
(* hands on to the repository.                                             *)
(***************************************************************************)
EXTENDS CommentsRpc, FiniteSets

CONSTANT Tip     \* ChainActive().Height() during the calls

\* The one valid address of the requests ("A"; "z" is not one).
MC_ValidAddresses == {<<"A">>}

\* GetContentIds: the store knows the content "p".
ContentIds == [h \in {<<"p">>} |-> 7]

\* Exclusion items: plain, padded, blank, and not a string.
Items == {JStr(<<"a">>, 0), JStr(<<" ", "b">>, 0), JStr(<<" ">>, 0), JNum(1)}

ExcludeParams ==
    {JStr(<<" ">>, 0), JNum(3)} \cup {JArr(xs) : xs \in BoundedSeq(Items, ExcludeLimit + 2)}

FeedRequests ==
    {<<top, hash, count, JNull, JNull, JNull, ex>> :
        top \in {JNum(0), JNum(7)}, hash \in {JNull, JStr(<<"p">>, 0)},
        count \in {JNum(-3), JNum(11)}, ex \in ExcludeParams}
    \cup {<<JNull, JNull, JNull, JNull, JNull, JNull, JNull, ex, JNull, a>> :
        ex \in ExcludeParams, a \in {JStr(<<"A">>, 0), JStr(<<"z">>, 0), JNum(1)}}

HotRequests ==
    {<<JNum(5), depth, offset, lang>> :
        depth \in {JNum(259200), JNum(200000), JNum(-5), JStr(<<"-", "5">>, -5)},
        offset \in {JNum(-5), JNum(3), JStr(<<"-", "5">>, -5)},
        lang \in {JStr(<<"e", "n">>, 0), JNum(1)}}

\* FeedSelector requests: subscriber or profile selector, page sizes.
SelectorRequests ==
    {<<JStr(<<"A">>, 0), sel, hash, count>> :
        sel \in {JStr(<<"1">>, 1), JStr(<<"A">>, 0)},
        hash \in {JNull, JStr(<<"p">>, 0), JStr(<<"q">>, 0)},
        count \in {JNum(-3), JNum(11), JNum(4)}}

\* GetContent requests: a single id or an id array.
ContentRequests == {<<ex>> : ex \in ExcludeParams}

\* GetContentsStatistic requests: an address or an address array of up to
\* ArrayLimit + 1 items.
AddressItems == {JStr(<<"A">>, 0), JStr(<<"z">>, 0), JNum(1)}

StatisticRequests ==
    {<<JStr(<<"A">>, 0)>>, <<JStr(<<"z">>, 0)>>}
    \cup {<<JArr(xs)>> : xs \in BoundedSeq(AddressItems, ArrayLimit + 1)}

\* getcomments requests: empty, given or non-string postid, parent and
\* address absent, null or given, and id lists empty, of one id, of a
\* non-string, or not an array.
CommentRequests ==
    LET posts   == {JStr(<< >>, 0), JStr(<<"p">>, 0), JNum(1)}
        parents == {JStr(<< >>, 0), JNull}
        adrs    == {JStr(<< >>, 0), JStr(<<"A">>, 0), JNull}
        idss    == {JArr(<< >>), JArr(<<JStr(<<"c">>, 0)>>), JArr(<<JNum(1)>>), JStr(<<"c">>, 0)}
    IN  {<< >>} \cup {<<p>> : p \in posts} \cup {<<p, q>> : p \in posts, q \in parents}
        \cup {<<p, q, a>> : p \in posts, q \in parents, a \in adrs}
        \cup {<<p, JStr(<< >>, 0), a, i>> : p \in posts, a \in adrs, i \in idss}

\* getlastcomments requests.
LastRequests ==
    {<< >>, <<JNum(-3)>>, <<JStr(<<"5">>, 5)>>, <<JNum(500), JStr(<<"A">>, 0), JStr(<<"e", "n">>, 0)>>,
     <<JNum(5), JNum(1)>>}

VARIABLES rpc, req

vars == <<rpc, req>>

Init == rpc = "none" /\ req = << >>

\* A client calls GetHistoricalFeed or GetHierarchicalFeed, or GetHotPosts.
CallFeed == rpc = "none" /\ rpc' \in {"feed", "hier"} /\ req' \in FeedRequests
CallHot  == rpc = "none" /\ rpc' = "hot"  /\ req' \in HotRequests

\* A client calls FeedSelector, GetContent or GetContentsStatistic.
CallSelector  == rpc = "none" /\ rpc' = "selector" /\ req' \in SelectorRequests
CallContent   == rpc = "none" /\ rpc' = "content"  /\ req' \in ContentRequests
CallStatistic == rpc = "none" /\ rpc' = "stat"     /\ req' \in StatisticRequests

\* The call has answered; the server takes the next one.
Answer == rpc # "none" /\ rpc' = "none" /\ req' = << >>

\* A client calls getcomments or getlastcomments.
CallComments == rpc = "none" /\ rpc' = "comments" /\ req' \in CommentRequests
CallLast     == rpc = "none" /\ rpc' = "last"     /\ req' \in LastRequests

\* A client calls getcontents or GetRandomPost.
CallContents == rpc = "none" /\ rpc' = "contents" /\ req' \in {<< >>, <<JStr(<<"A">>, 0)>>, <<JNum(1)>>}
CallRandom   == rpc = "none" /\ rpc' = "random"   /\ req' \in {<< >>, <<JStr(<<"r", "u">>, 0)>>}

Next ==
    \/ CallFeed \/ CallHot \/ CallSelector \/ CallContent \/ CallStatistic
    \/ CallComments \/ CallLast \/ CallContents \/ CallRandom
    \/ Answer

Spec == Init /\ [][Next]_vars

\* The items of an exclusion array up to the cut: the shortest prefix with
\* more than ExcludeLimit non-blank items, or all of them.
Cut(xs) ==
    LET blankFree(j) == {k \in 1..j : xs[k].type # "str" \/ Trim(xs[k].s) # << >>}
        ends == {j \in 1..Len(xs) : Cardinality(blankFree(j)) > ExcludeLimit}
    IN  IF ends = {} THEN xs ELSE SubSeq(xs, 1, CHOOSE j \in ends : \A k \in ends : j <= k)

(***************************************************************************)
(* Every exclusion list ParseFeedRequest passes on, and the id list       *)
(* GetContent looks up, is, for an array, the trimmed non-blank items of  *)
(* the array up to the point where more than ExcludeLimit have been kept, *)
(* in order, and for a single string that string; and the request fails   *)
(* exactly when a non-string item comes before the cut or the address is  *)
(* not a valid one.                                                        *)
(***************************************************************************)
ExclusionMatchesReference ==
    rpc \in {"feed", "hier", "content"} =>
    LET r      == IF rpc = "content" THEN GetContentHashes(req)
                  ELSE ParseFeedRequest(req, Tip)
        ex     == CASE rpc = "content" -> Param(req, 0)
                    [] Len(req) = 7    -> Param(req, 6)
                    [] OTHER           -> Param(req, 7)
        listed == CASE rpc = "content" -> r.list
                    [] Len(req) = 7    -> r.txIdsExcluded
                    [] OTHER           -> r.adrsExcluded
        badAdr == rpc \in {"feed", "hier"} /\ Len(req) = 10
                  /\ (Param(req, 9).type # "str" \/ Param(req, 9).s \notin ValidAddresses)
    IN  IF ex.type = "arr"
        THEN LET c == Cut(ex.items) IN
             /\ r.ok <=> (\A k \in 1..Len(c) : c[k].type = "str") /\ ~badAdr
             /\ (\A k \in 1..Len(c) : c[k].type = "str") =>
                    listed = SelectSeq([j \in 1..Len(c) |-> Trim(c[j].s)],
                                       LAMBDA s : s # << >>)
        ELSE /\ r.ok <=> ~badAdr
             /\ listed = IF ex.type = "str" THEN <<ex.s>> ELSE << >>

(***************************************************************************)
(* The "Invalid postid" check of GetCommentsByPost: a by-post query that  *)
(* the RPC accepts names a post, or else an address whose comments it     *)
(* asks for.                                                               *)
(***************************************************************************)
CommentsQueryNamesTarget ==
    rpc = "comments" /\ GetComments(req).ok /\ GetComments(req).query = "byPost" =>
        GetComments(req).post # << >> \/ GetComments(req).address # << >>

(***************************************************************************)
(* The feed queries get arguments in range: every feed page, of the      *)
(* historical and hierarchical feeds or of the subscriber and profile     *)
(* feeds behind FeedSelector, asks for 0 to 10 rows (the code caps the    *)
(* count at 10), and GetHotPosts                                           *)
(* never looks above the chain tip or with a negative depth (the numeric  *)
(* offset branch only takes offsets > 0).                                  *)
(***************************************************************************)
FeedQueryInRange ==
    /\ rpc = "feed" => FeedQuery(req, Tip, ContentIds).count \in 0..10
    /\ rpc = "hier" => HierarchicalFeedQuery(req, Tip, ContentIds).count \in 0..10
    /\ rpc = "selector" => FeedSelector(req, ContentIds).count \in 0..10
    /\ rpc = "hot" /\ GetHotPostsParams(req, Tip).ok =>
          /\ GetHotPostsParams(req, Tip).nHeightOffset <= Tip
          /\ GetHotPostsParams(req, Tip).depthBlocks >= 0

(***************************************************************************)
(* The read RPCs check their arguments before they reach the repository:  *)
(* the feed queries are in range (FeedQueryInRange) and a comment query   *)
(* by post names a post or an address (CommentsQueryNamesTarget).         *)
(***************************************************************************)
RpcArgumentsChecked == FeedQueryInRange /\ CommentsQueryNamesTarget
=============================================================================
