---------------------------- MODULE FeedRequest ----------------------------
(***************************************************************************)
(* Parameter parsing of the feed RPCs (src/src/pocketdb/web/              *)
(* PocketContentRpc.cpp): ParseFeedRequest, shared by GetHistoricalFeed    *)
(* and GetHierarchicalFeed, the subscriber and profile feeds behind        *)
(* FeedSelector, the id list of GetContent, the address list of            *)
(* GetContentsStatistic, the window parameters of GetHotPosts, and what   *)
(* GetHistoricalFeed, GetHierarchicalFeed, GetContents and                 *)
(* GetRandomContents hand to the repository.  GetContentIds is a function  *)
(* ids from the hashes the store knows to their ids.                       *)
(*                                                                         *)
(* request.params is a sequence of JSON values; params[i] past its end is  *)
(* the null value.  A string is its characters s together with n, the      *)
(* integer ParseInt32 stores for it (only strings ParseInt32 accepts are   *)
(* given where a number is parsed).  get_str, get_int or                   *)
(* RPCTypeCheckArgument on a value of another type, and an invalid         *)
(* address, throw: the call then ends with an error.  Tags and content     *)
(* types are parsed by helpers outside this file and are left out.         *)
(***************************************************************************)
EXTENDS Integers, Sequences, SequencesExt, ReputationRules

CONSTANTS
    ExcludeLimit,     \* the size after which an exclusion list stops (100)
    ValidAddresses,   \* the strings DecodeDestination accepts
    ArrayLimit        \* the largest address array of a statistic (10)

JNull      == [type |-> "null"]
JNum(n)    == [type |-> "num", n |-> n]
JStr(s, n) == [type |-> "str", s |-> s, n |-> n]
JArr(xs)   == [type |-> "arr", items |-> xs]

\* request.params[i] (0-based); NullUniValue past the end.
Param(req, i) == IF i < Len(req) THEN req[i + 1] ELSE JNull

\* A string parameter read only when it is a string.
StrOr(p, default) == IF p.type = "str" THEN p.s ELSE default

\* The page size of a feed: a number is taken and capped at 10.
CountParam(req, i) ==
    LET p == Param(req, i) IN
    IF p.type = "num" THEN IF p.n > 10 THEN 10 ELSE p.n ELSE 10

\* boost::trim_copy on a sequence of characters.
RECURSIVE TrimFront(_)
TrimFront(s) == IF s # << >> /\ Head(s) = " " THEN TrimFront(Tail(s)) ELSE s

Trim(s) == Reverse(TrimFront(Reverse(TrimFront(s))))

\* Mutant: the list cut at ExcludeLimit entries instead of one more.
RECURSIVE ExcludeLoop_at_limit(_, _)
ExcludeLoop_at_limit(items, acc) ==
    IF items = << >> THEN [ok |-> TRUE, list |-> acc]
    ELSE IF Head(items).type # "str" THEN [ok |-> FALSE, list |-> acc]
    ELSE LET t    == Trim(Head(items).s)
             acc2 == IF t # << >> THEN Append(acc, t) ELSE acc
         IN  IF Len(acc2) >= ExcludeLimit THEN [ok |-> TRUE, list |-> acc2]
             ELSE ExcludeLoop_at_limit(Tail(items), acc2)

\* The loop over an exclusion array: trim each item, keep it if not empty,
\* and break once the list holds more than ExcludeLimit entries.
RECURSIVE ExcludeLoop(_, _)
ExcludeLoop(items, acc) ==
    IF items = << >> THEN [ok |-> TRUE, list |-> acc]
    ELSE IF Head(items).type # "str" THEN [ok |-> FALSE, list |-> acc]
    ELSE LET t    == Trim(Head(items).s)
             acc2 == IF t # << >> THEN Append(acc, t) ELSE acc
         IN  IF Len(acc2) > ExcludeLimit THEN [ok |-> TRUE, list |-> acc2]
             ELSE ExcludeLoop(Tail(items), acc2)

\* An exclusion parameter: a single string taken as is, or an array.
Excluded(req, i) ==
    LET p == Param(req, i) IN
    CASE i >= Len(req)  -> [ok |-> TRUE, list |-> << >>]
      [] p.type = "str" -> [ok |-> TRUE, list |-> <<p.s>>]
      [] p.type = "arr" -> ExcludeLoop(p.items, << >>)
      [] OTHER          -> [ok |-> TRUE, list |-> << >>]

\* ParseFeedRequest(request, ...) at chain height tip: the values it sets,
\* and ok = FALSE when it throws.
ParseFeedRequest(req, tip) ==
    LET p(i)   == Param(req, i)
        txIds  == Excluded(req, 6)
        adrs   == Excluded(req, 7)
        tagsEx == Excluded(req, 8)
    IN  [ok |-> /\ txIds.ok /\ adrs.ok /\ tagsEx.ok
                /\ Len(req) > 9 => p(9).type = "str" /\ p(9).s \in ValidAddresses,
         topHeight |-> IF Len(req) > 0 /\ p(0).type = "num" /\ p(0).n > 0
                       THEN p(0).n ELSE tip,
         topContentHash |-> IF Len(req) > 1 /\ p(1).type = "str" THEN p(1).s ELSE << >>,
         countOut |-> CountParam(req, 2),
         lang |-> IF Len(req) > 3 /\ p(3).type = "str" THEN p(3).s ELSE <<"e", "n">>,
         txIdsExcluded |-> txIds.list,
         adrsExcluded |-> adrs.list,
         tagsExcluded |-> tagsEx.list,
         address |-> IF Len(req) > 9 /\ p(9).type = "str" THEN p(9).s ELSE << >>]

\* topContentId: 0 unless the hash is given and GetContentIds finds it.
TopContentId(hash, ids) == IF hash # << >> /\ hash \in DOMAIN ids THEN ids[hash] ELSE 0

\* GetHistoricalFeed and GetHierarchicalFeed (the same body): the query
\* arguments, the rule object of the tip, and the height the answer
\* reports.  (GetConsensusLimit of that object is not in the tree.)
FeedQuery(req, tip, ids) ==
    LET r == ParseFeedRequest(req, tip) IN
    [ok |-> r.ok, count |-> r.countOut, topHeight |-> r.topHeight,
     topContentId |-> TopContentId(r.topContentHash, ids),
     rule |-> Instance(tip), height |-> r.topHeight]

\* GetHierarchicalFeed: GetHistoricalFeed's body repeated, so the query it
\* hands to the repository is the same.
HierarchicalFeedQuery(req, tip, ids) == FeedQuery(req, tip, ids)

\* _getsubscribersfeed: the arguments of GetSubscribesFeed (tags and
\* content types are left out).
SubscribersFeedParams(req, ids) ==
    [feed |-> "subscribers", addressFrom |-> StrOr(Param(req, 0), << >>),
     topContentId |-> TopContentId(StrOr(Param(req, 2), << >>), ids),
     count |-> CountParam(req, 3), lang |-> StrOr(Param(req, 4), << >>)]

\* _getprofilefeed: the arguments of GetProfileFeed.
ProfileFeedParams(req, ids) ==
    [feed |-> "profile", addressFrom |-> StrOr(Param(req, 0), << >>),
     addressTo |-> StrOr(Param(req, 1), << >>),
     topContentId |-> TopContentId(StrOr(Param(req, 2), << >>), ids),
     count |-> CountParam(req, 3), lang |-> StrOr(Param(req, 4), << >>)]

\* FeedSelector: params[1] = "1" selects the subscriber feed.
FeedSelector(req, ids) ==
    IF Param(req, 1).type = "str" /\ Param(req, 1).s = <<"1">>
    THEN SubscribersFeedParams(req, ids)
    ELSE ProfileFeedParams(req, ids)

\* GetContents: the address, if params[0] is a string.
ContentsAddress(req) == StrOr(Param(req, 0), << >>)

\* GetRandomContents: one content of the language, from the height
\* 150000 blocks below the tip.
RandomContentsParams(req, tip) ==
    [lang |-> StrOr(Param(req, 0), <<"e", "n">>), count |-> 1, height |-> tip - 150000]

\* GetContent: the hashes handed to GetContentIds, read like an exclusion
\* parameter at index 0 (the same loop and the same limit of 100).
GetContentHashes(req) == Excluded(req, 0)

\* GetContentsStatistic: the addresses handed to the repository; ok = FALSE
\* when the call throws (too large an array, get_str on a non-string, an
\* invalid address).
StatisticAddresses(req) ==
    LET p == Param(req, 0) IN
    CASE p.type = "str" -> [ok |-> p.s \in ValidAddresses, list |-> <<p.s>>]
      [] p.type = "arr" ->
            [ok |-> /\ Len(p.items) <= ArrayLimit
                    /\ \A k \in DOMAIN p.items :
                          p.items[k].type = "str" /\ p.items[k].s \in ValidAddresses,
             list |-> [k \in DOMAIN p.items |-> StrOr(p.items[k], << >>)]]
      [] OTHER          -> [ok |-> TRUE, list |-> << >>]

DayInBlocks == 24 * 60

\* A number parameter of GetHotPosts: get_int, or ParseInt32 of a string;
\* otherwise the default stays.
IntParam(p, default) ==
    CASE p.type = "num" -> p.n
      [] p.type = "str" -> p.n
      [] OTHER          -> default

\* The parameters GetHotPosts passes to GetHotPosts of the repository, at
\* chain height tip; ok = FALSE when get_str throws on lang or address.
GetHotPostsParams(req, tip) ==
    LET p(i)   == Param(req, i)
        depth0 == IntParam(p(1), 3 * DayInBlocks)
        depth  == IF depth0 = 259200 THEN 3 * DayInBlocks ELSE depth0
        offset == CASE p(2).type = "num" -> IF p(2).n > 0 THEN p(2).n ELSE 0
                    [] p(2).type = "str" -> p(2).n
                    [] OTHER             -> 0
    IN  [ok |-> /\ Len(req) > 3 => p(3).type = "str"
                /\ Len(req) > 5 => p(5).type = "str",
         count |-> IntParam(p(0), 30),
         depthBlocks |-> IF Len(req) > 1
                         THEN IF depth < 90 * DayInBlocks THEN depth ELSE 90 * DayInBlocks
                         ELSE 3 * DayInBlocks,
         nHeightOffset |-> IF Len(req) > 2 THEN tip - offset ELSE tip]
=============================================================================
