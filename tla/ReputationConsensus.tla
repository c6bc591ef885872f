------------------------- MODULE ReputationConsensus -------------------------
(***************************************************************************)
(* The decision whether a score transaction may modify the reputation of   *)
(* its target (ReputationConsensus in                                      *)
(* src/src/pocketdb/consensus/Reputation.hpp).  Every decision is made by  *)
(* an object of the checkpoint class c the factory returned; the getters   *)
(* are resolved by ReputationRules!Getter.                                 *)
(*                                                                         *)
(* The ratings repository (PocketDb::RatingsRepoInst) is a parameter: the  *)
(* three queries are constant operators, each returning <<ok, value>>.     *)
(* A module that composes this one substitutes its own store for them.     *)
(***************************************************************************)
EXTENDS Integers, ReputationRules

CONSTANTS
    GetUserReputation(_, _),           \* (addressId, height)
    GetUserLikersCount(_, _),          \* (addressId, height)
    GetScoreContentCount(_, _, _, _, _, _, _)
        \* (scoreType, fromHash, toHash, height, tx, values, depth)

ACTION_SCORE_POST    == "ACTION_SCORE_POST"
ACTION_SCORE_COMMENT == "ACTION_SCORE_COMMENT"
CONTENT_POST         == "CONTENT_POST"

\* ReputationConsensus::AllowModifyReputation(addressId, height): the
\* address's reputation and likers count both reach the class thresholds.
AllowModifyReputationOf(c, addressId, height) ==
    LET rep    == GetUserReputation(addressId, height)
        likers == GetUserLikersCount(addressId, height)
    IN  /\ rep[1]    /\ rep[2]    >= Getter(c, "GetThresholdReputationScore")
        /\ likers[1] /\ likers[2] >= Getter(c, "GetThresholdLikersCount")

\* Mutant: the lottery flag ignored, the policy alone choosing the address.
SelectAddressScorePost_policy_only(c, scoreData, lottery) ==
    IF Getter(c, "SelectAddressScorePost") = ScoreAddress
    THEN <<scoreData.ScoreAddressId, scoreData.ScoreAddressHash>>
    ELSE <<scoreData.ContentAddressId, scoreData.ContentAddressHash>>

\* SelectAddressScorePost: <<id, hash>> of the address whose scores are
\* counted; overridden from checkpoint 151600 on to always be the rater.
SelectAddressScorePost(c, scoreData, lottery) ==
    IF Getter(c, "SelectAddressScorePost") = ScoreAddress \/ lottery
    THEN <<scoreData.ScoreAddressId, scoreData.ScoreAddressHash>>
    ELSE <<scoreData.ContentAddressId, scoreData.ContentAddressHash>>

\* Mutant: comment scores counted with both values whatever the lottery flag.
CommentScoreValues_ignores_lottery(lottery) == {-1, 1}

\* The score values counted against the one-to-one limits.
PostScoreValues(lottery)    == IF lottery THEN {4, 5} ELSE {1, 2, 3, 4, 5}
CommentScoreValues(lottery) == IF lottery THEN {1} ELSE {-1, 1}

\* Mutant: the limit compared with > instead of >= (one score too many).
AllowModifyReputationOverPost_off_by_one(c, scoreData, height, tx, lottery) ==
    LET check == SelectAddressScorePost(c, scoreData, lottery)
        count == GetScoreContentCount(ACTION_SCORE_POST, check[2],
                     scoreData.ContentAddressHash, height, tx,
                     PostScoreValues(lottery), Getter(c, "GetScoresOneToOneDepth"))
    IN  /\ AllowModifyReputationOf(c, check[1], height)
        /\ count[1]
        /\ count[2] <= Getter(c, "GetScoresOneToOne")

\* AllowModifyReputationOverPost: the counted address passes the reputation
\* gate, and fewer than GetScoresOneToOne of its post scores to the content
\* author fall in the GetScoresOneToOneDepth window.
AllowModifyReputationOverPost(c, scoreData, height, tx, lottery) ==
    LET check == SelectAddressScorePost(c, scoreData, lottery)
        count == GetScoreContentCount(ACTION_SCORE_POST, check[2],
                     scoreData.ContentAddressHash, height, tx,
                     PostScoreValues(lottery), Getter(c, "GetScoresOneToOneDepth"))
    IN  /\ AllowModifyReputationOf(c, check[1], height)
        /\ count[1]
        /\ count[2] < Getter(c, "GetScoresOneToOne")

\* AllowModifyReputationOverComment: the same for comment scores, always
\* counted from the rater, against GetScoresOneToOneOverComment.
AllowModifyReputationOverComment(c, scoreData, height, tx, lottery) ==
    LET count == GetScoreContentCount(ACTION_SCORE_COMMENT,
                     scoreData.ScoreAddressHash, scoreData.ContentAddressHash,
                     height, tx, CommentScoreValues(lottery),
                     Getter(c, "GetScoresOneToOneDepth"))
    IN  /\ AllowModifyReputationOf(c, scoreData.ScoreAddressId, height)
        /\ count[1]
        /\ count[2] < Getter(c, "GetScoresOneToOneOverComment")

\* The public entry AllowModifyReputation(scoreData, tx, height, lottery).
AllowModifyReputation(c, scoreData, tx, height, lottery) ==
    CASE scoreData.ScoreType = ACTION_SCORE_POST ->
            AllowModifyReputationOverPost(c, scoreData, height, tx, lottery)
      [] scoreData.ScoreType = ACTION_SCORE_COMMENT ->
            AllowModifyReputationOverComment(c, scoreData, height, tx, lottery)
      [] OTHER -> FALSE

\* Mutant: a post exactly at the depth still accepted.
AllowModifyOldPosts_inclusive(c, scoreTime, contentTime, contentType) ==
    contentType = CONTENT_POST =>
        scoreTime - contentTime <= Getter(c, "GetScoresToPostModifyReputationDepth")

\* AllowModifyOldPosts: only post scores are limited by content age.
AllowModifyOldPosts(c, scoreTime, contentTime, contentType) ==
    contentType = CONTENT_POST =>
        scoreTime - contentTime < Getter(c, "GetScoresToPostModifyReputationDepth")
=============================================================================
