----------------------- MODULE MC_ReputationConsensus -----------------------
(***************************************************************************)
(* Checks AllowModifyReputation against the algorithm of spec.md 4.5 over  *)
(* every combination of: the height (each checkpoint and the block below   *)
(* it), the score kind, the lottery flag, and what the ratings repository  *)
(* answers for the rater and for the content author (absent, or a value    *)
(* on either side of each threshold and limit).  The repository changes    *)
(* between calls one answer at a time, as blocks are indexed.              *)
(***************************************************************************)
EXTENDS Integers, ReputationRules

CONSTANTS
    Heights,        \* block heights the consensus is asked about
    Rater, Author,  \* the score's address and the content's address
    NoData,         \* a repository answer with ok = false
    RepValues, LikerValues, CountValues

ASSUME Rater # Author

Addresses == {Rater, Author}

VARIABLES
    height,      \* the block height of the call
    scoreType,   \* ACTION_SCORE_POST or ACTION_SCORE_COMMENT
    lottery,     \* the caller's lottery flag
    reputation,  \* repository: address -> reputation or NoData
    likers,      \* repository: address -> likers count or NoData
    scoreCount   \* repository: counting address -> score count or NoData

vars == <<height, scoreType, lottery, reputation, likers, scoreCount>>

Answer(v) == IF v = NoData THEN <<FALSE, 0>> ELSE <<TRUE, v>>

Table == INSTANCE RuleTable

\* spec.md 4.5 step 1: the address whose post scores are counted.
SpecCounted(h) ==
    IF scoreType = "ACTION_SCORE_POST"
       /\ Table!SpecValue("SelectAddressScorePost", h) = "ByLottery" /\ ~lottery
    THEN Author ELSE Rater

\* spec.md 4.5: the score_content_count query the decision must issue:
\* the kind, the counted address, the content's author, the height, the
\* transaction, the value set of the kind and lottery flag, and the rule's
\* scores_one_to_one_depth.
SpecQuery(h) ==
    << scoreType, SpecCounted(h), Author, h, "tx",
       CASE scoreType = "ACTION_SCORE_POST" /\ lottery    -> {4, 5}
         [] scoreType = "ACTION_SCORE_POST"                -> {1, 2, 3, 4, 5}
         [] lottery                                        -> {1}
         [] OTHER                                          -> {-1, 1},
       Table!SpecValue("GetScoresOneToOneDepth", h) >>

\* The repository as the consensus sees it.  The count query is a strict
\* stub: it answers scoreCount of the counted address for the query spec.md
\* prescribes, and any other query (another kind, target, value set or
\* window) as unavailable, so a decision that asks the wrong question
\* rejects where the spec accepts.
RC == INSTANCE ReputationConsensus WITH
        GetUserReputation    <- LAMBDA a, h : Answer(reputation[a]),
        GetUserLikersCount   <- LAMBDA a, h : Answer(likers[a]),
        GetScoreContentCount <- LAMBDA t, f, o, h, x, v, d :
                                    IF <<t, f, o, h, x, v, d>> = SpecQuery(height)
                                    THEN Answer(scoreCount[f]) ELSE <<FALSE, 0>>

ScoreData ==
    [ScoreType |-> scoreType,
     ScoreAddressId |-> Rater,    ScoreAddressHash |-> Rater,
     ContentAddressId |-> Author, ContentAddressHash |-> Author]

Decision ==
    RC!AllowModifyReputation(Instance(height), ScoreData, "tx", height, lottery)

Init ==
    /\ height \in Heights
    /\ scoreType \in {RC!ACTION_SCORE_POST, RC!ACTION_SCORE_COMMENT}
    /\ lottery \in BOOLEAN
    /\ reputation \in [Addresses -> RepValues \cup {NoData}]
    /\ likers \in [Addresses -> LikerValues \cup {NoData}]
    /\ scoreCount \in [Addresses -> CountValues \cup {NoData}]

\* The chain moves to another height.
ChainMoves ==
    /\ height' \in Heights \ {height}
    /\ UNCHANGED <<scoreType, lottery, reputation, likers, scoreCount>>

\* Another score transaction is checked.
NextScore ==
    /\ scoreType' \in {RC!ACTION_SCORE_POST, RC!ACTION_SCORE_COMMENT}
    /\ lottery' \in BOOLEAN
    /\ <<scoreType', lottery'>> # <<scoreType, lottery>>
    /\ UNCHANGED <<height, reputation, likers, scoreCount>>

\* Indexing changes one of the repository's answers about one address.
RepositoryChanges ==
    \E a \in Addresses :
        \/ /\ reputation' \in {[reputation EXCEPT ![a] = v] : v \in RepValues \cup {NoData}}
           /\ UNCHANGED likers /\ UNCHANGED scoreCount
        \/ /\ likers' \in {[likers EXCEPT ![a] = v] : v \in LikerValues \cup {NoData}}
           /\ UNCHANGED reputation /\ UNCHANGED scoreCount
        \/ /\ scoreCount' \in {[scoreCount EXCEPT ![a] = v] : v \in CountValues \cup {NoData}}
           /\ UNCHANGED reputation /\ UNCHANGED likers

Next ==
    \/ ChainMoves
    \/ NextScore
    \/ /\ RepositoryChanges
       /\ UNCHANGED <<height, scoreType, lottery>>

Spec == Init /\ [][Next]_vars

(***************************************************************************)
(* The verdict of the checkpoint class the factory returns is the one      *)
(* spec.md 4.5 prescribes with the flat rule table: post scores are        *)
(* counted from the rater from 151600 on or for lottery, else from the     *)
(* content author; that address needs reputation and likers at the        *)
(* thresholds, and its count of scores (values 4,5 for lottery, 1..5 else; *)
(* 1 or -1,1 for comments) in the rule's window must be known and below   *)
(* the one-to-one limit.  Any unanswered query rejects.  With the strict   *)
(* count stub, this also checks that the decision issues the count query  *)
(* spec.md 4.5 prescribes.                                                 *)
(***************************************************************************)
SpecDecision(h) ==
    LET a     == SpecCounted(h)
        limit == IF scoreType = RC!ACTION_SCORE_POST
                 THEN Table!SpecValue("GetScoresOneToOne", h)
                 ELSE Table!SpecValue("GetScoresOneToOneOverComment", h)
    IN  /\ reputation[a] # NoData /\ likers[a] # NoData /\ scoreCount[a] # NoData
        /\ reputation[a] >= Table!SpecValue("GetThresholdReputationScore", h)
        /\ likers[a] >= Table!SpecValue("GetThresholdLikersCount", h)
        /\ scoreCount[a] < limit

DecisionMatchesSpec == Decision = SpecDecision(height)
=============================================================================
