------------------------------ MODULE RuleTable ------------------------------
(***************************************************************************)
(* The reputation rule table as the specification states it (spec.md      *)
(* 4.3): a flat list of checkpoints, each setting some limits or policies; *)
(* the value of a limit at height h is the one set by the checkpoint with  *)
(* the largest activation height <= h that sets it.  This is the abstract  *)
(* description the class hierarchy of ReputationRules must implement.      *)
(***************************************************************************)
EXTENDS Integers, FiniteSets

LOCAL Day == 24 * 3600

\* Checkpoints by activation height, with the values each one sets.
Checkpoints ==
    { [height |-> 0,
       sets   |-> [ GetThresholdReputationScore          |-> -10000,
                    GetThresholdLikersCount              |-> 0,
                    GetScoresOneToOne                    |-> 99999,
                    GetScoresOneToOneOverComment         |-> 20,
                    GetScoresOneToOneDepth               |-> 336 * Day,
                    GetScoresToPostModifyReputationDepth |-> 336 * Day,
                    SelectAddressScorePost               |-> "ByLottery" ]],
      [height |-> 108300, sets |-> [GetThresholdReputationScore |-> 500]],
      [height |-> 151600, sets |-> [SelectAddressScorePost |-> "ScoreAddress"]],
      [height |-> 225000, sets |-> [GetScoresOneToOne |-> 2,
                                    GetScoresOneToOneDepth |-> 1 * Day]],
      [height |-> 292800, sets |-> [GetThresholdReputationScore |-> 1000,
                                    GetScoresOneToOneDepth |-> 7 * Day]],
      [height |-> 322700, sets |-> [GetScoresOneToOneDepth |-> 2 * Day,
                                    GetScoresToPostModifyReputationDepth |-> 30 * Day]],
      [height |-> 889524, sets |-> [GetThresholdLikersCount |-> 100]] }

\* The names of all limits and policies.
RuleNames == DOMAIN (CHOOSE c \in Checkpoints : c.height = 0).sets

LOCAL MaxOf(S) == CHOOSE x \in S : \A y \in S : y <= x

\* active(h): the activation height of the rule in force at height h >= 0.
ActiveHeight(h) == MaxOf({x \in {c.height : c \in Checkpoints} : x <= h})

\* The value of limit or policy n in force at height h >= 0.
SpecValue(n, h) ==
    LET setters == {c \in Checkpoints : c.height <= h /\ n \in DOMAIN c.sets}
        last    == CHOOSE c \in setters :
                       \A d \in setters : d.height <= c.height
    IN  last.sets[n]
=============================================================================
