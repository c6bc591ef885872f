--------------------------- MODULE ReputationRules ---------------------------
(***************************************************************************)
(* The height-versioned rule classes of the reputation consensus and of    *)
(* the BlockingCancel consensus, and the factories that pick the class     *)
(* for a block height (src/src/pocketdb/consensus/Reputation.hpp and       *)
(* BlockingCancel.hpp).                                                    *)
(*                                                                         *)
(* Each checkpoint class overrides some virtual getters of its parent and  *)
(* inherits the rest.  A class is a name; Overrides[c] is the record of    *)
(* the getters class c defines itself, Parent[c] its base class.  A getter *)
(* call resolves by walking up the inheritance chain, as C++ virtual       *)
(* dispatch does.  The factory is the descending list m_rules scanned for  *)
(* the first entry whose height the block height reaches.                  *)
(***************************************************************************)
EXTENDS Integers, Sequences

\* Result of a factory loop that matches no entry: Instance() falls off the
\* end of a non-void function.
NoRule == "NoRule"

\* Values of the SelectAddressScorePost policy: the base class picks the
\* rater for lottery scores and the content author otherwise; checkpoint
\* 151600 always picks the rater.
ByLottery    == "ByLottery"
ScoreAddress == "ScoreAddress"

\* The abstract base class and the checkpoint classes, each with its base.
Parent ==
    [ cp0       |-> "ReputationConsensus",
      cp108300  |-> "cp0",
      cp151600  |-> "cp108300",
      cp225000  |-> "cp151600",
      cp292800  |-> "cp225000",
      cp322700  |-> "cp292800",
      cp1124000 |-> "cp322700" ]

\* The getters each class defines (the base class only defines
\* SelectAddressScorePost; its numeric getters are pure virtual).
Overrides ==
    [ ReputationConsensus |-> [SelectAddressScorePost |-> ByLottery],
      cp0 |-> [ GetThresholdLikersCount              |-> 0,
                GetThresholdReputationScore          |-> -10000,
                GetScoresOneToOneOverComment         |-> 20,
                GetScoresOneToOne                    |-> 99999,
                GetScoresOneToOneDepth               |-> 336 * 24 * 3600,
                GetScoresToPostModifyReputationDepth |-> 336 * 24 * 3600 ],
      cp108300  |-> [ GetThresholdReputationScore |-> 500 ],
      cp151600  |-> [ SelectAddressScorePost |-> ScoreAddress ],
      cp225000  |-> [ GetScoresOneToOne      |-> 2,
                      GetScoresOneToOneDepth |-> 1 * 24 * 3600 ],
      cp292800  |-> [ GetThresholdReputationScore |-> 1000,
                      GetScoresOneToOneDepth      |-> 7 * 24 * 3600 ],
      cp322700  |-> [ GetScoresOneToOneDepth               |-> 2 * 24 * 3600,
                      GetScoresToPostModifyReputationDepth |-> 30 * 24 * 3600 ],
      cp1124000 |-> [ GetThresholdLikersCount |-> 100 ] ]

\* Virtual dispatch: the value of getter g on an object of class c.
RECURSIVE Getter(_, _)
Getter(c, g) ==
    IF g \in DOMAIN Overrides[c] THEN Overrides[c][g] ELSE Getter(Parent[c], g)

\* Mutant of m_rules: two checkpoints listed out of descending order.
m_rules_misordered ==
    << <<889524, "cp1124000">>, <<292800, "cp292800">>, <<322700, "cp322700">>,
       <<225000, "cp225000">>,  <<151600, "cp151600">>, <<108300, "cp108300">>,
       <<0, "cp0">> >>

\* ReputationConsensusFactory::m_rules, in declaration order.
m_rules ==
    << <<889524, "cp1124000">>, <<322700, "cp322700">>, <<292800, "cp292800">>,
       <<225000, "cp225000">>,  <<151600, "cp151600">>, <<108300, "cp108300">>,
       <<0, "cp0">> >>

\* The factory loop: the class of the first rule whose height is reached.
RECURSIVE FirstMatch(_, _)
FirstMatch(rules, height) ==
    IF rules = << >> THEN NoRule
    ELSE IF height >= Head(rules)[1] THEN Head(rules)[2]
    ELSE FirstMatch(Tail(rules), height)

\* ReputationConsensusFactory::Instance(height).
Instance(height) == FirstMatch(m_rules, height)

\* The factory height at which class c is selected (its m_rules entry).
ActivationHeight(c) ==
    LET i == CHOOSE j \in DOMAIN m_rules : m_rules[j][2] = c IN m_rules[i][1]

\* BlockingCancelConsensusFactory::m_rules and Instance(height).  The two
\* classes add no rule yet: the factory is all there is to model.
BlockingCancel_m_rules == << <<1, "bc1">>, <<0, "bc0">> >>

BlockingCancelInstance(height) == FirstMatch(BlockingCancel_m_rules, height)
=============================================================================
