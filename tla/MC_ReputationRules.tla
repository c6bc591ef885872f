------------------------- MODULE MC_ReputationRules -------------------------
(***************************************************************************)
(* Checks the checkpoint classes and the factory of ReputationRules        *)
(* against the flat rule table of RuleTable at every height where a rule   *)
(* changes, one below it, and far above the last checkpoint; and the       *)
(* content-age check AllowModifyOldPosts at the edges of its window.       *)
(***************************************************************************)
EXTENDS Integers, ReputationRules

CONSTANTS Probes, Deltas, ContentTypes

ASSUME Probes \subseteq Nat /\ Deltas \subseteq Nat

VARIABLES height, delta, contentType

vars == <<height, delta, contentType>>

Table == INSTANCE RuleTable

\* The age test does not query the ratings repository.
RC == INSTANCE ReputationConsensus WITH
        GetUserReputation    <- LAMBDA a, h : <<FALSE, 0>>,
        GetUserLikersCount   <- LAMBDA a, h : <<FALSE, 0>>,
        GetScoreContentCount <- LAMBDA t, f, o, h, x, v, d : <<FALSE, 0>>

Init ==
    /\ height \in Probes
    /\ delta \in Deltas
    /\ contentType \in ContentTypes

\* A caller asks for the rules of a new height and a new content age.
Probe ==
    /\ height' \in Probes
    /\ delta' \in Deltas
    /\ contentType' \in ContentTypes

Spec == Init /\ [][Probe]_vars

(***************************************************************************)
(* The factory scan over m_rules followed by virtual dispatch through the  *)
(* checkpoint class chain gives, at every height, exactly the rule of the  *)
(* flat table: the class selected is the one of the largest checkpoint     *)
(* <= height, and every getter returns the value last set at or below it.  *)
(* The BlockingCancel factory picks its class of checkpoint 1 from height  *)
(* 1 on and that of checkpoint 0 below (spec.md 4.3).                       *)
(***************************************************************************)
RuleTableRefinement ==
    LET c == Instance(height) IN
    /\ ActivationHeight(c) = Table!ActiveHeight(height)
    /\ \A n \in Table!RuleNames : Getter(c, n) = Table!SpecValue(n, height)
    /\ BlockingCancelInstance(height) = IF height >= 1 THEN "bc1" ELSE "bc0"

(***************************************************************************)
(* AllowModifyOldPosts of the class in force accepts a post score iff the  *)
(* post is younger than scores_to_post_modify_reputation_depth of the flat *)
(* table (strictly), and accepts scores on other content whatever its age. *)
(***************************************************************************)
OldPostsWindow ==
    RC!AllowModifyOldPosts(Instance(height), 1000000000 + delta, 1000000000,
                           contentType)
    <=> (contentType = RC!CONTENT_POST =>
            delta < Table!SpecValue("GetScoresToPostModifyReputationDepth", height))
=============================================================================
