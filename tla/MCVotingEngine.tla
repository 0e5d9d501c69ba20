--------------------------- MODULE MCVotingEngine ---------------------------
(***************************************************************************)
(* The voting engine on every small voting base: a rule and the validity   *)
(* of the votes are chosen, then voters make, change and take back their   *)
(* choices in any order, and the outcome is looked at after each change.   *)
(* Names say trial where module Voting has the same: proofs use both.      *)
(***************************************************************************)
EXTENDS VotingEngine

CONSTANTS
    Members,    \* the voting base
    Percents    \* quorum and majority percentages, in thousandths of a percent

VARIABLES
    trialRule,  \* the frozen rule snapshot
    invalid,    \* voters whose vote is marked invalid
    silent,     \* voters whose vote does not count for the quorum
    trialChoice \* what each voter chose, "NONE" if nothing

trialVars == <<trialRule, invalid, silent, trialChoice>>

\* Unequal weights, so that heads and weight disagree: 1, 2, 3, ...
Heavier == CHOOSE f \in [Members -> 1 .. Cardinality(Members)] :
              \A m, n \in Members : f[m] = f[n] => m = n

Votes == {[voter |-> m, choice |-> trialChoice[m], weight |-> Heavier[m],
           countsForQuorum |-> m \notin silent, invalid |-> m \in invalid]
             : m \in {m \in Members : trialChoice[m] # "NONE"}}

result == computeVotingResult(trialRule, Votes)

TrialInit ==
    /\ trialRule \in
         [quorumType : QuorumTypes, quorumPercent : Percents,
          majorityType : MajorityTypes, majorityPercent : Percents,
          totalEligibleWeight : {WeightOf({[w |-> m, weight |-> Heavier[m]] : m \in Members})},
          totalEligibleOwners : {Cardinality(Members)}]
    /\ invalid \in {S \in SUBSET Members : Cardinality(S) <= 1}
    /\ silent \in {S \in SUBSET Members : Cardinality(S) <= 1}
    /\ trialChoice = [m \in Members |-> "NONE"]

Choose(m, c) ==
    /\ trialChoice[m] # c
    /\ trialChoice' = [trialChoice EXCEPT ![m] = c]
    /\ UNCHANGED <<trialRule, invalid, silent>>

TrialNext == \E m \in Members, c \in VoteChoices \cup {"NONE"} : Choose(m, c)

TrialSpec == TrialInit /\ [][TrialNext]_trialVars

-----------------------------------------------------------------------------
\* An owner-count quorum is the least number of owners that makes the
\* percentage: rounding up asks for no owner too many and none too few.
OwnerQuorumIsLeast ==
    trialRule.quorumType = "PERCENT_OF_OWNER_COUNT" =>
        \A n \in 0 .. Cardinality(Members) :
            n >= quorumRequirement(trialRule).least
                <=> n * Whole >= trialRule.quorumPercent * Cardinality(Members)

\* The live bar and the recorded result never disagree about the quorum, when
\* those in the room are those whose votes count for it; and the bar says that
\* nothing is missing exactly when it says that the quorum is reached.
BarAgreesWithResult ==
    LET room == {v \in Votes : ~v.invalid /\ v.countsForQuorum}
        bar  == presenceQuorum(trialRule, Cardinality(room), WeightOf(room))
    IN  /\ bar.reached = result.quorumReached
        /\ bar.reached <=> bar.missing = 0

\* A vote that becomes an approval never defeats a proposal.
ApprovalHelps ==
    [][\A m \in Members :
          trialChoice[m] # "APPROVE" /\ trialChoice'[m] = "APPROVE" /\ result.accepted
             => result'.accepted]_trialVars
=============================================================================
