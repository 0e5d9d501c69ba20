------------------------------ MODULE MCVoting ------------------------------
(* Small instances of modules Voting and VotingRefinement for TLC. *)
EXTENDS VotingRefinement, TLC

\* On the assembly every subject weighs 1 (openVoting, K-03).
MCWeight == [s \in Subjects |-> 1]

\* More than half of the votes cast, with half of the owners as the quorum.
MCRule == [quorumType |-> "PERCENT_OF_OWNER_COUNT", quorumPercent |-> 50000,
           majorityType |-> "PERCENT_OF_VOTES_CAST", majorityPercent |-> 50000]

Symmetry == Permutations(Requests) \cup Permutations(Subjects)
                \cup Permutations(Texts)
=============================================================================
