---------------------------- MODULE VotingEngine ----------------------------
(***************************************************************************)
(* The pure voting engine, src/src/server/engines/voting.ts: the quorum    *)
(* requirement of a rule, the presence quorum of the live-meeting screen   *)
(* and the outcome of a proposal.                                          *)
(*                                                                         *)
(* Decimals.  Weights are scaled integers.  A percentage has three         *)
(* decimals in the schema (Decimal(6,3)), so it is a number of thousandths *)
(* of a percent and the whole is Whole of them; every comparison of the    *)
(* code is multiplied out, so nothing is rounded but the owner quorum,     *)
(* which the code rounds up.                                               *)
(*                                                                         *)
(* A rule is a frozen RuleSnapshot: quorumType, quorumPercent,             *)
(* majorityType, majorityPercent, totalEligibleWeight,                     *)
(* totalEligibleOwners.  Null percentages are replaced by the defaults of  *)
(* the code before a rule is built (0 for the quorum, 50 % for the         *)
(* majority).  A vote is a record with at least choice, weight,            *)
(* countsForQuorum and invalid.                                            *)
(***************************************************************************)
EXTENDS Integers, FiniteSets, Functions

Whole == 100000

VoteChoices == {"APPROVE", "REJECT", "ABSTAIN"}
QuorumTypes == {"NONE", "PERCENT_OF_TOTAL_WEIGHT", "PERCENT_OF_OWNER_COUNT"}
MajorityTypes == {"SIMPLE_OF_VOTES_CAST", "PERCENT_OF_VOTES_CAST",
                  "PERCENT_OF_ELIGIBLE_WEIGHT"}

WeightOf(votes) == SumFunction([v \in votes |-> v.weight])

\* ceil(n / Whole).  (Mutant: floor.)
RoundDown(n) == n \div Whole
RoundUp(n) == (n + Whole - 1) \div Whole

\* quorumRequirement: what the rule asks of the voting base, as a weight
\* (multiplied by Whole), as a number of owners (rounded up), or nothing.
quorumRequirement(rule) ==
    CASE rule.quorumType = "PERCENT_OF_TOTAL_WEIGHT" ->
            [kind |-> "WEIGHT", least |-> rule.totalEligibleWeight * rule.quorumPercent]
      [] rule.quorumType = "PERCENT_OF_OWNER_COUNT" ->
            [kind |-> "COUNT",
             least |-> RoundUp(rule.totalEligibleOwners * rule.quorumPercent)]
      [] OTHER -> [kind |-> "NONE", least |-> 0]

\* Mutant: the bar counts heads under a weight quorum, too.
presenceByHeads(rule, count, weight) ==
    LET req == quorumRequirement(rule)
    IN  [kind |-> req.kind, reached |-> req.kind # "NONE" => count * Whole >= req.least,
         missing |-> 0]

\* presenceQuorum: what the live bar shows for the subjects in the room.
presenceQuorum(rule, count, weight) ==
    LET req     == quorumRequirement(rule)
        present == IF req.kind = "WEIGHT" THEN weight * Whole ELSE count
    IN  [kind    |-> req.kind,
         reached |-> req.kind # "NONE" => present >= req.least,
         missing |-> IF present >= req.least THEN 0 ELSE req.least - present]

\* Mutant: the tallies are swapped.
MajorityAgainst(rule, approve, reject, abstain) ==
    reject * Whole > (approve + reject + abstain) * rule.majorityPercent

\* Both sides of "approve > threshold" multiplied by Whole.
MajorityReached(rule, approve, reject, abstain) ==
    CASE rule.majorityType = "SIMPLE_OF_VOTES_CAST" -> approve > reject
      [] rule.majorityType = "PERCENT_OF_VOTES_CAST" ->
            approve * Whole > (approve + reject + abstain) * rule.majorityPercent
      [] OTHER ->
            approve * Whole > rule.totalEligibleWeight * rule.majorityPercent

computeVotingResult(rule, votes) ==
    LET valid     == {v \in votes : ~v.invalid}
        quorate   == {v \in valid : v.countsForQuorum}
        Chose(c)  == WeightOf({v \in valid : v.choice = c})
        req       == quorumRequirement(rule)
        reached   == /\ req.kind = "WEIGHT" => WeightOf(quorate) * Whole >= req.least
                     /\ req.kind = "COUNT" => Cardinality(quorate) >= req.least
    IN  [votesCast     |-> Cardinality(valid),
         approveWeight |-> Chose("APPROVE"),
         rejectWeight  |-> Chose("REJECT"),
         abstainWeight |-> Chose("ABSTAIN"),
         quorumReached |-> reached,
         accepted      |-> reached /\ MajorityReached(rule, Chose("APPROVE"),
                                        Chose("REJECT"), Chose("ABSTAIN"))]
=============================================================================
