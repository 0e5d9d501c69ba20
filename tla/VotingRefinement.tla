-------------------------- MODULE VotingRefinement --------------------------
(***************************************************************************)
(* Module Voting implements the ballot box of module BallotBox when at     *)
(* most one call is in flight (one member of Requests).                    *)
(***************************************************************************)
EXTENDS Voting

CONSTANT NoChoice

ASSUME NoChoiceAssumption == NoChoice \notin Choices

\* The box holds the choice of the row of a voter that counts.
InBox(ev) ==
    IF HasVoted(ev)
    THEN (CHOOSE w \in votes : w.voter = ev /\ Effective(w)).choice
    ELSE NoChoice

Box == INSTANCE BallotBox WITH
          Rule <- ruleSnapshot,
          choice <- [p \in Versions |-> [s \in Subjects |-> InBox(<<p, s>>)]]

\* Every step of the voting service is a step of the ballot box or changes
\* neither a status nor what counts: links, rows and stored results add nothing
\* and lose nothing.
ImplementsBallotBox == Box!Spec
=============================================================================
