----------------------------- MODULE BallotBox ------------------------------
(***************************************************************************)
(* What voting promises, without links, rows or requests: each version of  *)
(* a proposal has a box; while the box is open every voter puts in one     *)
(* choice, once; the president may correct a choice that is in; closing    *)
(* the box decides by what is in it at that moment.  Module                *)
(* VotingRefinement shows that the code does this when its calls do not    *)
(* overlap.                                                                *)
(***************************************************************************)
EXTENDS VotingEngine

CONSTANTS
    Subjects, Weight, Rule, Choices,   \* as in module Voting
    Versions,       \* versions of the proposal, 1 .. n
    NoChoice        \* nothing in the box yet

VARIABLES
    status,         \* status of every version
    choice          \* what each voter has in the box of each version

vars == <<status, choice>>

Decision(p) ==
    computeVotingResult(Rule,
        {[voter |-> s, choice |-> choice[p][s], weight |-> Weight[s],
          countsForQuorum |-> TRUE, invalid |-> FALSE]
            : s \in {s \in Subjects : choice[p][s] # NoChoice}}).accepted

Init ==
    /\ status = [p \in Versions |-> IF p = 1 THEN "DRAFT" ELSE "NONE"]
    /\ choice = [p \in Versions |-> [s \in Subjects |-> NoChoice]]

Move(p, from, to) ==
    /\ status[p] \in from
    /\ status' = [status EXCEPT ![p] = to]
    /\ UNCHANGED choice

Open(p) == Move(p, {"DRAFT"}, "VOTING_OPEN")
Withdraw(p) == Move(p, {"DRAFT"}, "WITHDRAWN")
Close(p) == Move(p, {"VOTING_OPEN"}, IF Decision(p) THEN "ACCEPTED" ELSE "REJECTED")

Revise(p) ==
    /\ p + 1 \in Versions
    /\ status[p] \notin {"NONE", "SUPERSEDED"}
    /\ status' = [status EXCEPT ![p] = "SUPERSEDED", ![p + 1] = "DRAFT"]
    /\ UNCHANGED choice

Cast(p, s, c) ==
    /\ status[p] = "VOTING_OPEN"
    /\ choice[p][s] = NoChoice
    /\ choice' = [choice EXCEPT ![p][s] = c]
    /\ UNCHANGED status

Correct(p, s, c) ==
    /\ choice[p][s] # NoChoice
    /\ choice' = [choice EXCEPT ![p][s] = c]
    /\ UNCHANGED status

Next ==
    \E p \in Versions :
        \/ Open(p) \/ Withdraw(p) \/ Close(p) \/ Revise(p)
        \/ \E s \in Subjects, c \in Choices : Cast(p, s, c) \/ Correct(p, s, c)

Spec == Init /\ [][Next]_vars
=============================================================================
