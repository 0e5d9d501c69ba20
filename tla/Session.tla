------------------------------ MODULE Session -------------------------------
(***************************************************************************)
(* A meeting that opens and closes the voting on its proposals, and the    *)
(* ballots that carry one link for all of them:                            *)
(* src/src/server/services/meetings.ts, advanceMeetingStatus and "Session  *)
(* ballots".                                                               *)
(*                                                                         *)
(* advanceMeetingStatus is not one transaction: it opens the drafts one by *)
(* one, issues the ballots recipient by recipient, writes the status, then *)
(* closes the open proposals one by one.  Each of these is a step, and the *)
(* call may die or fail between any two.  The other calls are a Read, with *)
(* the guards, and a Commit, as in module Voting; their only conditional   *)
(* write is the claim of submitBallot.  A call that fails is no step.      *)
(*                                                                         *)
(* Left to module Voting: what is voted, results, corrections, links of a  *)
(* single proposal, delivery LIVE and ALL.  Deadlines are left out: all    *)
(* proposals of a ballot share one, and past it submitBallot and openVoting*)
(* only fail.                                                              *)
(***************************************************************************)
EXTENDS Naturals, FiniteSets

CONSTANTS
    Requests,      \* concurrent server requests
    Proposals,     \* the proposals of the meeting
    Owners,        \* the voting base
    Recipients,    \* who gets ballots: owners and proxy holders
    Recipient,     \* of each owner: the holder of his proxy, or himself
    Addressed,     \* recipients with an e-mail address
    FailureLimit,  \* wrong codes that revoke a ballot, 5 in the code
    Last,          \* number of meeting statuses, see MEETING_FLOW
    MaxBallots,    \* bound: ballots
    MaxByHand      \* bound: votes on paper

\* MEETING_FLOW by index; the statuses before VOTING_OPEN are one.
VotingOpen == 2
Flow == 1 .. Last

Tokens == Proposals \X Owners
BallotIds == 1 .. MaxBallots

ASSUME SessionAssumption ==
    /\ Recipient \in [Owners -> Recipients]
    /\ Recipients # {}
    /\ Addressed \subseteq Recipients
    /\ FailureLimit \in Nat \ {0}
    /\ Last \in Nat /\ Last > VotingOpen
    /\ MaxBallots \in Nat
    /\ MaxByHand \in Nat

VARIABLES
    meeting,   \* Meeting.status, its index in Flow
    proposal,  \* Proposal.status; DECIDED is ACCEPTED or REJECTED
    token,     \* ApprovalToken.status, "NONE" before it is issued
    on,        \* ApprovalToken.ballotId, 0 for none
    ballot,    \* Ballot.status, "NONE" before it is issued
    holder,    \* Ballot.recipientPartyId
    failed,    \* Ballot.failedAttempts, no further than FailureLimit
    votes,     \* table Vote: token and the ballot it came by, 0: by hand
    calls      \* the calls in progress

ballotVars == <<ballot, holder, failed>>
vars == <<meeting, proposal, token, on, ballotVars, votes, calls>>

Desk == {"opening", "issuing", "moving", "closing", "reissue", "revoke", "hand"}
Voter == {"submit", "wrong", "last"}

Idle == [at |-> "idle", to |-> 1, forward |-> FALSE, todo |-> {},
         tokens |-> {}, ballot |-> 0]

Call == [at: {"idle"} \cup Desk \cup Voter, to: Flow, forward: BOOLEAN,
         todo: SUBSET Proposals,  \* drafts to open, proposals to close
         tokens: SUBSET Tokens, ballot: 0 .. MaxBallots]

Init ==
    /\ meeting = 1
    /\ proposal = [p \in Proposals |-> "DRAFT"]
    /\ token = [k \in Tokens |-> "NONE"]
    /\ on = [k \in Tokens |-> 0]
    /\ ballot = [b \in BallotIds |-> "NONE"]
    /\ holder \in [BallotIds -> {CHOOSE r \in Recipients : TRUE}]
    /\ failed = [b \in BallotIds |-> 0]
    /\ votes = {}
    /\ calls = [r \in Requests |-> Idle]

\* Officials do not get into each other's way: an assumption of this module's
\* runs, the code has no such guard.  Voters call whenever they like.
DeskFree == \A r \in Requests : calls[r].at \notin Desk

Begin(r, c) == calls[r].at = "idle" /\ calls' = [calls EXCEPT ![r] = c]
Go(r, c) == calls' = [calls EXCEPT ![r] = c]

HasVoted(k) == \E v \in votes : v.token = k
Unissued == {b \in BallotIds : ballot[b] = "NONE"}
IsNext(b) == b \in Unissued /\ \A c \in Unissued : b <= c

-----------------------------------------------------------------------------
(* advanceMeetingStatus.                                                   *)

\* Any status may be chosen, a step back with a reason.  Whether the drafts
\* may be opened (previewSessionVotingOpen) is an input: if not, nothing
\* happens.
advanceRead(r, to, openDraftProposals) ==
    LET c == [Idle EXCEPT !.to = to, !.forward = to > meeting]
    IN  /\ DeskFree
        /\ IF openDraftProposals
             THEN /\ to = VotingOpen /\ to > meeting
                  /\ Begin(r, [c EXCEPT !.at = "opening",
                                  !.todo = {p \in Proposals : proposal[p] = "DRAFT"}])
             ELSE Begin(r, [c EXCEPT !.at = "moving"])
        /\ UNCHANGED <<meeting, proposal, token, on, ballotVars, votes>>

\* openVoting with delivery BALLOT: a token for every voter, no link sent.
openNext(r) ==
    \E p \in calls[r].todo :
        /\ calls[r].at = "opening"
        /\ proposal[p] = "DRAFT"
        /\ proposal' = [proposal EXCEPT ![p] = "VOTING_OPEN"]
        /\ token' = [k \in Tokens |-> IF k[1] = p THEN "ACTIVE" ELSE token[k]]
        /\ Go(r, [calls[r] EXCEPT !.todo = @ \ {p}])
        /\ UNCHANGED <<meeting, on, ballotVars, votes>>

\* Mutant: a meeting that has ballots gets no more.
TokensIfNoBallots ==
    {k \in Tokens : token[k] = "ACTIVE" /\ on[k] = 0 /\ Unissued = BallotIds}

\* All active tokens of the meeting that are on no ballot, whoever opened
\* their proposal.
TokensToIssue == {k \in Tokens : token[k] = "ACTIVE" /\ on[k] = 0}

issueRead(r) ==
    /\ calls[r].at = "opening"
    /\ calls[r].todo = {}
    /\ Go(r, [calls[r] EXCEPT !.at = "issuing",
                 !.tokens = {k \in TokensToIssue : Recipient[k[2]] \in Addressed}])
    /\ UNCHANGED <<meeting, proposal, token, on, ballotVars, votes>>

\* One transaction per recipient: the ballot, and the tokens still on none.
issueNext(r) ==
    \E k \in calls[r].tokens, b \in BallotIds :
        LET group == {j \in calls[r].tokens : Recipient[j[2]] = Recipient[k[2]]}
        IN  /\ calls[r].at = "issuing"
            /\ IsNext(b)
            /\ ballot' = [ballot EXCEPT ![b] = "ACTIVE"]
            /\ holder' = [holder EXCEPT ![b] = Recipient[k[2]]]
            /\ on' = [j \in Tokens |-> IF j \in group /\ on[j] = 0 THEN b ELSE on[j]]
            /\ Go(r, [calls[r] EXCEPT !.tokens = @ \ group])
            /\ UNCHANGED <<meeting, proposal, token, failed, votes>>

\* Mutant: closes only when it leaves VOTING_OPEN itself.
ClosesFromOpen(c) == c.forward /\ c.to > VotingOpen /\ meeting = VotingOpen

\* toIdx > fromIdx && toIdx > votingOpenIdx.
Closes(c) == c.forward /\ c.to > VotingOpen

\* The status is written, then the proposals that are open are read.
move(r) ==
    /\ \/ calls[r].at = "moving"
       \/ calls[r].at = "issuing" /\ calls[r].tokens = {}
    /\ meeting' = calls[r].to
    /\ Go(r, [calls[r] EXCEPT !.at = "closing", !.todo =
                 IF Closes(calls[r])
                 THEN {p \in Proposals : proposal[p] = "VOTING_OPEN"} ELSE {}])
    /\ UNCHANGED <<proposal, token, on, ballotVars, votes>>

\* Mutant: closing expires spent tokens, too.
ExpireAll(p) == [k \in Tokens |-> IF k[1] = p THEN "EXPIRED" ELSE token[k]]

Expire(p) ==
    [k \in Tokens |->
        IF k[1] = p /\ token[k] = "ACTIVE" THEN "EXPIRED" ELSE token[k]]

closeVoting(p) ==
    /\ proposal[p] = "VOTING_OPEN"
    /\ proposal' = [proposal EXCEPT ![p] = "DECIDED"]
    /\ token' = Expire(p)
    /\ UNCHANGED <<meeting, on, ballotVars, votes>>

closeNext(r) ==
    \E p \in calls[r].todo :
        /\ calls[r].at = "closing"
        /\ closeVoting(p)
        /\ Go(r, [calls[r] EXCEPT !.todo = @ \ {p}])

finish(r) ==
    /\ calls[r].at = "closing"
    /\ calls[r].todo = {}
    /\ Go(r, Idle)
    /\ UNCHANGED <<meeting, proposal, token, on, ballotVars, votes>>

\* One proposal closed on its own page.
closeOne(p) == DeskFree /\ closeVoting(p) /\ UNCHANGED calls

\* A request dies, or openVoting, closeVoting or a commit throws.
abort(r) ==
    /\ calls[r].at # "idle"
    /\ Go(r, Idle)
    /\ UNCHANGED <<meeting, proposal, token, on, ballotVars, votes>>

-----------------------------------------------------------------------------
(* A vote on paper, entered by an official.                                *)

handRead(r, k) ==
    /\ DeskFree
    /\ Cardinality({v \in votes : v.ballot = 0}) < MaxByHand
    /\ proposal[k[1]] = "VOTING_OPEN"
    /\ ~HasVoted(k)
    /\ Begin(r, [Idle EXCEPT !.at = "hand", !.tokens = {k}])
    /\ UNCHANGED <<meeting, proposal, token, on, ballotVars, votes>>

handCommit(r) ==
    /\ calls[r].at = "hand"
    /\ votes' = votes \cup {[token |-> k, ballot |-> 0] : k \in calls[r].tokens}
    /\ Go(r, Idle)
    /\ UNCHANGED <<meeting, proposal, token, on, ballotVars>>

-----------------------------------------------------------------------------
(* The voter: one code and a choice for every open proposal of the ballot. *)

Refused == {"NONE", "REVOKED", "SUPERSEDED", "USED"}

\* ballotTokenState is "open".
Votable(k) ==
    /\ token[k] = "ACTIVE"
    /\ proposal[k[1]] = "VOTING_OPEN"
    /\ ~HasVoted(k)

VotableOn(b) == {k \in Tokens : on[k] = b /\ Votable(k)}

submitRead(r, b) ==
    /\ ballot[b] \notin Refused
    /\ VotableOn(b) # {}
    /\ Begin(r, [Idle EXCEPT !.at = "submit", !.ballot = b,
                    !.tokens = VotableOn(b)])
    /\ UNCHANGED <<meeting, proposal, token, on, ballotVars, votes>>

\* Mutant: the ballot is spent by its id, whatever its status.
ClaimedById(b) == TRUE

\* updateMany where status is ACTIVE counts one row.
Claimed(b) == ballot[b] = "ACTIVE"

\* castElectronicVoteTx looks for a vote once more, proposal and token are
\* those read.  One vote fails, all fail.
submitCommit(r) ==
    LET b  == calls[r].ballot
        ts == calls[r].tokens
    IN  /\ calls[r].at = "submit"
        /\ Claimed(b)
        /\ \A k \in ts : ~HasVoted(k)
        /\ ballot' = [ballot EXCEPT ![b] = "USED"]
        /\ votes' = votes \cup {[token |-> k, ballot |-> b] : k \in ts}
        /\ token' = [k \in Tokens |-> IF k \in ts THEN "USED" ELSE token[k]]
        /\ Go(r, Idle)
        /\ UNCHANGED <<meeting, proposal, on, holder, failed>>

\* A wrong code: counted after the transaction was rolled back, ...
wrongRead(r, b) ==
    /\ ballot[b] \notin Refused
    /\ Begin(r, [Idle EXCEPT !.at = "wrong", !.ballot = b])
    /\ UNCHANGED <<meeting, proposal, token, on, ballotVars, votes>>

\* ... once as many as FailureLimit are counted, the ballot seen ACTIVE here
wrongCount(r) ==
    LET b == calls[r].ballot
    IN  /\ calls[r].at = "wrong"
        /\ failed' = [failed EXCEPT ![b] = IF @ < FailureLimit THEN @ + 1 ELSE @]
        /\ IF failed'[b] = FailureLimit /\ ballot[b] = "ACTIVE"
             THEN Go(r, [calls[r] EXCEPT !.at = "last"])
             ELSE Go(r, Idle)
        /\ UNCHANGED <<meeting, proposal, token, on, ballot, holder, votes>>

\* ... is revoked by its id.
autoRevoke(r) ==
    /\ calls[r].at = "last"
    /\ ballot' = [ballot EXCEPT ![calls[r].ballot] = "REVOKED"]
    /\ Go(r, Idle)
    /\ UNCHANGED <<meeting, proposal, token, on, holder, failed, votes>>

-----------------------------------------------------------------------------
(* The president revokes a ballot or replaces it.                          *)

revokeRead(r, b) ==
    /\ DeskFree
    /\ ballot[b] = "ACTIVE"
    /\ Begin(r, [Idle EXCEPT !.at = "revoke", !.ballot = b])
    /\ UNCHANGED <<meeting, proposal, token, on, ballotVars, votes>>

revokeCommit(r) ==
    /\ calls[r].at = "revoke"
    /\ ballot' = [ballot EXCEPT ![calls[r].ballot] = "REVOKED"]
    /\ Go(r, Idle)
    /\ UNCHANGED <<meeting, proposal, token, on, holder, failed, votes>>

LiveOn(b) == {k \in Tokens : on[k] = b /\ token[k] = "ACTIVE"}

reissueRead(r, b) ==
    /\ DeskFree
    /\ ballot[b] \in {"ACTIVE", "REVOKED"}
    /\ LiveOn(b) # {}
    /\ Begin(r, [Idle EXCEPT !.at = "reissue", !.ballot = b, !.tokens = LiveOn(b)])
    /\ UNCHANGED <<meeting, proposal, token, on, ballotVars, votes>>

\* The old ballot and the tokens read are written by their ids.
reissueCommit(r) ==
    LET old == calls[r].ballot
    IN  \E b \in BallotIds :
            /\ calls[r].at = "reissue"
            /\ IsNext(b)
            /\ ballot' = [ballot EXCEPT ![b] = "ACTIVE", ![old] = "SUPERSEDED"]
            /\ holder' = [holder EXCEPT ![b] = holder[old]]
            /\ on' = [k \in Tokens |-> IF k \in calls[r].tokens THEN b ELSE on[k]]
            /\ Go(r, Idle)
            /\ UNCHANGED <<meeting, proposal, token, failed, votes>>

-----------------------------------------------------------------------------
Next ==
    \/ \E r \in Requests :
        \/ openNext(r) \/ issueRead(r) \/ issueNext(r) \/ move(r)
        \/ closeNext(r) \/ finish(r) \/ abort(r)
        \/ handCommit(r)
        \/ submitCommit(r) \/ wrongCount(r) \/ autoRevoke(r)
        \/ revokeCommit(r) \/ reissueCommit(r)
        \/ \E to \in Flow, open \in BOOLEAN : advanceRead(r, to, open)
        \/ \E k \in Tokens : handRead(r, k)
        \/ \E b \in BallotIds :
            \/ submitRead(r, b) \/ wrongRead(r, b)
            \/ revokeRead(r, b) \/ reissueRead(r, b)
    \/ \E p \in Proposals : closeOne(p)

Spec == Init /\ [][Next]_vars

-----------------------------------------------------------------------------
TypeOK ==
    /\ meeting \in Flow
    /\ proposal \in [Proposals -> {"DRAFT", "VOTING_OPEN", "DECIDED"}]
    /\ token \in [Tokens -> {"NONE", "ACTIVE", "USED", "EXPIRED"}]
    /\ on \in [Tokens -> 0 .. MaxBallots]
    /\ ballot \in [BallotIds -> {"NONE", "ACTIVE", "USED", "REVOKED", "SUPERSEDED"}]
    /\ holder \in [BallotIds -> Recipients]
    /\ failed \in [BallotIds -> 0 .. FailureLimit]
    /\ votes \subseteq [token: Tokens, ballot: 0 .. MaxBallots]
    /\ calls \in [Requests -> Call]

\* The votes given on ballot b.
VotesOf(b) == {v \in votes : v.ballot = b}

\* A ballot that brought votes cannot be voted on again.
VotedBallotIsSpent ==
    \A b \in BallotIds : VotesOf(b) # {} => ballot[b] \notin {"NONE", "ACTIVE"}

\* The token of an electronic vote stays USED, also after the close.
VotedTokenIsUsed == \A v \in votes : v.ballot # 0 => token[v.token] = "USED"

\* A token is on a ballot of the one who may vote for its owner.
TokenWithItsHolder ==
    \A k \in Tokens : on[k] # 0 =>
        ballot[on[k]] # "NONE" /\ holder[on[k]] = Recipient[k[2]]

\* A token brings one electronic vote: no two ballots vote with it.
OneVotePerToken ==
    \A v, w \in votes :
        (v.token = w.token /\ v.ballot # 0 /\ w.ballot # 0) => v = w

\* submitBallot is all or nothing: a ballot that voted left nothing to vote.
NothingLeftOnSpent == \A b \in BallotIds : VotesOf(b) # {} => VotableOn(b) = {}

\* What the votes, the tokens and the ballots say of each other, however the
\* voter's calls overlap with each other and with reissue, revocation,
\* closing and crashes (submitBallot, reissueBallot, closeVoting).
SessionInv ==
    /\ TypeOK
    /\ VotedBallotIsSpent
    /\ VotedTokenIsUsed
    /\ TokenWithItsHolder
    /\ OneVotePerToken
    /\ NothingLeftOnSpent

\* A ballot records its votes in one step, which spends it: one revoked,
\* replaced or spent while the voter was sending records nothing
\* (the claim of submitBallot).
DeadBallotRecordsNothing ==
    [][\A b \in BallotIds :
        VotesOf(b)' # VotesOf(b) =>
            (VotesOf(b) = {} /\ ballot[b] = "ACTIVE" /\ ballot'[b] = "USED")]_vars

\* When the step that opens the voting moves the meeting, everyone with an
\* address has all his open tokens on a ballot, whatever part of it an
\* earlier attempt did before it died (issueMeetingBallots is idempotent).
OpenedMeansIssued ==
    [][\A r \in Requests :
        (calls[r].at = "issuing" /\ calls'[r].at = "closing") =>
            \A k \in Tokens :
                (token[k] = "ACTIVE" /\ Recipient[k[2]] \in Addressed)
                    => on[k] # 0]_vars

\* A call that moved the meeting past the voting, however far, leaves no
\* proposal open when it ends (the loop after the status is written).
ClosedWithSession ==
    [][\A r \in Requests :
        (/\ calls[r].at = "closing" /\ calls'[r].at = "idle"
         /\ calls[r].todo = {} /\ calls[r].forward /\ calls[r].to > VotingOpen)
            => \A p \in Proposals : proposal[p] # "VOTING_OPEN"]_vars
=============================================================================
