------------------------------- MODULE Voting -------------------------------
(***************************************************************************)
(* Voting on one proposal of a meeting and on its later versions:          *)
(* src/src/server/services/meetings.ts, from openVoting to closeVoting,    *)
(* with the constraints of src/prisma/schema.prisma.                       *)
(*                                                                         *)
(* Concurrency.  The application is stateless request handlers over        *)
(* Postgres at its default READ COMMITTED, with no lock and no isolation   *)
(* level asked for.  A call is therefore two steps: ...Read takes what the *)
(* handler reads and passes its guards, ...Commit makes its writes visible *)
(* together, whatever was committed in between.  A guard that fails is a   *)
(* call that returns an error and changes nothing: it is no step at all.   *)
(* The reads of one handler are one step; taking them later would only     *)
(* make a guard fail that passed here, because votes are never removed     *)
(* and a voter who has voted stays so.  Commit re-checks only what the     *)
(* database re-checks: unique constraints, and the WHERE of an updateMany. *)
(* Any other write is by id and overwrites.  Abort is a call that dies     *)
(* with its transaction: a violated constraint, a timeout, a crash.        *)
(*                                                                         *)
(* Tables.  A proposal is known by its version, an EligibleVoter by its    *)
(* version and voting subject, a token by its voter and a number (1 is the *)
(* one openVoting issues, later ones come from reissueToken).  Vote is a   *)
(* set of rows that only grows (the append-only trigger).                  *)
(***************************************************************************)
EXTENDS VotingEngine

CONSTANTS
    Requests,       \* concurrent server requests
    Subjects,       \* voting subjects, the frozen voting base of a version
    Weight,         \* weight of each subject, computeVoterWeight
    Rule,           \* quorum and majority part of the rule snapshot
    Texts,          \* what a proposal may say
    Choices,        \* the choices voters make
    NoText,         \* contentHash before voting opens
    Ballots,        \* session ballots, see module Ballots
    NoBallot,       \* a token that is on no ballot
    FailureLimit,   \* wrong codes that revoke a link, 5 in the code
    MaxVersions,    \* bound: versions of the proposal
    MaxIssues,      \* bound: tokens per voter
    MaxVotes,       \* bound: vote rows per voter
    MaxFailures     \* bound: wrong codes per token

ASSUME VotingAssumption ==
    /\ Subjects # {}
    /\ IsFiniteSet(Subjects)
    /\ NoText \notin Texts
    /\ NoBallot \notin Ballots
    /\ Choices \subseteq VoteChoices
    /\ Weight \in [Subjects -> Nat]
    /\ MaxVersions \in Nat \ {0}
    /\ MaxIssues \in Nat \ {0}
    /\ MaxVotes \in Nat \ {0}

Versions == 1 .. MaxVersions
Voters == Versions \X Subjects
Tokens == Versions \X Subjects \X (1 .. MaxIssues)
VoterOf(k) == <<k[1], k[2]>>

ProposalStatus == {"DRAFT", "VOTING_OPEN", "ACCEPTED", "REJECTED",
                   "WITHDRAWN", "SUPERSEDED"}
TokenStatus == {"ACTIVE", "USED", "REVOKED", "EXPIRED", "SUPERSEDED"}

\* token = 0: entered by hand or a correction.  corrects = 0: not a correction.
VoteRow == [voter: Voters, id: 1 .. MaxVotes, choice: Choices,
            token: 0 .. MaxIssues, corrects: 0 .. MaxVotes]

VARIABLES
    status,     \* Proposal.status per version, "NONE" before it is created
    text,       \* its title and text
    frozen,     \* contentHash: the text voting was opened on, or NoText
    summary,    \* resultSummary: the vote rows the recorded result counted
    token,      \* ApprovalToken.status, "NONE" before it is issued
    failed,     \* ApprovalToken.failedAttempts
    ballot,     \* ApprovalToken.ballotId
    votes,      \* table Vote
    late,       \* votingClosesAt and the tokens' expiresAt have passed
    calls       \* calls between their reads and their commit

proposalVars == <<status, text, frozen, summary>>
tokenVars == <<token, failed, ballot>>
vars == <<proposalVars, tokenVars, votes, late, calls>>

-----------------------------------------------------------------------------
(* Rows and derived values.                                                *)

\* correctedBy of a row is null: the row counts (effectiveVotes).
Effective(w) == ~\E x \in votes : x.voter = w.voter /\ x.corrects = w.id

effectiveVotes(p) == {w \in votes : w.voter[1] = p /\ Effective(w)}

\* Mutant: the guard looks for electronic votes only.
HasVotedOnline(ev) == \E w \in votes : w.voter = ev /\ w.token # 0 /\ Effective(w)

\* The double-vote guard: vote.findFirst({ eligibleVoterId, correctedBy: null }).
HasVoted(ev) == \E w \in votes : w.voter = ev /\ Effective(w)

\* The relation ApprovalToken.vote.
VoteOfToken(k) == {w \in votes : w.voter = VoterOf(k) /\ w.token = k[3]}

\* EligibleVoter rows of a version exist from the moment voting opens on it.
Opened(p) == frozen[p] # NoText

\* Frozen with the base: every weight and the totals come from the same rows.
BaseRow(s) == [subject |-> s, weight |-> Weight[s]]

ruleSnapshot ==
    [quorumType          |-> Rule.quorumType,
     quorumPercent       |-> Rule.quorumPercent,
     majorityType        |-> Rule.majorityType,
     majorityPercent     |-> Rule.majorityPercent,
     totalEligibleWeight |-> WeightOf({BaseRow(s) : s \in Subjects}),
     totalEligibleOwners |-> Cardinality(Subjects)]

\* Mutant: a vote entered by hand does not count for the quorum.
CountedOnline(w) ==
    [row |-> <<w.voter, w.id>>, choice |-> w.choice,
     weight |-> Weight[w.voter[2]], countsForQuorum |-> w.token # 0, invalid |-> FALSE]

\* The outcome of a set of vote rows (computeProposalResult maps them so).
CountedVote(w) ==
    [row |-> <<w.voter, w.id>>, choice |-> w.choice,
     weight |-> Weight[w.voter[2]], countsForQuorum |-> TRUE, invalid |-> FALSE]

Outcome(rows) == computeVotingResult(ruleSnapshot, {CountedVote(w) : w \in rows})

-----------------------------------------------------------------------------
(* Calls in flight: what each one read and will write.                     *)

TextCall == [req: Requests, op: {"openVoting", "updateDraft"},
             proposal: Versions, text: Texts]
WithdrawCall == [req: Requests, op: {"withdraw"}, proposal: Versions]
ReviseCall == [req: Requests, op: {"revise"},
               proposal: Versions, text: Texts, opened: BOOLEAN]
CloseCall == [req: Requests, op: {"closeVoting"},
              proposal: Versions, counted: SUBSET VoteRow]
SubmitCall == [req: Requests, op: {"submitVote"}, token: Tokens, choice: Choices]
LinkCall == [req: Requests, token: Tokens,
             op: {"badCode", "autoRevoke", "revokeToken", "reissueToken", "expireToken"}]
ManualCall == [req: Requests, op: {"manualVote"}, voter: Voters, choice: Choices]
CorrectCall == [req: Requests, op: {"correctVote"}, vote: VoteRow, choice: Choices]

Call == TextCall \cup WithdrawCall \cup ReviseCall \cup CloseCall
            \cup SubmitCall \cup LinkCall \cup ManualCall \cup CorrectCall

Idle(r) == \A c \in calls : c.req # r
Begin(c) == Idle(c.req) /\ calls' = calls \cup {c}
Finish(c) == calls' = calls \ {c}

TypeOK ==
    /\ status \in [Versions -> ProposalStatus \cup {"NONE"}]
    /\ text \in [Versions -> Texts]
    /\ frozen \in [Versions -> Texts \cup {NoText}]
    /\ summary \in [Versions -> SUBSET VoteRow]
    /\ token \in [Tokens -> TokenStatus \cup {"NONE"}]
    /\ failed \in [Tokens -> Nat]
    /\ ballot \in [Tokens -> Ballots \cup {NoBallot}]
    /\ votes \subseteq VoteRow
    /\ late \in BOOLEAN
    /\ calls \subseteq Call

\* createProposal has saved version 1 as a draft.
Init ==
    /\ status = [p \in Versions |-> IF p = 1 THEN "DRAFT" ELSE "NONE"]
    /\ \E t \in Texts : text = [p \in Versions |-> t]
    /\ frozen = [p \in Versions |-> NoText]
    /\ summary = [p \in Versions |-> {}]
    /\ token = [k \in Tokens |-> "NONE"]
    /\ failed = [k \in Tokens |-> 0]
    /\ ballot = [k \in Tokens |-> NoBallot]
    /\ votes = {}
    /\ late = FALSE
    /\ calls = {}

-----------------------------------------------------------------------------
(* The proposal: updateDraftProposal, withdrawProposal, openVoting,        *)
(* createProposalRevision, closeVoting.                                    *)

\* Mutant: the draft check is forgotten.
updateAnyRead(r, p, t) ==
    /\ status[p] # "NONE"
    /\ Begin([req |-> r, op |-> "updateDraft", proposal |-> p, text |-> t])
    /\ UNCHANGED <<proposalVars, tokenVars, votes, late>>

updateDraftRead(r, p, t) ==
    /\ status[p] = "DRAFT"
    /\ Begin([req |-> r, op |-> "updateDraft", proposal |-> p, text |-> t])
    /\ UNCHANGED <<proposalVars, tokenVars, votes, late>>

updateDraftCommit(c) ==
    /\ c.op = "updateDraft"
    /\ text' = [text EXCEPT ![c.proposal] = c.text]
    /\ Finish(c)
    /\ UNCHANGED <<status, frozen, summary, tokenVars, votes, late>>

\* Mutant: the draft check is forgotten.
withdrawAnyRead(r, p) ==
    /\ status[p] # "NONE"
    /\ Begin([req |-> r, op |-> "withdraw", proposal |-> p])
    /\ UNCHANGED <<proposalVars, tokenVars, votes, late>>

withdrawRead(r, p) ==
    /\ status[p] = "DRAFT"
    /\ Begin([req |-> r, op |-> "withdraw", proposal |-> p])
    /\ UNCHANGED <<proposalVars, tokenVars, votes, late>>

withdrawCommit(c) ==
    /\ c.op = "withdraw"
    /\ status' = [status EXCEPT ![c.proposal] = "WITHDRAWN"]
    /\ Finish(c)
    /\ UNCHANGED <<text, frozen, summary, tokenVars, votes, late>>

\* The rule, the deadline and votingPreconditions are given; without them the
\* call returns an error.  The deadline may already be past: nobody checks.
openVotingRead(r, p) ==
    /\ status[p] = "DRAFT"
    /\ Begin([req |-> r, op |-> "openVoting", proposal |-> p, text |-> text[p]])
    /\ UNCHANGED <<proposalVars, tokenVars, votes, late>>

\* EligibleVoter rows are unique per version and subject: a second opening of
\* the same version fails as a whole.  (Mutant: without that constraint.)
BaseMayExist(p) == TRUE
BaseIsNew(p) == ~Opened(p)

\* The status is written by id.
openVotingCommit(c) ==
    /\ c.op = "openVoting"
    /\ BaseIsNew(c.proposal)
    /\ status' = [status EXCEPT ![c.proposal] = "VOTING_OPEN"]
    /\ frozen' = [frozen EXCEPT ![c.proposal] = c.text]
    /\ token' = [k \in Tokens |-> IF k[1] = c.proposal /\ k[3] = 1
                                  THEN "ACTIVE" ELSE token[k]]
    /\ Finish(c)
    /\ UNCHANGED <<text, summary, failed, ballot, votes, late>>

\* The EligibleVoter rows whose tokens will be superseded are read here, too.
reviseRead(r, p, t) ==
    /\ p < MaxVersions
    /\ status[p] \notin {"NONE", "SUPERSEDED"}
    /\ Begin([req |-> r, op |-> "revise", proposal |-> p, text |-> t,
              opened |-> Opened(p)])
    /\ UNCHANGED <<proposalVars, tokenVars, votes, late>>

\* supersedesId is unique: of two revisions of one version the second fails.
reviseCommit(c) ==
    /\ c.op = "revise"
    /\ c.proposal + 1 \in Versions
    /\ status[c.proposal + 1] = "NONE"
    /\ status' = [status EXCEPT ![c.proposal] = "SUPERSEDED",
                                ![c.proposal + 1] = "DRAFT"]
    /\ text' = [text EXCEPT ![c.proposal + 1] = c.text]
    /\ token' = [k \in Tokens |->
                    IF c.opened /\ k[1] = c.proposal /\ token[k] = "ACTIVE"
                    THEN "SUPERSEDED" ELSE token[k]]
    /\ Finish(c)
    /\ UNCHANGED <<frozen, summary, failed, ballot, votes, late>>

\* Mutant: the result counts electronic votes only.
closeOnlineRead(r, p) ==
    /\ Opened(p)
    /\ status[p] = "VOTING_OPEN"
    /\ Begin([req |-> r, op |-> "closeVoting", proposal |-> p,
              counted |-> {w \in effectiveVotes(p) : w.token # 0}])
    /\ UNCHANGED <<proposalVars, tokenVars, votes, late>>

\* computeProposalResult runs before the transaction; it needs the snapshot.
closeVotingRead(r, p) ==
    /\ Opened(p)
    /\ status[p] = "VOTING_OPEN"
    /\ Begin([req |-> r, op |-> "closeVoting", proposal |-> p,
              counted |-> effectiveVotes(p)])
    /\ UNCHANGED <<proposalVars, tokenVars, votes, late>>

closeVotingCommit(c) ==
    /\ c.op = "closeVoting"
    /\ status' = [status EXCEPT ![c.proposal] =
                    IF Outcome(c.counted).accepted THEN "ACCEPTED" ELSE "REJECTED"]
    /\ summary' = [summary EXCEPT ![c.proposal] = c.counted]
    /\ token' = [k \in Tokens |-> IF k[1] = c.proposal /\ token[k] = "ACTIVE"
                                  THEN "EXPIRED" ELSE token[k]]
    /\ Finish(c)
    /\ UNCHANGED <<text, frozen, failed, ballot, votes, late>>

-----------------------------------------------------------------------------
(* Votes: castElectronicVoteTx, submitVote, recordManualVote, correctVote. *)

\* Vote.tokenId and Vote.correctionOfId are unique.  (Mutants: one is not.)
UniqueCorrection(ev, tokenNo, corrected) ==
    corrected # 0 => ~\E w \in votes : w.voter = ev /\ w.corrects = corrected

UniqueToken(ev, tokenNo, corrected) ==
    tokenNo # 0 => ~\E w \in votes : w.voter = ev /\ w.token = tokenNo

UniqueKeys(ev, tokenNo, corrected) ==
    /\ tokenNo # 0 => ~\E w \in votes : w.voter = ev /\ w.token = tokenNo
    /\ corrected # 0 => ~\E w \in votes : w.voter = ev /\ w.corrects = corrected

\* vote.create: a fresh row, numbered next.
InsertVote(ev, choice, tokenNo, corrected) ==
    \E i \in 1 .. MaxVotes :
        /\ \A w \in votes : w.voter = ev => w.id # i
        /\ i > 1 => \E w \in votes : w.voter = ev /\ w.id = i - 1
        /\ UniqueKeys(ev, tokenNo, corrected)
        /\ votes' = votes \cup {[voter |-> ev, id |-> i, choice |-> choice,
                                 token |-> tokenNo, corrects |-> corrected]}

\* Mutants: a dead link is accepted; a link is accepted whatever the proposal.
DeadLinkUsable(k) ==
    /\ ballot[k] = NoBallot
    /\ token[k] \notin {"NONE", "USED"}
    /\ VoteOfToken(k) = {}
    /\ ~late
    /\ status[k[1]] = "VOTING_OPEN"

LinkUsableAnyTime(k) ==
    /\ ballot[k] = NoBallot
    /\ token[k] \notin {"NONE", "REVOKED", "SUPERSEDED", "USED"}
    /\ VoteOfToken(k) = {}
    /\ ~late

\* What submitVote asks of a link before it looks at the code.
LinkUsable(k) ==
    /\ ballot[k] = NoBallot
    /\ token[k] \notin {"NONE", "REVOKED", "SUPERSEDED", "USED"}
    /\ VoteOfToken(k) = {}
    /\ ~late
    /\ status[k[1]] = "VOTING_OPEN"

submitVoteRead(r, k, choice) ==
    /\ LinkUsable(k)
    /\ ~HasVoted(VoterOf(k))
    /\ Begin([req |-> r, op |-> "submitVote", token |-> k, choice |-> choice])
    /\ UNCHANGED <<proposalVars, tokenVars, votes, late>>

submitVoteCommit(c) ==
    /\ c.op = "submitVote"
    /\ InsertVote(VoterOf(c.token), c.choice, c.token[3], 0)
    /\ token' = [token EXCEPT ![c.token] = "USED"]
    /\ Finish(c)
    /\ UNCHANGED <<proposalVars, failed, ballot, late>>

\* A wrong code rolls the transaction back; the failure is counted after it.
badCodeRead(r, k) ==
    /\ LinkUsable(k)
    /\ failed[k] < MaxFailures
    /\ Begin([req |-> r, op |-> "badCode", token |-> k])
    /\ UNCHANGED <<proposalVars, tokenVars, votes, late>>

\* The increment returns the row: at the limit a link still ACTIVE is revoked
\* by one more statement of the same call.
badCodeCount(c) ==
    /\ c.op = "badCode"
    /\ failed' = [failed EXCEPT ![c.token] = @ + 1]
    /\ calls' = IF failed[c.token] + 1 >= FailureLimit /\ token[c.token] = "ACTIVE"
                THEN (calls \ {c}) \cup
                     {[req |-> c.req, op |-> "autoRevoke", token |-> c.token]}
                ELSE calls \ {c}
    /\ UNCHANGED <<proposalVars, token, ballot, votes, late>>

\* A link's status is written by id, whatever it is by now.
WriteLink(c, new) ==
    /\ token' = [token EXCEPT ![c.token] = new]
    /\ Finish(c)
    /\ UNCHANGED <<proposalVars, failed, ballot, votes, late>>

autoRevoke(c) == c.op = "autoRevoke" /\ WriteLink(c, "REVOKED")

\* recordManualVote; the deadline does not bind a vote entered by hand.
manualVoteRead(r, ev, choice) ==
    /\ Opened(ev[1])
    /\ status[ev[1]] = "VOTING_OPEN"
    /\ ~HasVoted(ev)
    /\ Begin([req |-> r, op |-> "manualVote", voter |-> ev, choice |-> choice])
    /\ UNCHANGED <<proposalVars, tokenVars, votes, late>>

manualVoteCommit(c) ==
    /\ c.op = "manualVote"
    /\ InsertVote(c.voter, c.choice, 0, 0)
    /\ Finish(c)
    /\ UNCHANGED <<proposalVars, tokenVars, late>>

\* Whatever the status of the proposal.
correctVoteRead(r, w, choice) ==
    /\ Effective(w)
    /\ Begin([req |-> r, op |-> "correctVote", vote |-> w, choice |-> choice])
    /\ UNCHANGED <<proposalVars, tokenVars, votes, late>>

correctVoteCommit(c) ==
    /\ c.op = "correctVote"
    /\ InsertVote(c.vote.voter, c.choice, 0, c.vote.id)
    /\ Finish(c)
    /\ UNCHANGED <<proposalVars, tokenVars, late>>

-----------------------------------------------------------------------------
(* Links: revokeToken, reissueToken, and the expiry inspectApprovalToken   *)
(* writes when a late link is looked at.                                   *)

\* Mutant: a spent link may be revoked and reissued.
LinkOpenOrSpent(k) == ballot[k] = NoBallot /\ token[k] # "NONE"

LinkOpenToAdmin(k) == ballot[k] = NoBallot /\ token[k] \notin {"NONE", "USED"}

revokeTokenRead(r, k) ==
    /\ LinkOpenToAdmin(k)
    /\ Begin([req |-> r, op |-> "revokeToken", token |-> k])
    /\ UNCHANGED <<proposalVars, tokenVars, votes, late>>

revokeTokenCommit(c) == c.op = "revokeToken" /\ WriteLink(c, "REVOKED")

\* Neither the proposal nor an earlier replacement of the link is looked at.
reissueTokenRead(r, k) ==
    /\ LinkOpenToAdmin(k)
    /\ Begin([req |-> r, op |-> "reissueToken", token |-> k])
    /\ UNCHANGED <<proposalVars, tokenVars, votes, late>>

reissueTokenCommit(c) ==
    /\ c.op = "reissueToken"
    /\ \E n \in 2 .. MaxIssues :
          LET fresh == <<c.token[1], c.token[2], n>>
              last  == <<c.token[1], c.token[2], n - 1>>
          IN  /\ token[fresh] = "NONE"
              /\ token[last] # "NONE"
              /\ token' = [token EXCEPT ![c.token] = "SUPERSEDED", ![fresh] = "ACTIVE"]
    /\ Finish(c)
    /\ UNCHANGED <<proposalVars, failed, ballot, votes, late>>

expireTokenRead(r, k) ==
    /\ ballot[k] = NoBallot
    /\ token[k] = "ACTIVE"
    /\ VoteOfToken(k) = {}
    /\ late
    /\ Begin([req |-> r, op |-> "expireToken", token |-> k])
    /\ UNCHANGED <<proposalVars, tokenVars, votes, late>>

expireTokenCommit(c) == c.op = "expireToken" /\ WriteLink(c, "EXPIRED")

-----------------------------------------------------------------------------

Abort(c) ==
    /\ Finish(c)
    /\ UNCHANGED <<proposalVars, tokenVars, votes, late>>

DeadlinePasses ==
    /\ ~late
    /\ late' = TRUE
    /\ UNCHANGED <<proposalVars, tokenVars, votes, calls>>

Read(r) ==
    \/ \E p \in Versions :
          \/ \E t \in Texts : updateDraftRead(r, p, t) \/ reviseRead(r, p, t)
          \/ withdrawRead(r, p)
          \/ openVotingRead(r, p)
          \/ closeVotingRead(r, p)
    \/ \E k \in Tokens :
          \/ \E choice \in Choices : submitVoteRead(r, k, choice)
          \/ badCodeRead(r, k)
          \/ revokeTokenRead(r, k)
          \/ reissueTokenRead(r, k)
          \/ expireTokenRead(r, k)
    \/ \E choice \in Choices :
          \/ \E ev \in Voters : manualVoteRead(r, ev, choice)
          \/ \E w \in votes : correctVoteRead(r, w, choice)

Commit(c) ==
    \/ updateDraftCommit(c)
    \/ withdrawCommit(c)
    \/ openVotingCommit(c)
    \/ reviseCommit(c)
    \/ closeVotingCommit(c)
    \/ submitVoteCommit(c)
    \/ badCodeCount(c)
    \/ autoRevoke(c)
    \/ manualVoteCommit(c)
    \/ correctVoteCommit(c)
    \/ revokeTokenCommit(c)
    \/ reissueTokenCommit(c)
    \/ expireTokenCommit(c)

Next ==
    \/ \E r \in Requests : Read(r)
    \/ \E c \in calls : Commit(c) \/ Abort(c)
    \/ DeadlinePasses

Spec == Init /\ [][Next]_vars

-----------------------------------------------------------------------------
(* What holds however requests interleave.                                 *)

\* A link records at most one vote, however many calls carry it: the unique
\* tokenId lets one of two concurrent submissions of a link through.
OneVotePerLink ==
    \A v, w \in votes :
        v.voter = w.voter /\ v.token = w.token /\ v.token # 0 => v = w

\* Corrections of a vote form a chain, never a tree: a row is corrected at most
\* once, by a later row of the same voter, also when two presidents correct the
\* same vote at once.
CorrectionChain ==
    \A x \in votes : x.corrects # 0 =>
        /\ \E w \in votes : w.voter = x.voter /\ w.id = x.corrects /\ w.id < x.id
        /\ \A y \in votes : y.voter = x.voter /\ y.corrects = x.corrects => y = x

\* So a correction replaces a counted vote and never adds or loses one: each
\* voter has as many counted votes as votes entered that are not corrections.
CorrectionsKeepCount ==
    \A ev \in Voters :
        LET own == {w \in votes : w.voter = ev}
        IN  Cardinality({w \in own : Effective(w)})
              = Cardinality({w \in own : w.corrects = 0})

\* A link is marked USED only together with its vote: no voter is told that the
\* link was used while no vote of that link is in the table.
UsedLinkHasVote == \A k \in Tokens : token[k] = "USED" => VoteOfToken(k) # {}

RowsOf(p, rows) ==
    /\ \A w \in rows : w \in votes /\ w.voter[1] = p
    /\ \A v, w \in rows : v.voter = w.voter => v.corrects # w.id

\* The recorded result counted only rows of the table that belong to this
\* version, and of two rows of a correction chain never both.
ResultCountsRealVotes ==
    \A p \in Versions : RowsOf(p, summary[p])

\* Voting opens on a version once: the voting base and the content hash frozen
\* then are never replaced, even by a second concurrent openVoting, and the
\* links of the base are issued once.
FrozenOnce ==
    [][\A p \in Versions : Opened(p) =>
          /\ frozen'[p] = frozen[p]
          /\ \A s \in Subjects : token[<<p, s, 1>>] # "ACTIVE"
                                  => token'[<<p, s, 1>>] # "ACTIVE"]_vars

\* What makes those inductive: the rows of a voter are numbered 1, 2, ... without
\* gap, and a call in flight that names rows names rows of the table (they are
\* never deleted), so what it read can be late but never wrong.
RowsAreNumbered ==
    \A w \in votes :
        /\ \A v \in votes : v.voter = w.voter /\ v.id = w.id => v = w
        /\ \A j \in 1 .. w.id : \E v \in votes : v.voter = w.voter /\ v.id = j

CallsNameRows ==
    \A c \in calls :
        /\ c.op = "correctVote" => c.vote \in votes
        /\ c.op = "closeVoting" => RowsOf(c.proposal, c.counted)

VoteTableInv ==
    /\ RowsAreNumbered
    /\ CallsNameRows
    /\ OneVotePerLink
    /\ CorrectionChain
    /\ UsedLinkHasVote
    /\ ResultCountsRealVotes

-----------------------------------------------------------------------------
(* What the guards promise, and keep when calls do not overlap.            *)

\* One voting authority votes once, whatever the channel and the number of
\* links it was sent: at most one row of a voter counts.
OneEffectiveVote ==
    \A v, w \in votes :
        v.voter = w.voter /\ Effective(v) /\ Effective(w) => v = w

\* The link of a recorded electronic vote is spent: it stays USED.
VotedLinkIsUsed ==
    \A w \in votes : w.token # 0 =>
        token[<<w.voter[1], w.voter[2], w.token>>] = "USED"

\* The text voters see is the text whose hash was frozen.
TextIsFrozen == \A p \in Versions : Opened(p) => text[p] = frozen[p]

\* A version that has a successor is out of force.
OneLiveVersion ==
    \A p, q \in Versions :
        p < q /\ status[q] # "NONE" => status[p] = "SUPERSEDED"

\* No vote enters (a correction aside) unless its version is open for voting.
NoVoteAfterClose ==
    [][\A w \in votes' \ votes :
          w.corrects = 0 => status[w.voter[1]] = "VOTING_OPEN"]_vars

\* When voting closes, the recorded result counts exactly the votes that count
\* at that moment.
ResultIsComplete ==
    [][\A p \in Versions :
          status[p] = "VOTING_OPEN" /\ status'[p] \in {"ACCEPTED", "REJECTED"}
             => summary'[p] = effectiveVotes(p)]_vars

\* A decided proposal keeps its decision; only a revision ends it.
DecisionIsFinal ==
    [][\A p \in Versions :
          status[p] \in {"ACCEPTED", "REJECTED"} =>
             /\ status'[p] \in {status[p], "SUPERSEDED"}
             /\ summary'[p] = summary[p]]_vars

\* A link that was revoked or replaced records no vote any more.
DeadLinkRecordsNothing ==
    [][\A k \in Tokens : token[k] \in {"REVOKED", "SUPERSEDED"} =>
          \A w \in votes' \ votes : ~(w.voter = VoterOf(k) /\ w.token = k[3])]_vars
=============================================================================
