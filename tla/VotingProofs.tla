---------------------------- MODULE VotingProofs ----------------------------
(***************************************************************************)
(* Theorems about module Voting, about its refinement of the ballot box    *)
(* and about the voting engine, for every value of their constants.        *)
(***************************************************************************)
EXTENDS VotingRefinement, MCVotingEngine, SumProofs

-----------------------------------------------------------------------------
(* Typing.                                                                 *)

\* A read leaves the tables alone and adds well-formed calls only.
LEMMA ReadTypes ==
    ASSUME TypeOK, NEW r \in Requests, Read(r)
    PROVE  /\ UNCHANGED <<proposalVars, tokenVars, votes, late>>
           /\ calls' \subseteq Call
<1> DEFINE Goal == /\ UNCHANGED <<proposalVars, tokenVars, votes, late>>
                   /\ calls' \subseteq Call
<1>0. calls \subseteq Call
  BY DEF TypeOK
<1>1. ASSUME NEW p \in Versions, NEW t \in Texts, updateDraftRead(r, p, t)
      PROVE  Goal
  <2>1. [req |-> r, op |-> "updateDraft", proposal |-> p, text |-> t] \in TextCall
    BY DEF TextCall
  <2>2. QED
    BY <1>0, <1>1, <2>1 DEF updateDraftRead, Begin, Call
<1>2. ASSUME NEW p \in Versions, NEW t \in Texts, reviseRead(r, p, t)
      PROVE  Goal
  <2>1. [req |-> r, op |-> "revise", proposal |-> p, text |-> t,
         opened |-> Opened(p)] \in ReviseCall
    BY DEF ReviseCall, Opened
  <2>2. QED
    BY <1>0, <1>2, <2>1 DEF reviseRead, Begin, Call
<1>3. ASSUME NEW p \in Versions, withdrawRead(r, p)
      PROVE  Goal
  <2>1. [req |-> r, op |-> "withdraw", proposal |-> p] \in WithdrawCall
    BY DEF WithdrawCall
  <2>2. QED
    BY <1>0, <1>3, <2>1 DEF withdrawRead, Begin, Call
<1>4. ASSUME NEW p \in Versions, openVotingRead(r, p)
      PROVE  Goal
  <2>1. [req |-> r, op |-> "openVoting", proposal |-> p, text |-> text[p]] \in TextCall
    BY DEF TextCall, TypeOK
  <2>2. QED
    BY <1>0, <1>4, <2>1 DEF openVotingRead, Begin, Call
<1>5. ASSUME NEW p \in Versions, closeVotingRead(r, p)
      PROVE  Goal
  <2>1. [req |-> r, op |-> "closeVoting", proposal |-> p,
         counted |-> effectiveVotes(p)] \in CloseCall
    BY DEF CloseCall, effectiveVotes, TypeOK
  <2>2. QED
    BY <1>0, <1>5, <2>1 DEF closeVotingRead, Begin, Call
<1>6. ASSUME NEW k \in Tokens, NEW choice \in Choices, submitVoteRead(r, k, choice)
      PROVE  Goal
  <2>1. [req |-> r, op |-> "submitVote", token |-> k, choice |-> choice] \in SubmitCall
    BY DEF SubmitCall
  <2>2. QED
    BY <1>0, <1>6, <2>1 DEF submitVoteRead, Begin, Call
<1>7. ASSUME NEW k \in Tokens,
             \/ badCodeRead(r, k) \/ revokeTokenRead(r, k)
             \/ reissueTokenRead(r, k) \/ expireTokenRead(r, k)
      PROVE  Goal
  <2>1. \A op \in {"badCode", "revokeToken", "reissueToken", "expireToken"} :
            [req |-> r, op |-> op, token |-> k] \in LinkCall
    BY DEF LinkCall
  <2>2. QED
    BY <1>0, <1>7, <2>1
    DEF badCodeRead, revokeTokenRead, reissueTokenRead, expireTokenRead, Begin, Call
<1>8. ASSUME NEW choice \in Choices, NEW ev \in Voters, manualVoteRead(r, ev, choice)
      PROVE  Goal
  <2>1. [req |-> r, op |-> "manualVote", voter |-> ev, choice |-> choice] \in ManualCall
    BY DEF ManualCall
  <2>2. QED
    BY <1>0, <1>8, <2>1 DEF manualVoteRead, Begin, Call
<1>9. ASSUME NEW choice \in Choices, NEW w \in votes, correctVoteRead(r, w, choice)
      PROVE  Goal
  <2>1. [req |-> r, op |-> "correctVote", vote |-> w, choice |-> choice] \in CorrectCall
    BY DEF CorrectCall, TypeOK
  <2>2. QED
    BY <1>0, <1>9, <2>1 DEF correctVoteRead, Begin, Call
<1>10. QED
  BY <1>1, <1>2, <1>3, <1>4, <1>5, <1>6, <1>7, <1>8, <1>9 DEF Read

\* The operation of a call tells what it carries.
LEMMA CallShape ==
    ASSUME NEW c \in Call
    PROVE  /\ c.req \in Requests
           /\ c.op \in {"openVoting", "updateDraft"} => c \in TextCall
           /\ c.op = "withdraw" => c \in WithdrawCall
           /\ c.op = "revise" => c \in ReviseCall
           /\ c.op = "closeVoting" => c \in CloseCall
           /\ c.op = "submitVote" => c \in SubmitCall
           /\ c.op \in {"badCode", "autoRevoke", "revokeToken",
                        "reissueToken", "expireToken"} => c \in LinkCall
           /\ c.op = "manualVote" => c \in ManualCall
           /\ c.op = "correctVote" => c \in CorrectCall
BY DEF Call, TextCall, WithdrawCall, ReviseCall, CloseCall, SubmitCall,
       LinkCall, ManualCall, CorrectCall

\* A vote row that InsertVote adds is well formed.
LEMMA InsertTypes ==
    ASSUME TypeOK, NEW ev \in Voters, NEW choice \in Choices,
           NEW n \in 0 .. MaxIssues, NEW x \in 0 .. MaxVotes,
           InsertVote(ev, choice, n, x)
    PROVE  votes' \subseteq VoteRow
<1>1. PICK i \in 1 .. MaxVotes :
          votes' = votes \cup {[voter |-> ev, id |-> i, choice |-> choice,
                                token |-> n, corrects |-> x]}
  BY DEF InsertVote
<1>2. [voter |-> ev, id |-> i, choice |-> choice, token |-> n, corrects |-> x] \in VoteRow
  BY DEF VoteRow
<1>3. QED
  BY <1>1, <1>2 DEF TypeOK

LEMMA TokenParts ==
    ASSUME NEW k \in Tokens
    PROVE  /\ k[1] \in Versions /\ k[2] \in Subjects /\ k[3] \in 1 .. MaxIssues
           /\ VoterOf(k) \in Voters
           /\ k = <<k[1], k[2], k[3]>>
BY DEF Tokens, Voters, VoterOf

LEMMA CommitTypes ==
    ASSUME TypeOK, NEW c \in calls, Commit(c) \/ Abort(c)
    PROVE  TypeOK'
<1>1. c \in Call
  BY DEF TypeOK
<1>2. calls \ {c} \subseteq Call
  BY DEF TypeOK
<1>3. CASE Abort(c)
  BY <1>2, <1>3 DEF Abort, Finish, TypeOK, proposalVars, tokenVars
<1>4. CASE updateDraftCommit(c)
  <2>1. c \in TextCall
    BY <1>1, <1>4, CallShape DEF updateDraftCommit
  <2>2. QED
    BY <1>2, <1>4, <2>1 DEF updateDraftCommit, Finish, TypeOK, tokenVars, TextCall
<1>5. CASE withdrawCommit(c)
  <2>1. c \in WithdrawCall
    BY <1>1, <1>5, CallShape DEF withdrawCommit
  <2>2. QED
    BY <1>2, <1>5, <2>1
    DEF withdrawCommit, Finish, TypeOK, tokenVars, WithdrawCall, ProposalStatus
<1>6. CASE openVotingCommit(c)
  <2>1. c \in TextCall
    BY <1>1, <1>6, CallShape DEF openVotingCommit
  <2>2. QED
    BY <1>2, <1>6, <2>1
    DEF openVotingCommit, Finish, TypeOK, TextCall, ProposalStatus, TokenStatus
<1>7. CASE reviseCommit(c)
  <2>1. c \in ReviseCall
    BY <1>1, <1>7, CallShape DEF reviseCommit
  <2>2. QED
    BY <1>2, <1>7, <2>1
    DEF reviseCommit, Finish, TypeOK, ReviseCall, ProposalStatus, TokenStatus
<1>8. CASE closeVotingCommit(c)
  <2>1. c \in CloseCall
    BY <1>1, <1>8, CallShape DEF closeVotingCommit
  <2>2. QED
    BY <1>2, <1>8, <2>1
    DEF closeVotingCommit, Finish, TypeOK, CloseCall, ProposalStatus, TokenStatus
<1>9. CASE submitVoteCommit(c)
  <2>1. c \in SubmitCall
    BY <1>1, <1>9, CallShape DEF submitVoteCommit
  <2>2. votes' \subseteq VoteRow
    BY <1>9, <2>1, InsertTypes, TokenParts, VotingAssumption DEF submitVoteCommit, SubmitCall
  <2>3. QED
    BY <1>2, <1>9, <2>1, <2>2
    DEF submitVoteCommit, Finish, TypeOK, proposalVars, SubmitCall, TokenStatus
<1>10. CASE manualVoteCommit(c)
  <2>1. c \in ManualCall
    BY <1>1, <1>10, CallShape DEF manualVoteCommit
  <2>2. votes' \subseteq VoteRow
    BY <1>10, <2>1, InsertTypes, VotingAssumption DEF manualVoteCommit, ManualCall
  <2>3. QED
    BY <1>2, <1>10, <2>2 DEF manualVoteCommit, Finish, TypeOK, proposalVars, tokenVars
<1>11. CASE correctVoteCommit(c)
  <2>1. c \in CorrectCall
    BY <1>1, <1>11, CallShape DEF correctVoteCommit
  <2>2. votes' \subseteq VoteRow
    BY <1>11, <2>1, InsertTypes, VotingAssumption
    DEF correctVoteCommit, CorrectCall, VoteRow
  <2>3. QED
    BY <1>2, <1>11, <2>2 DEF correctVoteCommit, Finish, TypeOK, proposalVars, tokenVars
<1>12. CASE badCodeCount(c)
  <2>1. c \in LinkCall
    BY <1>1, <1>12, CallShape DEF badCodeCount
  <2>2. [req |-> c.req, op |-> "autoRevoke", token |-> c.token] \in LinkCall
    BY <2>1 DEF LinkCall
  <2>3. calls' \subseteq Call
    BY <1>2, <1>12, <2>2 DEF badCodeCount, Call
  <2>4. QED
    BY <1>12, <2>1, <2>3 DEF badCodeCount, TypeOK, proposalVars, LinkCall
<1>13. CASE autoRevoke(c) \/ revokeTokenCommit(c) \/ expireTokenCommit(c)
  <2>1. c \in LinkCall
    BY <1>1, <1>13, CallShape DEF autoRevoke, revokeTokenCommit, expireTokenCommit
  <2>2. QED
    BY <1>2, <1>13, <2>1
    DEF autoRevoke, revokeTokenCommit, expireTokenCommit, WriteLink, Finish, TypeOK,
        proposalVars, LinkCall, TokenStatus
<1>14. CASE reissueTokenCommit(c)
  <2>1. c \in LinkCall
    BY <1>1, <1>14, CallShape DEF reissueTokenCommit
  <2>2. QED
    BY <1>2, <1>14, <2>1
    DEF reissueTokenCommit, Finish, TypeOK, proposalVars, LinkCall, TokenStatus
<1>15. QED
  BY <1>3, <1>4, <1>5, <1>6, <1>7, <1>8, <1>9, <1>10, <1>11, <1>12, <1>13, <1>14
  DEF Commit

\* Every variable keeps its type: in particular a row of Vote always names a
\* voter, a choice and numbers within the table, whatever calls interleave.
THEOREM TypeCorrect == Spec => []TypeOK
<1>1. Init => TypeOK
  <2> SUFFICES ASSUME Init
               PROVE  TypeOK
    OBVIOUS
  <2>1. status \in [Versions -> ProposalStatus \cup {"NONE"}]
    BY DEF Init, ProposalStatus
  <2>2. text \in [Versions -> Texts]
    BY DEF Init
  <2>3. /\ frozen \in [Versions -> Texts \cup {NoText}]
        /\ summary \in [Versions -> SUBSET VoteRow]
    BY DEF Init
  <2>4. /\ token \in [Tokens -> TokenStatus \cup {"NONE"}]
        /\ failed \in [Tokens -> Nat]
        /\ ballot \in [Tokens -> Ballots \cup {NoBallot}]
    BY DEF Init
  <2>5. votes \subseteq VoteRow /\ late \in BOOLEAN /\ calls \subseteq Call
    BY DEF Init
  <2>6. QED
    BY <2>1, <2>2, <2>3, <2>4, <2>5 DEF TypeOK
<1>2. TypeOK /\ [Next]_vars => TypeOK'
  <2> SUFFICES ASSUME TypeOK, [Next]_vars
               PROVE  TypeOK'
    OBVIOUS
  <2>1. ASSUME NEW r \in Requests, Read(r)
        PROVE  TypeOK'
    BY <2>1, ReadTypes DEF TypeOK, proposalVars, tokenVars
  <2>2. ASSUME NEW c \in calls, Commit(c) \/ Abort(c)
        PROVE  TypeOK'
    BY <2>2, CommitTypes
  <2>3. CASE DeadlinePasses
    BY <2>3 DEF DeadlinePasses, TypeOK, proposalVars, tokenVars
  <2>4. CASE UNCHANGED vars
    BY <2>4 DEF vars, TypeOK, proposalVars, tokenVars
  <2>5. QED
    BY <2>1, <2>2, <2>3, <2>4 DEF Next
<1>3. QED
  BY <1>1, <1>2, PTL DEF Spec

-----------------------------------------------------------------------------
(* The vote table, under every interleaving of calls.                      *)

\* A new row keeps the numbering, the one-vote-per-link rule and the chains.
LEMMA InsertKeepsTable ==
    ASSUME TypeOK, RowsAreNumbered, OneVotePerLink, CorrectionChain,
           NEW ev \in Voters, NEW choice \in Choices,
           NEW n \in 0 .. MaxIssues, NEW x \in 0 .. MaxVotes,
           InsertVote(ev, choice, n, x),
           x # 0 => \E w \in votes : w.voter = ev /\ w.id = x
    PROVE  /\ votes \subseteq votes'
           /\ RowsAreNumbered'
           /\ OneVotePerLink'
           /\ CorrectionChain'
           /\ n # 0 => \E w \in votes' : w.voter = ev /\ w.token = n
<1>1. PICK i \in 1 .. MaxVotes :
        /\ \A w \in votes : w.voter = ev => w.id # i
        /\ i > 1 => \E w \in votes : w.voter = ev /\ w.id = i - 1
        /\ n # 0 => ~\E w \in votes : w.voter = ev /\ w.token = n
        /\ x # 0 => ~\E w \in votes : w.voter = ev /\ w.corrects = x
        /\ votes' = votes \cup {[voter |-> ev, id |-> i, choice |-> choice,
                                 token |-> n, corrects |-> x]}
  BY DEF InsertVote, UniqueKeys
<1> DEFINE new == [voter |-> ev, id |-> i, choice |-> choice,
                   token |-> n, corrects |-> x]
<1>2. /\ new.voter = ev /\ new.id = i /\ new.token = n /\ new.corrects = x
      /\ votes' = votes \cup {new}
  BY <1>1
<1> HIDE DEF new
<1>3. \A w \in votes : /\ w.id \in Nat \ {0} /\ w.token \in Nat /\ w.corrects \in Nat
  BY VotingAssumption DEF TypeOK, VoteRow
<1>4. \A w \in votes : w.voter = ev => w.id < i
  \* A row numbered i or more would mean that row i exists.
  <2> SUFFICES ASSUME NEW w \in votes, w.voter = ev, ~(w.id < i)
               PROVE  FALSE
    OBVIOUS
  <2>1. i \in 1 .. w.id
    BY <1>3
  <2>2. QED
    BY <1>1, <2>1 DEF RowsAreNumbered
<1>5. RowsAreNumbered'
  <2> SUFFICES ASSUME NEW w \in votes'
               PROVE  /\ \A v \in votes' : v.voter = w.voter /\ v.id = w.id => v = w
                      /\ \A j \in 1 .. w.id : \E v \in votes' : v.voter = w.voter /\ v.id = j
    BY DEF RowsAreNumbered
  <2>1. \A v \in votes' : v.voter = w.voter /\ v.id = w.id => v = w
    BY <1>1, <1>2 DEF RowsAreNumbered
  <2>2. CASE w \in votes
    BY <1>2, <2>1, <2>2 DEF RowsAreNumbered
  <2>3. CASE w = new
    <3> SUFFICES ASSUME NEW j \in 1 .. i
                 PROVE  \E v \in votes' : v.voter = ev /\ v.id = j
      BY <1>2, <2>1, <2>3
    <3>1. CASE j = i
      BY <1>2, <3>1
    <3>2. CASE j < i
      <4>1. PICK u \in votes : u.voter = ev /\ u.id = i - 1
        BY <1>1, <3>2
      <4>2. j \in 1 .. u.id
        BY <3>2, <4>1
      <4>3. QED
        BY <1>2, <4>1, <4>2 DEF RowsAreNumbered
    <3>3. QED
      BY <3>1, <3>2
  <2>4. QED
    BY <1>2, <2>1, <2>2, <2>3
<1>6. OneVotePerLink'
  BY <1>1, <1>2 DEF OneVotePerLink
<1>7. CorrectionChain'
  <2> SUFFICES ASSUME NEW y \in votes', y.corrects # 0
               PROVE  /\ \E w \in votes' : /\ w.voter = y.voter
                                           /\ w.id = y.corrects /\ w.id < y.id
                      /\ \A z \in votes' :
                            z.voter = y.voter /\ z.corrects = y.corrects => z = y
    BY DEF CorrectionChain
  <2>1. CASE y \in votes
    BY <1>1, <1>2, <2>1 DEF CorrectionChain
  <2>2. CASE y = new
    BY <1>1, <1>2, <1>4, <2>2
  <2>3. QED
    BY <1>2, <2>1, <2>2
<1>8. QED
  BY <1>2, <1>5, <1>6, <1>7

\* The steps that keep the table invariant: rows are added at most, a link
\* becomes USED with its row only, and what a new call or a new result names
\* is in the table.
NamesRows(d) ==
    /\ d.op = "correctVote" => d.vote \in votes
    /\ d.op = "closeVoting" => RowsOf(d.proposal, d.counted)

LEMMA KeepsTable ==
    ASSUME VoteTableInv, votes \subseteq votes',
           votes' = votes \/ (RowsAreNumbered' /\ OneVotePerLink' /\ CorrectionChain'),
           \A k \in Tokens : token'[k] = "USED" =>
               token[k] = "USED" \/ (VoteOfToken(k) # {})',
           \A p \in Versions : summary'[p] = summary[p] \/ RowsOf(p, summary'[p]),
           \A d \in calls' : d \in calls \/ NamesRows(d)
    PROVE  VoteTableInv'
<1>1. RowsAreNumbered' /\ OneVotePerLink' /\ CorrectionChain'
  BY DEF VoteTableInv, RowsAreNumbered, OneVotePerLink, CorrectionChain
<1>2. \A d \in calls' : NamesRows(d)
  BY DEF VoteTableInv, CallsNameRows, NamesRows
<1>3. CallsNameRows'
  BY <1>2 DEF CallsNameRows, NamesRows, RowsOf
<1>4. UsedLinkHasVote'
  BY DEF VoteTableInv, UsedLinkHasVote, VoteOfToken
<1>5. \A p \in Versions : RowsOf(p, summary'[p])
  BY DEF VoteTableInv, ResultCountsRealVotes
<1>6. ResultCountsRealVotes'
  BY <1>5 DEF ResultCountsRealVotes, RowsOf
<1>7. QED
  BY <1>1, <1>3, <1>4, <1>6 DEF VoteTableInv

\* A read takes rows that exist: the rows that count are no corrections of one
\* another.
LEMMA ReadNamesRows ==
    ASSUME TypeOK, NEW r \in Requests, Read(r)
    PROVE  \A d \in calls' : d \in calls \/ NamesRows(d)
<1> DEFINE Goal == \A d \in calls' : d \in calls \/ NamesRows(d)
<1>1. ASSUME NEW p \in Versions, closeVotingRead(r, p)
      PROVE  Goal
  <2>1. RowsOf(p, effectiveVotes(p))
    BY DEF RowsOf, effectiveVotes, Effective
  <2>2. QED
    BY <1>1, <2>1 DEF closeVotingRead, Begin, NamesRows
<1>2. ASSUME NEW choice \in Choices, NEW w \in votes, correctVoteRead(r, w, choice)
      PROVE  Goal
  BY <1>2 DEF correctVoteRead, Begin, NamesRows
<1>3. ASSUME NEW p \in Versions, NEW t \in Texts,
             updateDraftRead(r, p, t) \/ reviseRead(r, p, t)
      PROVE  Goal
  BY <1>3 DEF updateDraftRead, reviseRead, Begin, NamesRows
<1>4. ASSUME NEW k \in Tokens, NEW choice \in Choices, submitVoteRead(r, k, choice)
      PROVE  Goal
  BY <1>4 DEF submitVoteRead, Begin, NamesRows
<1>5. ASSUME NEW k \in Tokens,
             \/ badCodeRead(r, k) \/ revokeTokenRead(r, k)
             \/ reissueTokenRead(r, k) \/ expireTokenRead(r, k)
      PROVE  Goal
  BY <1>5 DEF badCodeRead, revokeTokenRead, reissueTokenRead, expireTokenRead,
              Begin, NamesRows
<1>6. ASSUME NEW choice \in Choices, NEW ev \in Voters, manualVoteRead(r, ev, choice)
      PROVE  Goal
  BY <1>6 DEF manualVoteRead, Begin, NamesRows
<1>7. ASSUME NEW p \in Versions, withdrawRead(r, p) \/ openVotingRead(r, p)
      PROVE  Goal
  BY <1>7 DEF withdrawRead, openVotingRead, Begin, NamesRows
<1>8. QED
  BY <1>1, <1>2, <1>3, <1>4, <1>5, <1>6, <1>7 DEF Read

LEMMA CommitKeepsTable ==
    ASSUME TypeOK, VoteTableInv, NEW c \in calls, Commit(c) \/ Abort(c)
    PROVE  VoteTableInv'
<1>0. c \in Call
  BY DEF TypeOK
<1>1. CASE \/ updateDraftCommit(c) \/ withdrawCommit(c) \/ Abort(c)
           \/ autoRevoke(c) \/ revokeTokenCommit(c) \/ expireTokenCommit(c)
  <2>1. \A k \in Tokens : token'[k] = "USED" => token[k] = "USED"
    BY <1>1 DEF updateDraftCommit, withdrawCommit, Abort, autoRevoke,
                revokeTokenCommit, expireTokenCommit, WriteLink, tokenVars, TypeOK
  <2>2. votes' = votes /\ summary' = summary /\ calls' \subseteq calls
    BY <1>1 DEF updateDraftCommit, withdrawCommit, Abort, autoRevoke,
                revokeTokenCommit, expireTokenCommit, WriteLink, proposalVars, Finish
  <2>3. QED
    BY <2>1, <2>2, KeepsTable
<1>2. CASE openVotingCommit(c) \/ reviseCommit(c)
  <2>1. \A k \in Tokens : token'[k] = "USED" => token[k] = "USED"
    BY <1>2 DEF openVotingCommit, reviseCommit
  <2>2. votes' = votes /\ summary' = summary /\ calls' \subseteq calls
    BY <1>2 DEF openVotingCommit, reviseCommit, Finish
  <2>3. QED
    BY <2>1, <2>2, KeepsTable
<1>3. CASE reissueTokenCommit(c)
  <2>1. \A k \in Tokens : token'[k] = "USED" => token[k] = "USED"
    BY <1>3 DEF reissueTokenCommit, TypeOK
  <2>2. votes' = votes /\ summary' = summary /\ calls' \subseteq calls
    BY <1>3 DEF reissueTokenCommit, proposalVars, Finish
  <2>3. QED
    BY <2>1, <2>2, KeepsTable
<1>4. CASE badCodeCount(c)
  <2>1. \A d \in calls' : d \in calls \/ NamesRows(d)
    BY <1>4 DEF badCodeCount, NamesRows
  <2>2. votes' = votes /\ summary' = summary /\ token' = token
    BY <1>4 DEF badCodeCount, proposalVars
  <2>3. QED
    BY <2>1, <2>2, KeepsTable
<1>5. CASE closeVotingCommit(c)
  <2>1. \A k \in Tokens : token'[k] = "USED" => token[k] = "USED"
    BY <1>5 DEF closeVotingCommit
  <2>2. RowsOf(c.proposal, c.counted)
    BY <1>5 DEF closeVotingCommit, VoteTableInv, CallsNameRows
  <2>3. \A p \in Versions : summary'[p] = summary[p] \/ RowsOf(p, summary'[p])
    BY <1>5, <2>2 DEF closeVotingCommit, TypeOK
  <2>4. votes' = votes /\ calls' \subseteq calls
    BY <1>5 DEF closeVotingCommit, Finish
  <2>5. QED
    BY <2>1, <2>3, <2>4, KeepsTable
<1>6. CASE submitVoteCommit(c)
  <2>1. /\ c.token \in Tokens /\ c.choice \in Choices
    BY <1>0, <1>6, CallShape DEF submitVoteCommit, SubmitCall
  <2>2. /\ VoterOf(c.token) \in Voters /\ c.token[3] \in 1 .. MaxIssues
    BY <2>1, TokenParts
  <2>3. InsertVote(VoterOf(c.token), c.choice, c.token[3], 0)
    BY <1>6 DEF submitVoteCommit
  <2>4. /\ votes \subseteq votes'
        /\ RowsAreNumbered' /\ OneVotePerLink' /\ CorrectionChain'
        /\ \E w \in votes' : w.voter = VoterOf(c.token) /\ w.token = c.token[3]
    BY <2>1, <2>2, <2>3, InsertKeepsTable, VotingAssumption DEF VoteTableInv
  <2>5. \A k \in Tokens : token'[k] = "USED" =>
            token[k] = "USED" \/ (VoteOfToken(k) # {})'
    BY <1>6, <2>4 DEF submitVoteCommit, VoteOfToken, TypeOK
  <2>6. summary' = summary /\ calls' \subseteq calls
    BY <1>6 DEF submitVoteCommit, proposalVars, Finish
  <2>7. QED
    BY <2>4, <2>5, <2>6, KeepsTable
<1>7. CASE manualVoteCommit(c)
  <2>1. c.voter \in Voters /\ c.choice \in Choices
    BY <1>0, <1>7, CallShape DEF manualVoteCommit, ManualCall
  <2>2. InsertVote(c.voter, c.choice, 0, 0)
    BY <1>7 DEF manualVoteCommit
  <2>3. /\ votes \subseteq votes'
        /\ RowsAreNumbered' /\ OneVotePerLink' /\ CorrectionChain'
    BY <2>1, <2>2, InsertKeepsTable, VotingAssumption DEF VoteTableInv
  <2>4. token' = token /\ summary' = summary /\ calls' \subseteq calls
    BY <1>7 DEF manualVoteCommit, proposalVars, tokenVars, Finish
  <2>5. QED
    BY <2>3, <2>4, KeepsTable
<1>8. CASE correctVoteCommit(c)
  <2>1. c.vote \in votes /\ c.vote \in VoteRow /\ c.choice \in Choices
    BY <1>0, <1>8, CallShape
    DEF correctVoteCommit, CorrectCall, VoteTableInv, CallsNameRows
  <2>2. c.vote.voter \in Voters /\ c.vote.id \in 0 .. MaxVotes
    BY <2>1, VotingAssumption DEF VoteRow
  <2>3. InsertVote(c.vote.voter, c.choice, 0, c.vote.id)
    BY <1>8 DEF correctVoteCommit
  <2>4. /\ votes \subseteq votes'
        /\ RowsAreNumbered' /\ OneVotePerLink' /\ CorrectionChain'
    BY <2>1, <2>2, <2>3, InsertKeepsTable, VotingAssumption DEF VoteTableInv
  <2>5. token' = token /\ summary' = summary /\ calls' \subseteq calls
    BY <1>8 DEF correctVoteCommit, proposalVars, tokenVars, Finish
  <2>6. QED
    BY <2>4, <2>5, KeepsTable
<1>9. QED
  BY <1>1, <1>2, <1>3, <1>4, <1>5, <1>6, <1>7, <1>8 DEF Commit

\* Whatever calls interleave or die: a link records one vote, corrections form
\* chains, a USED link has its vote, and every recorded result counts rows of
\* its own version, no two of them a vote and its correction.
THEOREM VoteTableCorrect == Spec => []VoteTableInv
<1>1. Init => VoteTableInv
  BY DEF Init, VoteTableInv, RowsAreNumbered, CallsNameRows, OneVotePerLink,
         CorrectionChain, UsedLinkHasVote, ResultCountsRealVotes, RowsOf
<1>2. TypeOK /\ VoteTableInv /\ [Next]_vars => VoteTableInv'
  <2> SUFFICES ASSUME TypeOK, VoteTableInv, [Next]_vars
               PROVE  VoteTableInv'
    OBVIOUS
  <2>1. ASSUME NEW r \in Requests, Read(r)
        PROVE  VoteTableInv'
    <3>1. votes' = votes /\ token' = token /\ summary' = summary
      BY <2>1, ReadTypes DEF proposalVars, tokenVars
    <3>2. QED
      BY <2>1, <3>1, ReadNamesRows, KeepsTable
  <2>2. ASSUME NEW c \in calls, Commit(c) \/ Abort(c)
        PROVE  VoteTableInv'
    BY <2>2, CommitKeepsTable
  <2>3. CASE DeadlinePasses \/ UNCHANGED vars
    <3>1. UNCHANGED <<token, votes, summary, calls>>
      BY <2>3 DEF DeadlinePasses, vars, proposalVars, tokenVars
    <3>2. QED
      BY <3>1, KeepsTable
  <2>4. QED
    BY <2>1, <2>2, <2>3 DEF Next
<1>3. QED
  BY <1>1, <1>2, TypeCorrect, PTL DEF Spec

-----------------------------------------------------------------------------
(* Opening a version, under every interleaving of calls.                   *)

\* Only openVotingCommit freezes, and it runs on a version that is not open;
\* links numbered 1 are issued there and nowhere else.
THEOREM VotingOpensOnce == Spec => FrozenOnce
<1> DEFINE Kept == \A p \in Versions : Opened(p) =>
                      /\ frozen'[p] = frozen[p]
                      /\ \A s \in Subjects : token[<<p, s, 1>>] # "ACTIVE"
                                              => token'[<<p, s, 1>>] # "ACTIVE"
<1>1. TypeOK /\ [Next]_vars => [Kept]_vars
  <2> SUFFICES ASSUME TypeOK, Next
               PROVE  Kept
    BY DEF vars
  <2> SUFFICES ASSUME NEW p \in Versions, Opened(p), NEW s \in Subjects
               PROVE  /\ frozen'[p] = frozen[p]
                      /\ token[<<p, s, 1>>] # "ACTIVE" => token'[<<p, s, 1>>] # "ACTIVE"
    BY VotingAssumption
  <2> DEFINE k1 == <<p, s, 1>>
  <2>0. k1 \in Tokens /\ k1[1] = p /\ k1[2] = s /\ k1[3] = 1
    BY VotingAssumption DEF Tokens
  <2>1. ASSUME NEW r \in Requests, Read(r)
        PROVE  frozen' = frozen /\ token' = token
    BY <2>1, ReadTypes DEF proposalVars, tokenVars
  <2>2. ASSUME NEW c \in calls, Commit(c) \/ Abort(c)
        PROVE  /\ frozen'[p] = frozen[p]
               /\ token[k1] # "ACTIVE" => token'[k1] # "ACTIVE"
    <3>0. c \in Call
      BY DEF TypeOK
    <3>1. CASE \/ updateDraftCommit(c) \/ withdrawCommit(c) \/ Abort(c) \/ badCodeCount(c)
               \/ submitVoteCommit(c) \/ manualVoteCommit(c) \/ correctVoteCommit(c)
      <4>1. frozen' = frozen
        BY <3>1 DEF updateDraftCommit, withdrawCommit, Abort, badCodeCount, proposalVars,
                    submitVoteCommit, manualVoteCommit, correctVoteCommit
      <4>2. CASE submitVoteCommit(c)
        BY <2>0, <4>1, <4>2 DEF submitVoteCommit, TypeOK
      <4>3. CASE ~submitVoteCommit(c)
        <5>1. token' = token
          BY <3>1, <4>3 DEF updateDraftCommit, withdrawCommit, Abort, badCodeCount,
                            manualVoteCommit, correctVoteCommit, tokenVars
        <5>2. QED
          BY <4>1, <5>1
      <4>4. QED
        BY <4>2, <4>3
    <3>2. CASE openVotingCommit(c)
      BY <2>0, <3>2 DEF openVotingCommit, BaseIsNew, Opened, TypeOK
    <3>3. CASE reviseCommit(c) \/ closeVotingCommit(c)
      BY <2>0, <3>3 DEF reviseCommit, closeVotingCommit
    <3>4. CASE autoRevoke(c) \/ revokeTokenCommit(c) \/ expireTokenCommit(c)
      BY <2>0, <3>4 DEF autoRevoke, revokeTokenCommit, expireTokenCommit, WriteLink,
                        proposalVars, TypeOK
    <3>5. CASE reissueTokenCommit(c)
      <4>1. c.token \in Tokens
        BY <3>0, <3>5, CallShape DEF reissueTokenCommit, LinkCall
      <4>2. PICK n \in 2 .. MaxIssues :
                token' = [token EXCEPT ![c.token] = "SUPERSEDED",
                                       ![<<c.token[1], c.token[2], n>>] = "ACTIVE"]
        BY <3>5 DEF reissueTokenCommit
      <4>3. k1 # <<c.token[1], c.token[2], n>>
        BY <2>0
      <4>4. QED
        BY <2>0, <3>5, <4>2, <4>3 DEF reissueTokenCommit, proposalVars, TypeOK
    <3>6. QED
      BY <2>2, <3>1, <3>2, <3>3, <3>4, <3>5 DEF Commit
  <2>3. CASE DeadlinePasses
    BY <2>3 DEF DeadlinePasses, proposalVars, tokenVars
  <2>4. QED
    BY <2>1, <2>2, <2>3 DEF Next
<1>2. QED
  BY <1>1, TypeCorrect, PTL DEF Spec, FrozenOnce

-----------------------------------------------------------------------------
(* One vote per voting authority, when calls do not overlap.               *)

\* A row that enters a voter's empty column, or corrects the row that counts,
\* leaves one row that counts.
LEMMA InsertKeepsOne ==
    ASSUME TypeOK, OneEffectiveVote, NEW ev \in Voters, NEW choice, NEW n,
           NEW x \in Nat, InsertVote(ev, choice, n, x),
           x = 0 => ~HasVoted(ev),
           x # 0 => \E w \in votes : w.voter = ev /\ w.id = x
    PROVE  OneEffectiveVote'
<1>1. PICK i \in 1 .. MaxVotes :
        /\ x # 0 => ~\E w \in votes : w.voter = ev /\ w.corrects = x
        /\ votes' = votes \cup {[voter |-> ev, id |-> i, choice |-> choice,
                                 token |-> n, corrects |-> x]}
  BY DEF InsertVote, UniqueKeys
<1>2. PICK new : new.voter = ev /\ new.corrects = x /\ votes' = votes \cup {new}
  BY <1>1
<1>3. \A w \in votes : Effective(w)' => Effective(w)
  BY <1>2 DEF Effective
<1>4. \A w \in votes : w.voter = ev => ~Effective(w)'
  <2>1. CASE x = 0
    BY <1>3, <2>1 DEF HasVoted
  <2>2. CASE x # 0
    <3>1. PICK u \in votes : u.voter = ev /\ u.id = x
      BY <2>2
    <3>2. Effective(u)
      BY <1>1, <2>2, <3>1 DEF Effective
    <3>3. ~Effective(u)'
      BY <1>2, <3>1 DEF Effective
    <3>4. QED
      BY <1>3, <3>1, <3>2, <3>3 DEF OneEffectiveVote
  <2>3. QED
    BY <2>1, <2>2
<1>5. QED
  BY <1>2, <1>3, <1>4 DEF OneEffectiveVote

\* With one request at a time a call in flight is alone, so what its guard read
\* still holds when it commits: the voter it will write for has not voted.
Alone == \A c, d \in calls : c = d

GuardHolds ==
    \A c \in calls :
        /\ c.op = "submitVote" => ~HasVoted(VoterOf(c.token))
        /\ c.op = "manualVote" => ~HasVoted(c.voter)

SerialInv == OneEffectiveVote /\ Alone /\ GuardHolds

LEMMA SerialRead ==
    ASSUME \A q, r \in Requests : q = r, TypeOK, SerialInv, NEW r \in Requests, Read(r)
    PROVE  SerialInv'
<1>1. votes' = votes
  BY ReadTypes
<1>2. \E c : /\ Begin(c)
             /\ c.op = "submitVote" => ~HasVoted(VoterOf(c.token))
             /\ c.op = "manualVote" => ~HasVoted(c.voter)
  <2> DEFINE Goal == \E c : /\ Begin(c)
                            /\ c.op = "submitVote" => ~HasVoted(VoterOf(c.token))
                            /\ c.op = "manualVote" => ~HasVoted(c.voter)
  <2>1. ASSUME NEW k \in Tokens, NEW choice \in Choices, submitVoteRead(r, k, choice)
        PROVE  Goal
    BY <2>1 DEF submitVoteRead
  <2>2. ASSUME NEW choice \in Choices, NEW ev \in Voters, manualVoteRead(r, ev, choice)
        PROVE  Goal
    BY <2>2 DEF manualVoteRead
  <2>3. ASSUME NEW p \in Versions, NEW t \in Texts,
               updateDraftRead(r, p, t) \/ reviseRead(r, p, t)
        PROVE  Goal
    BY <2>3 DEF updateDraftRead, reviseRead
  <2>4. ASSUME NEW p \in Versions,
               withdrawRead(r, p) \/ openVotingRead(r, p) \/ closeVotingRead(r, p)
        PROVE  Goal
    BY <2>4 DEF withdrawRead, openVotingRead, closeVotingRead
  <2>5. ASSUME NEW k \in Tokens,
               \/ badCodeRead(r, k) \/ revokeTokenRead(r, k)
               \/ reissueTokenRead(r, k) \/ expireTokenRead(r, k)
        PROVE  Goal
    BY <2>5 DEF badCodeRead, revokeTokenRead, reissueTokenRead, expireTokenRead
  <2>6. ASSUME NEW choice \in Choices, NEW w \in votes, correctVoteRead(r, w, choice)
        PROVE  Goal
    BY <2>6 DEF correctVoteRead
  <2>7. QED
    BY <2>1, <2>2, <2>3, <2>4, <2>5, <2>6 DEF Read
<1>3. PICK c : /\ Begin(c)
               /\ c.op = "submitVote" => ~HasVoted(VoterOf(c.token))
               /\ c.op = "manualVote" => ~HasVoted(c.voter)
  BY <1>2
<1>4. calls = {} /\ calls' = {c}
  <2>1. \A d \in calls \cup calls' : d.req \in Requests
    BY CallShape, ReadTypes DEF TypeOK
  <2>2. QED
    BY <1>3, <2>1 DEF Begin, Idle
<1>5. QED
  BY <1>1, <1>3, <1>4
  DEF SerialInv, Alone, GuardHolds, OneEffectiveVote, HasVoted, Effective

LEMMA SerialCommit ==
    ASSUME TypeOK, VoteTableInv, SerialInv, NEW c \in calls, Commit(c) \/ Abort(c)
    PROVE  SerialInv'
<1>1. calls = {c} /\ c \in Call
  BY DEF SerialInv, Alone, TypeOK
<1>2. CASE badCodeCount(c)
  <2>1. votes' = votes
    BY <1>2 DEF badCodeCount
  <2>2. \/ calls' = {}
        \/ calls' = {[req |-> c.req, op |-> "autoRevoke", token |-> c.token]}
    BY <1>1, <1>2 DEF badCodeCount
  <2>3. QED
    BY <2>1, <2>2
    DEF SerialInv, Alone, GuardHolds, OneEffectiveVote, Effective
<1>3. CASE ~badCodeCount(c)
  <2>1. calls' = {}
    BY <1>1, <1>3
    DEF Commit, Abort, updateDraftCommit, withdrawCommit, openVotingCommit, reviseCommit,
        closeVotingCommit, submitVoteCommit, autoRevoke, manualVoteCommit,
        correctVoteCommit, revokeTokenCommit, reissueTokenCommit, expireTokenCommit,
        WriteLink, Finish
  <2>2. Alone' /\ GuardHolds'
    BY <2>1 DEF Alone, GuardHolds
  <2>3. OneEffectiveVote'
    <3>1. CASE submitVoteCommit(c)
      <4>1. VoterOf(c.token) \in Voters
        BY <1>1, <3>1, CallShape, TokenParts DEF submitVoteCommit, SubmitCall
      <4>2. /\ InsertVote(VoterOf(c.token), c.choice, c.token[3], 0)
            /\ ~HasVoted(VoterOf(c.token))
        BY <3>1 DEF submitVoteCommit, SerialInv, GuardHolds
      <4>3. QED
        BY <4>1, <4>2, InsertKeepsOne DEF SerialInv
    <3>2. CASE manualVoteCommit(c)
      <4>1. c.voter \in Voters
        BY <1>1, <3>2, CallShape DEF manualVoteCommit, ManualCall
      <4>2. InsertVote(c.voter, c.choice, 0, 0) /\ ~HasVoted(c.voter)
        BY <3>2 DEF manualVoteCommit, SerialInv, GuardHolds
      <4>3. QED
        BY <4>1, <4>2, InsertKeepsOne DEF SerialInv
    <3>3. CASE correctVoteCommit(c)
      <4>1. c.vote \in votes /\ c.vote \in VoteRow
        BY <3>3 DEF correctVoteCommit, VoteTableInv, CallsNameRows, TypeOK
      <4>2. c.vote.voter \in Voters /\ c.vote.id \in Nat /\ c.vote.id # 0
        BY <4>1, VotingAssumption DEF VoteRow
      <4>3. InsertVote(c.vote.voter, c.choice, 0, c.vote.id)
        BY <3>3 DEF correctVoteCommit
      <4>4. QED
        BY <4>1, <4>2, <4>3, InsertKeepsOne DEF SerialInv
    <3>4. CASE ~submitVoteCommit(c) /\ ~manualVoteCommit(c) /\ ~correctVoteCommit(c)
      <4>1. votes' = votes
        BY <1>3, <3>4
        DEF Commit, Abort, updateDraftCommit, withdrawCommit, openVotingCommit,
            reviseCommit, closeVotingCommit, autoRevoke, revokeTokenCommit,
            reissueTokenCommit, expireTokenCommit, WriteLink
      <4>2. QED
        BY <4>1 DEF SerialInv, OneEffectiveVote, Effective
    <3>5. QED
      BY <3>1, <3>2, <3>3, <3>4
  <2>4. QED
    BY <2>2, <2>3 DEF SerialInv
<1>4. QED
  BY <1>2, <1>3

LEMMA SerialHolds ==
    ASSUME \A q, r \in Requests : q = r
    PROVE  Spec => []SerialInv
<1>1. Init => SerialInv
  BY DEF Init, SerialInv, OneEffectiveVote, Alone, GuardHolds
<1>2. TypeOK /\ VoteTableInv /\ SerialInv /\ [Next]_vars => SerialInv'
  <2> SUFFICES ASSUME TypeOK, VoteTableInv, SerialInv, [Next]_vars
               PROVE  SerialInv'
    OBVIOUS
  <2>1. ASSUME NEW r \in Requests, Read(r)
        PROVE  SerialInv'
    BY <2>1, SerialRead
  <2>2. ASSUME NEW c \in calls, Commit(c) \/ Abort(c)
        PROVE  SerialInv'
    BY <2>2, SerialCommit
  <2>3. CASE DeadlinePasses \/ UNCHANGED vars
    <3>1. UNCHANGED <<votes, calls>>
      BY <2>3 DEF DeadlinePasses, vars
    <3>2. QED
      BY <3>1 DEF SerialInv, OneEffectiveVote, Alone, GuardHolds, HasVoted, Effective
  <2>4. QED
    BY <2>1, <2>2, <2>3 DEF Next
<1>3. QED
  BY <1>1, <1>2, TypeCorrect, VoteTableCorrect, PTL DEF Spec

\* The double-vote guard of castElectronicVoteTx and recordManualVote suffices
\* when one call runs at a time, for any number of links, versions, voters and
\* corrections.  (Run voting_double_vote: it does not when two calls overlap.)
THEOREM SerialOneEffectiveVote ==
    ASSUME \A q, r \in Requests : q = r
    PROVE  Spec => []OneEffectiveVote
<1>1. SerialInv => OneEffectiveVote
  BY DEF SerialInv
<1>2. QED
  BY <1>1, SerialHolds, PTL

-----------------------------------------------------------------------------
(* Versions, links and results, when calls do not overlap.                 *)

\* What a call in flight has read and passed is still so.
StillHolds(c) ==
    /\ c.op \in {"updateDraft", "withdraw", "openVoting"} => status[c.proposal] = "DRAFT"
    /\ c.op = "openVoting" => c.text = text[c.proposal]
    /\ c.op = "revise" => status[c.proposal] \notin {"NONE", "SUPERSEDED"}
    /\ c.op = "closeVoting" =>
          status[c.proposal] = "VOTING_OPEN" /\ c.counted = effectiveVotes(c.proposal)
    /\ c.op = "submitVote" =>
          status[c.token[1]] = "VOTING_OPEN" /\ token[c.token] \in {"ACTIVE", "EXPIRED"}
    /\ c.op = "manualVote" => status[c.voter[1]] = "VOTING_OPEN"
    /\ c.op \in {"badCode", "autoRevoke", "revokeToken", "reissueToken", "expireToken"} =>
          token[c.token] \notin {"NONE", "USED"}

ReadsHold == \A c \in calls : StillHolds(c)

\* A draft has no voting base yet, and without a base there are no links.
DraftIsUnopened == \A p \in Versions : status[p] \in {"NONE", "DRAFT"} => ~Opened(p)
LinksNeedOpening == \A k \in Tokens : ~Opened(k[1]) => token[k] = "NONE"

ProposalInv ==
    /\ ReadsHold
    /\ DraftIsUnopened
    /\ LinksNeedOpening
    /\ VotedLinkIsUsed
    /\ TextIsFrozen
    /\ OneLiveVersion

LEMMA ReadHolds ==
    ASSUME TypeOK, NEW r \in Requests, Read(r)
    PROVE  \A d \in calls' : d \in calls \/ StillHolds(d)
<1> DEFINE Goal == \A d \in calls' : d \in calls \/ StillHolds(d)
<1>1. ASSUME NEW p \in Versions, NEW t \in Texts,
             updateDraftRead(r, p, t) \/ reviseRead(r, p, t)
      PROVE  Goal
  BY <1>1 DEF updateDraftRead, reviseRead, Begin, StillHolds
<1>2. ASSUME NEW p \in Versions,
             withdrawRead(r, p) \/ openVotingRead(r, p) \/ closeVotingRead(r, p)
      PROVE  Goal
  BY <1>2 DEF withdrawRead, openVotingRead, closeVotingRead, Begin, StillHolds
<1>3. ASSUME NEW k \in Tokens, NEW choice \in Choices, submitVoteRead(r, k, choice)
      PROVE  Goal
  <2>1. token[k] \in {"ACTIVE", "EXPIRED"}
    BY <1>3 DEF submitVoteRead, LinkUsable, TypeOK, TokenStatus
  <2>2. QED
    BY <1>3, <2>1 DEF submitVoteRead, LinkUsable, Begin, StillHolds
<1>4. ASSUME NEW k \in Tokens,
             \/ badCodeRead(r, k) \/ revokeTokenRead(r, k)
             \/ reissueTokenRead(r, k) \/ expireTokenRead(r, k)
      PROVE  Goal
  BY <1>4 DEF badCodeRead, revokeTokenRead, reissueTokenRead, expireTokenRead,
              LinkUsable, LinkOpenToAdmin, Begin, StillHolds
<1>5. ASSUME NEW choice \in Choices, NEW ev \in Voters, manualVoteRead(r, ev, choice)
      PROVE  Goal
  BY <1>5 DEF manualVoteRead, Begin, StillHolds
<1>6. ASSUME NEW choice \in Choices, NEW w \in votes, correctVoteRead(r, w, choice)
      PROVE  Goal
  BY <1>6 DEF correctVoteRead, Begin, StillHolds
<1>7. QED
  BY <1>1, <1>2, <1>3, <1>4, <1>5, <1>6 DEF Read

\* Of the calls in flight only a wrong code goes on to another statement.
LEMMA ReadsHoldAfter ==
    ASSUME SerialInv, ReadsHold, NEW c \in calls, Commit(c) \/ Abort(c)
    PROVE  ReadsHold'
<1>1. calls = {c}
  BY DEF SerialInv, Alone
<1>2. CASE badCodeCount(c)
  <2>1. token' = token /\ StillHolds(c)
    BY <1>2 DEF badCodeCount, ReadsHold
  <2>2. token[c.token] \notin {"NONE", "USED"}
    BY <1>2, <2>1 DEF badCodeCount, StillHolds
  <2>3. \/ calls' = {}
        \/ calls' = {[req |-> c.req, op |-> "autoRevoke", token |-> c.token]}
    BY <1>1, <1>2 DEF badCodeCount
  <2>4. QED
    BY <2>1, <2>2, <2>3 DEF ReadsHold, StillHolds
<1>3. CASE ~badCodeCount(c)
  <2>1. calls' = {}
    BY <1>1, <1>3
    DEF Commit, Abort, updateDraftCommit, withdrawCommit, openVotingCommit, reviseCommit,
        closeVotingCommit, submitVoteCommit, autoRevoke, manualVoteCommit,
        correctVoteCommit, revokeTokenCommit, reissueTokenCommit, expireTokenCommit,
        WriteLink, Finish
  <2>2. QED
    BY <2>1 DEF ReadsHold
<1>4. QED
  BY <1>2, <1>3

\* What vote.create writes.
LEMMA InsertRow ==
    ASSUME NEW ev, NEW choice, NEW n, NEW x, InsertVote(ev, choice, n, x)
    PROVE  \E new : /\ votes' = votes \cup {new}
                    /\ new.voter = ev /\ new.choice = choice
                    /\ new.token = n /\ new.corrects = x
<1>1. PICK i : votes' = votes \cup {[voter |-> ev, id |-> i, choice |-> choice,
                                     token |-> n, corrects |-> x]}
  BY DEF InsertVote
<1> DEFINE new == [voter |-> ev, id |-> i, choice |-> choice,
                   token |-> n, corrects |-> x]
<1>2. /\ votes' = votes \cup {new}
      /\ new.voter = ev /\ new.choice = choice
      /\ new.token = n /\ new.corrects = x
  BY <1>1
<1> HIDE DEF new
<1>3. QED
  BY <1>2

\* The link of an electronic vote.
LEMMA LinkOfVote ==
    ASSUME TypeOK, NEW w \in votes, w.token # 0
    PROVE  /\ w.voter[1] \in Versions /\ w.voter[2] \in Subjects
           /\ <<w.voter[1], w.voter[2], w.token>> \in Tokens
<1>1. w \in VoteRow
  BY DEF TypeOK
<1>2. w.voter \in Versions \X Subjects /\ w.token \in 1 .. MaxIssues
  BY <1>1, VotingAssumption DEF VoteRow, Voters
<1>3. QED
  BY <1>2 DEF Tokens

LEMMA CommitKeepsProposals ==
    ASSUME TypeOK, SerialInv, ProposalInv, NEW c \in calls, Commit(c) \/ Abort(c)
    PROVE  ProposalInv'
<1>0. c \in Call /\ StillHolds(c) /\ ReadsHold'
  BY ReadsHoldAfter DEF TypeOK, ProposalInv, ReadsHold
<1> DEFINE Goal == /\ DraftIsUnopened' /\ LinksNeedOpening' /\ VotedLinkIsUsed'
                   /\ TextIsFrozen' /\ OneLiveVersion'
<1>1. CASE Abort(c) \/ badCodeCount(c)
  <2>1. UNCHANGED <<proposalVars, token, votes>>
    BY <1>1 DEF Abort, badCodeCount, tokenVars
  <2>2. QED
    BY <1>0, <2>1 DEF ProposalInv, proposalVars, DraftIsUnopened, LinksNeedOpening,
                      VotedLinkIsUsed, TextIsFrozen, OneLiveVersion, Opened
<1>2. CASE updateDraftCommit(c)
  <2>1. /\ c.proposal \in Versions /\ ~Opened(c.proposal)
        /\ text' = [text EXCEPT ![c.proposal] = c.text]
        /\ UNCHANGED <<status, frozen, token, votes>>
    BY <1>0, <1>2, CallShape
    DEF updateDraftCommit, TextCall, StillHolds, ProposalInv, DraftIsUnopened, tokenVars
  <2>2. TextIsFrozen'
    BY <2>1 DEF ProposalInv, TextIsFrozen, Opened, TypeOK
  <2>3. QED
    BY <1>0, <2>1, <2>2 DEF ProposalInv, DraftIsUnopened, LinksNeedOpening,
                            VotedLinkIsUsed, OneLiveVersion, Opened
<1>3. CASE withdrawCommit(c)
  <2>1. /\ c.proposal \in Versions /\ status[c.proposal] = "DRAFT"
        /\ status' = [status EXCEPT ![c.proposal] = "WITHDRAWN"]
        /\ UNCHANGED <<text, frozen, token, votes>>
    BY <1>0, <1>3, CallShape
    DEF withdrawCommit, WithdrawCall, StillHolds, tokenVars
  <2>2. OneLiveVersion' /\ DraftIsUnopened'
    BY <2>1 DEF ProposalInv, OneLiveVersion, DraftIsUnopened, Opened, TypeOK
  <2>3. QED
    BY <1>0, <2>1, <2>2 DEF ProposalInv, LinksNeedOpening,
                            VotedLinkIsUsed, TextIsFrozen, Opened
<1>4. CASE openVotingCommit(c)
  <2>1. /\ c.proposal \in Versions /\ status[c.proposal] = "DRAFT"
        /\ c.text = text[c.proposal] /\ c.text \in Texts /\ c.text # NoText
        /\ ~Opened(c.proposal)
        /\ status' = [status EXCEPT ![c.proposal] = "VOTING_OPEN"]
        /\ frozen' = [frozen EXCEPT ![c.proposal] = c.text]
        /\ token' = [k \in Tokens |-> IF k[1] = c.proposal /\ k[3] = 1
                                      THEN "ACTIVE" ELSE token[k]]
        /\ UNCHANGED <<text, votes>>
    BY <1>0, <1>4, CallShape, VotingAssumption
    DEF openVotingCommit, TextCall, StillHolds, BaseIsNew
  <2>2. OneLiveVersion' /\ DraftIsUnopened' /\ TextIsFrozen'
    BY <2>1 DEF ProposalInv, OneLiveVersion, DraftIsUnopened, TextIsFrozen, Opened, TypeOK
  <2>3. LinksNeedOpening'
    BY <2>1 DEF ProposalInv, LinksNeedOpening, Opened, TypeOK
  <2>4. VotedLinkIsUsed'
    <3> SUFFICES ASSUME NEW w \in votes, w.token # 0
                 PROVE  token'[<<w.voter[1], w.voter[2], w.token>>] = "USED"
      BY <2>1 DEF VotedLinkIsUsed
    <3> DEFINE k == <<w.voter[1], w.voter[2], w.token>>
    <3>1. k \in Tokens /\ token[k] = "USED" /\ k[1] = w.voter[1]
      BY LinkOfVote DEF ProposalInv, VotedLinkIsUsed
    <3>2. k[1] # c.proposal
      BY <2>1, <3>1 DEF ProposalInv, LinksNeedOpening
    <3> HIDE DEF k
    <3>3. token'[k] = "USED"
      BY <2>1, <3>1, <3>2
    <3>4. QED
      BY <3>3 DEF k
  <2>5. QED
    BY <1>0, <2>2, <2>3, <2>4 DEF ProposalInv
<1>5. CASE reviseCommit(c)
  <2> DEFINE p == c.proposal
  <2>1. /\ p \in Versions /\ p + 1 \in Versions
        /\ status[p] \notin {"NONE", "SUPERSEDED"} /\ status[p + 1] = "NONE"
        /\ status' = [status EXCEPT ![p] = "SUPERSEDED", ![p + 1] = "DRAFT"]
        /\ text' = [text EXCEPT ![p + 1] = c.text]
        /\ UNCHANGED <<frozen, votes>>
    BY <1>0, <1>5, CallShape DEF reviseCommit, ReviseCall, StillHolds
  <2>2. \A k \in Tokens : \/ token'[k] = token[k]
                          \/ token[k] = "ACTIVE" /\ token'[k] = "SUPERSEDED"
    BY <1>5 DEF reviseCommit
  <2> HIDE DEF p
  <2>3. ~Opened(p + 1)
    BY <2>1 DEF ProposalInv, DraftIsUnopened
  <2>4. DraftIsUnopened' /\ TextIsFrozen'
    BY <2>1, <2>3 DEF ProposalInv, DraftIsUnopened, TextIsFrozen, Opened, TypeOK
  <2>5. OneLiveVersion'
    <3> SUFFICES ASSUME NEW a \in Versions, NEW b \in Versions, a < b,
                        status'[b] # "NONE"
                 PROVE  status'[a] = "SUPERSEDED"
      BY DEF OneLiveVersion
    <3>0. \A q \in Versions : status'[q] = IF q = p + 1 THEN "DRAFT"
                                         ELSE IF q = p THEN "SUPERSEDED" ELSE status[q]
      BY <2>1 DEF TypeOK
    <3>1. a \in Nat /\ b \in Nat /\ p \in Nat
      BY <2>1, VotingAssumption DEF Versions
    <3>2. CASE a = p
      BY <2>1, <3>0, <3>1, <3>2
    <3>3. CASE a = p + 1
      <4>1. b # p /\ b # p + 1
        BY <3>1, <3>3
      <4>2. status[b] # "NONE"
        BY <3>0, <3>1, <4>1
      <4>3. QED
        BY <2>1, <3>3, <4>2 DEF ProposalInv, OneLiveVersion
    <3>4. CASE a # p /\ a # p + 1
      <4>1. status'[a] = status[a]
        BY <3>0, <3>1, <3>4
      <4>2. CASE b # p + 1
        <5>1. status[p] # "NONE"
          BY <2>1
        <5>2. status[b] # "NONE"
          BY <3>0, <4>2, <5>1
        <5>3. QED
          BY <4>1, <5>2 DEF ProposalInv, OneLiveVersion
      <4>3. CASE b = p + 1
        <5>1. a < p
          BY <3>1, <3>4, <4>3
        <5>2. QED
          BY <2>1, <4>1, <5>1 DEF ProposalInv, OneLiveVersion
      <4>4. QED
        BY <4>2, <4>3
    <3>5. QED
      BY <3>2, <3>3, <3>4
  <2>6. LinksNeedOpening'
    BY <2>1, <2>2 DEF ProposalInv, LinksNeedOpening, Opened
  <2>7. VotedLinkIsUsed'
    BY <2>1, <2>2, LinkOfVote DEF ProposalInv, VotedLinkIsUsed
  <2>8. QED
    BY <1>0, <2>4, <2>5, <2>6, <2>7 DEF ProposalInv
<1>6. CASE closeVotingCommit(c)
  <2>1. /\ c.proposal \in Versions /\ status[c.proposal] = "VOTING_OPEN"
        /\ UNCHANGED <<text, frozen, votes>>
    BY <1>0, <1>6, CallShape DEF closeVotingCommit, CloseCall, StillHolds
  <2>2. PICK new \in {"ACCEPTED", "REJECTED"} :
            status' = [status EXCEPT ![c.proposal] = new]
    BY <1>6 DEF closeVotingCommit
  <2>3. \A k \in Tokens : \/ token'[k] = token[k]
                          \/ token[k] = "ACTIVE" /\ token'[k] = "EXPIRED"
    BY <1>6 DEF closeVotingCommit
  <2>4. OneLiveVersion' /\ DraftIsUnopened'
    BY <2>1, <2>2 DEF ProposalInv, OneLiveVersion, DraftIsUnopened, Opened, TypeOK
  <2>5. LinksNeedOpening' /\ TextIsFrozen'
    BY <2>1, <2>3 DEF ProposalInv, LinksNeedOpening, TextIsFrozen, Opened
  <2>6. VotedLinkIsUsed'
    BY <2>1, <2>3, LinkOfVote DEF ProposalInv, VotedLinkIsUsed
  <2>7. QED
    BY <1>0, <2>4, <2>5, <2>6 DEF ProposalInv
<1>7. CASE submitVoteCommit(c)
  <2>1. c.token \in Tokens /\ token[c.token] \in {"ACTIVE", "EXPIRED"}
    BY <1>0, <1>7, CallShape DEF submitVoteCommit, SubmitCall, StillHolds
  <2>2. PICK new : /\ votes' = votes \cup {new}
                   /\ new.voter = VoterOf(c.token) /\ new.token = c.token[3]
    BY <1>7, InsertRow DEF submitVoteCommit
  <2>3. token' = [token EXCEPT ![c.token] = "USED"] /\ UNCHANGED <<status, text, frozen>>
    BY <1>7 DEF submitVoteCommit, proposalVars
  <2>4. DraftIsUnopened' /\ TextIsFrozen' /\ OneLiveVersion'
    BY <2>3 DEF ProposalInv, DraftIsUnopened, TextIsFrozen, OneLiveVersion, Opened
  <2>5. LinksNeedOpening'
    BY <2>1, <2>3 DEF ProposalInv, LinksNeedOpening, Opened, TypeOK
  <2>6. VotedLinkIsUsed'
    <3> SUFFICES ASSUME NEW w \in votes', w.token # 0
                 PROVE  token'[<<w.voter[1], w.voter[2], w.token>>] = "USED"
      BY DEF VotedLinkIsUsed
    <3>1. CASE w \in votes
      BY <2>1, <2>3, <3>1, LinkOfVote DEF ProposalInv, VotedLinkIsUsed, TypeOK
    <3>2. CASE w = new
      <4>1. <<w.voter[1], w.voter[2], w.token>> = c.token
        BY <2>1, <2>2, <3>2, TokenParts DEF VoterOf
      <4>2. QED
        BY <2>1, <2>3, <4>1 DEF TypeOK
    <3>3. QED
      BY <2>2, <3>1, <3>2
  <2>7. QED
    BY <1>0, <2>4, <2>5, <2>6 DEF ProposalInv
<1>8. CASE manualVoteCommit(c) \/ correctVoteCommit(c)
  <2>1. PICK new : votes' = votes \cup {new} /\ new.token = 0
    BY <1>8, InsertRow DEF manualVoteCommit, correctVoteCommit
  <2>2. UNCHANGED <<status, text, frozen, token>>
    BY <1>8 DEF manualVoteCommit, correctVoteCommit, proposalVars, tokenVars
  <2>3. QED
    BY <1>0, <2>1, <2>2 DEF ProposalInv, DraftIsUnopened, LinksNeedOpening,
                            VotedLinkIsUsed, TextIsFrozen, OneLiveVersion, Opened
<1>9. CASE autoRevoke(c) \/ revokeTokenCommit(c) \/ expireTokenCommit(c)
  <2>1. c.token \in Tokens /\ token[c.token] \notin {"NONE", "USED"}
    BY <1>0, <1>9, CallShape
    DEF autoRevoke, revokeTokenCommit, expireTokenCommit, LinkCall, StillHolds
  <2>2. /\ \E new : token' = [token EXCEPT ![c.token] = new]
        /\ UNCHANGED <<status, text, frozen, votes>>
    BY <1>9 DEF autoRevoke, revokeTokenCommit, expireTokenCommit, WriteLink, proposalVars
  <2>3. LinksNeedOpening'
    BY <2>1, <2>2 DEF ProposalInv, LinksNeedOpening, Opened, TypeOK
  <2>4. VotedLinkIsUsed'
    BY <2>1, <2>2, LinkOfVote DEF ProposalInv, VotedLinkIsUsed, TypeOK
  <2>5. QED
    BY <1>0, <2>2, <2>3, <2>4 DEF ProposalInv, DraftIsUnopened, TextIsFrozen,
                                  OneLiveVersion, Opened
<1>10. CASE reissueTokenCommit(c)
  <2>1. c.token \in Tokens /\ token[c.token] \notin {"NONE", "USED"}
    BY <1>0, <1>10, CallShape DEF reissueTokenCommit, LinkCall, StillHolds
  <2>2. PICK n \in 2 .. MaxIssues :
          /\ token[<<c.token[1], c.token[2], n>>] = "NONE"
          /\ token' = [token EXCEPT ![c.token] = "SUPERSEDED",
                                    ![<<c.token[1], c.token[2], n>>] = "ACTIVE"]
    BY <1>10 DEF reissueTokenCommit
  <2> DEFINE fresh == <<c.token[1], c.token[2], n>>
  <2>3. fresh \in Tokens /\ fresh[1] = c.token[1]
    BY <2>1, TokenParts, VotingAssumption DEF Tokens
  <2>4. UNCHANGED <<status, text, frozen, votes>>
    BY <1>10 DEF reissueTokenCommit, proposalVars
  <2>5. Opened(c.token[1])
    BY <2>1 DEF ProposalInv, LinksNeedOpening
  <2> HIDE DEF fresh
  <2>6. \A k \in Tokens : k # c.token /\ k # fresh => token'[k] = token[k]
    BY <2>2 DEF fresh, TypeOK
  <2>7. LinksNeedOpening'
    BY <2>3, <2>4, <2>5, <2>6 DEF ProposalInv, LinksNeedOpening, Opened
  <2>8. VotedLinkIsUsed'
    <3>1. token[fresh] = "NONE"
      BY <2>2 DEF fresh
    <3>2. QED
      BY <2>1, <2>4, <2>6, <3>1, LinkOfVote DEF ProposalInv, VotedLinkIsUsed
  <2>9. QED
    BY <1>0, <2>4, <2>7, <2>8 DEF ProposalInv, DraftIsUnopened, TextIsFrozen,
                                  OneLiveVersion, Opened
<1>11. QED
  BY <1>1, <1>2, <1>3, <1>4, <1>5, <1>6, <1>7, <1>8, <1>9, <1>10 DEF Commit

LEMMA SerialProposals ==
    ASSUME \A q, r \in Requests : q = r
    PROVE  Spec => [](SerialInv /\ ProposalInv)
<1>1. Init => ProposalInv
  BY DEF Init, ProposalInv, ReadsHold, DraftIsUnopened, LinksNeedOpening, VotedLinkIsUsed,
         TextIsFrozen, OneLiveVersion, Opened, Versions
<1>2. TypeOK /\ SerialInv /\ ProposalInv /\ [Next]_vars => ProposalInv'
  <2> SUFFICES ASSUME TypeOK, SerialInv, ProposalInv, [Next]_vars
               PROVE  ProposalInv'
    OBVIOUS
  <2>1. ASSUME UNCHANGED <<proposalVars, tokenVars, votes>>,
               \A d \in calls' : d \in calls \/ StillHolds(d)
        PROVE  ProposalInv'
    <3>1. \A d \in calls' : StillHolds(d)
      BY <2>1 DEF ProposalInv, ReadsHold
    <3>2. ReadsHold'
      BY <2>1, <3>1 DEF ReadsHold, StillHolds, effectiveVotes, Effective,
                        proposalVars, tokenVars
    <3>3. QED
      BY <2>1, <3>2 DEF ProposalInv, proposalVars, tokenVars, DraftIsUnopened,
             LinksNeedOpening, VotedLinkIsUsed, TextIsFrozen, OneLiveVersion, Opened
  <2>2. ASSUME NEW r \in Requests, Read(r)
        PROVE  ProposalInv'
    BY <2>1, <2>2, ReadTypes, ReadHolds
  <2>3. ASSUME NEW c \in calls, Commit(c) \/ Abort(c)
        PROVE  ProposalInv'
    BY <2>3, CommitKeepsProposals
  <2>4. CASE DeadlinePasses \/ UNCHANGED vars
    BY <2>1, <2>4 DEF DeadlinePasses, vars
  <2>5. QED
    BY <2>2, <2>3, <2>4 DEF Next
<1>3. QED
  BY <1>1, <1>2, TypeCorrect, SerialHolds, PTL DEF Spec

\* With one call at a time the link of a recorded electronic vote stays USED:
\* revoke, reissue, expiry and wrong codes find it spent and leave it so.
THEOREM SerialVotedLinkIsUsed ==
    ASSUME \A q, r \in Requests : q = r
    PROVE  Spec => []VotedLinkIsUsed
<1>1. ProposalInv => VotedLinkIsUsed
  BY DEF ProposalInv
<1>2. QED
  BY <1>1, SerialProposals, PTL

\* With one call at a time the text of a version is, from the moment voting
\* opens on it, the text whose hash was frozen.
THEOREM SerialTextIsFrozen ==
    ASSUME \A q, r \in Requests : q = r
    PROVE  Spec => []TextIsFrozen
<1>1. ProposalInv => TextIsFrozen
  BY DEF ProposalInv
<1>2. QED
  BY <1>1, SerialProposals, PTL

\* With one call at a time every version but the last is SUPERSEDED, whatever
\* is opened, withdrawn, closed or revised.
THEOREM SerialOneLiveVersion ==
    ASSUME \A q, r \in Requests : q = r
    PROVE  Spec => []OneLiveVersion
<1>1. ProposalInv => OneLiveVersion
  BY DEF ProposalInv
<1>2. QED
  BY <1>1, SerialProposals, PTL

\* The three commits that write a vote, with the row they write.
LEMMA NewVote ==
    ASSUME TypeOK, SerialInv, ProposalInv, [Next]_vars, NEW w \in votes' \ votes
    PROVE  \E c \in calls :
             /\ c \in Call /\ StillHolds(c)
             /\ \/ /\ submitVoteCommit(c)
                   /\ w.voter = VoterOf(c.token) /\ w.token = c.token[3] /\ w.corrects = 0
                \/ /\ manualVoteCommit(c)
                   /\ w.voter = c.voter /\ w.token = 0 /\ w.corrects = 0
                \/ /\ correctVoteCommit(c)
                   /\ w.token = 0 /\ w.corrects \in 1 .. MaxVotes
<1>1. ASSUME NEW r \in Requests, Read(r)
      PROVE  FALSE
  BY <1>1, ReadTypes
<1>2. CASE DeadlinePasses \/ UNCHANGED vars
  BY <1>2 DEF DeadlinePasses, vars
<1>3. ASSUME NEW c \in calls, Commit(c) \/ Abort(c)
      PROVE  /\ c \in Call /\ StillHolds(c)
             /\ \/ /\ submitVoteCommit(c)
                   /\ w.voter = VoterOf(c.token) /\ w.token = c.token[3] /\ w.corrects = 0
                \/ /\ manualVoteCommit(c)
                   /\ w.voter = c.voter /\ w.token = 0 /\ w.corrects = 0
                \/ /\ correctVoteCommit(c)
                   /\ w.token = 0 /\ w.corrects \in 1 .. MaxVotes
  <2>1. c \in Call /\ StillHolds(c)
    BY DEF TypeOK, ProposalInv, ReadsHold
  <2>2. CASE submitVoteCommit(c)
    BY <2>1, <2>2, InsertRow DEF submitVoteCommit
  <2>3. CASE manualVoteCommit(c)
    BY <2>1, <2>3, InsertRow DEF manualVoteCommit
  <2>4. CASE correctVoteCommit(c)
    <3>1. c.vote.id \in 1 .. MaxVotes
      BY <2>1, <2>4, CallShape DEF correctVoteCommit, CorrectCall, VoteRow
    <3>2. QED
      BY <2>1, <2>4, <3>1, InsertRow DEF correctVoteCommit
  <2>5. CASE ~submitVoteCommit(c) /\ ~manualVoteCommit(c) /\ ~correctVoteCommit(c)
    BY <1>3, <2>5
    DEF Commit, Abort, updateDraftCommit, withdrawCommit, openVotingCommit,
        reviseCommit, closeVotingCommit, autoRevoke, revokeTokenCommit, badCodeCount,
        reissueTokenCommit, expireTokenCommit, WriteLink
  <2>6. QED
    BY <2>2, <2>3, <2>4, <2>5
<1>4. QED
  BY <1>1, <1>2, <1>3 DEF Next

\* With one call at a time no vote, by link or by hand, is recorded for a version
\* that is not open for voting.
THEOREM SerialNoVoteAfterClose ==
    ASSUME \A q, r \in Requests : q = r
    PROVE  Spec => NoVoteAfterClose
<1> DEFINE P == \A w \in votes' \ votes :
                   w.corrects = 0 => status[w.voter[1]] = "VOTING_OPEN"
<1>1. TypeOK /\ SerialInv /\ ProposalInv /\ [Next]_vars => [P]_vars
  <2> SUFFICES ASSUME TypeOK, SerialInv, ProposalInv, [Next]_vars,
                      NEW w \in votes' \ votes, w.corrects = 0
               PROVE  status[w.voter[1]] = "VOTING_OPEN"
    OBVIOUS
  <2>1. PICK c \in calls :
           /\ c \in Call /\ StillHolds(c)
           /\ \/ submitVoteCommit(c) /\ w.voter = VoterOf(c.token)
              \/ manualVoteCommit(c) /\ w.voter = c.voter
    BY NewVote
  <2>2. QED
    BY <2>1 DEF StillHolds, submitVoteCommit, manualVoteCommit, VoterOf
<1>2. QED
  BY <1>1, TypeCorrect, SerialProposals, PTL DEF Spec, NoVoteAfterClose

\* With one call at a time a link that was revoked or replaced records nothing.
THEOREM SerialDeadLinkRecordsNothing ==
    ASSUME \A q, r \in Requests : q = r
    PROVE  Spec => DeadLinkRecordsNothing
<1> DEFINE P == \A k \in Tokens : token[k] \in {"REVOKED", "SUPERSEDED"} =>
                   \A w \in votes' \ votes : ~(w.voter = VoterOf(k) /\ w.token = k[3])
<1>1. TypeOK /\ SerialInv /\ ProposalInv /\ [Next]_vars => [P]_vars
  <2> SUFFICES ASSUME TypeOK, SerialInv, ProposalInv, [Next]_vars,
                      NEW k \in Tokens, token[k] \in {"REVOKED", "SUPERSEDED"},
                      NEW w \in votes' \ votes, w.voter = VoterOf(k), w.token = k[3]
               PROVE  FALSE
    OBVIOUS
  <2>1. k[3] # 0
    BY TokenParts
  <2>2. PICK c \in calls :
           /\ c \in Call /\ StillHolds(c) /\ submitVoteCommit(c)
           /\ w.voter = VoterOf(c.token) /\ w.token = c.token[3]
    BY <2>1, NewVote
  <2>3. c.token \in Tokens /\ token[c.token] \in {"ACTIVE", "EXPIRED"}
    BY <2>2, CallShape DEF submitVoteCommit, StillHolds, SubmitCall
  <2>4. c.token = k
    <3>1. c.token[1] = k[1] /\ c.token[2] = k[2] /\ c.token[3] = k[3]
      BY <2>2 DEF VoterOf
    <3>2. QED
      BY <2>3, <3>1, TokenParts
  <2>5. QED
    BY <2>3, <2>4
<1>2. QED
  BY <1>1, TypeCorrect, SerialProposals, PTL DEF Spec, DeadLinkRecordsNothing

\* The two commits that may change a status to or from a decision.
LEMMA DecidingStep ==
    ASSUME TypeOK, SerialInv, ProposalInv, [Next]_vars, NEW p \in Versions
    PROVE  \/ status'[p] = status[p] /\ summary'[p] = summary[p]
           \/ status[p] \in {"NONE", "DRAFT"} /\ summary'[p] = summary[p]
              /\ status'[p] \in {"DRAFT", "WITHDRAWN", "VOTING_OPEN", "SUPERSEDED"}
           \/ status'[p] = "SUPERSEDED" /\ summary'[p] = summary[p]
           \/ status[p] = "VOTING_OPEN" /\ summary'[p] = effectiveVotes(p)
<1> DEFINE Goal == 
           \/ status'[p] = status[p] /\ summary'[p] = summary[p]
           \/ status[p] \in {"NONE", "DRAFT"} /\ summary'[p] = summary[p]
              /\ status'[p] \in {"DRAFT", "WITHDRAWN", "VOTING_OPEN", "SUPERSEDED"}
           \/ status'[p] = "SUPERSEDED" /\ summary'[p] = summary[p]
           \/ status[p] = "VOTING_OPEN" /\ summary'[p] = effectiveVotes(p)
<1>1. ASSUME NEW r \in Requests, Read(r)
      PROVE  Goal
  BY <1>1, ReadTypes DEF proposalVars
<1>2. CASE DeadlinePasses \/ UNCHANGED vars
  BY <1>2 DEF DeadlinePasses, vars, proposalVars
<1>3. ASSUME NEW c \in calls, Commit(c) \/ Abort(c)
      PROVE  Goal
  <2>1. c \in Call /\ StillHolds(c)
    BY DEF TypeOK, ProposalInv, ReadsHold
  <2>2. CASE closeVotingCommit(c)
    <3>1. /\ c.proposal \in Versions /\ status[c.proposal] = "VOTING_OPEN"
          /\ c.counted = effectiveVotes(c.proposal)
      BY <2>1, <2>2, CallShape DEF closeVotingCommit, CloseCall, StillHolds
    <3>2. QED
      BY <2>2, <3>1 DEF closeVotingCommit, TypeOK
  <2>3. CASE reviseCommit(c)
    <3>1. c.proposal \in Versions
      BY <2>1, <2>3, CallShape DEF reviseCommit, ReviseCall
    <3>2. QED
      BY <2>3, <3>1 DEF reviseCommit, TypeOK
  <2>4. CASE openVotingCommit(c)
    <3>1. c.proposal \in Versions /\ status[c.proposal] = "DRAFT"
      BY <2>1, <2>4, CallShape DEF openVotingCommit, TextCall, StillHolds
    <3>2. QED
      BY <2>4, <3>1 DEF openVotingCommit, TypeOK
  <2>5. CASE withdrawCommit(c)
    <3>1. c.proposal \in Versions /\ status[c.proposal] = "DRAFT"
      BY <2>1, <2>5, CallShape DEF withdrawCommit, WithdrawCall, StillHolds
    <3>2. QED
      BY <2>5, <3>1 DEF withdrawCommit, TypeOK
  <2>6. CASE /\ ~closeVotingCommit(c) /\ ~reviseCommit(c)
             /\ ~openVotingCommit(c) /\ ~withdrawCommit(c)
    BY <1>3, <2>6
    DEF Commit, Abort, updateDraftCommit, submitVoteCommit, manualVoteCommit,
        correctVoteCommit, autoRevoke, revokeTokenCommit, badCodeCount,
        reissueTokenCommit, expireTokenCommit, WriteLink, proposalVars
  <2>7. QED
    BY <2>2, <2>3, <2>4, <2>5, <2>6
<1>4. QED
  BY <1>1, <1>2, <1>3 DEF Next

\* With one call at a time the recorded result counts exactly the votes that
\* count when voting closes: none enters between the count and the closing.
THEOREM SerialResultIsComplete ==
    ASSUME \A q, r \in Requests : q = r
    PROVE  Spec => ResultIsComplete
<1> DEFINE P == \A p \in Versions :
                   status[p] = "VOTING_OPEN" /\ status'[p] \in {"ACCEPTED", "REJECTED"}
                      => summary'[p] = effectiveVotes(p)
<1>1. TypeOK /\ SerialInv /\ ProposalInv /\ [Next]_vars => [P]_vars
  BY DecidingStep
<1>2. QED
  BY <1>1, TypeCorrect, SerialProposals, PTL DEF Spec, ResultIsComplete

\* With one call at a time a decided proposal keeps its decision and the result
\* recorded with it until a revision supersedes it.
THEOREM SerialDecisionIsFinal ==
    ASSUME \A q, r \in Requests : q = r
    PROVE  Spec => DecisionIsFinal
<1> DEFINE P == \A p \in Versions :
                   status[p] \in {"ACCEPTED", "REJECTED"} =>
                      /\ status'[p] \in {status[p], "SUPERSEDED"}
                      /\ summary'[p] = summary[p]
<1>1. TypeOK /\ SerialInv /\ ProposalInv /\ [Next]_vars => [P]_vars
  BY DecidingStep
<1>2. QED
  BY <1>1, TypeCorrect, SerialProposals, PTL DEF Spec, DecisionIsFinal

-----------------------------------------------------------------------------
(* Corrections keep the count, under every interleaving of calls.          *)

Counted(ev) == {w \in {v \in votes : v.voter = ev} : Effective(w)}
Entered(ev) == {w \in {v \in votes : v.voter = ev} : w.corrects = 0}

\* The counts in CorrectionsKeepCount are of finite sets.
CountInv ==
    /\ IsFiniteSet(votes)
    /\ \A ev \in Voters : Cardinality(Counted(ev)) = Cardinality(Entered(ev))

\* A new vote adds one to both sets; a correction takes the place of the one row
\* it corrects.
LEMMA InsertKeepsCount ==
    ASSUME TypeOK, VoteTableInv, CountInv,
           NEW ev \in Voters, NEW choice, NEW n, NEW x \in Nat,
           InsertVote(ev, choice, n, x),
           x # 0 => \E w \in votes : w.voter = ev /\ w.id = x
    PROVE  CountInv'
<1>1. PICK i \in 1 .. MaxVotes :
        /\ \A w \in votes : w.voter = ev => w.id # i
        /\ x # 0 => ~\E w \in votes : w.voter = ev /\ w.corrects = x
        /\ votes' = votes \cup {[voter |-> ev, id |-> i, choice |-> choice,
                                 token |-> n, corrects |-> x]}
  BY DEF InsertVote, UniqueKeys
<1> DEFINE new == [voter |-> ev, id |-> i, choice |-> choice,
                   token |-> n, corrects |-> x]
<1>2. /\ new.voter = ev /\ new.id = i /\ new.corrects = x
      /\ votes' = votes \cup {new} /\ new \notin votes
  BY <1>1
<1> HIDE DEF new
<1>3. IsFiniteSet(votes')
  BY <1>2, FS_AddElement DEF CountInv
<1>4. ASSUME NEW e \in Voters, e # ev
      PROVE  Cardinality(Counted(e)') = Cardinality(Entered(e)')
  <2>1. Counted(e)' = Counted(e) /\ Entered(e)' = Entered(e)
    BY <1>2, <1>4 DEF Counted, Entered, Effective
  <2>2. QED
    BY <2>1 DEF CountInv
<1>5. \A w \in votes : w.corrects # 0 => w.corrects # i \/ w.voter # ev
  BY <1>1 DEF VoteTableInv, CorrectionChain
<1>6. x # i
  BY <1>1
<1>7. Effective(new)'
  BY <1>1, <1>2, <1>5, <1>6 DEF Effective
<1>8. IsFiniteSet(Counted(ev)) /\ IsFiniteSet(Entered(ev))
  BY FS_Subset DEF CountInv, Counted, Entered
<1>9. new \notin Counted(ev) /\ new \notin Entered(ev)
  BY <1>2 DEF Counted, Entered
<1>10. Cardinality(Counted(ev)') = Cardinality(Entered(ev)')
  <2>1. CASE x = 0
    <3>1. \A w \in votes : w.id # 0
      BY VotingAssumption DEF TypeOK, VoteRow
    <3>2. \A w \in votes : Effective(w)' <=> Effective(w)
      BY <1>2, <2>1, <3>1 DEF Effective
    <3>3. Counted(ev)' = Counted(ev) \cup {new} /\ Entered(ev)' = Entered(ev) \cup {new}
      BY <1>2, <1>7, <2>1, <3>2 DEF Counted, Entered
    <3>4. /\ Cardinality(Counted(ev) \cup {new}) = Cardinality(Counted(ev)) + 1
          /\ Cardinality(Entered(ev) \cup {new}) = Cardinality(Entered(ev)) + 1
      BY <1>8, <1>9, FS_AddElement
    <3>5. QED
      BY <3>3, <3>4 DEF CountInv
  <2>2. CASE x # 0
    <3>1. PICK u \in votes : u.voter = ev /\ u.id = x
      BY <2>2
    <3>2. u \in Counted(ev)
      BY <1>1, <2>2, <3>1 DEF Counted, Effective
    <3>3. \A w \in votes : w.voter = ev /\ w.id = x => w = u
      BY <3>1 DEF VoteTableInv, RowsAreNumbered
    <3>4. \A w \in votes : w.voter = ev => (Effective(w)' <=> Effective(w) /\ w # u)
      BY <1>2, <3>1, <3>3 DEF Effective
    <3>5. Counted(ev)' = (Counted(ev) \ {u}) \cup {new}
      BY <1>2, <1>7, <3>4 DEF Counted
    <3>6. Entered(ev)' = Entered(ev)
      BY <1>2, <2>2 DEF Entered
    <3> DEFINE rest == Counted(ev) \ {u}
    <3>7. /\ IsFiniteSet(rest) /\ new \notin rest
          /\ Cardinality(rest) = Cardinality(Counted(ev)) - 1
      BY <1>8, <1>9, <3>2, FS_RemoveElement
    <3>8. Cardinality(rest \cup {new}) = Cardinality(rest) + 1
      <4> HIDE DEF rest
      <4> QED
        BY <3>7, FS_AddElement
    <3>9. Cardinality(Counted(ev)) \in Nat
      BY <1>8, FS_CardinalityType
    <3>10. Cardinality(Counted(ev)') = Cardinality(Counted(ev))
      BY <3>5, <3>7, <3>8, <3>9
    <3>11. QED
      BY <3>6, <3>10 DEF CountInv
  <2>3. QED
    BY <2>1, <2>2
<1>11. QED
  BY <1>3, <1>4, <1>10 DEF CountInv

LEMMA CommitKeepsCount ==
    ASSUME TypeOK, VoteTableInv, CountInv, NEW c \in calls, Commit(c) \/ Abort(c)
    PROVE  CountInv'
<1>0. c \in Call
  BY DEF TypeOK
<1>1. CASE submitVoteCommit(c)
  <2>1. VoterOf(c.token) \in Voters
    BY <1>0, <1>1, CallShape, TokenParts DEF submitVoteCommit, SubmitCall
  <2>2. InsertVote(VoterOf(c.token), c.choice, c.token[3], 0)
    BY <1>1 DEF submitVoteCommit
  <2>3. QED
    BY <2>1, <2>2, InsertKeepsCount
<1>2. CASE manualVoteCommit(c)
  <2>1. c.voter \in Voters
    BY <1>0, <1>2, CallShape DEF manualVoteCommit, ManualCall
  <2>2. InsertVote(c.voter, c.choice, 0, 0)
    BY <1>2 DEF manualVoteCommit
  <2>3. QED
    BY <2>1, <2>2, InsertKeepsCount
<1>3. CASE correctVoteCommit(c)
  <2>1. c.vote \in votes /\ c.vote \in VoteRow
    BY <1>3 DEF correctVoteCommit, VoteTableInv, CallsNameRows, TypeOK
  <2>2. c.vote.voter \in Voters /\ c.vote.id \in Nat
    BY <2>1, VotingAssumption DEF VoteRow
  <2>3. InsertVote(c.vote.voter, c.choice, 0, c.vote.id)
    BY <1>3 DEF correctVoteCommit
  <2>4. QED
    BY <2>1, <2>2, <2>3, InsertKeepsCount
<1>4. CASE ~submitVoteCommit(c) /\ ~manualVoteCommit(c) /\ ~correctVoteCommit(c)
  <2>1. votes' = votes
    BY <1>4
    DEF Commit, Abort, updateDraftCommit, withdrawCommit, openVotingCommit,
        reviseCommit, closeVotingCommit, autoRevoke, revokeTokenCommit, badCodeCount,
        reissueTokenCommit, expireTokenCommit, WriteLink
  <2>2. QED
    BY <2>1 DEF CountInv, Counted, Entered, Effective
<1>5. QED
  BY <1>1, <1>2, <1>3, <1>4

LEMMA CountHolds == Spec => []CountInv
<1>1. Init => CountInv
  <2> SUFFICES ASSUME Init
               PROVE  CountInv
    OBVIOUS
  <2>1. votes = {} /\ \A ev \in Voters : Counted(ev) = Entered(ev)
    BY DEF Init, Counted, Entered
  <2>2. QED
    BY <2>1, FS_EmptySet DEF CountInv
<1>2. TypeOK /\ VoteTableInv /\ CountInv /\ [Next]_vars => CountInv'
  <2> SUFFICES ASSUME TypeOK, VoteTableInv, CountInv, [Next]_vars
               PROVE  CountInv'
    OBVIOUS
  <2>1. ASSUME votes' = votes
        PROVE  CountInv'
    BY <2>1 DEF CountInv, Counted, Entered, Effective
  <2>2. ASSUME NEW r \in Requests, Read(r)
        PROVE  CountInv'
    BY <2>1, <2>2, ReadTypes
  <2>3. ASSUME NEW c \in calls, Commit(c) \/ Abort(c)
        PROVE  CountInv'
    BY <2>3, CommitKeepsCount
  <2>4. CASE DeadlinePasses \/ UNCHANGED vars
    BY <2>1, <2>4 DEF DeadlinePasses, vars
  <2>5. QED
    BY <2>2, <2>3, <2>4 DEF Next
<1>3. QED
  BY <1>1, <1>2, TypeCorrect, VoteTableCorrect, PTL DEF Spec

\* Whatever calls interleave, each voter has as many counted votes as votes that
\* were entered and are no corrections: corrections lose no vote and add none.
THEOREM CorrectionsCount == Spec => []CorrectionsKeepCount
<1>1. CountInv => CorrectionsKeepCount
  BY DEF CountInv, Counted, Entered, CorrectionsKeepCount
<1>2. QED
  BY <1>1, CountHolds, PTL

-----------------------------------------------------------------------------
(* The engine sees of a vote its choice, its weight and its two flags.     *)

\* Votes that are renamed one to one weigh the same.
LEMMA WeightCarried ==
    ASSUME NEW S, IsFiniteSet(S), NEW h,
           \A v \in S : v.weight \in Int /\ h[v].weight = v.weight,
           \A u, v \in S : h[u] = h[v] => u = v
    PROVE  WeightOf({h[v] : v \in S}) = WeightOf(S)
<1> DEFINE T == {h[v] : v \in S}
           f == [v \in S |-> v.weight]
           g == [v \in T |-> v.weight]
<1>1. \A v \in S : f[v] \in Int /\ g[h[v]] = f[v]
  OBVIOUS
<1>2. WeightOf(T) = SumFunctionOnSet(g, T) /\ WeightOf(S) = SumFunctionOnSet(f, S)
  BY DEF WeightOf, SumFunction
<1> HIDE DEF f, g
<1>3. SumFunctionOnSet(g, {h[v] : v \in S}) = SumFunctionOnSet(f, S)
  BY <1>1, SumCarried
<1>4. QED
  BY <1>2, <1>3

LEMMA SizeCarried ==
    ASSUME NEW S, IsFiniteSet(S), NEW h, \A u, v \in S : h[u] = h[v] => u = v
    PROVE  Cardinality({h[v] : v \in S}) = Cardinality(S)
<1> DEFINE T == {h[v] : v \in S}
           f == [v \in S |-> h[v]]
<1>1. /\ f \in [S -> T] /\ \A t \in T : \E v \in S : f[v] = t
      /\ \A u, v \in S : f[u] = f[v] => u = v
  OBVIOUS
<1> HIDE DEF f, T
<1>2. f \in Bijection(S, T)
  BY <1>1 DEF Bijection, Injection, Surjection, IsInjective
<1>3. ExistsBijection(S, T)
  BY <1>2 DEF ExistsBijection
<1>4. Cardinality(T) = Cardinality(S)
  BY <1>3, FS_Bijection
<1>5. QED
  BY <1>4 DEF T

\* Votes that are renamed one to one and keep these four have the same outcome.
LEMMA OutcomeCarried ==
    ASSUME NEW rule, NEW S, IsFiniteSet(S), NEW h,
           \A v \in S : /\ v.weight \in Int /\ h[v].weight = v.weight
                        /\ h[v].choice = v.choice /\ h[v].invalid = v.invalid
                        /\ h[v].countsForQuorum = v.countsForQuorum,
           \A u, v \in S : h[u] = h[v] => u = v
    PROVE  computeVotingResult(rule, {h[v] : v \in S}) = computeVotingResult(rule, S)
<1> DEFINE T == {h[v] : v \in S}
           VS == {v \in S : ~v.invalid}
           VT == {v \in T : ~v.invalid}
           QS == {v \in VS : v.countsForQuorum}
           QT == {v \in VT : v.countsForQuorum}
           CS(c) == {v \in VS : v.choice = c}
           CT(c) == {v \in VT : v.choice = c}
<1>1. /\ VT = {h[v] : v \in VS} /\ QT = {h[v] : v \in QS}
      /\ \A c : CT(c) = {h[v] : v \in CS(c)}
  OBVIOUS
<1>2. /\ VS \subseteq S /\ QS \subseteq S /\ \A c : CS(c) \subseteq S
  OBVIOUS
<1>3. \A A \in SUBSET S : /\ WeightOf({h[v] : v \in A}) = WeightOf(A)
                          /\ Cardinality({h[v] : v \in A}) = Cardinality(A)
  <2> SUFFICES ASSUME NEW A \in SUBSET S
               PROVE  /\ WeightOf({h[v] : v \in A}) = WeightOf(A)
                      /\ Cardinality({h[v] : v \in A}) = Cardinality(A)
    OBVIOUS
  <2>1. IsFiniteSet(A)
    BY FS_Subset
  <2>2. WeightOf({h[v] : v \in A}) = WeightOf(A)
    BY <2>1, WeightCarried
  <2>3. Cardinality({h[v] : v \in A}) = Cardinality(A)
    BY <2>1, SizeCarried
  <2>4. QED
    BY <2>2, <2>3
<1>4. /\ Cardinality(VT) = Cardinality(VS) /\ Cardinality(QT) = Cardinality(QS)
      /\ WeightOf(QT) = WeightOf(QS)
      /\ \A c : WeightOf(CT(c)) = WeightOf(CS(c))
  <2> HIDE DEF VS, VT, QS, QT, CS, CT
  <2> QED
    BY <1>1, <1>2, <1>3
<1>5. /\ WeightOf(CT("APPROVE")) = WeightOf(CS("APPROVE"))
      /\ WeightOf(CT("REJECT")) = WeightOf(CS("REJECT"))
      /\ WeightOf(CT("ABSTAIN")) = WeightOf(CS("ABSTAIN"))
  <2> HIDE DEF CS, CT
  <2> QED
    BY <1>4
<1>6. computeVotingResult(rule, T) = computeVotingResult(rule, S)
  <2> HIDE DEF T
  <2> QED
    BY <1>4, <1>5, Zenon DEF computeVotingResult
<1>7. QED
  BY <1>6

-----------------------------------------------------------------------------
(* The ballot box.                                                         *)

\* A row that counts is what the box holds, when one row of a voter counts.
LEMMA BoxHolds ==
    ASSUME OneEffectiveVote, NEW w \in votes, Effective(w)
    PROVE  /\ HasVoted(w.voter) /\ InBox(w.voter) = w.choice
           /\ (CHOOSE v \in votes : v.voter = w.voter /\ Effective(v)) = w
<1> DEFINE chosen == CHOOSE v \in votes : v.voter = w.voter /\ Effective(v)
<1>1. chosen \in votes /\ chosen.voter = w.voter /\ Effective(chosen)
  OBVIOUS
<1>2. chosen = w
  <2> HIDE DEF chosen
  <2> QED
    BY <1>1 DEF OneEffectiveVote
<1>3. HasVoted(w.voter)
  BY DEF HasVoted
<1>4. QED
  BY <1>2, <1>3 DEF InBox

\* BallotBox uses the same engine.
LEMMA SameEngine ==
    ASSUME NEW rule, NEW V
    PROVE  Box!computeVotingResult(rule, V) = computeVotingResult(rule, V)
<1>0. Box!Whole = Whole
  BY DEF Box!Whole, Whole
<1>1. ASSUME NEW S PROVE Box!WeightOf(S) = WeightOf(S)
  BY DEF Box!WeightOf, WeightOf, Box!SumFunction, SumFunction, Box!SumFunctionOnSet,
         SumFunctionOnSet, Box!FoldFunctionOnSet, FoldFunctionOnSet,
         Box!MapThenFoldSet, MapThenFoldSet
<1>2. Box!quorumRequirement(rule) = quorumRequirement(rule)
  BY <1>0 DEF Box!quorumRequirement, quorumRequirement, Box!RoundUp, RoundUp
<1>3. ASSUME NEW a, NEW b, NEW c
      PROVE  Box!MajorityReached(rule, a, b, c) = MajorityReached(rule, a, b, c)
  BY <1>0 DEF Box!MajorityReached, MajorityReached
<1>4. ASSUME NEW S PROVE Box!Cardinality(S) = Cardinality(S)
  BY DEF Box!Cardinality, Cardinality
<1>5. QED
  BY <1>0, <1>1, <1>2, <1>3, <1>4, Zenon DEF Box!computeVotingResult, computeVotingResult

\* The box decides as the recorded result does.
LEMMA SameDecision ==
    ASSUME TypeOK, OneEffectiveVote, NEW p \in Versions
    PROVE  Box!Decision(p) = Outcome(effectiveVotes(p)).accepted
<1> DEFINE row(s) == CHOOSE w \in votes : w.voter = <<p, s>> /\ Effective(w)
           voted == {s \in Subjects : InBox(<<p, s>>) # NoChoice}
           paper(s) == [voter |-> s, choice |-> InBox(<<p, s>>), weight |-> Weight[s],
                        countsForQuorum |-> TRUE, invalid |-> FALSE]
           papers == {paper(s) : s \in voted}
           h == [d \in papers |-> CountedVote(row(d.voter))]
           counted == {CountedVote(w) : w \in effectiveVotes(p)}
<1>1. /\ Choices # {NoChoice} /\ \A w \in votes : /\ w \in VoteRow /\ w.choice # NoChoice
  BY NoChoiceAssumption DEF TypeOK, VoteRow
<1>2. ASSUME NEW s \in voted
      PROVE  /\ row(s) \in effectiveVotes(p) /\ row(s).voter = <<p, s>>
             /\ row(s).choice = InBox(<<p, s>>)
  <2>1. HasVoted(<<p, s>>)
    BY DEF InBox
  <2>2. PICK w \in votes : w.voter = <<p, s>> /\ Effective(w)
    BY <2>1 DEF HasVoted
  <2>3. row(s) = w /\ InBox(<<p, s>>) = w.choice
    BY <2>2, BoxHolds
  <2>4. w \in effectiveVotes(p)
    BY <2>2 DEF effectiveVotes
  <2>5. QED
    BY <2>2, <2>3, <2>4
<1>3. ASSUME NEW w \in effectiveVotes(p)
      PROVE  \E s \in voted : row(s) = w
  <2>1. w \in votes /\ Effective(w) /\ w \in VoteRow
    BY <1>1 DEF effectiveVotes
  <2>2. w.voter[2] \in Subjects /\ w.voter = <<p, w.voter[2]>>
    BY <2>1 DEF effectiveVotes, VoteRow, Voters
  <2>3. row(w.voter[2]) = w /\ InBox(<<p, w.voter[2]>>) = w.choice
    BY <2>1, <2>2, BoxHolds
  <2>4. QED
    BY <1>1, <2>1, <2>2, <2>3
<1>4. IsFiniteSet(papers)
  <2>1. IsFiniteSet(voted)
    BY VotingAssumption, FS_Subset
  <2> DEFINE F == [s \in voted |-> paper(s)]
  <2>2. papers = {F[s] : s \in voted}
    OBVIOUS
  <2> HIDE DEF F, voted, papers
  <2>3. IsFiniteSet({F[s] : s \in voted})
    BY <2>1, ImageIsFinite
  <2>4. QED
    BY <2>2, <2>3
<1>5. ASSUME NEW d \in papers
      PROVE  /\ d.voter \in voted /\ d = paper(d.voter)
             /\ d.weight \in Int /\ d.weight = Weight[d.voter]
             /\ d.choice = InBox(<<p, d.voter>>)
             /\ d.invalid = FALSE /\ d.countsForQuorum = TRUE
  <2>1. PICK s \in voted : d = paper(s)
    OBVIOUS
  <2>2. /\ d.voter = s /\ d.choice = InBox(<<p, s>>) /\ d.weight = Weight[s]
        /\ d.invalid = FALSE /\ d.countsForQuorum = TRUE
    BY <2>1
  <2>3. s \in Subjects /\ Weight[s] \in Int
    BY VotingAssumption
  <2> HIDE DEF voted, papers, paper
  <2>4. QED
    BY <2>1, <2>2, <2>3
<1> HIDE DEF voted, papers, row, paper
<1>6. ASSUME NEW d \in papers
      PROVE  /\ h[d].weight = d.weight /\ h[d].choice = d.choice
             /\ h[d].invalid = d.invalid /\ h[d].countsForQuorum = d.countsForQuorum
             /\ h[d].row[1] = <<p, d.voter>>
  <2>1. h[d] = CountedVote(row(d.voter))
    OBVIOUS
  <2>2. row(d.voter).voter = <<p, d.voter>> /\ row(d.voter).choice = d.choice
    BY <1>2, <1>5
  <2> DEFINE w == row(d.voter)
  <2>3. h[d] = [row |-> <<w.voter, w.id>>, choice |-> w.choice,
                weight |-> Weight[w.voter[2]], countsForQuorum |-> TRUE,
                invalid |-> FALSE]
    BY <2>1 DEF CountedVote
  <2>4. w.voter = <<p, d.voter>> /\ w.choice = d.choice /\ w.voter[2] = d.voter
    BY <2>2
  <2> HIDE DEF h, w
  <2>5. /\ h[d].row = <<w.voter, w.id>> /\ h[d].choice = w.choice
        /\ h[d].weight = Weight[w.voter[2]]
        /\ h[d].countsForQuorum = TRUE /\ h[d].invalid = FALSE
    BY <2>3
  <2>6. /\ h[d].weight = d.weight /\ h[d].choice = d.choice
        /\ h[d].row[1] = <<p, d.voter>>
    <3>1. d.weight = Weight[d.voter]
      BY <1>5
    <3>2. h[d].weight = d.weight
      BY <2>4, <2>5, <3>1
    <3>3. h[d].row[1] = w.voter
      BY <2>5
    <3>4. QED
      BY <2>4, <2>5, <3>2, <3>3
  <2>7. d.countsForQuorum = TRUE /\ d.invalid = FALSE
    BY <1>5
  <2>8. h[d].invalid = d.invalid
    BY <2>5, <2>7
  <2>9. h[d].countsForQuorum = d.countsForQuorum
    BY <2>5, <2>7
  <2>10. QED
    BY <2>6, <2>8, <2>9
<1>7. \A c, d \in papers : h[c] = h[d] => c = d
  <2> SUFFICES ASSUME NEW c \in papers, NEW d \in papers, h[c] = h[d]
               PROVE  c = d
    OBVIOUS
  <2> HIDE DEF h
  <2>1. <<p, c.voter>> = <<p, d.voter>>
    BY <1>6
  <2>2. QED
    BY <1>5, <2>1
<1>8. {h[d] : d \in papers} = counted
  <2>1. ASSUME NEW d \in papers
        PROVE  h[d] \in counted
    BY <1>2, <1>5
  <2>2. ASSUME NEW w \in effectiveVotes(p)
        PROVE  \E d \in papers : h[d] = CountedVote(w)
    <3>1. PICK s \in voted : row(s) = w
      BY <1>3
    <3>2. paper(s) \in papers /\ paper(s).voter = s
      BY <3>1 DEF papers, paper
    <3>3. QED
      BY <3>1, <3>2
  <2> HIDE DEF h
  <2>3. QED
    BY <2>1, <2>2
<1>9. computeVotingResult(ruleSnapshot, counted)
        = computeVotingResult(ruleSnapshot, papers)
  <2> HIDE DEF h, counted
  <2>1. \A d \in papers : /\ d.weight \in Int /\ h[d].weight = d.weight
                          /\ h[d].choice = d.choice /\ h[d].invalid = d.invalid
                          /\ h[d].countsForQuorum = d.countsForQuorum
    BY <1>5, <1>6
  <2>2. computeVotingResult(ruleSnapshot, {h[d] : d \in papers})
          = computeVotingResult(ruleSnapshot, papers)
    BY <1>4, <1>7, <2>1, OutcomeCarried
  <2>3. QED
    BY <1>8, <2>2
<1>10. Box!Decision(p) = computeVotingResult(ruleSnapshot, papers).accepted
  <2> DEFINE box == [q \in Versions |-> [s \in Subjects |-> InBox(<<q, s>>)]]
             inBox == {[voter |-> s, choice |-> box[p][s], weight |-> Weight[s],
                        countsForQuorum |-> TRUE, invalid |-> FALSE]
                          : s \in {s \in Subjects : box[p][s] # NoChoice}}
  <2>1. Box!Decision(p) = computeVotingResult(ruleSnapshot, inBox).accepted
    BY SameEngine DEF Box!Decision
  <2>2. \A s \in Subjects : box[p][s] = InBox(<<p, s>>)
    OBVIOUS
  <2> HIDE DEF box
  <2>3. {s \in Subjects : box[p][s] # NoChoice} = voted
    BY <2>2 DEF voted
  <2>4. \A s \in voted : paper(s) = [voter |-> s, choice |-> box[p][s],
                        weight |-> Weight[s], countsForQuorum |-> TRUE, invalid |-> FALSE]
    BY <2>2 DEF voted, paper
  <2>5. inBox = papers
    BY <2>3, <2>4 DEF papers
  <2>6. QED
    BY <2>1, <2>5
<1>11. QED
  BY <1>9, <1>10 DEF Outcome

\* What a new row does to the box.
LEMMA InsertFillsBox ==
    ASSUME TypeOK, VoteTableInv, OneEffectiveVote,
           NEW ev \in Voters, NEW choice \in Choices, NEW n, NEW x \in Nat,
           InsertVote(ev, choice, n, x),
           x = 0 => ~HasVoted(ev),
           x # 0 => \E w \in votes : w.voter = ev /\ w.id = x
    PROVE  /\ InBox(ev)' = choice
           /\ \A e \in Voters : e # ev => InBox(e)' = InBox(e)
           /\ InBox(ev) = NoChoice <=> x = 0
<1>1. PICK i \in 1 .. MaxVotes :
        /\ \A w \in votes : w.voter = ev => w.id # i
        /\ x # 0 => ~\E w \in votes : w.voter = ev /\ w.corrects = x
        /\ votes' = votes \cup {[voter |-> ev, id |-> i, choice |-> choice,
                                 token |-> n, corrects |-> x]}
  BY DEF InsertVote, UniqueKeys
<1> DEFINE new == [voter |-> ev, id |-> i, choice |-> choice,
                   token |-> n, corrects |-> x]
<1>2. /\ new.voter = ev /\ new.id = i /\ new.corrects = x /\ new.choice = choice
      /\ votes' = votes \cup {new}
  BY <1>1
<1> HIDE DEF new
<1>3. OneEffectiveVote'
  BY InsertKeepsOne
<1>4. \A w \in votes : w.corrects # 0 => w.corrects # i \/ w.voter # ev
  BY <1>1 DEF VoteTableInv, CorrectionChain
<1>5. Effective(new)'
  <2>1. x # i
    BY <1>1
  <2>2. i # 0
    BY VotingAssumption
  <2>3. QED
    BY <1>2, <1>4, <2>1, <2>2 DEF Effective
<1>6. InBox(ev)' = choice
  <2> DEFINE chosen == CHOOSE v \in votes : v.voter = ev /\ Effective(v)
  <2>1. (chosen \in votes /\ chosen.voter = ev /\ Effective(chosen))'
    BY <1>2, <1>5
  <2>2. chosen' = new
    <3> HIDE DEF chosen
    <3> QED
      BY <1>2, <1>3, <1>5, <2>1 DEF OneEffectiveVote
  <2>3. HasVoted(ev)'
    BY <1>2, <1>5 DEF HasVoted
  <2>4. QED
    BY <1>2, <2>2, <2>3 DEF InBox
<1>7. ASSUME NEW e \in Voters, e # ev
      PROVE  InBox(e)' = InBox(e)
  <2>1. \A w : (w \in votes' /\ w.voter = e /\ Effective(w)')
                 <=> (w \in votes /\ w.voter = e /\ Effective(w))
    BY <1>2, <1>7 DEF Effective
  <2>2. HasVoted(e)' = HasVoted(e)
    BY <2>1 DEF HasVoted
  <2>3. CASE ~HasVoted(e)
    BY <2>2, <2>3 DEF InBox
  <2>4. CASE HasVoted(e)
    <3>1. PICK u \in votes : u.voter = e /\ Effective(u)
      BY <2>4 DEF HasVoted
    <3>2. InBox(e) = u.choice
      BY <3>1, BoxHolds
    <3> DEFINE chosen == CHOOSE v \in votes : v.voter = e /\ Effective(v)
    <3>3. u \in votes' /\ Effective(u)'
      BY <2>1, <3>1
    <3>4. (chosen \in votes /\ chosen.voter = e /\ Effective(chosen))'
      BY <3>1, <3>3
    <3>5. chosen' = u
      <4> HIDE DEF chosen
      <4> QED
        BY <1>3, <3>1, <3>3, <3>4 DEF OneEffectiveVote
    <3>6. InBox(e)' = u.choice
      BY <2>2, <2>4, <3>5 DEF InBox
    <3>7. QED
      BY <3>2, <3>6
  <2>5. QED
    BY <2>3, <2>4
<1>8. InBox(ev) = NoChoice <=> x = 0
  <2>1. CASE x = 0
    BY <2>1 DEF InBox
  <2>2. CASE x # 0
    <3>1. PICK u \in votes : u.voter = ev /\ u.id = x
      BY <2>2
    <3>2. Effective(u)
      BY <1>1, <2>2, <3>1 DEF Effective
    <3>3. u.choice # NoChoice
      BY NoChoiceAssumption DEF TypeOK, VoteRow
    <3>4. QED
      BY <2>2, <3>1, <3>2, <3>3, BoxHolds
  <2>3. QED
    BY <2>1, <2>2
<1>9. QED
  BY <1>6, <1>7, <1>8

\* The same for the box as BallotBox sees it.
box == [p \in Versions |-> [s \in Subjects |-> InBox(<<p, s>>)]]

LEMMA InsertChangesBox ==
    ASSUME TypeOK, VoteTableInv, OneEffectiveVote,
           NEW p \in Versions, NEW s \in Subjects,
           NEW choice \in Choices, NEW n, NEW x \in Nat,
           InsertVote(<<p, s>>, choice, n, x),
           x = 0 => ~HasVoted(<<p, s>>),
           x # 0 => \E w \in votes : w.voter = <<p, s>> /\ w.id = x
    PROVE  /\ box' = [box EXCEPT ![p][s] = choice]
           /\ box[p][s] = NoChoice <=> x = 0
<1>1. <<p, s>> \in Voters
  BY DEF Voters
<1>2. /\ InBox(<<p, s>>)' = choice
      /\ \A e \in Voters : e # <<p, s>> => InBox(e)' = InBox(e)
      /\ InBox(<<p, s>>) = NoChoice <=> x = 0
  BY <1>1, InsertFillsBox
<1>3. box[p][s] = InBox(<<p, s>>)
  BY DEF box
<1>4. \A q \in Versions, t \in Subjects :
         InBox(<<q, t>>)' = IF q = p /\ t = s THEN choice ELSE InBox(<<q, t>>)
  BY <1>2 DEF Voters
<1>5. box' = [q \in Versions |-> [t \in Subjects |->
                 IF q = p /\ t = s THEN choice ELSE InBox(<<q, t>>)]]
  BY <1>4 DEF box
<1>6. [box EXCEPT ![p][s] = choice]
         = [q \in Versions |-> [t \in Subjects |->
                 IF q = p /\ t = s THEN choice ELSE InBox(<<q, t>>)]]
  BY DEF box
<1>7. QED
  BY <1>2, <1>3, <1>5, <1>6

LEMMA SameVotesSameBox ==
    ASSUME votes' = votes
    PROVE  box' = box
BY DEF box, InBox, HasVoted, Effective

\* Every commit is a step of the ballot box or none of its business.
LEMMA CommitIsBoxStep ==
    ASSUME TypeOK, VoteTableInv, SerialInv, ProposalInv,
           NEW c \in calls, Commit(c) \/ Abort(c)
    PROVE  [Box!Next]_(Box!vars)
<1>0. c \in Call /\ StillHolds(c) /\ OneEffectiveVote
  BY DEF TypeOK, ProposalInv, ReadsHold, SerialInv
<1>1. CASE withdrawCommit(c)
  <2>1. /\ c.proposal \in Versions /\ status[c.proposal] = "DRAFT"
        /\ status' = [status EXCEPT ![c.proposal] = "WITHDRAWN"]
        /\ votes' = votes
    BY <1>0, <1>1, CallShape DEF withdrawCommit, WithdrawCall, StillHolds
  <2>2. Box!Withdraw(c.proposal)
    BY <2>1, SameVotesSameBox DEF Box!Withdraw, Box!Move, box
  <2>3. QED
    BY <2>1, <2>2 DEF Box!Next
<1>2. CASE openVotingCommit(c)
  <2>1. /\ c.proposal \in Versions /\ status[c.proposal] = "DRAFT"
        /\ status' = [status EXCEPT ![c.proposal] = "VOTING_OPEN"]
        /\ votes' = votes
    BY <1>0, <1>2, CallShape DEF openVotingCommit, TextCall, StillHolds
  <2>2. Box!Open(c.proposal)
    BY <2>1, SameVotesSameBox DEF Box!Open, Box!Move, box
  <2>3. QED
    BY <2>1, <2>2 DEF Box!Next
<1>3. CASE reviseCommit(c)
  <2>1. /\ c.proposal \in Versions /\ c.proposal + 1 \in Versions
        /\ status[c.proposal] \notin {"NONE", "SUPERSEDED"}
        /\ status' = [status EXCEPT ![c.proposal] = "SUPERSEDED",
                                    ![c.proposal + 1] = "DRAFT"]
        /\ votes' = votes
    BY <1>0, <1>3, CallShape DEF reviseCommit, ReviseCall, StillHolds
  <2>2. Box!Revise(c.proposal)
    BY <2>1, SameVotesSameBox DEF Box!Revise, box
  <2>3. QED
    BY <2>1, <2>2 DEF Box!Next
<1>4. CASE closeVotingCommit(c)
  <2>1. /\ c.proposal \in Versions /\ status[c.proposal] = "VOTING_OPEN"
        /\ c.counted = effectiveVotes(c.proposal) /\ votes' = votes
    BY <1>0, <1>4, CallShape DEF closeVotingCommit, CloseCall, StillHolds
  <2>2. status' = [status EXCEPT ![c.proposal] =
                     IF Box!Decision(c.proposal) THEN "ACCEPTED" ELSE "REJECTED"]
    BY <1>0, <1>4, <2>1, SameDecision DEF closeVotingCommit
  <2>3. Box!Close(c.proposal)
    BY <2>1, <2>2, SameVotesSameBox DEF Box!Close, Box!Move, box
  <2>4. QED
    BY <2>1, <2>3 DEF Box!Next
<1>5. CASE submitVoteCommit(c)
  <2> DEFINE p == c.token[1]
             s == c.token[2]
  <2>1. /\ p \in Versions /\ s \in Subjects /\ c.choice \in Choices
        /\ status[p] = "VOTING_OPEN" /\ ~HasVoted(<<p, s>>)
        /\ InsertVote(<<p, s>>, c.choice, c.token[3], 0) /\ status' = status
    BY <1>0, <1>5, CallShape, TokenParts
    DEF submitVoteCommit, SubmitCall, StillHolds, SerialInv, GuardHolds, VoterOf,
        proposalVars
  <2> HIDE DEF p, s
  <2>2. box' = [box EXCEPT ![p][s] = c.choice] /\ box[p][s] = NoChoice
    BY <1>0, <2>1, InsertChangesBox
  <2>3. Box!Cast(p, s, c.choice)
    BY <2>1, <2>2 DEF Box!Cast, box
  <2>4. QED
    BY <2>1, <2>3 DEF Box!Next
<1>6. CASE manualVoteCommit(c)
  <2> DEFINE p == c.voter[1]
             s == c.voter[2]
  <2>1. c.voter \in Voters /\ c.choice \in Choices
    BY <1>0, <1>6, CallShape DEF manualVoteCommit, ManualCall
  <2>2. p \in Versions /\ s \in Subjects /\ c.voter = <<p, s>>
    BY <2>1 DEF Voters
  <2>3. /\ status[p] = "VOTING_OPEN" /\ ~HasVoted(<<p, s>>)
        /\ InsertVote(<<p, s>>, c.choice, 0, 0) /\ status' = status
    BY <1>0, <1>6, <2>2
    DEF manualVoteCommit, StillHolds, SerialInv, GuardHolds, proposalVars
  <2> HIDE DEF p, s
  <2>4. box' = [box EXCEPT ![p][s] = c.choice] /\ box[p][s] = NoChoice
    BY <1>0, <2>1, <2>2, <2>3, InsertChangesBox
  <2>5. Box!Cast(p, s, c.choice)
    BY <2>3, <2>4 DEF Box!Cast, box
  <2>6. QED
    BY <2>1, <2>2, <2>5 DEF Box!Next
<1>7. CASE correctVoteCommit(c)
  <2> DEFINE p == c.vote.voter[1]
             s == c.vote.voter[2]
  <2>1. c.vote \in votes /\ c.vote \in VoteRow /\ c.choice \in Choices
    BY <1>0, <1>7, CallShape
    DEF correctVoteCommit, CorrectCall, VoteTableInv, CallsNameRows
  <2>2. c.vote.voter \in Voters /\ c.vote.id \in Nat /\ c.vote.id # 0
    BY <2>1, VotingAssumption DEF VoteRow
  <2>3. p \in Versions /\ s \in Subjects /\ c.vote.voter = <<p, s>>
    BY <2>2 DEF Voters
  <2>4. InsertVote(<<p, s>>, c.choice, 0, c.vote.id) /\ status' = status
    BY <1>7, <2>3 DEF correctVoteCommit, proposalVars
  <2> HIDE DEF p, s
  <2>5. box' = [box EXCEPT ![p][s] = c.choice] /\ box[p][s] # NoChoice
    BY <1>0, <2>1, <2>2, <2>3, <2>4, InsertChangesBox
  <2>6. Box!Correct(p, s, c.choice)
    BY <2>4, <2>5 DEF Box!Correct, box
  <2>7. QED
    BY <2>1, <2>3, <2>6 DEF Box!Next
<1>8. CASE \/ updateDraftCommit(c) \/ badCodeCount(c) \/ autoRevoke(c)
           \/ revokeTokenCommit(c) \/ reissueTokenCommit(c) \/ expireTokenCommit(c)
           \/ Abort(c)
  <2>1. status' = status /\ votes' = votes
    BY <1>8 DEF updateDraftCommit, badCodeCount, autoRevoke, revokeTokenCommit,
                reissueTokenCommit, expireTokenCommit, Abort, WriteLink, proposalVars
  <2>2. QED
    BY <2>1, SameVotesSameBox DEF Box!vars, box
<1>9. QED
  BY <1>1, <1>2, <1>3, <1>4, <1>5, <1>6, <1>7, <1>8 DEF Commit

\* Voting implements the ballot box when calls do not overlap, for any number of
\* versions, voters and links: every call is a step of the box that BallotBox
\* allows, or changes neither a status nor what counts, and closing decides by
\* what is in the box.
THEOREM SerialImplementsBallotBox ==
    ASSUME \A q, r \in Requests : q = r
    PROVE  Spec => ImplementsBallotBox
<1>1. Init => Box!Init
  <2> SUFFICES ASSUME Init
               PROVE  Box!Init
    OBVIOUS
  <2>1. \A p \in Versions, s \in Subjects : InBox(<<p, s>>) = NoChoice
    BY DEF Init, InBox, HasVoted
  <2>2. QED
    BY <2>1 DEF Init, Box!Init
<1>2. TypeOK /\ VoteTableInv /\ SerialInv /\ ProposalInv /\ [Next]_vars
        => [Box!Next]_(Box!vars)
  <2> SUFFICES ASSUME TypeOK, VoteTableInv, SerialInv, ProposalInv, [Next]_vars
               PROVE  [Box!Next]_(Box!vars)
    OBVIOUS
  <2>1. ASSUME status' = status, votes' = votes
        PROVE  [Box!Next]_(Box!vars)
    BY <2>1, SameVotesSameBox DEF Box!vars, box
  <2>2. ASSUME NEW r \in Requests, Read(r)
        PROVE  [Box!Next]_(Box!vars)
    BY <2>1, <2>2, ReadTypes DEF proposalVars
  <2>3. ASSUME NEW c \in calls, Commit(c) \/ Abort(c)
        PROVE  [Box!Next]_(Box!vars)
    BY <2>3, CommitIsBoxStep
  <2>4. CASE DeadlinePasses \/ UNCHANGED vars
    BY <2>1, <2>4 DEF DeadlinePasses, vars, proposalVars
  <2>5. QED
    BY <2>2, <2>3, <2>4 DEF Next
<1>3. QED
  BY <1>1, <1>2, TypeCorrect, VoteTableCorrect, SerialProposals, PTL
  DEF Spec, ImplementsBallotBox, Box!Spec

-----------------------------------------------------------------------------
(* The engine, on every voting base and rule.                              *)

\* Rounding up.
LEMMA RoundUpIsLeast ==
    ASSUME NEW k \in Int, NEW n \in Int
    PROVE  n >= RoundUp(k) <=> n * Whole >= k
BY DEF RoundUp, Whole

\* Some members weigh more than others, each at least 1.
LEMMA HeavierType ==
    ASSUME IsFiniteSet(Members)
    PROVE  Heavier \in [Members -> 1 .. Cardinality(Members)]
<1>1. ExistsBijection(Members, 1 .. Cardinality(Members))
  <2>1. Cardinality(Members) \in Nat
    BY FS_CardinalityType
  <2>2. /\ IsFiniteSet(1 .. Cardinality(Members))
        /\ Cardinality(1 .. Cardinality(Members)) = Cardinality(Members)
    BY <2>1, FS_Interval
  <2>3. QED
    BY <2>2, FS_SameCardinalityBij
<1>2. \E f \in [Members -> 1 .. Cardinality(Members)] :
         \A m, n \in Members : f[m] = f[n] => m = n
  BY <1>1 DEF ExistsBijection, Bijection, Injection, IsInjective
<1>3. Heavier = CHOOSE f \in [Members -> 1 .. Cardinality(Members)] :
                         \A m, n \in Members : f[m] = f[n] => m = n
  BY DEF Heavier
<1>4. QED
  BY <1>2, <1>3

\* The rule is one of those the run and the code allow, and stays.
TrialInv ==
    /\ trialRule \in [quorumType : QuorumTypes, quorumPercent : Percents,
                      majorityType : MajorityTypes, majorityPercent : Percents,
                      totalEligibleWeight : Nat, totalEligibleOwners : {Cardinality(Members)}]
    /\ trialChoice \in [Members -> VoteChoices \cup {"NONE"}]

LEMMA WeightIsNat ==
    ASSUME NEW S, IsFiniteSet(S), \A v \in S : v.weight \in Nat
    PROVE  WeightOf(S) \in Nat
<1> DEFINE f == [v \in S |-> v.weight]
<1>1. WeightOf(S) = SumFunctionOnSet(f, S) /\ \A v \in S : f[v] \in Nat
  BY DEF WeightOf, SumFunction
<1> HIDE DEF f
<1>2. QED
  BY <1>1, SumIsNat

LEMMA TrialHolds ==
    ASSUME IsFiniteSet(Members), Percents \subseteq Nat
    PROVE  TrialSpec => []TrialInv
<1>1. TrialInit => TrialInv
  <2> SUFFICES ASSUME TrialInit
               PROVE  TrialInv
    OBVIOUS
  <2> DEFINE base == {[w |-> m, weight |-> Heavier[m]] : m \in Members}
             F == [m \in Members |-> [w |-> m, weight |-> Heavier[m]]]
  <2>1. base = {F[m] : m \in Members} /\ \A v \in base : v.weight \in Nat
    BY HeavierType
  <2>2. IsFiniteSet(base)
    <3> HIDE DEF base, F
    <3> QED
      BY <2>1, ImageIsFinite
  <2>3. WeightOf(base) \in Nat
    <3> HIDE DEF base, F
    <3> QED
      BY <2>1, <2>2, WeightIsNat
  <2>4. trialRule \in [quorumType : QuorumTypes, quorumPercent : Percents,
                       majorityType : MajorityTypes, majorityPercent : Percents,
                       totalEligibleWeight : {WeightOf(base)},
                       totalEligibleOwners : {Cardinality(Members)}]
    BY DEF TrialInit
  <2>5. trialChoice \in [Members -> VoteChoices \cup {"NONE"}]
    BY DEF TrialInit
  <2> HIDE DEF base, F
  <2>6. QED
    BY <2>3, <2>4, <2>5 DEF TrialInv
<1>2. TrialInv /\ [TrialNext]_trialVars => TrialInv'
  BY DEF TrialInv, TrialNext, trialVars, Choose, VoteChoices
<1>3. QED
  BY <1>1, <1>2, PTL DEF TrialSpec

\* An owner-count quorum is the least number of owners that makes the percentage,
\* for every voting base and every percentage.
THEOREM EngineOwnerQuorum ==
    ASSUME IsFiniteSet(Members), Percents \subseteq Nat
    PROVE  TrialSpec => []OwnerQuorumIsLeast
<1>1. TrialInv => OwnerQuorumIsLeast
  <2> SUFFICES ASSUME TrialInv, trialRule.quorumType = "PERCENT_OF_OWNER_COUNT",
                      NEW n \in 0 .. Cardinality(Members)
               PROVE  n >= quorumRequirement(trialRule).least
                        <=> n * Whole >= trialRule.quorumPercent * Cardinality(Members)
    BY DEF OwnerQuorumIsLeast
  <2> DEFINE k == trialRule.totalEligibleOwners * trialRule.quorumPercent
  <2>1. quorumRequirement(trialRule).least = RoundUp(k)
    BY DEF quorumRequirement
  <2>2. /\ Cardinality(Members) \in Nat /\ trialRule.quorumPercent \in Nat
        /\ trialRule.totalEligibleOwners = Cardinality(Members)
    BY FS_CardinalityType DEF TrialInv
  <2>3. k \in Int /\ k = trialRule.quorumPercent * Cardinality(Members)
    BY <2>2
  <2> HIDE DEF k
  <2>4. n \in Int
    BY <2>2
  <2>5. QED
    BY <2>1, <2>3, <2>4, RoundUpIsLeast
<1>2. QED
  BY <1>1, TrialHolds, PTL

\* A vote of the trial, and the votes of a map of choices.
Paper(ch, inv, si, m) ==
    [voter |-> m, choice |-> ch[m], weight |-> Heavier[m],
     countsForQuorum |-> m \notin si, invalid |-> m \in inv]
PapersOf(ch, inv, si, A) == {Paper(ch, inv, si, m) : m \in A}
Chosen(ch) == {m \in Members : ch[m] # "NONE"}

Tally(A) == SumFunctionOnSet(Heavier, A)

\* Papers weigh what their voters weigh.
LEMMA PapersWeigh ==
    ASSUME IsFiniteSet(Members), NEW ch, NEW inv, NEW si, NEW A \in SUBSET Members
    PROVE  /\ WeightOf(PapersOf(ch, inv, si, A)) = Tally(A)
           /\ Cardinality(PapersOf(ch, inv, si, A)) = Cardinality(A)
           /\ Tally(A) \in Nat /\ Cardinality(A) \in Nat
<1> DEFINE h == [m \in A |-> Paper(ch, inv, si, m)]
           T == {h[m] : m \in A}
           g == [v \in T |-> v.weight]
<1>0. IsFiniteSet(A)
  BY FS_Subset
<1>1. \A m \in A : Heavier[m] \in Nat
  BY HeavierType
<1>2. PapersOf(ch, inv, si, A) = T
  BY DEF PapersOf
<1>3. \A m \in A : h[m].weight = Heavier[m] /\ h[m].voter = m
  BY DEF Paper
<1>4. \A m \in A : g[h[m]] = h[m].weight
  OBVIOUS
<1>5. WeightOf(T) = SumFunctionOnSet(g, T)
  BY DEF WeightOf, SumFunction
<1> HIDE DEF h, g
<1>6. \A m, n \in A : h[m] = h[n] => m = n
  BY <1>3
<1>7. \A m \in A : Heavier[m] \in Int /\ g[h[m]] = Heavier[m]
  BY <1>1, <1>3, <1>4
<1>8. SumFunctionOnSet(g, {h[m] : m \in A}) = SumFunctionOnSet(Heavier, A)
  BY <1>0, <1>6, <1>7, SumCarried
<1>9. Cardinality({h[m] : m \in A}) = Cardinality(A)
  BY <1>0, <1>6, SizeCarried
<1>10. Tally(A) \in Nat /\ Cardinality(A) \in Nat
  BY <1>0, <1>1, SumIsNat, FS_CardinalityType DEF Tally
<1>11. QED
  BY <1>2, <1>5, <1>8, <1>9, <1>10 DEF Tally

\* What a member who may vote adds to a tally.
LEMMA TallyGrows ==
    ASSUME IsFiniteSet(Members), NEW A \in SUBSET Members, NEW m \in Members
    PROVE  /\ Tally(A) <= Tally(A \cup {m})
           /\ Cardinality(A) <= Cardinality(A \cup {m})
           /\ m \notin A => Tally(A \cup {m}) = Tally(A) + Heavier[m]
           /\ m \in A => Tally(A) = Tally(A \ {m}) + Heavier[m]
           /\ Heavier[m] \in Nat
<1>1. IsFiniteSet(A) /\ IsFiniteSet(A \cup {m})
  BY FS_Subset
<1>2. \A n \in Members : Heavier[n] \in Nat
  BY HeavierType
<1>3. Tally(A) <= Tally(A \cup {m})
  <2>1. \A n \in A \cup {m} : Heavier[n] \in Nat
    BY <1>2
  <2>2. A \in SUBSET (A \cup {m})
    OBVIOUS
  <2>3. QED
    BY <1>1, <2>1, <2>2, SumPart DEF Tally
<1>4. Cardinality(A) <= Cardinality(A \cup {m})
  BY <1>1, FS_Subset
<1>5. m \notin A => Tally(A \cup {m}) = Tally(A) + Heavier[m]
  <2> SUFFICES ASSUME m \notin A
               PROVE  Tally(A \cup {m}) = Tally(A) + Heavier[m]
    OBVIOUS
  <2>1. \A n \in A \cup {m} : Heavier[n] \in Int
    BY <1>2
  <2>2. SumFunctionOnSet(Heavier, A \cup {m})
          = Heavier[m] + SumFunctionOnSet(Heavier, A)
    BY <1>1, <2>1, SumAdd
  <2>3. SumFunctionOnSet(Heavier, A) \in Int
    BY <1>1, <2>1, SumType
  <2>4. QED
    BY <1>2, <2>2, <2>3 DEF Tally
<1>6. m \in A => Tally(A) = Tally(A \ {m}) + Heavier[m]
  <2> SUFFICES ASSUME m \in A
               PROVE  Tally(A) = Tally(A \ {m}) + Heavier[m]
    OBVIOUS
  <2>1. \A n \in A : Heavier[n] \in Int
    BY <1>2
  <2>2. SumFunctionOnSet(Heavier, A)
          = Heavier[m] + SumFunctionOnSet(Heavier, A \ {m})
    BY <1>1, <2>1, SumRemove
  <2>3. IsFiniteSet(A \ {m})
    BY <1>1, FS_Subset
  <2>4. SumFunctionOnSet(Heavier, A \ {m}) \in Int
    BY <2>1, <2>3, SumType
  <2>5. QED
    BY <1>2, <2>2, <2>4 DEF Tally
<1>7. QED
  BY <1>2, <1>3, <1>4, <1>5, <1>6

\* The outcome in terms of the members on each side.
Side(ch, inv, c) == {m \in Members : ch[m] = c /\ m \notin inv}
Quorate(ch, inv, si) == {m \in Chosen(ch) : m \notin inv /\ m \notin si}

QuorumIs(r, A) ==
    /\ quorumRequirement(r).kind = "WEIGHT" => Tally(A) * Whole >= quorumRequirement(r).least
    /\ quorumRequirement(r).kind = "COUNT" => Cardinality(A) >= quorumRequirement(r).least

LEMMA PapersBySide ==
    ASSUME IsFiniteSet(Members), NEW ch, NEW inv, NEW si
    PROVE  LET valid   == {v \in PapersOf(ch, inv, si, Chosen(ch)) : ~v.invalid}
               quorate == {v \in valid : v.countsForQuorum}
           IN  /\ quorate = PapersOf(ch, inv, si, Quorate(ch, inv, si))
               /\ WeightOf(quorate) = Tally(Quorate(ch, inv, si))
               /\ Cardinality(quorate) = Cardinality(Quorate(ch, inv, si))
               /\ \A c \in VoteChoices :
                     WeightOf({v \in valid : v.choice = c}) = Tally(Side(ch, inv, c))
<1> DEFINE valid == {v \in PapersOf(ch, inv, si, Chosen(ch)) : ~v.invalid}
           quorate == {v \in valid : v.countsForQuorum}
           sided(c) == {v \in valid : v.choice = c}
           Q == Quorate(ch, inv, si)
           W(c) == Side(ch, inv, c)
<1>0. Q \in SUBSET Members /\ \A c : W(c) \in SUBSET Members
  BY DEF Quorate, Chosen, Side
<1>1. \A m : LET v == Paper(ch, inv, si, m)
             IN  /\ v.invalid <=> m \in inv
                 /\ v.countsForQuorum <=> m \notin si
                 /\ v.choice = ch[m]
  BY DEF Paper
<1>2. valid = PapersOf(ch, inv, si, {m \in Chosen(ch) : m \notin inv})
  BY <1>1 DEF PapersOf
<1>3. quorate = PapersOf(ch, inv, si, Q)
  BY <1>1, <1>2 DEF PapersOf, Quorate
<1>4. ASSUME NEW c \in VoteChoices
      PROVE  sided(c) = PapersOf(ch, inv, si, W(c))
  BY <1>1, <1>2 DEF PapersOf, Side, Chosen, VoteChoices
<1> HIDE DEF Q, W
<1>5. WeightOf(quorate) = Tally(Q) /\ Cardinality(quorate) = Cardinality(Q)
  BY <1>0, <1>3, PapersWeigh
<1>6. \A c \in VoteChoices : WeightOf(sided(c)) = Tally(W(c))
  <2> HIDE DEF sided
  <2> QED
    BY <1>0, <1>4, PapersWeigh
<1>7. QED
  BY <1>3, <1>5, <1>6 DEF Q, W

LEMMA PapersMakeQuorum ==
    ASSUME IsFiniteSet(Members), NEW r, NEW ch, NEW inv, NEW si
    PROVE  computeVotingResult(r, PapersOf(ch, inv, si, Chosen(ch))).quorumReached
             = QuorumIs(r, Quorate(ch, inv, si))
<1> DEFINE V == PapersOf(ch, inv, si, Chosen(ch))
           Q == Quorate(ch, inv, si)
<1>1. LET quorate == {v \in {v \in V : ~v.invalid} : v.countsForQuorum}
      IN  WeightOf(quorate) = Tally(Q) /\ Cardinality(quorate) = Cardinality(Q)
  BY PapersBySide
<1> HIDE DEF V, Q
<1>2. computeVotingResult(r, V).quorumReached = QuorumIs(r, Q)
  BY <1>1 DEF computeVotingResult, QuorumIs
<1>3. QED
  BY <1>2 DEF V, Q

LEMMA PapersMakeOutcome ==
    ASSUME IsFiniteSet(Members), NEW r, NEW ch, NEW inv, NEW si
    PROVE  computeVotingResult(r, PapersOf(ch, inv, si, Chosen(ch))).accepted
             = /\ QuorumIs(r, Quorate(ch, inv, si))
               /\ MajorityReached(r, Tally(Side(ch, inv, "APPROVE")),
                    Tally(Side(ch, inv, "REJECT")), Tally(Side(ch, inv, "ABSTAIN")))
<1> DEFINE V == PapersOf(ch, inv, si, Chosen(ch))
           Q == Quorate(ch, inv, si)
           W(c) == Side(ch, inv, c)
           sided(c) == {v \in {v \in V : ~v.invalid} : v.choice = c}
<1>1. LET quorate == {v \in {v \in V : ~v.invalid} : v.countsForQuorum}
      IN  WeightOf(quorate) = Tally(Q) /\ Cardinality(quorate) = Cardinality(Q)
  BY PapersBySide
<1>2. /\ WeightOf(sided("APPROVE")) = Tally(W("APPROVE"))
      /\ WeightOf(sided("REJECT")) = Tally(W("REJECT"))
      /\ WeightOf(sided("ABSTAIN")) = Tally(W("ABSTAIN"))
  BY PapersBySide DEF VoteChoices
<1> HIDE DEF V, Q, W
<1>3. computeVotingResult(r, V).accepted =
         /\ QuorumIs(r, Q)
         /\ MajorityReached(r, Tally(W("APPROVE")), Tally(W("REJECT")), Tally(W("ABSTAIN")))
  BY <1>1, <1>2 DEF computeVotingResult, QuorumIs
<1>4. QED
  BY <1>3, Zenon DEF V, Q, W

LEMMA VotesOfTrial ==
    Votes = PapersOf(trialChoice, invalid, silent, Chosen(trialChoice))
BY DEF Votes, PapersOf, Paper, Chosen

LEMMA RequirementType ==
    ASSUME TrialInv, IsFiniteSet(Members), Percents \subseteq Nat
    PROVE  LET req == quorumRequirement(trialRule)
           IN  /\ req.kind \in {"WEIGHT", "COUNT", "NONE"} /\ req.least \in Nat
               /\ req.kind = "NONE" => req.least = 0
<1> DEFINE pct == trialRule.quorumPercent
           w == trialRule.totalEligibleWeight
           n == trialRule.totalEligibleOwners
<1>1. /\ pct \in Nat /\ w \in Nat /\ n \in Nat
      /\ trialRule.quorumType \in QuorumTypes
  <2>1. Cardinality(Members) \in Nat
    BY FS_CardinalityType
  <2>2. /\ pct \in Percents /\ w \in Nat /\ n = Cardinality(Members)
        /\ trialRule.quorumType \in QuorumTypes
    BY DEF TrialInv
  <2>3. QED
    BY <2>1, <2>2
<1>2. w * pct \in Nat /\ n * pct \in Nat
  BY <1>1
<1>3. \A k \in Nat : RoundUp(k) \in Nat
  BY DEF RoundUp, Whole
<1>4. /\ trialRule.quorumType = "PERCENT_OF_TOTAL_WEIGHT" =>
            quorumRequirement(trialRule) = [kind |-> "WEIGHT", least |-> w * pct]
      /\ trialRule.quorumType = "PERCENT_OF_OWNER_COUNT" =>
            quorumRequirement(trialRule) = [kind |-> "COUNT", least |-> RoundUp(n * pct)]
      /\ trialRule.quorumType = "NONE" =>
            quorumRequirement(trialRule) = [kind |-> "NONE", least |-> 0]
  BY DEF quorumRequirement
<1> HIDE DEF pct, w, n
<1>5. CASE trialRule.quorumType = "PERCENT_OF_TOTAL_WEIGHT"
  BY <1>2, <1>4, <1>5
<1>6. CASE trialRule.quorumType = "PERCENT_OF_OWNER_COUNT"
  BY <1>2, <1>3, <1>4, <1>6
<1>7. CASE trialRule.quorumType = "NONE"
  BY <1>4, <1>7
<1>8. QED
  BY <1>1, <1>5, <1>6, <1>7 DEF QuorumTypes

\* The live bar and the recorded result never disagree about the quorum of those
\* whose votes count for it, and nothing is missing exactly when it is reached:
\* for every rule, voting base, weights and choices.
THEOREM EngineBarAgrees ==
    ASSUME IsFiniteSet(Members), Percents \subseteq Nat
    PROVE  TrialSpec => []BarAgreesWithResult
<1>1. TrialInv => BarAgreesWithResult
  <2> SUFFICES ASSUME TrialInv
               PROVE  BarAgreesWithResult
    OBVIOUS
  <2> DEFINE Q == Quorate(trialChoice, invalid, silent)
             V == PapersOf(trialChoice, invalid, silent, Chosen(trialChoice))
             room == PapersOf(trialChoice, invalid, silent, Q)
             req == quorumRequirement(trialRule)
             bar == presenceQuorum(trialRule, Cardinality(Q), Tally(Q))
  <2>1. Q \in SUBSET Members
    BY DEF Quorate, Chosen
  <2>2. /\ {v \in V : ~v.invalid /\ v.countsForQuorum} = room
        /\ computeVotingResult(trialRule, V).quorumReached = QuorumIs(trialRule, Q)
    <3>1. {v \in V : ~v.invalid /\ v.countsForQuorum} = room
      BY PapersBySide
    <3>2. computeVotingResult(trialRule, V).quorumReached = QuorumIs(trialRule, Q)
      BY PapersMakeQuorum, Zenon
    <3>3. QED
      BY <3>1, <3>2
  <2> HIDE DEF Q
  <2>3. /\ WeightOf(room) = Tally(Q) /\ Cardinality(room) = Cardinality(Q)
        /\ Tally(Q) \in Nat /\ Cardinality(Q) \in Nat
    BY <2>1, PapersWeigh
  <2>4. /\ req.kind \in {"WEIGHT", "COUNT", "NONE"} /\ req.least \in Nat
        /\ req.kind = "NONE" => req.least = 0
    BY RequirementType
  <2> DEFINE present == IF req.kind = "WEIGHT" THEN Tally(Q) * Whole ELSE Cardinality(Q)
  <2>5. /\ bar.reached = (req.kind # "NONE" => present >= req.least)
        /\ bar.missing = IF present >= req.least THEN 0 ELSE req.least - present
    BY DEF presenceQuorum
  <2>6. Tally(Q) * Whole \in Nat /\ present \in Nat
    BY <2>3 DEF Whole
  <2> HIDE DEF req, bar
  <2>7. bar.reached = QuorumIs(trialRule, Q)
    <3>1. QuorumIs(trialRule, Q) <=> (req.kind # "NONE" => present >= req.least)
      BY <2>4 DEF QuorumIs, req
    <3>2. QED
      BY <2>5, <3>1 DEF QuorumIs
  <2> HIDE DEF present
  <2>8. bar.reached <=> bar.missing = 0
    <3>1. CASE present >= req.least
      BY <2>5, <3>1
    <3>2. CASE ~(present >= req.least)
      <4>1. req.kind # "NONE"
        BY <2>4, <2>6, <3>2
      <4>2. req.least - present # 0
        BY <2>4, <2>6, <3>2
      <4>3. QED
        BY <2>5, <3>2, <4>1, <4>2
    <3>3. QED
      BY <3>1, <3>2
  <2> HIDE DEF V, room
  <2>9. result.quorumReached = QuorumIs(trialRule, Q)
    BY <2>2, VotesOfTrial DEF result, V
  <2>10. {v \in Votes : ~v.invalid /\ v.countsForQuorum} = room
    BY <2>2, VotesOfTrial DEF V
  <2>11. presenceQuorum(trialRule, Cardinality(room), WeightOf(room)) = bar
    BY <2>3 DEF bar
  <2>12. QED
    BY <2>7, <2>8, <2>9, <2>10, <2>11 DEF BarAgreesWithResult
<1>2. QED
  BY <1>1, TrialHolds, PTL

\* One more approval: the majority is kept.
LEMMA MajorityKept ==
    ASSUME NEW r, r.majorityPercent \in Nat, r.totalEligibleWeight \in Nat,
           NEW a \in Nat, NEW b \in Nat, NEW c \in Nat, NEW w \in Nat,
           NEW b2 \in Nat, NEW c2 \in Nat, b2 <= b, c2 <= c,
           MajorityReached(r, a, b, c)
    PROVE  MajorityReached(r, a + w, b2, c2)
<1> DEFINE pct == r.majorityPercent
           t == a + b + c
           t2 == a + w + b2 + c2
           e == r.totalEligibleWeight * pct
<1>1. pct \in Nat /\ e \in Nat /\ t \in Nat /\ t2 \in Nat /\ a <= t /\ t2 <= t + w
  OBVIOUS
<1>2. CASE r.majorityType = "SIMPLE_OF_VOTES_CAST"
  BY <1>2 DEF MajorityReached
<1>3. CASE r.majorityType = "PERCENT_OF_VOTES_CAST"
  <2>1. a * Whole > t * pct
    BY <1>3 DEF MajorityReached
  <2>2. (a + w) * Whole > t2 * pct
    <3> HIDE DEF t, t2, pct
    <3>1. Whole = 100000
      BY DEF Whole
    <3>2. pct < Whole
      <4> SUFFICES ASSUME pct >= Whole
                   PROVE  FALSE
        BY <1>1, <3>1
      <4>1. t * Whole <= t * pct
        BY <1>1, <3>1, SMTT(30)
      <4>2. a * Whole <= t * Whole
        BY <1>1, <3>1
      <4>3. t * pct \in Nat /\ a * Whole \in Nat /\ t * Whole \in Nat
        BY <1>1, <3>1
      <4>4. QED
        BY <2>1, <4>1, <4>2, <4>3
    <3>3. w * pct <= w * Whole
      BY <1>1, <3>1, <3>2, SMTT(30)
    <3>4. t2 * pct <= (t + w) * pct
      BY <1>1, SMTT(30)
    <3>5. (t + w) * pct = t * pct + w * pct /\ (a + w) * Whole = a * Whole + w * Whole
      BY <1>1, <3>1
    <3>6. /\ t * pct \in Nat /\ w * pct \in Nat /\ t2 * pct \in Nat /\ a * Whole \in Nat
          /\ w * Whole \in Nat /\ (t + w) * pct \in Nat /\ (a + w) * Whole \in Nat
      BY <1>1, <3>1
    <3>7. QED
      BY <2>1, <3>3, <3>4, <3>5, <3>6
  <2>3. QED
    BY <1>3, <2>2 DEF MajorityReached
<1>4. CASE r.majorityType \notin {"SIMPLE_OF_VOTES_CAST", "PERCENT_OF_VOTES_CAST"}
  <2>1. a * Whole > e
    BY <1>4 DEF MajorityReached
  <2> HIDE DEF e
  <2>2. (a + w) * Whole > e
    BY <1>1, <2>1 DEF Whole
  <2>3. QED
    BY <1>4, <2>2 DEF MajorityReached, e
<1>5. QED
  BY <1>2, <1>3, <1>4

LEMMA QuorumKept ==
    ASSUME IsFiniteSet(Members), NEW r, NEW A \in SUBSET Members, NEW m \in Members,
           quorumRequirement(r).least \in Nat, QuorumIs(r, A)
    PROVE  QuorumIs(r, A \cup {m})
<1> DEFINE req == quorumRequirement(r)
<1>1. /\ Tally(A) \in Nat /\ Cardinality(A) \in Nat
      /\ Tally(A \cup {m}) \in Nat /\ Cardinality(A \cup {m}) \in Nat
  <2>1. A \cup {m} \in SUBSET Members
    OBVIOUS
  <2>2. QED
    BY <2>1, PapersWeigh
<1>2. Tally(A) <= Tally(A \cup {m}) /\ Cardinality(A) <= Cardinality(A \cup {m})
  BY TallyGrows
<1>3. /\ req.kind = "WEIGHT" => Tally(A) * Whole >= req.least
      /\ req.kind = "COUNT" => Cardinality(A) >= req.least
  BY DEF QuorumIs
<1> HIDE DEF req
<1>4. req.kind = "WEIGHT" => Tally(A \cup {m}) * Whole >= req.least
  <2> SUFFICES ASSUME req.kind = "WEIGHT"
               PROVE  Tally(A \cup {m}) * Whole >= req.least
    OBVIOUS
  <2>1. Tally(A) * Whole >= req.least /\ req.least \in Nat
    BY <1>3 DEF req
  <2>2. QED
    BY <1>1, <1>2, <2>1 DEF Whole
<1>5. req.kind = "COUNT" => Cardinality(A \cup {m}) >= req.least
  <2> SUFFICES ASSUME req.kind = "COUNT"
               PROVE  Cardinality(A \cup {m}) >= req.least
    OBVIOUS
  <2>1. Cardinality(A) >= req.least /\ req.least \in Nat
    BY <1>3 DEF req
  <2>2. QED
    BY <1>1, <1>2, <2>1
<1>6. QED
  BY <1>4, <1>5 DEF QuorumIs, req

\* A member who changes to an approval, with the rule and the validity as they
\* were, leaves an accepted proposal accepted.
LEMMA ApprovalKeeps ==
    ASSUME IsFiniteSet(Members), NEW r, NEW ch, NEW inv, NEW si, NEW m \in Members,
           r.majorityPercent \in Nat, r.totalEligibleWeight \in Nat,
           quorumRequirement(r).least \in Nat,
           ch \in [Members -> VoteChoices \cup {"NONE"}], ch[m] # "APPROVE",
           QuorumIs(r, Quorate(ch, inv, si)),
           MajorityReached(r, Tally(Side(ch, inv, "APPROVE")),
              Tally(Side(ch, inv, "REJECT")), Tally(Side(ch, inv, "ABSTAIN"))),
           NEW ch2, ch2 = [ch EXCEPT ![m] = "APPROVE"]
    PROVE  /\ QuorumIs(r, Quorate(ch2, inv, si))
           /\ MajorityReached(r, Tally(Side(ch2, inv, "APPROVE")),
                 Tally(Side(ch2, inv, "REJECT")), Tally(Side(ch2, inv, "ABSTAIN")))
<1>1. ch2[m] = "APPROVE" /\ \A n \in Members \ {m} : ch2[n] = ch[n]
  OBVIOUS
<1>2. CASE m \in inv
  <2>1. \A c : Side(ch2, inv, c) = Side(ch, inv, c)
    BY <1>1, <1>2 DEF Side
  <2>2. Quorate(ch2, inv, si) = Quorate(ch, inv, si)
    BY <1>1, <1>2 DEF Quorate, Chosen
  <2>3. QED
    BY <2>1, <2>2
<1>3. CASE m \notin inv
  <2> DEFINE A == Side(ch, inv, "APPROVE")
             R == Side(ch, inv, "REJECT")
             S == Side(ch, inv, "ABSTAIN")
             Q == Quorate(ch, inv, si)
  <2>1. /\ Side(ch2, inv, "APPROVE") = A \cup {m} /\ m \notin A
        /\ Side(ch2, inv, "REJECT") = R \ {m}
        /\ Side(ch2, inv, "ABSTAIN") = S \ {m}
    BY <1>1, <1>3 DEF Side
  <2>2. Quorate(ch2, inv, si) = IF m \in si THEN Q ELSE Q \cup {m}
    <3>1. CASE m \in si
      BY <1>1, <1>3, <3>1 DEF Quorate, Chosen
    <3>2. CASE m \notin si
      BY <1>1, <1>3, <3>2 DEF Quorate, Chosen
    <3>3. QED
      BY <3>1, <3>2
  <2>3. /\ A \in SUBSET Members /\ R \in SUBSET Members /\ S \in SUBSET Members
        /\ Q \in SUBSET Members
    BY DEF Side, Quorate, Chosen
  <2> HIDE DEF A, R, S, Q
  <2>4. QuorumIs(r, Quorate(ch2, inv, si))
    <3>1. QuorumIs(r, Q)
      BY DEF Q
    <3>2. QuorumIs(r, Q \cup {m})
      BY <2>3, <3>1, QuorumKept
    <3>3. QED
      BY <2>2, <3>1, <3>2
  <2>5. ASSUME NEW B \in SUBSET Members
        PROVE  Tally(B) \in Nat /\ Tally(B \ {m}) \in Nat /\ Tally(B \ {m}) <= Tally(B)
    <3>1. B \ {m} \in SUBSET Members
      OBVIOUS
    <3>2. Tally(B) \in Nat /\ Tally(B \ {m}) \in Nat
      BY <3>1, PapersWeigh
    <3>3. CASE m \in B
      <4>1. Tally(B) = Tally(B \ {m}) + Heavier[m] /\ Heavier[m] \in Nat
        BY <3>3, TallyGrows
      <4>2. QED
        BY <3>2, <4>1
    <3>4. CASE m \notin B
      <4>1. B \ {m} = B
        BY <3>4
      <4>2. QED
        BY <3>2, <4>1
    <3>5. QED
      BY <3>3, <3>4
  <2>6. Tally(A \cup {m}) = Tally(A) + Heavier[m] /\ Heavier[m] \in Nat
    BY <2>1, <2>3, TallyGrows
  <2>7. MajorityReached(r, Tally(A), Tally(R), Tally(S))
    BY DEF A, R, S
  <2>8. /\ Tally(A) \in Nat /\ Tally(R) \in Nat /\ Tally(S) \in Nat
        /\ Tally(R \ {m}) \in Nat /\ Tally(R \ {m}) <= Tally(R)
        /\ Tally(S \ {m}) \in Nat /\ Tally(S \ {m}) <= Tally(S)
    BY <2>3, <2>5
  <2>9. MajorityReached(r, Tally(A) + Heavier[m], Tally(R \ {m}), Tally(S \ {m}))
    BY <2>6, <2>7, <2>8, MajorityKept
  <2>10. QED
    BY <2>1, <2>4, <2>6, <2>9
<1>4. QED
  BY <1>2, <1>3

\* A vote that becomes an approval never defeats a proposal: for every rule, voting
\* base, weights, validity and choices.
THEOREM EngineApprovalHelps ==
    ASSUME IsFiniteSet(Members), Percents \subseteq Nat
    PROVE  TrialSpec => ApprovalHelps
<1> DEFINE P == \A m \in Members :
                   trialChoice[m] # "APPROVE" /\ trialChoice'[m] = "APPROVE" /\ result.accepted
                     => result'.accepted
<1>1. TrialInv /\ [TrialNext]_trialVars => [P]_trialVars
  <2> SUFFICES ASSUME TrialInv, TrialNext, NEW m \in Members,
                      trialChoice[m] # "APPROVE", trialChoice'[m] = "APPROVE",
                      result.accepted
               PROVE  result'.accepted
    OBVIOUS
  <2> DEFINE V == PapersOf(trialChoice, invalid, silent, Chosen(trialChoice))
  <2>1. PICK n \in Members, c \in VoteChoices \cup {"NONE"} : Choose(n, c)
    BY DEF TrialNext, VoteChoices
  <2>2. /\ trialChoice \in [Members -> VoteChoices \cup {"NONE"}]
        /\ trialChoice' = [trialChoice EXCEPT ![n] = c]
        /\ trialRule' = trialRule /\ invalid' = invalid /\ silent' = silent
    BY <2>1 DEF Choose, TrialInv
  <2>3. n = m /\ c = "APPROVE"
    BY <2>2
  <2>4. trialChoice' = [trialChoice EXCEPT ![m] = "APPROVE"]
    BY <2>2, <2>3
  <2>5. /\ Votes = V
        /\ Votes' = PapersOf(trialChoice', invalid, silent, Chosen(trialChoice'))
    BY <2>2 DEF Votes, PapersOf, Paper, Chosen
  <2>6. /\ result.accepted = computeVotingResult(trialRule, V).accepted
        /\ result'.accepted = computeVotingResult(trialRule,
              PapersOf(trialChoice', invalid, silent, Chosen(trialChoice'))).accepted
    BY <2>2, <2>5 DEF result
  <2>7. /\ QuorumIs(trialRule, Quorate(trialChoice, invalid, silent))
        /\ MajorityReached(trialRule, Tally(Side(trialChoice, invalid, "APPROVE")),
              Tally(Side(trialChoice, invalid, "REJECT")),
              Tally(Side(trialChoice, invalid, "ABSTAIN")))
    BY <2>6, PapersMakeOutcome, Zenon
  <2>8. quorumRequirement(trialRule).least \in Nat
    BY RequirementType
  <2>9. trialRule.majorityPercent \in Nat /\ trialRule.totalEligibleWeight \in Nat
    BY DEF TrialInv
  <2>10. /\ QuorumIs(trialRule, Quorate(trialChoice', invalid, silent))
         /\ MajorityReached(trialRule, Tally(Side(trialChoice', invalid, "APPROVE")),
              Tally(Side(trialChoice', invalid, "REJECT")),
              Tally(Side(trialChoice', invalid, "ABSTAIN")))
    BY <2>2, <2>4, <2>7, <2>8, <2>9, ApprovalKeeps
  <2>11. QED
    BY <2>6, <2>10, PapersMakeOutcome, Zenon
<1>2. QED
  BY <1>1, TrialHolds, PTL DEF TrialSpec, ApprovalHelps
=============================================================================
