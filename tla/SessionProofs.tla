--------------------------- MODULE SessionProofs ----------------------------
(***************************************************************************)
(* Theorems about module Session, for every value of its constants and     *)
(* however the calls overlap.                                              *)
(***************************************************************************)
EXTENDS Session, TLAPS

\* No two officials at work, which DeskFree is there for.
OneAtDesk ==
    \A q, r \in Requests :
        (calls[q].at \in Desk /\ calls[r].at \in Desk) => q = r

\* A token is there once its proposal was opened, and before it is on a ballot.
TokensFollow ==
    /\ \A k \in Tokens : proposal[k[1]] = "DRAFT" => token[k] = "NONE"
    /\ \A k \in Tokens : on[k] # 0 => token[k] # "NONE"

\* What call q read stays true while others run: its ballot and its tokens
\* are there, they are one holder's, and whatever can still be voted on the
\* ballot was among what the voter's call read.
Remembers(q) ==
    /\ calls[q].at \in {"submit", "wrong", "last", "reissue", "revoke"} =>
        calls[q].ballot \in BallotIds /\ ballot[calls[q].ballot] # "NONE"
    /\ calls[q].at \in {"issuing", "reissue", "submit"} =>
        \A k \in calls[q].tokens : token[k] # "NONE"
    /\ calls[q].at = "reissue" =>
        \A k \in calls[q].tokens : Recipient[k[2]] = holder[calls[q].ballot]
    /\ calls[q].at = "submit" => VotableOn(calls[q].ballot) \subseteq calls[q].tokens

\* What only the one at the desk may rely on: its lists miss nothing.
DeskKnows(q) ==
    /\ calls[q].at = "issuing" =>
        \A k \in TokensToIssue : Recipient[k[2]] \in Addressed => k \in calls[q].tokens
    /\ (calls[q].at = "closing" /\ Closes(calls[q])) =>
        \A p \in Proposals : proposal[p] = "VOTING_OPEN" => p \in calls[q].todo

CallsMatch == \A q \in Requests : Remembers(q) /\ DeskKnows(q)

\* The inductive invariant.
Inv == SessionInv /\ OneAtDesk /\ TokensFollow /\ CallsMatch

-----------------------------------------------------------------------------
LEMMA TokenParts ==
    ASSUME NEW k \in Tokens
    PROVE  k[1] \in Proposals /\ k[2] \in Owners
BY DEF Tokens

LEMMA InvInit == Init => Inv
<1> SUFFICES ASSUME Init PROVE Inv
  OBVIOUS
<1> USE SessionAssumption
<1>1. TypeOK
  <2>1. (CHOOSE r \in Recipients : TRUE) \in Recipients
    OBVIOUS
  <2> QED
    BY <2>1 DEF Init, TypeOK, Idle, Call, Flow, VotingOpen, BallotIds
<1>2. \A q \in Requests : calls[q].at = "idle"
  BY DEF Init, Idle
<1>3. OneAtDesk /\ CallsMatch
  BY <1>2 DEF OneAtDesk, CallsMatch, Remembers, DeskKnows, Desk
<1>4. TokensFollow
  BY TokenParts DEF Init, TokensFollow
<1>5. VotedBallotIsSpent /\ VotedTokenIsUsed /\ TokenWithItsHolder
      /\ OneVotePerToken /\ NothingLeftOnSpent
  BY DEF Init, VotedBallotIsSpent, VotedTokenIsUsed, TokenWithItsHolder,
         OneVotePerToken, NothingLeftOnSpent, VotesOf
<1> QED
  BY <1>1, <1>3, <1>4, <1>5 DEF Inv, SessionInv

-----------------------------------------------------------------------------
(* What no step takes back.  A ballot that is there keeps its holder, gets *)
(* no further token and is not ACTIVE again; a token that is there never   *)
(* becomes ACTIVE again and stays USED; a proposal never opens again, and  *)
(* a vote is never deleted.                                                *)

NothingComesBack ==
    /\ \A b \in BallotIds :
        /\ ballot[b] # "NONE" => ballot'[b] # "NONE" /\ holder'[b] = holder[b]
        /\ ballot[b] \notin {"NONE", "ACTIVE"} => ballot'[b] \notin {"NONE", "ACTIVE"}
    /\ \A k \in Tokens :
        /\ token[k] # "NONE" =>
            token'[k] # "NONE" /\ (token'[k] = "ACTIVE" => token[k] = "ACTIVE")
        /\ token[k] = "USED" => token'[k] = "USED"
    /\ \A p \in Proposals :
        proposal[p] # "DRAFT" =>
            /\ proposal'[p] # "DRAFT"
            /\ proposal'[p] = "VOTING_OPEN" => proposal[p] = "VOTING_OPEN"
    /\ \A k \in Tokens :
        /\ on[k] # 0 => on'[k] # 0
        /\ on'[k] # on[k] => on'[k] \in BallotIds /\ ballot[on'[k]] = "NONE"
    /\ votes \subseteq votes'

\* Nothing to vote appears on a ballot that is there.
LEMMA VotableShrinks ==
    ASSUME Inv, NothingComesBack, NEW b \in BallotIds, ballot[b] # "NONE"
    PROVE  VotableOn(b)' \subseteq VotableOn(b)
<1> SUFFICES ASSUME NEW k \in VotableOn(b)' PROVE k \in VotableOn(b)
  OBVIOUS
<1>1. k \in Tokens /\ k[1] \in Proposals
  BY TokenParts DEF VotableOn
<1>2. on[k] = b
  BY <1>1 DEF VotableOn, NothingComesBack
<1>3. token[k] # "NONE" /\ proposal[k[1]] # "DRAFT"
  BY <1>1, <1>2 DEF Inv, TokensFollow, BallotIds
<1>4. token'[k] = "ACTIVE" /\ proposal'[k[1]] = "VOTING_OPEN"
  BY DEF VotableOn, Votable
<1>5. ~HasVoted(k)
  BY DEF VotableOn, Votable, HasVoted, NothingComesBack
<1> QED
  BY <1>1, <1>2, <1>3, <1>4, <1>5 DEF VotableOn, Votable, NothingComesBack

\* What a call remembers survives the steps of the others.
LEMMA RememberedStays ==
    ASSUME Inv, NothingComesBack, NEW q \in Requests, calls'[q] = calls[q]
    PROVE  Remembers(q)'
<1>1. calls[q] \in Call /\ Remembers(q)
  BY DEF Inv, SessionInv, TypeOK, CallsMatch
<1>2. calls[q].tokens \subseteq Tokens
  BY <1>1 DEF Call
<1>3. (calls[q].at \in {"submit", "wrong", "last", "reissue", "revoke"} =>
        calls[q].ballot \in BallotIds /\ ballot[calls[q].ballot] # "NONE")'
  BY <1>1 DEF Remembers, NothingComesBack
<1>4. (calls[q].at \in {"issuing", "reissue", "submit"} =>
        \A k \in calls[q].tokens : token[k] # "NONE")'
  BY <1>1, <1>2 DEF Remembers, NothingComesBack
<1>5. (calls[q].at = "reissue" =>
        \A k \in calls[q].tokens : Recipient[k[2]] = holder[calls[q].ballot])'
  BY <1>1 DEF Remembers, NothingComesBack
<1>6. (calls[q].at = "submit" =>
        VotableOn(calls[q].ballot) \subseteq calls[q].tokens)'
  <2> SUFFICES ASSUME calls[q].at = "submit"
               PROVE  (VotableOn(calls[q].ballot) \subseteq calls[q].tokens)'
    OBVIOUS
  <2> DEFINE b == calls[q].ballot
  <2>1. b \in BallotIds /\ ballot[b] # "NONE" /\ VotableOn(b) \subseteq calls[q].tokens
    BY <1>1 DEF Remembers
  <2>2. b' = b
    OBVIOUS
  <2>3. VotableOn(b)' \subseteq VotableOn(b)
    BY <2>1, <2>2, VotableShrinks
  <2> QED
    BY <2>1, <2>3
<1> QED
  BY <1>3, <1>4, <1>5, <1>6 DEF Remembers

\* What the desk knows survives the steps of voters.
LEMMA KnownStays ==
    ASSUME Inv, NEW q \in Requests, calls'[q] = calls[q],
           calls[q].at \in Desk =>
                /\ proposal' = proposal /\ on' = on
                /\ \A k \in Tokens : token'[k] = "ACTIVE" => token[k] = "ACTIVE"
    PROVE  DeskKnows(q)'
<1>1. DeskKnows(q)
  BY DEF Inv, CallsMatch
<1>2. CASE calls[q].at \notin Desk
  BY <1>2 DEF DeskKnows, Desk
<1>3. CASE calls[q].at \in Desk
  BY <1>1, <1>3 DEF DeskKnows, TokensToIssue, Closes
<1> QED
  BY <1>2, <1>3

\* Call r goes on to c; at the desk it was there before, or nobody was.
LEMMA CallStep ==
    ASSUME Inv, NEW r \in Requests, NEW c \in Call,
           Go(r, c),
           c.at \in Desk => DeskFree \/ calls[r].at \in Desk
    PROVE  /\ calls' \in [Requests -> Call]
           /\ calls'[r] = c
           /\ \A q \in Requests : q # r => calls'[q] = calls[q]
           /\ OneAtDesk'
<1>1. calls \in [Requests -> Call] /\ OneAtDesk
  BY DEF Inv, SessionInv, TypeOK
<1>2. calls' = [calls EXCEPT ![r] = c]
  BY DEF Go
<1>3. calls'[r] = c /\ \A q \in Requests : q # r => calls'[q] = calls[q]
  BY <1>1, <1>2
<1>4. OneAtDesk'
  BY <1>1, <1>3 DEF OneAtDesk, DeskFree
<1> QED
  BY <1>1, <1>2, <1>3, <1>4

\* A step that changes a call, the meeting's status or a count of wrong codes.
LEMMA CallsOnly ==
    ASSUME Inv, NEW r \in Requests, NEW c \in Call,
           Go(r, c),
           c.at \in Desk => DeskFree \/ calls[r].at \in Desk,
           meeting' \in Flow, failed' \in [BallotIds -> 0 .. FailureLimit],
           UNCHANGED <<proposal, token, on, ballot, holder, votes>>,
           Remembers(r)' /\ DeskKnows(r)'
    PROVE  Inv'
<1>1. /\ calls' \in [Requests -> Call]
      /\ OneAtDesk'
      /\ \A q \in Requests : q # r => calls'[q] = calls[q]
  BY CallStep
<1>2. TypeOK'
  BY <1>1 DEF Inv, SessionInv, TypeOK
<1>3. TokensFollow'
  BY DEF Inv, TokensFollow
<1>4. (VotedBallotIsSpent /\ VotedTokenIsUsed /\ TokenWithItsHolder
       /\ OneVotePerToken /\ NothingLeftOnSpent)'
  BY DEF Inv, SessionInv, VotedBallotIsSpent, VotedTokenIsUsed,
         TokenWithItsHolder, OneVotePerToken, NothingLeftOnSpent, VotesOf,
         VotableOn, Votable, HasVoted
<1>5. NothingComesBack
  BY DEF NothingComesBack
<1>6. ASSUME NEW q \in Requests PROVE Remembers(q)' /\ DeskKnows(q)'
  <2>1. CASE q = r
    BY <2>1
  <2>2. CASE q # r
    BY <2>2, <1>1, <1>5, RememberedStays, KnownStays
  <2> QED
    BY <2>1, <2>2
<1>7. CallsMatch'
  BY <1>6 DEF CallsMatch
<1> QED
  BY <1>1, <1>2, <1>3, <1>4, <1>7 DEF Inv, SessionInv

\* A step that changes the tables and records no vote by a ballot: whatever is
\* put on a ballot belongs to its holder.
LEMMA TablesHold ==
    ASSUME Inv, NothingComesBack, TypeOK',
           \A v \in votes' : v.ballot # 0 => v \in votes,
           \A k \in Tokens : on'[k] # on[k] =>
                ballot'[on'[k]] # "NONE" /\ holder'[on'[k]] = Recipient[k[2]]
    PROVE  /\ VotedBallotIsSpent' /\ VotedTokenIsUsed'
           /\ TokenWithItsHolder' /\ OneVotePerToken' /\ NothingLeftOnSpent'
<1>1. SessionInv
  BY DEF Inv
<1>2. votes \subseteq [token: Tokens, ballot: 0 .. MaxBallots]
  BY <1>1 DEF SessionInv, TypeOK
<1>3. \A b \in BallotIds : VotesOf(b)' = VotesOf(b)
  BY DEF VotesOf, BallotIds, NothingComesBack
<1>4. VotedBallotIsSpent'
  BY <1>1, <1>3 DEF SessionInv, VotedBallotIsSpent, NothingComesBack
<1>5. VotedTokenIsUsed'
  BY <1>1, <1>2 DEF SessionInv, VotedTokenIsUsed, NothingComesBack
<1>6. TokenWithItsHolder'
  <2> SUFFICES ASSUME NEW k \in Tokens, on'[k] # 0
               PROVE  ballot'[on'[k]] # "NONE" /\ holder'[on'[k]] = Recipient[k[2]]
    BY DEF TokenWithItsHolder
  <2>1. CASE on'[k] = on[k]
    <3>1. on[k] \in BallotIds
      BY <1>1, <2>1, SessionAssumption DEF SessionInv, TypeOK, BallotIds
    <3> QED
      BY <1>1, <2>1, <3>1 DEF SessionInv, TokenWithItsHolder, NothingComesBack
  <2> QED
    BY <2>1
<1>7. OneVotePerToken'
  BY <1>1 DEF SessionInv, OneVotePerToken
<1>8. NothingLeftOnSpent'
  <2> SUFFICES ASSUME NEW b \in BallotIds, VotesOf(b)' # {}
               PROVE  VotableOn(b)' = {}
    BY DEF NothingLeftOnSpent
  <2>1. ballot[b] # "NONE" /\ VotableOn(b) = {}
    BY <1>1, <1>3 DEF SessionInv, VotedBallotIsSpent, NothingLeftOnSpent
  <2> QED
    BY <2>1, VotableShrinks
<1> QED
  BY <1>4, <1>5, <1>6, <1>7, <1>8

\* TypeOK but for the calls.
TablesTyped ==
    /\ meeting \in Flow
    /\ proposal \in [Proposals -> {"DRAFT", "VOTING_OPEN", "DECIDED"}]
    /\ token \in [Tokens -> {"NONE", "ACTIVE", "USED", "EXPIRED"}]
    /\ on \in [Tokens -> 0 .. MaxBallots]
    /\ ballot \in [BallotIds -> {"NONE", "ACTIVE", "USED", "REVOKED", "SUPERSEDED"}]
    /\ holder \in [BallotIds -> Recipients]
    /\ failed \in [BallotIds -> 0 .. FailureLimit]
    /\ votes \subseteq [token: Tokens, ballot: 0 .. MaxBallots]

\* The tables say of each other what they shall.
TablesAgree ==
    /\ VotedBallotIsSpent /\ VotedTokenIsUsed /\ TokenWithItsHolder
    /\ OneVotePerToken /\ NothingLeftOnSpent

\* A call's step on the tables: the others' lists stay right, since they are
\* voters or the step opens nothing.
LEMMA CallOnTables ==
    ASSUME Inv, NEW r \in Requests, NEW c \in Call,
           Go(r, c),
           c.at \in Desk => calls[r].at \in Desk,
           calls[r].at \notin Desk =>
                /\ proposal' = proposal /\ on' = on
                /\ \A k \in Tokens : token'[k] = "ACTIVE" => token[k] = "ACTIVE",
           NothingComesBack, TablesTyped', TokensFollow', TablesAgree',
           Remembers(r)' /\ DeskKnows(r)'
    PROVE  Inv'
<1>1. /\ calls' \in [Requests -> Call]
      /\ OneAtDesk'
      /\ \A q \in Requests : q # r => calls'[q] = calls[q]
  BY CallStep
<1>2. TypeOK'
  BY <1>1 DEF TypeOK, TablesTyped
<1>3. ASSUME NEW q \in Requests PROVE Remembers(q)' /\ DeskKnows(q)'
  <2>1. CASE q = r
    BY <2>1
  <2>2. CASE q # r
    <3>1. calls'[q] = calls[q]
      BY <2>2, <1>1
    <3>2. calls[q].at \in Desk => calls[r].at \notin Desk
      BY <2>2 DEF Inv, OneAtDesk
    <3> QED
      BY <3>1, <3>2, RememberedStays, KnownStays
  <2> QED
    BY <2>1, <2>2
<1>4. CallsMatch'
  BY <1>3 DEF CallsMatch
<1> QED
  BY <1>1, <1>2, <1>4 DEF Inv, SessionInv, TablesAgree

-----------------------------------------------------------------------------
(* The steps that read, and those that only end or move a call.            *)

LEMMA ReadsHold ==
    ASSUME Inv, NEW r \in Requests,
           \/ \E to \in Flow, open \in BOOLEAN : advanceRead(r, to, open)
           \/ issueRead(r) \/ move(r) \/ finish(r) \/ abort(r)
           \/ \E k \in Tokens : handRead(r, k)
           \/ \E b \in BallotIds :
                \/ submitRead(r, b) \/ wrongRead(r, b)
                \/ revokeRead(r, b) \/ reissueRead(r, b)
           \/ wrongCount(r)
    PROVE  Inv'
<1> USE SessionAssumption
<1>0. TypeOK /\ TablesTyped /\ calls[r] \in Call /\ Remembers(r) /\ DeskKnows(r)
  BY DEF Inv, SessionInv, TypeOK, TablesTyped, CallsMatch
<1>a. Idle \in Call
  BY DEF Idle, Call, Flow, VotingOpen
<1>1. ASSUME NEW to \in Flow, NEW open \in BOOLEAN, advanceRead(r, to, open)
      PROVE  Inv'
  <2> DEFINE forward == to > meeting
             c == [Idle EXCEPT !.to = to, !.forward = forward]
             todo == {p \in Proposals : proposal[p] = "DRAFT"}
             d == IF open THEN [c EXCEPT !.at = "opening", !.todo = todo]
                          ELSE [c EXCEPT !.at = "moving"]
  <2>a. c \in Call
    <3>1. forward \in BOOLEAN
      OBVIOUS
    <3> HIDE DEF forward
    <3> QED
      BY <3>1, <1>a DEF Call, Idle
  <2>b. d \in Call /\ d.at \in {"opening", "moving"}
    BY <2>a DEF Call, Desk
  <2>c. Go(r, d) /\ DeskFree
    <3>1. CASE open
      BY <1>1, <3>1 DEF advanceRead, Begin, Go
    <3>2. CASE ~open
      BY <1>1, <3>2 DEF advanceRead, Begin, Go
    <3> QED
      BY <3>1, <3>2
  <2>1. d \in Call /\ Go(r, d) /\ DeskFree /\ d.at \in {"opening", "moving"}
    BY <2>b, <2>c
  <2>2. UNCHANGED <<meeting, failed, proposal, token, on, ballot, holder, votes>>
    BY <1>1 DEF advanceRead, ballotVars
  <2> HIDE DEF d
  <2>3. calls'[r] = d
    BY <2>1, CallStep
  <2>4. Remembers(r)' /\ DeskKnows(r)'
    BY <2>1, <2>3 DEF Remembers, DeskKnows
  <2> QED
    BY <2>1, <2>2, <2>4, <1>0, CallsOnly DEF TablesTyped
<1>2. ASSUME issueRead(r) PROVE Inv'
  <2> DEFINE toIssue == {k \in TokensToIssue : Recipient[k[2]] \in Addressed}
             d == [calls[r] EXCEPT !.at = "issuing", !.tokens = toIssue]
  <2>1. /\ d \in Call /\ d.at = "issuing" /\ d.tokens = toIssue
        /\ Go(r, d) /\ calls[r].at \in Desk
    BY <1>2, <1>0 DEF issueRead, Call, Desk, TokensToIssue
  <2>2. UNCHANGED <<meeting, failed, proposal, token, on, ballot, holder, votes>>
    BY <1>2 DEF issueRead, ballotVars
  <2> HIDE DEF d
  <2>3. calls'[r] = d
    BY <2>1, CallStep
  <2>4. Remembers(r)' /\ DeskKnows(r)'
    BY <2>1, <2>2, <2>3 DEF Remembers, DeskKnows, TokensToIssue
  <2> QED
    BY <2>1, <2>2, <2>4, <1>0, CallsOnly DEF TablesTyped
<1>3. ASSUME move(r) PROVE Inv'
  <2> DEFINE todo == IF Closes(calls[r])
                     THEN {p \in Proposals : proposal[p] = "VOTING_OPEN"} ELSE {}
             d == [calls[r] EXCEPT !.at = "closing", !.todo = todo]
  <2>1. /\ d \in Call /\ d.at = "closing" /\ d.todo = todo
        /\ d.forward = calls[r].forward /\ d.to = calls[r].to
        /\ Go(r, d) /\ calls[r].at \in Desk
    BY <1>3, <1>0 DEF move, Call, Desk
  <2>2. meeting' \in Flow
        /\ UNCHANGED <<failed, proposal, token, on, ballot, holder, votes>>
    BY <1>3, <1>0 DEF move, ballotVars, Call
  <2> HIDE DEF d
  <2>3. calls'[r] = d
    BY <2>1, CallStep
  <2>4. Remembers(r)' /\ DeskKnows(r)'
    BY <2>1, <2>2, <2>3 DEF Remembers, DeskKnows, Closes
  <2> QED
    BY <2>1, <2>2, <2>4, <1>0, CallsOnly DEF TablesTyped
<1>4. ASSUME finish(r) \/ abort(r) PROVE Inv'
  <2>1. /\ Go(r, Idle) /\ Idle.at = "idle" /\ "idle" \notin Desk
        /\ UNCHANGED <<meeting, failed, proposal, token, on, ballot, holder, votes>>
    BY <1>4 DEF finish, abort, ballotVars, Idle, Desk
  <2>2. calls'[r] = Idle
    BY <2>1, <1>a, CallStep
  <2>3. Remembers(r)' /\ DeskKnows(r)'
    BY <2>1, <2>2 DEF Remembers, DeskKnows
  <2> QED
    BY <2>1, <2>3, <1>0, <1>a, CallsOnly DEF TablesTyped
<1>5. ASSUME NEW k \in Tokens, handRead(r, k) PROVE Inv'
  <2> DEFINE d == [Idle EXCEPT !.at = "hand", !.tokens = {k}]
  <2>1. d \in Call /\ d.at = "hand" /\ Go(r, d) /\ DeskFree
    BY <1>5, <1>a DEF handRead, Begin, Go, Call, Idle, Desk
  <2>2. UNCHANGED <<meeting, failed, proposal, token, on, ballot, holder, votes>>
    BY <1>5 DEF handRead, ballotVars
  <2> HIDE DEF d
  <2>3. calls'[r] = d
    BY <2>1, CallStep
  <2>4. Remembers(r)' /\ DeskKnows(r)'
    BY <2>1, <2>3 DEF Remembers, DeskKnows
  <2> QED
    BY <2>1, <2>2, <2>4, <1>0, CallsOnly DEF TablesTyped
<1>6. ASSUME NEW b \in BallotIds, submitRead(r, b) PROVE Inv'
  <2> DEFINE d == [Idle EXCEPT !.at = "submit", !.ballot = b, !.tokens = VotableOn(b)]
  <2>1. VotableOn(b) \subseteq Tokens /\ b \in 0 .. MaxBallots
    BY DEF VotableOn, BallotIds
  <2>2. /\ d \in Call /\ d.at = "submit" /\ d.ballot = b /\ d.tokens = VotableOn(b)
        /\ Go(r, d) /\ "submit" \notin Desk
    BY <1>6, <2>1, <1>a DEF submitRead, Begin, Go, Call, Idle, Voter, Desk
  <2>3. UNCHANGED <<meeting, failed, proposal, token, on, ballot, holder, votes>>
    BY <1>6 DEF submitRead, ballotVars
  <2> HIDE DEF d
  <2>4. calls'[r] = d
    BY <2>2, CallStep
  <2>5. ballot[b] # "NONE" /\ \A k \in VotableOn(b) : token[k] # "NONE"
    BY <1>6 DEF submitRead, Refused, VotableOn, Votable
  <2>6. Remembers(r)' /\ DeskKnows(r)'
    BY <2>2, <2>3, <2>4, <2>5 DEF Remembers, DeskKnows, VotableOn, Votable, HasVoted
  <2> QED
    BY <2>2, <2>3, <2>6, <1>0, CallsOnly DEF TablesTyped
<1>7. ASSUME NEW b \in BallotIds, wrongRead(r, b) \/ revokeRead(r, b) PROVE Inv'
  <2> DEFINE at == IF wrongRead(r, b) THEN "wrong" ELSE "revoke"
             d == [Idle EXCEPT !.at = at, !.ballot = b]
  <2>1. b \in 0 .. MaxBallots /\ at \in {"wrong", "revoke"}
    BY DEF BallotIds
  <2>2. d \in Call /\ d.at = at /\ d.ballot = b
    BY <2>1, <1>a DEF Call, Idle, Voter, Desk
  <2>3. Go(r, d) /\ (at \in Desk => DeskFree)
    BY <1>7 DEF wrongRead, revokeRead, Begin, Go, Desk
  <2>4. /\ UNCHANGED <<meeting, failed, proposal, token, on, ballot, holder, votes>>
        /\ ballot[b] # "NONE"
    BY <1>7 DEF wrongRead, revokeRead, ballotVars, Refused
  <2> HIDE DEF d, at
  <2>5. calls'[r] = d
    BY <2>2, <2>3, CallStep
  <2>6. Remembers(r)' /\ DeskKnows(r)'
    BY <2>1, <2>2, <2>4, <2>5 DEF Remembers, DeskKnows
  <2> QED
    BY <2>2, <2>3, <2>4, <2>6, <1>0, CallsOnly DEF TablesTyped
<1>8. ASSUME NEW b \in BallotIds, reissueRead(r, b) PROVE Inv'
  <2> DEFINE d == [Idle EXCEPT !.at = "reissue", !.ballot = b, !.tokens = LiveOn(b)]
  <2>1. LiveOn(b) \subseteq Tokens /\ b \in 0 .. MaxBallots /\ b # 0
    BY DEF LiveOn, BallotIds
  <2>2. /\ d \in Call /\ d.at = "reissue" /\ d.ballot = b /\ d.tokens = LiveOn(b)
        /\ Go(r, d) /\ DeskFree
    BY <1>8, <2>1, <1>a DEF reissueRead, Begin, Go, Call, Idle, Desk
  <2>3. UNCHANGED <<meeting, failed, proposal, token, on, ballot, holder, votes>>
    BY <1>8 DEF reissueRead, ballotVars
  <2> HIDE DEF d
  <2>4. calls'[r] = d
    BY <2>2, CallStep
  <2>5. /\ ballot[b] # "NONE"
        /\ \A k \in LiveOn(b) : token[k] # "NONE" /\ Recipient[k[2]] = holder[b]
    BY <1>8, <2>1 DEF reissueRead, LiveOn, Inv, SessionInv, TokenWithItsHolder
  <2>6. Remembers(r)' /\ DeskKnows(r)'
    BY <2>2, <2>3, <2>4, <2>5 DEF Remembers, DeskKnows
  <2> QED
    BY <2>2, <2>3, <2>6, <1>0, CallsOnly DEF TablesTyped
<1>9. ASSUME wrongCount(r) PROVE Inv'
  <2> DEFINE b == calls[r].ballot
             d == IF failed'[b] = FailureLimit /\ ballot[b] = "ACTIVE"
                  THEN [calls[r] EXCEPT !.at = "last"] ELSE Idle
  <2>1. b \in BallotIds /\ ballot[b] # "NONE"
    BY <1>9, <1>0 DEF wrongCount, Remembers
  <2>2. failed' \in [BallotIds -> 0 .. FailureLimit]
    BY <1>9, <1>0, <2>1 DEF wrongCount, TablesTyped
  <2>3. /\ d \in Call /\ d.at \in {"last", "idle"} /\ d.at \notin Desk
        /\ d.at = "last" => d.ballot = b
    BY <1>0, <1>a DEF Call, Idle, Voter, Desk
  <2>4. Go(r, d) /\ UNCHANGED <<meeting, proposal, token, on, ballot, holder, votes>>
    BY <1>9 DEF wrongCount
  <2> HIDE DEF d
  <2>5. calls'[r] = d
    BY <2>3, <2>4, CallStep
  <2>6. Remembers(r)' /\ DeskKnows(r)'
    BY <2>1, <2>3, <2>4, <2>5 DEF Remembers, DeskKnows
  <2> QED
    BY <2>2, <2>3, <2>4, <2>6, <1>0, CallsOnly DEF TablesTyped
<1> QED
  BY <1>1, <1>2, <1>3, <1>4, <1>5, <1>6, <1>7, <1>8, <1>9

-----------------------------------------------------------------------------
(* The steps of the desk on the tables.                                    *)

LEMMA IdleCall ==
    /\ Idle \in Call /\ Idle.at = "idle" /\ "idle" \notin Desk
    /\ \A r \in Requests : calls'[r] = Idle => Remembers(r)' /\ DeskKnows(r)'
BY SessionAssumption DEF Idle, Call, Flow, VotingOpen, Desk, Remembers, DeskKnows

LEMMA Facts ==
    ASSUME Inv
    PROVE  /\ TypeOK /\ TablesTyped /\ TablesAgree /\ TokensFollow
           /\ \A r \in Requests : calls[r] \in Call /\ Remembers(r) /\ DeskKnows(r)
BY DEF Inv, SessionInv, TypeOK, TablesTyped, TablesAgree, CallsMatch

LEMMA OpenNextHolds ==
    ASSUME Inv, NEW r \in Requests, openNext(r)
    PROVE  Inv'
<1> USE Facts
<1> PICK p \in calls[r].todo :
            /\ calls[r].at = "opening"
            /\ proposal[p] = "DRAFT"
            /\ proposal' = [proposal EXCEPT ![p] = "VOTING_OPEN"]
            /\ token' = [k \in Tokens |-> IF k[1] = p THEN "ACTIVE" ELSE token[k]]
            /\ Go(r, [calls[r] EXCEPT !.todo = @ \ {p}])
            /\ UNCHANGED <<meeting, on, ballotVars, votes>>
  BY DEF openNext
<1> DEFINE d == [calls[r] EXCEPT !.todo = @ \ {p}]
<1>1. p \in Proposals /\ d \in Call /\ d.at = "opening" /\ calls[r].at \in Desk
  BY DEF Call, Desk
<1>2. UNCHANGED <<meeting, on, ballot, holder, failed, votes>> /\ Go(r, d)
  BY DEF ballotVars
<1> HIDE DEF d
<1>3. \A k \in Tokens : k[1] = p => token[k] = "NONE"
  BY DEF TokensFollow
<1>4. TablesTyped'
  BY <1>1, <1>2 DEF TablesTyped
<1>5. NothingComesBack
  <2>1. \A k \in Tokens : token[k] # "NONE" => token'[k] = token[k]
    BY <1>3
  <2>2. \A q \in Proposals : proposal[q] # "DRAFT" => proposal'[q] = proposal[q]
    BY DEF TablesTyped
  <2> QED
    BY <2>1, <2>2, <1>2 DEF NothingComesBack
<1>6. TokensFollow'
  BY <1>1, <1>2, TokenParts DEF TokensFollow, TablesTyped
<1>7. calls' \in [Requests -> Call] /\ calls'[r] = d
  BY <1>1, <1>2, CallStep
<1>8. TypeOK'
  BY <1>4, <1>7 DEF TypeOK, TablesTyped
<1>9. TablesAgree'
  BY <1>2, <1>5, <1>8, TablesHold DEF TablesAgree
<1>10. Remembers(r)' /\ DeskKnows(r)'
  BY <1>1, <1>7 DEF Remembers, DeskKnows
<1> QED
  BY <1>1, <1>2, <1>4, <1>5, <1>6, <1>9, <1>10, CallOnTables

LEMMA IssueNextHolds ==
    ASSUME Inv, NEW r \in Requests, issueNext(r)
    PROVE  Inv'
<1> USE Facts
<1> DEFINE Group(k) == {j \in calls[r].tokens : Recipient[j[2]] = Recipient[k[2]]}
<1> PICK k \in calls[r].tokens, b \in BallotIds :
            /\ calls[r].at = "issuing"
            /\ IsNext(b)
            /\ ballot' = [ballot EXCEPT ![b] = "ACTIVE"]
            /\ holder' = [holder EXCEPT ![b] = Recipient[k[2]]]
            /\ on' = [j \in Tokens |-> IF j \in Group(k) /\ on[j] = 0 THEN b ELSE on[j]]
            /\ Go(r, [calls[r] EXCEPT !.tokens = @ \ Group(k)])
            /\ UNCHANGED <<meeting, proposal, token, failed, votes>>
  BY DEF issueNext
<1> DEFINE group == Group(k)
           d == [calls[r] EXCEPT !.tokens = @ \ group]
<1>1. /\ k \in Tokens /\ d \in Call /\ d.at = "issuing" /\ calls[r].at \in Desk
      /\ d.tokens = calls[r].tokens \ group /\ Go(r, d)
  BY DEF Call, Desk
<1>2. ballot[b] = "NONE" /\ b # 0 /\ b \in 0 .. MaxBallots
  BY DEF IsNext, Unissued, BallotIds
<1>3. group \subseteq calls[r].tokens /\ \A j \in group : Recipient[j[2]] = Recipient[k[2]]
  OBVIOUS
<1>a. on' = [j \in Tokens |-> IF j \in group /\ on[j] = 0 THEN b ELSE on[j]]
  OBVIOUS
<1> HIDE DEF d, group
<1>b. Recipient[k[2]] \in Recipients
  BY <1>1, TokenParts, SessionAssumption
<1>4. TablesTyped'
  BY <1>2, <1>a, <1>b DEF TablesTyped
<1>5. NothingComesBack
  BY <1>2, <1>a DEF NothingComesBack, TablesTyped
<1>6. TokensFollow'
  <2>1. \A j \in group : token[j] # "NONE"
    BY <1>3 DEF Remembers
  <2> QED
    BY <2>1, <1>a DEF TokensFollow
<1>7. calls' \in [Requests -> Call] /\ calls'[r] = d
  BY <1>1, CallStep
<1>8. TypeOK'
  BY <1>4, <1>7 DEF TypeOK, TablesTyped
<1>9. TablesAgree'
  <2>1. \A j \in Tokens : on'[j] # on[j] =>
            ballot'[on'[j]] # "NONE" /\ holder'[on'[j]] = Recipient[j[2]]
    BY <1>3, <1>a DEF TablesTyped
  <2> QED
    BY <2>1, <1>5, <1>8, TablesHold DEF TablesAgree
<1>10. Remembers(r)'
  BY <1>1, <1>7, <1>3 DEF Remembers
<1>11. DeskKnows(r)'
  <2> SUFFICES ASSUME NEW j \in Tokens, token[j] = "ACTIVE", on'[j] = 0,
                      Recipient[j[2]] \in Addressed
               PROVE  j \in calls[r].tokens \ group
    BY <1>1, <1>7 DEF DeskKnows, TokensToIssue
  <2>1. on[j] = 0 /\ j \notin group
    BY <1>2, <1>a
  <2> QED
    BY <2>1 DEF DeskKnows, TokensToIssue
<1> QED
  BY <1>1, <1>4, <1>5, <1>6, <1>9, <1>10, <1>11, CallOnTables

\* What closing a proposal does to the tables.
LEMMA CloseTables ==
    ASSUME Inv, NEW p \in Proposals, closeVoting(p)
    PROVE  TablesTyped' /\ NothingComesBack /\ TokensFollow'
<1> USE Facts
<1>1. /\ proposal[p] = "VOTING_OPEN"
      /\ proposal' = [proposal EXCEPT ![p] = "DECIDED"]
      /\ token' = [k \in Tokens |->
            IF k[1] = p /\ token[k] = "ACTIVE" THEN "EXPIRED" ELSE token[k]]
      /\ UNCHANGED <<meeting, on, ballot, holder, failed, votes>>
  BY DEF closeVoting, Expire, ballotVars
<1>2. TablesTyped'
  BY <1>1 DEF TablesTyped
<1>3. NothingComesBack
  BY <1>1 DEF NothingComesBack, TablesTyped
<1>4. TokensFollow'
  BY <1>1, TokenParts DEF TokensFollow, TablesTyped
<1> QED
  BY <1>2, <1>3, <1>4

LEMMA CloseNextHolds ==
    ASSUME Inv, NEW r \in Requests, closeNext(r)
    PROVE  Inv'
<1> USE Facts
<1> PICK p \in calls[r].todo :
            /\ calls[r].at = "closing"
            /\ closeVoting(p)
            /\ Go(r, [calls[r] EXCEPT !.todo = @ \ {p}])
  BY DEF closeNext
<1> DEFINE d == [calls[r] EXCEPT !.todo = @ \ {p}]
<1>1. /\ p \in Proposals /\ d \in Call /\ d.at = "closing" /\ calls[r].at \in Desk
      /\ d.forward = calls[r].forward /\ d.to = calls[r].to
      /\ d.todo = calls[r].todo \ {p} /\ Go(r, d)
  BY DEF Call, Desk
<1> HIDE DEF d
<1>2. TablesTyped' /\ NothingComesBack /\ TokensFollow'
  BY <1>1, CloseTables
<1>3. calls' \in [Requests -> Call] /\ calls'[r] = d
  BY <1>1, CallStep
<1>4. TypeOK'
  BY <1>2, <1>3 DEF TypeOK, TablesTyped
<1>5. proposal' = [proposal EXCEPT ![p] = "DECIDED"] /\ on' = on /\ votes' = votes
  BY DEF closeVoting
<1>6. TablesAgree'
  BY <1>2, <1>4, <1>5, TablesHold DEF TablesAgree
<1>7. Remembers(r)' /\ DeskKnows(r)'
  BY <1>1, <1>3, <1>5 DEF Remembers, DeskKnows, Closes, TablesTyped
<1> QED
  BY <1>1, <1>2, <1>6, <1>7, CallOnTables

LEMMA CloseOneHolds ==
    ASSUME Inv, NEW p \in Proposals, closeOne(p)
    PROVE  Inv'
<1> USE Facts
<1>1. DeskFree /\ closeVoting(p) /\ calls' = calls
  BY DEF closeOne
<1>2. TablesTyped' /\ NothingComesBack /\ TokensFollow'
  BY <1>1, CloseTables
<1>3. TypeOK'
  BY <1>1, <1>2 DEF TypeOK, TablesTyped
<1>4. TablesAgree'
  BY <1>1, <1>2, <1>3, TablesHold DEF TablesAgree, closeVoting
<1>5. CallsMatch'
  BY <1>1, <1>2, RememberedStays, KnownStays DEF CallsMatch, DeskFree
<1>6. OneAtDesk'
  BY <1>1 DEF Inv, OneAtDesk
<1> QED
  BY <1>2, <1>3, <1>4, <1>5, <1>6 DEF Inv, SessionInv, TablesAgree

LEMMA ReissueHolds ==
    ASSUME Inv, NEW r \in Requests, reissueCommit(r)
    PROVE  Inv'
<1> USE Facts
<1> DEFINE old == calls[r].ballot
           ts  == calls[r].tokens
<1> PICK b \in BallotIds :
            /\ calls[r].at = "reissue"
            /\ IsNext(b)
            /\ ballot' = [ballot EXCEPT ![b] = "ACTIVE", ![old] = "SUPERSEDED"]
            /\ holder' = [holder EXCEPT ![b] = holder[old]]
            /\ on' = [k \in Tokens |-> IF k \in ts THEN b ELSE on[k]]
            /\ Go(r, Idle)
            /\ UNCHANGED <<meeting, proposal, token, failed, votes>>
  BY DEF reissueCommit
<1>1. ballot[b] = "NONE" /\ b # 0 /\ b \in 0 .. MaxBallots
  BY DEF IsNext, Unissued, BallotIds
<1>2. /\ old \in BallotIds /\ ballot[old] # "NONE" /\ old # b
      /\ ts \subseteq Tokens
      /\ \A k \in ts : token[k] # "NONE" /\ Recipient[k[2]] = holder[old]
  BY <1>1 DEF Remembers, Call
<1> HIDE DEF old, ts
<1>3. TablesTyped'
  BY <1>1, <1>2 DEF TablesTyped
<1>4. NothingComesBack
  BY <1>1, <1>2 DEF NothingComesBack, TablesTyped
<1>5. TokensFollow'
  BY <1>2 DEF TokensFollow
<1>6. calls' \in [Requests -> Call] /\ calls'[r] = Idle
  BY IdleCall, CallStep
<1>7. TypeOK'
  BY <1>3, <1>6 DEF TypeOK, TablesTyped
<1>8. TablesAgree'
  <2>1. \A k \in Tokens : on'[k] # on[k] =>
            ballot'[on'[k]] # "NONE" /\ holder'[on'[k]] = Recipient[k[2]]
    BY <1>2 DEF TablesTyped
  <2> QED
    BY <2>1, <1>4, <1>7, TablesHold DEF TablesAgree
<1>9. calls[r].at \in Desk
  BY DEF Desk
<1> QED
  BY <1>3, <1>4, <1>5, <1>6, <1>8, <1>9, IdleCall, CallOnTables

\* Revoked by an official or after too many wrong codes: by its id, whatever
\* the ballot has become meanwhile.
LEMMA RevokesHold ==
    ASSUME Inv, NEW r \in Requests, autoRevoke(r) \/ revokeCommit(r)
    PROVE  Inv'
<1> USE Facts
<1> DEFINE b == calls[r].ballot
<1>1. b \in BallotIds /\ ballot[b] # "NONE"
  BY DEF autoRevoke, revokeCommit, Remembers
<1>2. /\ ballot' = [ballot EXCEPT ![b] = "REVOKED"]
      /\ Go(r, Idle)
      /\ UNCHANGED <<meeting, proposal, token, on, holder, failed, votes>>
  BY DEF autoRevoke, revokeCommit
<1>3. TablesTyped'
  BY <1>1, <1>2 DEF TablesTyped
<1>4. NothingComesBack
  BY <1>1, <1>2 DEF NothingComesBack, TablesTyped
<1>5. TokensFollow'
  BY <1>2 DEF TokensFollow
<1>6. calls' \in [Requests -> Call] /\ calls'[r] = Idle
  BY <1>2, IdleCall, CallStep
<1>7. TypeOK'
  BY <1>3, <1>6 DEF TypeOK, TablesTyped
<1>8. TablesAgree'
  BY <1>2, <1>4, <1>7, TablesHold DEF TablesAgree
<1> QED
  BY <1>2, <1>3, <1>4, <1>5, <1>6, <1>8, IdleCall, CallOnTables

LEMMA HandHolds ==
    ASSUME Inv, NEW r \in Requests, handCommit(r)
    PROVE  Inv'
<1> USE Facts
<1>1. /\ votes' = votes \cup {[token |-> k, ballot |-> 0] : k \in calls[r].tokens}
      /\ Go(r, Idle) /\ calls[r].at \in Desk
      /\ UNCHANGED <<meeting, proposal, token, on, ballot, holder, failed>>
  BY DEF handCommit, ballotVars, Desk
<1>2. calls[r].tokens \subseteq Tokens /\ 0 \in 0 .. MaxBallots
  BY SessionAssumption DEF Call
<1>3. TablesTyped'
  BY <1>1, <1>2 DEF TablesTyped
<1>4. NothingComesBack
  BY <1>1 DEF NothingComesBack
<1>5. TokensFollow'
  BY <1>1 DEF TokensFollow
<1>6. calls' \in [Requests -> Call] /\ calls'[r] = Idle
  BY <1>1, IdleCall, CallStep
<1>7. TypeOK'
  BY <1>3, <1>6 DEF TypeOK, TablesTyped
<1>8. TablesAgree'
  <2>1. \A v \in votes' : v.ballot # 0 => v \in votes
    BY <1>1
  <2> QED
    BY <1>1, <2>1, <1>4, <1>7, TablesHold DEF TablesAgree
<1> QED
  BY <1>1, <1>3, <1>4, <1>5, <1>6, <1>8, IdleCall, CallOnTables

\* The voter's claim: all that can be voted on the ballot is voted, and the
\* ballot had no votes before.
LEMMA SubmitHolds ==
    ASSUME Inv, NEW r \in Requests, submitCommit(r)
    PROVE  Inv'
<1> USE Facts
<1> DEFINE b == calls[r].ballot
           ts == calls[r].tokens
           new == {[token |-> k, ballot |-> b] : k \in ts}
<1>1. /\ calls[r].at = "submit" /\ ballot[b] = "ACTIVE"
      /\ \A k \in ts : ~HasVoted(k)
      /\ ballot' = [ballot EXCEPT ![b] = "USED"]
      /\ votes' = votes \cup new
      /\ token' = [k \in Tokens |-> IF k \in ts THEN "USED" ELSE token[k]]
      /\ Go(r, Idle)
      /\ UNCHANGED <<meeting, proposal, on, holder, failed>>
  BY DEF submitCommit, Claimed
<1>2. /\ b \in BallotIds /\ b # 0 /\ b \in 0 .. MaxBallots /\ ts \subseteq Tokens
      /\ \A k \in ts : token[k] # "NONE"
      /\ VotableOn(b) \subseteq ts
  BY <1>1 DEF Remembers, Call, BallotIds
<1> HIDE DEF b, ts
<1>3. TablesTyped'
  BY <1>1, <1>2 DEF TablesTyped
<1>4. NothingComesBack
  BY <1>1, <1>2 DEF NothingComesBack, TablesTyped
<1>5. TokensFollow'
  BY <1>1, <1>2 DEF TokensFollow
<1>6. \A c \in BallotIds : c # b => VotesOf(c)' = VotesOf(c)
  BY <1>1 DEF VotesOf
<1>7. VotesOf(b) = {}
  BY <1>1, <1>2 DEF TablesAgree, VotedBallotIsSpent
<1>8. VotedBallotIsSpent'
  BY <1>1, <1>2, <1>6 DEF TablesAgree, VotedBallotIsSpent, TablesTyped
<1>9. VotedTokenIsUsed'
  <2> SUFFICES ASSUME NEW v \in votes', v.ballot # 0 PROVE token'[v.token] = "USED"
    BY DEF VotedTokenIsUsed
  <2>1. CASE v \in votes
    BY <2>1, <1>1 DEF TablesAgree, VotedTokenIsUsed, TablesTyped
  <2>2. CASE v \in new
    BY <2>2, <1>1, <1>2
  <2> QED
    BY <2>1, <2>2, <1>1
<1>10. TokenWithItsHolder'
  BY <1>1, <1>2 DEF TablesAgree, TokenWithItsHolder, TablesTyped
<1>11. OneVotePerToken'
  <2> SUFFICES ASSUME NEW v \in votes', NEW w \in votes', v.token = w.token,
                      v.ballot # 0, w.ballot # 0
               PROVE  v = w
    BY DEF OneVotePerToken
  <2>1. CASE v \in votes /\ w \in votes
    BY <2>1 DEF TablesAgree, OneVotePerToken
  <2>2. CASE v \in new /\ w \in new
    BY <2>2
  <2>3. CASE v \in votes /\ w \in new
    BY <2>3, <1>1 DEF HasVoted
  <2>4. CASE v \in new /\ w \in votes
    BY <2>4, <1>1 DEF HasVoted
  <2> QED
    BY <2>1, <2>2, <2>3, <2>4, <1>1
<1>12. NothingLeftOnSpent'
  <2> SUFFICES ASSUME NEW c \in BallotIds, VotesOf(c)' # {}
               PROVE  VotableOn(c)' = {}
    BY DEF NothingLeftOnSpent
  <2>1. CASE c = b
    <3>1. ballot[c] # "NONE" /\ VotableOn(c) \subseteq ts
      BY <2>1, <1>1, <1>2
    <3>2. VotableOn(c)' \subseteq ts
      BY <3>1, <1>4, VotableShrinks
    <3>3. \A k \in ts : token'[k] = "USED"
      BY <1>1, <1>2
    <3> QED
      BY <3>2, <3>3 DEF VotableOn, Votable
  <2>2. CASE c # b
    <3>1. VotableOn(c) = {} /\ ballot[c] # "NONE"
      BY <2>2, <1>6 DEF TablesAgree, NothingLeftOnSpent, VotedBallotIsSpent
    <3> QED
      BY <3>1, <1>4, VotableShrinks
  <2> QED
    BY <2>1, <2>2
<1>13. TablesAgree'
  BY <1>8, <1>9, <1>10, <1>11, <1>12 DEF TablesAgree
<1>14. calls'[r] = Idle
  BY <1>1, IdleCall, CallStep
<1>15. \A k \in Tokens : token'[k] = "ACTIVE" => token[k] = "ACTIVE"
  BY <1>1
<1> QED
  BY <1>1, <1>3, <1>4, <1>5, <1>13, <1>14, <1>15, IdleCall, CallOnTables


-----------------------------------------------------------------------------
LEMMA StutterHolds ==
    ASSUME Inv, UNCHANGED vars
    PROVE  Inv'
<1>1. SessionInv'
  BY DEF Inv, SessionInv, vars, ballotVars, TypeOK, VotedBallotIsSpent,
         VotedTokenIsUsed, TokenWithItsHolder, OneVotePerToken,
         NothingLeftOnSpent, VotesOf, VotableOn, Votable, HasVoted
<1>2. NothingComesBack /\ calls' = calls /\ proposal' = proposal /\ on' = on
      /\ token' = token
  BY DEF vars, ballotVars, NothingComesBack
<1>3. CallsMatch'
  BY <1>2, RememberedStays, KnownStays DEF CallsMatch
<1>4. OneAtDesk' /\ TokensFollow'
  BY <1>2 DEF Inv, OneAtDesk, TokensFollow
<1> QED
  BY <1>1, <1>3, <1>4 DEF Inv

LEMMA InvStep == Inv /\ [Next]_vars => Inv'
<1> SUFFICES ASSUME Inv, [Next]_vars PROVE Inv'
  OBVIOUS
<1>1. ASSUME NEW r \in Requests,
             \/ openNext(r) \/ issueNext(r) \/ closeNext(r)
             \/ handCommit(r) \/ submitCommit(r)
             \/ autoRevoke(r) \/ revokeCommit(r) \/ reissueCommit(r)
      PROVE  Inv'
  BY <1>1, OpenNextHolds, IssueNextHolds, CloseNextHolds, HandHolds,
     SubmitHolds, RevokesHold, ReissueHolds
<1>2. ASSUME NEW p \in Proposals, closeOne(p) PROVE Inv'
  BY <1>2, CloseOneHolds
<1>3. CASE UNCHANGED vars
  BY <1>3, StutterHolds
<1> QED
  BY <1>1, <1>2, <1>3, ReadsHold DEF Next

LEMMA InvAlways == Spec => []Inv
<1> QED
  BY InvInit, InvStep, PTL DEF Spec

\* However the voters' calls overlap with each other and with opening,
\* closing, reissue, revocation and crashes: a ballot that voted is spent and
\* left nothing to vote, its tokens stay USED and brought one vote each, and
\* every token is on a ballot of the one who may vote for its owner.
THEOREM BallotsHold == Spec => []SessionInv
<1>1. Inv => SessionInv
  BY DEF Inv
<1> QED
  BY <1>1, InvAlways, PTL

-----------------------------------------------------------------------------
(* What a step may never do.                                               *)

\* Only a voter's claim adds votes by a ballot.
LEMMA VotesOfOthersStay ==
    ASSUME Inv, Next, NEW b \in BallotIds, VotesOf(b)' # VotesOf(b)
    PROVE  \E r \in Requests : submitCommit(r) /\ calls[r].ballot = b
<1>1. PICK r \in Requests :
            \/ submitCommit(r)
            \/ handCommit(r)
            \/ votes' = votes
  <2>1. (\E p \in Proposals : closeOne(p)) => votes' = votes
    BY DEF closeOne, closeVoting
  <2>2. ASSUME NEW r \in Requests,
               \/ openNext(r) \/ issueRead(r) \/ issueNext(r) \/ move(r)
               \/ closeNext(r) \/ finish(r) \/ abort(r)
               \/ wrongCount(r) \/ autoRevoke(r) \/ revokeCommit(r) \/ reissueCommit(r)
               \/ \E to \in Flow, open \in BOOLEAN : advanceRead(r, to, open)
               \/ \E k \in Tokens : handRead(r, k)
               \/ \E c \in BallotIds :
                    \/ submitRead(r, c) \/ wrongRead(r, c)
                    \/ revokeRead(r, c) \/ reissueRead(r, c)
        PROVE  votes' = votes
    BY <2>2 DEF openNext, issueRead, issueNext, move, closeNext, closeVoting, finish,
            abort, wrongCount, autoRevoke, revokeCommit, reissueCommit, advanceRead,
            handRead, submitRead, wrongRead, revokeRead, reissueRead
  <2>3. votes' # votes
    BY DEF VotesOf
  <2> QED
    BY <2>1, <2>2, <2>3 DEF Next
<1>2. ~handCommit(r) /\ votes' # votes
  BY DEF handCommit, VotesOf, BallotIds
<1>3. submitCommit(r)
  BY <1>1, <1>2
<1>4. calls[r].ballot = b
  BY <1>3 DEF submitCommit, VotesOf
<1> QED
  BY <1>3, <1>4

\* One revoked, replaced or spent ballot records nothing, and votes are added
\* in the one step that spends the ballot (submitBallot).
THEOREM DeadBallotsAreSilent == Spec => DeadBallotRecordsNothing
<1> DEFINE Silent == \A b \in BallotIds :
              VotesOf(b)' # VotesOf(b) =>
                (VotesOf(b) = {} /\ ballot[b] = "ACTIVE" /\ ballot'[b] = "USED")
<1>1. Inv /\ [Next]_vars => [Silent]_vars
  <2> SUFFICES ASSUME Inv, Next, NEW b \in BallotIds, VotesOf(b)' # VotesOf(b)
               PROVE  VotesOf(b) = {} /\ ballot[b] = "ACTIVE" /\ ballot'[b] = "USED"
    OBVIOUS
  <2>1. PICK r \in Requests : submitCommit(r) /\ calls[r].ballot = b
    BY VotesOfOthersStay
  <2>2. ballot[b] = "ACTIVE" /\ ballot' = [ballot EXCEPT ![b] = "USED"]
    BY <2>1 DEF submitCommit, Claimed
  <2>3. VotesOf(b) = {}
    BY <2>2, Facts DEF TablesAgree, VotedBallotIsSpent
  <2> QED
    BY <2>2, <2>3, Facts DEF TablesTyped
<1> QED
  BY <1>1, InvAlways, PTL DEF Spec, DeadBallotRecordsNothing

\* A call that leaves off issuing has nothing left on its list.
LEMMA IssuingEnds ==
    ASSUME Inv, Next, NEW r \in Requests,
           calls[r].at = "issuing", calls'[r].at = "closing"
    PROVE  calls[r].tokens = {} /\ UNCHANGED <<token, on>>
<1>1. calls \in [Requests -> Call] /\ OneAtDesk
  BY DEF Inv, SessionInv, TypeOK
<1>2. calls' # calls /\ ~DeskFree
  BY DEF DeskFree, Desk
<1>3. PICK q \in Requests :
        \/ openNext(q) \/ issueRead(q) \/ issueNext(q) \/ move(q)
        \/ closeNext(q) \/ finish(q) \/ abort(q) \/ handCommit(q)
        \/ submitCommit(q) \/ wrongCount(q) \/ autoRevoke(q)
        \/ revokeCommit(q) \/ reissueCommit(q)
        \/ \E b \in BallotIds : submitRead(q, b) \/ wrongRead(q, b)
  BY <1>2 DEF Next, advanceRead, handRead, revokeRead, reissueRead, closeOne
<1>4. ASSUME NEW c, Go(q, c) PROVE q = r /\ c = calls'[r]
  BY <1>1, <1>4 DEF Go
<1>5. ASSUME NEW c, Begin(q, c) PROVE FALSE
  BY <1>1, <1>5 DEF Begin
<1>6. move(q)
  <2>1. ~openNext(q)
    BY <1>4 DEF openNext
  <2>2. ~issueNext(q)
    <3>1. SUFFICES ASSUME NEW k \in calls[q].tokens, NEW d,
                          Go(q, [calls[q] EXCEPT !.tokens = d]) PROVE FALSE
      BY DEF issueNext
    <3>2. calls[q] \in Call
      BY <1>1
    <3> QED
      BY <3>1, <3>2, <1>4 DEF Call
  <2>3. ~issueRead(q) /\ ~closeNext(q)
    BY <1>4 DEF issueRead, closeNext
  <2>4. ~finish(q) /\ ~abort(q) /\ ~handCommit(q) /\ ~submitCommit(q)
        /\ ~autoRevoke(q) /\ ~revokeCommit(q) /\ ~reissueCommit(q)
    BY <1>4, IdleCall DEF finish, abort, handCommit, submitCommit,
       autoRevoke, revokeCommit, reissueCommit, Idle
  <2>5. ~wrongCount(q)
    BY <1>4 DEF wrongCount
  <2>6. ~\E b \in BallotIds : submitRead(q, b) \/ wrongRead(q, b)
    BY <1>5 DEF submitRead, wrongRead
  <2> QED
    BY <1>3, <2>1, <2>2, <2>3, <2>4, <2>5, <2>6
<1>7. q = r
  BY <1>6, <1>4 DEF move
<1> QED
  BY <1>6, <1>7 DEF move

\* The voting opens, and everyone with an address has his open tokens on a
\* ballot, for any number of voters, proposals and broken attempts before
\* (issueMeetingBallots).
THEOREM OpeningIssuesAll == Spec => OpenedMeansIssued
<1> DEFINE Issued == \A r \in Requests :
              (calls[r].at = "issuing" /\ calls'[r].at = "closing") =>
                \A k \in Tokens :
                    (token[k] = "ACTIVE" /\ Recipient[k[2]] \in Addressed)
                        => on[k] # 0
<1>1. Inv /\ [Next]_vars => [Issued]_vars
  <2> SUFFICES ASSUME Inv, Next, NEW r \in Requests,
                      calls[r].at = "issuing", calls'[r].at = "closing",
                      NEW k \in Tokens, token[k] = "ACTIVE",
                      Recipient[k[2]] \in Addressed, on[k] = 0
               PROVE  FALSE
    OBVIOUS
  <2>1. calls[r].tokens = {}
    BY IssuingEnds
  <2>2. k \in calls[r].tokens
    BY Facts DEF DeskKnows, TokensToIssue
  <2> QED
    BY <2>1, <2>2
<1> QED
  BY <1>1, InvAlways, PTL DEF Spec, OpenedMeansIssued

\* A call that moved the meeting past the voting leaves no proposal open when
\* it ends, however far it moved and whoever voted meanwhile
\* (advanceMeetingStatus).
THEOREM LeavingClosesAll == Spec => ClosedWithSession
<1> DEFINE Closed == \A r \in Requests :
              (/\ calls[r].at = "closing" /\ calls'[r].at = "idle"
               /\ calls[r].todo = {} /\ calls[r].forward /\ calls[r].to > VotingOpen)
                => \A p \in Proposals : proposal[p] # "VOTING_OPEN"
<1>1. Inv /\ [Next]_vars => [Closed]_vars
  BY Facts DEF DeskKnows, Closes
<1> QED
  BY <1>1, InvAlways, PTL DEF Spec, ClosedWithSession
=============================================================================
