------------------------------- MODULE OAuth --------------------------------
(***************************************************************************)
(* The connections of one user's assistants and their tokens:              *)
(* src/src/server/mcp/oauth/token.ts, authorize.ts, cleanup.ts,            *)
(* src/src/server/mcp/auth.ts, src/src/server/services/mcpConnections.ts.  *)
(*                                                                         *)
(* A request reads, checks, and then claims what it read with a            *)
(* conditional updateMany: Read and Commit are two steps, everybody may    *)
(* step in between, and a request may die or be refused at any time        *)
(* (abort).  An access token and the refresh token issued with it are a    *)
(* pair.  Clients, redirect addresses, PKCE and scopes are left out: every *)
(* request here presents the right ones; with wrong ones nothing happens.  *)
(* Time is the steps "expires", "ends" and "cleanup".                      *)
(***************************************************************************)
EXTENDS Naturals

CONSTANTS
    Requests,        \* concurrent server requests
    Codes,           \* the authorization codes the user may grant
    NoCode,
    MaxConnections,  \* bound
    MaxPairs         \* bound

Connections == 1 .. MaxConnections
Pairs == 1 .. MaxPairs

ASSUME OAuthAssumption ==
    /\ NoCode \notin Codes
    /\ MaxConnections \in Nat
    /\ MaxPairs \in Nat

VARIABLES
    active,      \* User.active
    code,        \* what McpOAuthCode.usedAt and expiresAt say, "GONE": deleted
    made,        \* McpOAuthCode.connectionId, 0 for null
    connection,  \* what McpConnection.revokedAt and expiresAt say
    source,      \* the code a connection was made from (for the properties)
    connected,   \* number of connections made
    pair,        \* McpOAuthToken.connectionId, 0: not issued or deleted
    rotated,     \* what rotatedAt of the refresh token says
    revoked,     \* the refresh tokens with revokedAt
    ended,       \* the access tokens revoked or expired
    issued,      \* number of pairs issued
    replayed,    \* codes whose reuse was answered (for the properties)
    calls        \* the requests in progress

codeVars == <<code, made>>
connectionVars == <<connection, source, connected>>
pairVars == <<pair, rotated, revoked, ended, issued>>
vars == <<active, codeVars, connectionVars, pairVars, replayed, calls>>

Idle == [at |-> "idle", code |-> NoCode, token |-> 0, connection |-> 0, known |-> {}]

Call == [at: {"idle", "exchange", "refresh", "revoke"},
         code: Codes \cup {NoCode},       \* to exchange, or presented again
         token: 0 .. MaxPairs,            \* refresh token to rotate
         connection: 0 .. MaxConnections, \* to revoke
         known: SUBSET Pairs]             \* its tokens, when that began

Init ==
    /\ active = TRUE
    /\ code = [c \in Codes |-> "NONE"]
    /\ made = [c \in Codes |-> 0]
    /\ connection = [n \in Connections |-> "NONE"]
    /\ source = [n \in Connections |-> NoCode]
    /\ connected = 0
    /\ pair = [p \in Pairs |-> 0]
    /\ rotated = [p \in Pairs |-> "no"]
    /\ revoked = {}
    /\ ended = {}
    /\ issued = 0
    /\ replayed = {}
    /\ calls = [r \in Requests |-> Idle]

TokensOf(n) == {p \in Pairs : pair[p] = n}

\* A request under way: to exchange code c, to rotate token p, to revoke
\* connection n because c was presented again (NoCode: for another reason).
Exchange(c) ==
    [at |-> "exchange", code |-> c, token |-> 0, connection |-> 0, known |-> {}]
Refresh(p) ==
    [at |-> "refresh", code |-> NoCode, token |-> p, connection |-> 0, known |-> {}]
Revoke(n, c) ==
    [at |-> "revoke", code |-> c, token |-> 0, connection |-> n,
     known |-> TokensOf(n)]

Begin(r, c) == calls[r].at = "idle" /\ calls' = [calls EXCEPT ![r] = c]
Done(r) == calls' = [calls EXCEPT ![r] = Idle]

\* A refresh token that can still be rotated.
Unspent(p) == pair[p] # 0 /\ rotated[p] = "no" /\ p \notin revoked

\* issueTokenPair.
issueTokenPair(n) ==
    /\ issued < MaxPairs
    /\ issued' = issued + 1
    /\ pair' = [pair EXCEPT ![issued + 1] = n]

-----------------------------------------------------------------------------
(* The code: granted on the consent screen, exchanged for a connection.    *)

approveAuthorization(c) ==
    /\ active
    /\ code[c] = "NONE"
    /\ code' = [code EXCEPT ![c] = "ISSUED"]
    /\ UNCHANGED <<active, made, connectionVars, pairVars, replayed, calls>>

codeExpires(c) ==
    /\ code[c] = "ISSUED"
    /\ code' = [code EXCEPT ![c] = "EXPIRED"]
    /\ UNCHANGED <<active, made, connectionVars, pairVars, replayed, calls>>

exchangeRead(r, c) ==
    /\ code[c] = "ISSUED"
    /\ active
    /\ Begin(r, Exchange(c))
    /\ UNCHANGED <<active, codeVars, connectionVars, pairVars, replayed>>

\* Mutant: what was read is not asked again.
ClaimedByRead(c) == code[c] # "GONE"

\* updateMany where usedAt is null counts one row.  It compares expiresAt
\* with the time of the read: an end in between is not seen.
Claimed(c) == code[c] \in {"ISSUED", "EXPIRED"}

\* The code is spent and linked to its connection in one transaction.
exchangeCommit(r) ==
    LET c == calls[r].code
        n == connected + 1
    IN  /\ calls[r].at = "exchange"
        /\ Claimed(c)
        /\ n <= MaxConnections
        /\ code' = [code EXCEPT ![c] = "USED"]
        /\ made' = [made EXCEPT ![c] = n]
        /\ connection' = [connection EXCEPT ![n] = "LIVE"]
        /\ source' = [source EXCEPT ![n] = c]
        /\ connected' = n
        /\ issueTokenPair(n)
        /\ Done(r)
        /\ UNCHANGED <<active, rotated, revoked, ended, replayed>>

\* A code that was used before: its connection is to be revoked.
replayRead(r, c) ==
    /\ code[c] = "USED"
    /\ made[c] # 0
    /\ Begin(r, Revoke(made[c], c))
    /\ UNCHANGED <<active, codeVars, connectionVars, pairVars, replayed>>

-----------------------------------------------------------------------------
(* The refresh token: rotated at every use.                                *)

refreshRead(r, p) ==
    /\ Unspent(p)
    /\ connection[pair[p]] = "LIVE"
    /\ active
    /\ Begin(r, Refresh(p))
    /\ UNCHANGED <<active, codeVars, connectionVars, pairVars, replayed>>

\* Mutant: rotated by id, whoever was faster.
UnrevokedStill(p) == pair[p] # 0 /\ p \notin revoked

\* updateMany where rotatedAt and revokedAt are null counts one row.
Rotatable(p) == Unspent(p)

refreshCommit(r) ==
    LET p == calls[r].token
    IN  /\ calls[r].at = "refresh"
        /\ Rotatable(p)
        /\ rotated' = [rotated EXCEPT ![p] = "lately"]
        /\ issueTokenPair(pair[p])
        /\ Done(r)
        /\ UNCHANGED <<active, codeVars, connectionVars, revoked, ended, replayed>>

\* An old refresh token.  Within the grace period it is only refused.
reuseRead(r, p) ==
    /\ pair[p] # 0
    /\ rotated[p] = "old"
    /\ Begin(r, Revoke(pair[p], NoCode))
    /\ UNCHANGED <<active, codeVars, connectionVars, pairVars, replayed>>

graceEnds(p) ==
    /\ rotated[p] = "lately"
    /\ rotated' = [rotated EXCEPT ![p] = "old"]
    /\ UNCHANGED <<active, codeVars, connectionVars, pair, revoked, ended,
                   issued, replayed, calls>>

-----------------------------------------------------------------------------
(* Revocation.                                                             *)

\* The client signs out with a refresh token of any age, or the user ends a
\* connection on his page.
revokeRead(r, n) ==
    /\ \/ \E p \in Pairs : pair[p] = n
       \/ connection[n] \in {"LIVE", "EXPIRED"}
    /\ Begin(r, Revoke(n, NoCode))
    /\ UNCHANGED <<active, codeVars, connectionVars, pairVars, replayed>>

\* The connection and then its tokens, in one transaction.  A pair that a
\* rotation commits while the second statement runs is not seen by it.
revokeConnectionAndTokens(r) ==
    LET n == calls[r].connection
    IN  \E unseen \in SUBSET (TokensOf(n) \ calls[r].known) :
            /\ calls[r].at = "revoke"
            /\ connection' = [connection EXCEPT ![n] = "REVOKED"]
            /\ revoked' = revoked \cup (TokensOf(n) \ unseen)
            /\ ended' = ended \cup (TokensOf(n) \ unseen)
            /\ replayed' = replayed \cup ({calls[r].code} \ {NoCode})
            /\ Done(r)
            /\ UNCHANGED <<active, codeVars, source, connected, pair, rotated, issued>>

\* An access token revoked by itself, or past its hour.
accessEnds(p) ==
    /\ pair[p] # 0
    /\ p \notin ended
    /\ ended' = ended \cup {p}
    /\ UNCHANGED <<active, codeVars, connectionVars, pair, rotated, revoked,
                   issued, replayed, calls>>

connectionExpires(n) ==
    /\ connection[n] = "LIVE"
    /\ connection' = [connection EXCEPT ![n] = "EXPIRED"]
    /\ UNCHANGED <<active, codeVars, source, connected, pairVars, replayed, calls>>

\* A request dies, or its claim counts no row.
abort(r) ==
    /\ calls[r].at # "idle"
    /\ Done(r)
    /\ UNCHANGED <<active, codeVars, connectionVars, pairVars, replayed>>

\* deactivateUser and activateUser: connections are not touched.
setActive(b) ==
    /\ active # b
    /\ active' = b
    /\ UNCHANGED <<codeVars, connectionVars, pairVars, replayed, calls>>

-----------------------------------------------------------------------------
(* runOAuthCleanup, a day later.                                           *)

cleanupCode(c) ==
    /\ code[c] \in {"USED", "EXPIRED"}
    /\ code' = [code EXCEPT ![c] = "GONE"]
    /\ made' = [made EXCEPT ![c] = 0]
    /\ UNCHANGED <<active, connectionVars, pairVars, replayed, calls>>

Over(n) == connection[n] \in {"EXPIRED", "REVOKED"}

cleanupTokens(n) ==
    /\ Over(n)
    /\ pair' = [p \in Pairs |-> IF pair[p] = n THEN 0 ELSE pair[p]]
    /\ UNCHANGED <<active, codeVars, connectionVars, rotated, revoked, ended,
                   issued, replayed, calls>>

Next ==
    \/ \E c \in Codes :
        \/ approveAuthorization(c) \/ codeExpires(c) \/ cleanupCode(c)
        \/ \E r \in Requests : exchangeRead(r, c) \/ replayRead(r, c)
    \/ \E p \in Pairs :
        \/ graceEnds(p) \/ accessEnds(p)
        \/ \E r \in Requests : refreshRead(r, p) \/ reuseRead(r, p)
    \/ \E n \in Connections :
        \/ connectionExpires(n) \/ cleanupTokens(n)
        \/ \E r \in Requests : revokeRead(r, n)
    \/ \E r \in Requests :
        \/ exchangeCommit(r) \/ refreshCommit(r)
        \/ revokeConnectionAndTokens(r) \/ abort(r)
    \/ \E b \in BOOLEAN : setActive(b)

Spec == Init /\ [][Next]_vars

-----------------------------------------------------------------------------
TypeOK ==
    /\ active \in BOOLEAN
    /\ code \in [Codes -> {"NONE", "ISSUED", "EXPIRED", "USED", "GONE"}]
    /\ made \in [Codes -> 0 .. MaxConnections]
    /\ connection \in [Connections -> {"NONE", "LIVE", "EXPIRED", "REVOKED"}]
    /\ source \in [Connections -> Codes \cup {NoCode}]
    /\ connected \in 0 .. MaxConnections
    /\ pair \in [Pairs -> 0 .. MaxConnections]
    /\ rotated \in [Pairs -> {"no", "lately", "old"}]
    /\ revoked \in SUBSET Pairs
    /\ ended \in SUBSET Pairs
    /\ issued \in 0 .. MaxPairs
    /\ replayed \in SUBSET Codes
    /\ calls \in [Requests -> Call]

\* A code makes one connection, however many exchanges overlap.
OneConnectionPerCode ==
    \A m, n \in Connections :
        (source[m] = source[n] /\ source[m] # NoCode) => m = n

\* Never two refresh tokens of a connection that can be rotated: whoever
\* comes second comes with a spent one.
OneUnspent ==
    \A p, q \in Pairs : (Unspent(p) /\ Unspent(q) /\ pair[p] = pair[q]) => p = q

\* A live connection is never without one.  (The client may not hold it: if
\* the answer of a rotation is lost, it has to connect again.)
LiveCanRefresh ==
    \A n \in Connections : connection[n] = "LIVE" =>
        \E p \in Pairs : pair[p] = n /\ Unspent(p)

\* The chain of refresh tokens is one chain, whole while the connection lives
\* (exchangeAuthorizationCode, refreshAccessToken, runOAuthCleanup).
OneChain == TypeOK /\ OneConnectionPerCode /\ OneUnspent /\ LiveCanRefresh

\* verifyOAuthAccessToken lets an access token in.
Opens(p) ==
    /\ pair[p] # 0
    /\ p \notin ended
    /\ connection[pair[p]] = "LIVE"
    /\ active

\* Once the reuse of a code was answered, no token that descends from the
\* code opens anything, nor ever will, also one issued while the answer was
\* under way (OAuth 2.1, 4.1.3; exchangeAuthorizationCode).
ReplayEndsAll ==
    \A n \in Connections :
        source[n] \in replayed =>
            (connection[n] = "REVOKED" /\ \A p \in TokensOf(n) : ~Opens(p))
=============================================================================
