---------------------------- MODULE OAuthProofs -----------------------------
(***************************************************************************)
(* Theorems about module OAuth, for every value of its constants.          *)
(***************************************************************************)
EXTENDS OAuth, TLAPS

\* Rows are numbered in the order they are made; a number not given yet
\* belongs to nothing.
Numbered ==
    /\ \A p \in Pairs :
        p > issued => (pair[p] = 0 /\ rotated[p] = "no" /\ p \notin revoked)
    /\ \A p \in Pairs : pair[p] <= connected
    /\ \A n \in Connections :
        /\ n > connected <=> connection[n] = "NONE"
        /\ n > connected => source[n] = NoCode

\* A code that made something is spent, and knows what it made.
CodesMatch ==
    /\ \A n \in Connections :
        source[n] # NoCode => code[source[n]] \in {"USED", "GONE"}
    /\ \A c \in Codes : made[c] # 0 => source[made[c]] = c
    /\ \A c \in replayed : code[c] \in {"USED", "GONE"}

\* What a call in progress remembers.
CallsMatch ==
    \A r \in Requests :
        /\ calls[r].at = "exchange" => calls[r].code \in Codes
        /\ calls[r].at = "refresh" => calls[r].token \in Pairs
        /\ calls[r].at = "revoke" =>
            /\ calls[r].connection \in 1 .. connected
            /\ calls[r].code # NoCode => source[calls[r].connection] = calls[r].code

\* The connections of answered codes are over.
ReplayedRevoked ==
    \A n \in Connections : source[n] \in replayed => connection[n] = "REVOKED"

\* The inductive invariant.
Inv ==
    /\ TypeOK /\ Numbered /\ CodesMatch /\ CallsMatch
    /\ OneConnectionPerCode /\ OneUnspent /\ LiveCanRefresh
    /\ ReplayedRevoked

-----------------------------------------------------------------------------
LEMMA InvInit == Init => Inv
<1> SUFFICES ASSUME Init PROVE Inv
  OBVIOUS
<1> USE OAuthAssumption
<1>1. TypeOK
  BY DEF Init, TypeOK, Connections, Pairs, Idle, Call
<1>2. Numbered /\ CodesMatch /\ CallsMatch
  BY DEF Init, Numbered, CodesMatch, CallsMatch, Connections, Pairs, Idle
<1>3. OneConnectionPerCode /\ OneUnspent /\ LiveCanRefresh /\ ReplayedRevoked
  BY DEF Init, OneConnectionPerCode, OneUnspent, Unspent, LiveCanRefresh,
         ReplayedRevoked, Connections, Pairs
<1> QED
  BY <1>1, <1>2, <1>3 DEF Inv

\* A step that changes only the calls, one of them to a well-formed call.
LEMMA OnlyCalls ==
    ASSUME Inv, NEW r \in Requests, NEW c \in Call,
           calls' = [calls EXCEPT ![r] = c],
           UNCHANGED <<active, codeVars, connectionVars, pairVars, replayed>>,
           c.at = "exchange" => c.code \in Codes,
           c.at = "refresh" => c.token \in Pairs,
           c.at = "revoke" =>
               (/\ c.connection \in 1 .. connected
                /\ c.code # NoCode => source[c.connection] = c.code)
    PROVE  Inv'
<1> USE DEF Inv, codeVars, connectionVars, pairVars
<1>1. TypeOK'
  BY DEF TypeOK
<1>2. (Numbered /\ CodesMatch /\ ReplayedRevoked)'
  BY DEF Numbered, CodesMatch, ReplayedRevoked
<1>3. CallsMatch'
  BY DEF CallsMatch, TypeOK
<1>4. (OneConnectionPerCode /\ OneUnspent /\ LiveCanRefresh)'
  BY DEF OneConnectionPerCode, OneUnspent, LiveCanRefresh, Unspent
<1> QED
  BY <1>1, <1>2, <1>3, <1>4

\* A request reads, and remembers what it will need.
LEMMA InvReads ==
    ASSUME Inv, NEW r \in Requests,
           \/ \E c \in Codes : exchangeRead(r, c) \/ replayRead(r, c)
           \/ \E p \in Pairs : refreshRead(r, p) \/ reuseRead(r, p)
           \/ \E n \in Connections : revokeRead(r, n)
           \/ abort(r)
    PROVE  Inv'
<1> USE OAuthAssumption
<1>1. TypeOK /\ Numbered /\ CodesMatch
  BY DEF Inv
<1>2. ASSUME NEW c \in Codes, exchangeRead(r, c) PROVE Inv'
  <2>1. Exchange(c) \in Call
    BY DEF Exchange, Call
  <2> QED
    BY <1>2, <2>1, OnlyCalls DEF exchangeRead, Begin, Exchange
<1>3. ASSUME NEW n \in 1 .. connected, NEW c \in Codes \cup {NoCode},
             c # NoCode => source[n] = c,
             Begin(r, Revoke(n, c)),
             UNCHANGED <<active, codeVars, connectionVars, pairVars, replayed>>
      PROVE  Inv'
  <2>1. n \in 0 .. MaxConnections
    BY <1>1 DEF TypeOK
  <2>2. TokensOf(n) \in SUBSET Pairs
    BY DEF TokensOf
  <2>3. Revoke(n, c) \in Call
    BY <2>1, <2>2 DEF Revoke, Call
  <2> QED
    BY <1>3, <2>3, OnlyCalls DEF Begin, Revoke
<1>4. ASSUME NEW c \in Codes, replayRead(r, c) PROVE Inv'
  <2>1. made[c] \in Connections /\ source[made[c]] = c
    BY <1>1, <1>4 DEF replayRead, CodesMatch, TypeOK, Connections
  <2>2. made[c] \in 1 .. connected
    BY <1>1, <2>1 DEF Numbered, TypeOK, Connections
  <2> QED
    BY <1>3, <1>4, <2>1, <2>2 DEF replayRead
<1>5. ASSUME NEW p \in Pairs, refreshRead(r, p) PROVE Inv'
  <2>1. Refresh(p) \in Call
    BY DEF Refresh, Call, Pairs
  <2> QED
    BY <1>5, <2>1, OnlyCalls DEF refreshRead, Begin, Refresh
<1>6. ASSUME NEW p \in Pairs, reuseRead(r, p) PROVE Inv'
  <2>1. pair[p] \in 1 .. connected
    BY <1>1, <1>6 DEF reuseRead, Numbered, TypeOK
  <2> QED
    BY <1>3, <1>6, <2>1 DEF reuseRead
<1>7. ASSUME NEW n \in Connections, revokeRead(r, n) PROVE Inv'
  <2>1. n \in 1 .. connected
    BY <1>1, <1>7 DEF revokeRead, Numbered, TypeOK, Connections
  <2> QED
    BY <1>3, <1>7, <2>1 DEF revokeRead
<1>8. ASSUME abort(r) PROVE Inv'
  <2>1. Idle \in Call
    BY DEF Idle, Call
  <2> QED
    BY <1>8, <2>1, OnlyCalls DEF abort, Done, Idle
<1> QED
  BY <1>2, <1>4, <1>5, <1>6, <1>7, <1>8

\* A code is granted, expires or is cleaned away.
LEMMA InvCodes ==
    ASSUME Inv, NEW c \in Codes,
           approveAuthorization(c) \/ codeExpires(c) \/ cleanupCode(c)
    PROVE  Inv'
<1> USE OAuthAssumption
<1> DEFINE Same == UNCHANGED <<active, connectionVars, pairVars, replayed, calls>>
<1>1. /\ Same
      /\ code' \in [Codes -> {"NONE", "ISSUED", "EXPIRED", "USED", "GONE"}]
      /\ made' \in [Codes -> 0 .. MaxConnections]
      /\ \A d \in Codes : code[d] \in {"USED", "GONE"} => code'[d] \in {"USED", "GONE"}
      /\ \A d \in Codes : made'[d] # 0 => made'[d] = made[d]
  BY DEF Inv, TypeOK, approveAuthorization, codeExpires, cleanupCode
<1> USE <1>1 DEF Inv, connectionVars, pairVars
<1>2. (TypeOK /\ Numbered /\ CallsMatch /\ ReplayedRevoked)'
  BY DEF TypeOK, Numbered, CallsMatch, ReplayedRevoked
<1>3. CodesMatch'
  BY DEF CodesMatch, TypeOK
<1>4. (OneConnectionPerCode /\ OneUnspent /\ LiveCanRefresh)'
  BY DEF OneConnectionPerCode, OneUnspent, LiveCanRefresh, Unspent
<1> QED
  BY <1>2, <1>3, <1>4

\* Time passes, tokens and connections expire and are cleaned away, the user
\* is deactivated and activated.
LEMMA InvTime ==
    ASSUME Inv,
           \/ \E p \in Pairs : graceEnds(p) \/ accessEnds(p)
           \/ \E n \in Connections : connectionExpires(n) \/ cleanupTokens(n)
           \/ \E b \in BOOLEAN : setActive(b)
    PROVE  Inv'
<1> USE OAuthAssumption DEF Inv, codeVars, connectionVars, pairVars
<1>1. ASSUME NEW p \in Pairs, graceEnds(p) PROVE Inv'
  <2>1. (TypeOK /\ Numbered /\ CodesMatch /\ CallsMatch /\ ReplayedRevoked)'
    BY <1>1 DEF graceEnds, TypeOK, Numbered, CodesMatch, CallsMatch, ReplayedRevoked
  <2>2. \A q \in Pairs : Unspent(q)' <=> Unspent(q)
    BY <1>1 DEF graceEnds, Unspent, TypeOK
  <2>3. (OneConnectionPerCode /\ OneUnspent /\ LiveCanRefresh)'
    BY <1>1, <2>2 DEF graceEnds, OneConnectionPerCode, OneUnspent, LiveCanRefresh
  <2> QED
    BY <2>1, <2>3
<1>2. ASSUME (\E p \in Pairs : accessEnds(p)) \/ (\E b \in BOOLEAN : setActive(b))
      PROVE  Inv'
  <2>1. (TypeOK /\ Numbered /\ CodesMatch /\ CallsMatch /\ ReplayedRevoked)'
    BY <1>2 DEF accessEnds, setActive, TypeOK, Numbered, CodesMatch, CallsMatch,
                ReplayedRevoked
  <2>2. (OneConnectionPerCode /\ OneUnspent /\ LiveCanRefresh)'
    BY <1>2 DEF accessEnds, setActive, OneConnectionPerCode, OneUnspent,
                LiveCanRefresh, Unspent
  <2> QED
    BY <2>1, <2>2
<1>3. ASSUME NEW n \in Connections, connectionExpires(n) PROVE Inv'
  <2>1. (TypeOK /\ Numbered /\ CodesMatch /\ CallsMatch /\ ReplayedRevoked)'
    BY <1>3 DEF connectionExpires, TypeOK, Numbered, CodesMatch, CallsMatch,
                ReplayedRevoked
  <2>2. (OneConnectionPerCode /\ OneUnspent /\ LiveCanRefresh)'
    BY <1>3 DEF connectionExpires, OneConnectionPerCode, OneUnspent,
                LiveCanRefresh, Unspent, TypeOK
  <2> QED
    BY <2>1, <2>2
<1>4. ASSUME NEW n \in Connections, cleanupTokens(n) PROVE Inv'
  <2>1. (TypeOK /\ Numbered /\ CodesMatch /\ CallsMatch /\ ReplayedRevoked)'
    BY <1>4 DEF cleanupTokens, TypeOK, Numbered, CodesMatch, CallsMatch,
                ReplayedRevoked
  <2>2. \A q \in Pairs : Unspent(q)' => Unspent(q) /\ pair'[q] = pair[q]
    BY <1>4 DEF cleanupTokens, Unspent, TypeOK
  <2>3. (OneConnectionPerCode /\ OneUnspent)'
    BY <1>4, <2>2 DEF cleanupTokens, OneConnectionPerCode, OneUnspent
  <2>4. LiveCanRefresh'
    BY <1>4 DEF cleanupTokens, Over, LiveCanRefresh, Unspent, TypeOK, Connections
  <2> QED
    BY <2>1, <2>3, <2>4
<1> QED
  BY <1>1, <1>2, <1>3, <1>4

\* The pair that issueTokenPair issues is unspent and the only new one.
LEMMA IssuedPair ==
    ASSUME TypeOK, Numbered, NEW n \in Connections, issueTokenPair(n),
           revoked' = revoked,
           \A p \in Pairs : p > issued => rotated'[p] = "no"
    PROVE  \E q \in Pairs :
               /\ q = issued + 1 /\ issued' = q /\ issued' \in 0 .. MaxPairs
               /\ pair[q] = 0 /\ pair'[q] = n /\ Unspent(q)'
               /\ pair' \in [Pairs -> 0 .. MaxConnections]
               /\ \A p \in Pairs : p # q => pair'[p] = pair[p]
<1> USE OAuthAssumption
<1>1. issued \in Nat /\ issued < MaxPairs
  BY DEF TypeOK, issueTokenPair
<1>2. PICK q \in Pairs : q = issued + 1 /\ q > issued
  BY <1>1 DEF Pairs
<1>3. issued' = q /\ issued' \in 0 .. MaxPairs
  BY <1>1, <1>2 DEF issueTokenPair
<1>4. pair[q] = 0 /\ rotated'[q] = "no" /\ q \notin revoked'
  BY <1>2 DEF Numbered
<1>5. /\ pair'[q] = n /\ n # 0
      /\ pair' \in [Pairs -> 0 .. MaxConnections]
      /\ \A p \in Pairs : p # q => pair'[p] = pair[p]
  BY <1>2 DEF issueTokenPair, TypeOK, Connections
<1>6. Unspent(q)'
  BY <1>4, <1>5 DEF Unspent
<1> QED
  BY <1>2, <1>3, <1>4, <1>5, <1>6

\* A code is exchanged.
LEMMA InvExchange ==
    ASSUME Inv, NEW r \in Requests, exchangeCommit(r)
    PROVE  Inv'
<1> USE OAuthAssumption DEF Inv
<1> DEFINE c == calls[r].code
           n == connected + 1
<1>1. /\ c \in Codes /\ code[c] \in {"ISSUED", "EXPIRED"}
      /\ n \in Connections /\ n > connected
      /\ connected' = n
      /\ code' = [code EXCEPT ![c] = "USED"]
      /\ made' = [made EXCEPT ![c] = n]
      /\ connection' = [connection EXCEPT ![n] = "LIVE"]
      /\ source' = [source EXCEPT ![n] = c]
      /\ issueTokenPair(n)
      /\ calls' = [calls EXCEPT ![r] = Idle]
      /\ UNCHANGED <<active, rotated, revoked, ended, replayed>>
  BY DEF exchangeCommit, Claimed, CallsMatch, Done, TypeOK, Connections
<1> HIDE DEF c, n
<1>2. PICK q \in Pairs :
          /\ q = issued + 1 /\ issued' = q /\ issued' \in 0 .. MaxPairs
          /\ pair[q] = 0 /\ pair'[q] = n /\ Unspent(q)'
          /\ pair' \in [Pairs -> 0 .. MaxConnections]
          /\ \A p \in Pairs : p # q => pair'[p] = pair[p]
  BY <1>1, IssuedPair DEF Numbered
<1>3. \A m \in Connections : source[m] # c /\ (source[m] # NoCode => m # n)
  BY <1>1 DEF CodesMatch, Numbered
<1>4. TypeOK'
  <2>1. Idle \in Call
    BY DEF Idle, Call
  <2> QED
    BY <1>1, <1>2, <2>1 DEF TypeOK, Connections
<1>5. Numbered'
  <2>1. \A s \in Pairs : s > issued' => (s # q /\ s > issued)
    BY <1>2 DEF TypeOK, Pairs
  <2>2. \A s \in Pairs : s > issued' =>
            (pair'[s] = 0 /\ rotated'[s] = "no" /\ s \notin revoked')
    BY <1>1, <1>2, <2>1 DEF Numbered
  <2>3. connected \in Nat /\ n = connected + 1
    BY DEF TypeOK, n
  <2>4. \A s \in Pairs : pair'[s] <= connected'
    BY <1>1, <1>2, <2>3 DEF Numbered, TypeOK
  <2>5. \A m \in Connections :
            /\ m > connected' <=> connection'[m] = "NONE"
            /\ m > connected' => source'[m] = NoCode
    BY <1>1, <2>3 DEF Numbered, TypeOK, Connections
  <2> QED
    BY <2>2, <2>4, <2>5 DEF Numbered
<1>6. CodesMatch'
  BY <1>1, <1>3 DEF CodesMatch, TypeOK, Connections
<1>7. CallsMatch'
  <2>1. \A s \in Requests : calls'[s] = calls[s] \/ calls'[s] = Idle
    BY <1>1 DEF TypeOK
  <2>2. \A m \in 1 .. connected : m \in Connections /\ m \in 1 .. connected' /\ source'[m] = source[m]
    BY <1>1 DEF TypeOK, Connections, n
  <2> QED
    BY <1>1, <2>1, <2>2 DEF CallsMatch, Idle
<1>8. OneConnectionPerCode'
  BY <1>1, <1>3 DEF OneConnectionPerCode, TypeOK
<1>9. OneUnspent'
  <2>1. \A p \in Pairs : p # q => (Unspent(p)' <=> Unspent(p)) /\ pair'[p] # n
    BY <1>1, <1>2 DEF Unspent, Numbered, TypeOK, Connections, n
  <2> QED
    BY <1>2, <2>1 DEF OneUnspent
<1>10. LiveCanRefresh'
  <2>1. \A p \in Pairs : pair[p] # 0 => p # q /\ (Unspent(p)' <=> Unspent(p))
    BY <1>1, <1>2 DEF Unspent
  <2>2. \A m \in Connections : m # n => connection'[m] = connection[m]
    BY <1>1 DEF TypeOK
  <2> QED
    BY <1>2, <2>1, <2>2 DEF LiveCanRefresh, Connections
<1>11. ReplayedRevoked'
  <2>1. c \notin replayed
    BY <1>1 DEF CodesMatch
  <2> QED
    BY <1>1, <2>1 DEF ReplayedRevoked, TypeOK
<1> QED
  BY <1>4, <1>5, <1>6, <1>7, <1>8, <1>9, <1>10, <1>11

\* A refresh token is rotated.
LEMMA InvRefresh ==
    ASSUME Inv, NEW r \in Requests, refreshCommit(r)
    PROVE  Inv'
<1> USE OAuthAssumption DEF Inv
<1>1. PICK p \in Pairs :
      /\ p = calls[r].token /\ Unspent(p)
      /\ rotated' = [rotated EXCEPT ![p] = "lately"]
      /\ issueTokenPair(pair[p])
      /\ calls' = [calls EXCEPT ![r] = Idle]
      /\ UNCHANGED <<active, codeVars, connectionVars, revoked, ended, replayed>>
  BY DEF refreshCommit, Rotatable, CallsMatch, Done
<1>2. pair[p] \in Connections /\ pair[p] <= connected /\ p <= issued
  BY <1>1 DEF Unspent, TypeOK, Connections, Numbered, Pairs
<1>3. PICK q \in Pairs :
          /\ q = issued + 1 /\ issued' = q /\ issued' \in 0 .. MaxPairs
          /\ pair[q] = 0 /\ pair'[q] = pair[p] /\ Unspent(q)'
          /\ pair' \in [Pairs -> 0 .. MaxConnections]
          /\ \A s \in Pairs : s # q => pair'[s] = pair[s]
  <2>1. \A s \in Pairs : s > issued => rotated'[s] = "no"
    BY <1>1, <1>2 DEF Numbered, TypeOK, Pairs
  <2> QED
    BY <1>1, <1>2, <2>1, IssuedPair
<1>4. TypeOK'
  <2>1. Idle \in Call
    BY DEF Idle, Call
  <2> QED
    BY <1>1, <1>3, <2>1 DEF TypeOK, codeVars, connectionVars
<1>5. Numbered'
  <2>1. \A s \in Pairs : s > issued' => (s # q /\ s # p /\ s > issued)
    BY <1>2, <1>3 DEF TypeOK, Pairs
  <2>2. \A s \in Pairs : s > issued' =>
            (pair'[s] = 0 /\ rotated'[s] = "no" /\ s \notin revoked')
    BY <1>1, <1>3, <2>1 DEF Numbered, TypeOK
  <2>3. \A s \in Pairs : pair'[s] <= connected
    BY <1>2, <1>3 DEF Numbered
  <2> QED
    BY <1>1, <2>2, <2>3 DEF Numbered, connectionVars
<1>6. (CodesMatch /\ OneConnectionPerCode /\ ReplayedRevoked)'
  BY <1>1 DEF CodesMatch, OneConnectionPerCode, ReplayedRevoked, codeVars, connectionVars
<1>7. CallsMatch'
  <2>1. \A s \in Requests : calls'[s] = calls[s] \/ calls'[s] = Idle
    BY <1>1 DEF TypeOK
  <2> QED
    BY <1>1, <2>1 DEF CallsMatch, Idle, connectionVars
<1>8. /\ ~Unspent(p)'
      /\ \A s \in Pairs : (s # q /\ s # p) => (Unspent(s)' <=> Unspent(s))
  BY <1>1, <1>3 DEF Unspent, TypeOK
<1>9. OneUnspent'
  BY <1>1, <1>3, <1>8 DEF OneUnspent
<1>10. LiveCanRefresh'
  <2>1. \A s \in Pairs : pair[s] # pair[p] /\ Unspent(s) => s # q /\ s # p
    BY <1>3 DEF Unspent
  <2> QED
    BY <1>1, <1>3, <1>8, <2>1 DEF LiveCanRefresh, connectionVars
<1> QED
  BY <1>4, <1>5, <1>6, <1>7, <1>9, <1>10

\* A connection is revoked with the tokens that are seen.
LEMMA InvRevoke ==
    ASSUME Inv, NEW r \in Requests, revokeConnectionAndTokens(r)
    PROVE  Inv'
<1> USE OAuthAssumption DEF Inv
<1> DEFINE n == calls[r].connection
<1>1. PICK unseen \in SUBSET (TokensOf(n) \ calls[r].known) :
        /\ connection' = [connection EXCEPT ![n] = "REVOKED"]
        /\ revoked' = revoked \cup (TokensOf(n) \ unseen)
        /\ ended' = ended \cup (TokensOf(n) \ unseen)
        /\ replayed' = replayed \cup ({calls[r].code} \ {NoCode})
        /\ calls' = [calls EXCEPT ![r] = Idle]
        /\ UNCHANGED <<active, codeVars, source, connected, pair, rotated, issued>>
  BY DEF revokeConnectionAndTokens, Done
<1>2. /\ n \in Connections /\ n <= connected
      /\ calls[r].code # NoCode => source[n] = calls[r].code
      /\ calls[r].code \in Codes \cup {NoCode}
  BY DEF revokeConnectionAndTokens, CallsMatch, TypeOK, Connections, Call
<1> HIDE DEF n
<1>3. TypeOK'
  <2>1. Idle \in Call
    BY DEF Idle, Call
  <2> QED
    BY <1>1, <1>2, <2>1 DEF TypeOK, TokensOf, codeVars
<1>4. Numbered'
  <2>1. \A p \in Pairs : p > issued => p \notin revoked'
    BY <1>1, <1>2 DEF Numbered, TokensOf, Connections
  <2>2. \A m \in Connections :
            m > connected => (m # n /\ connection'[m] = connection[m])
    BY <1>1, <1>2 DEF TypeOK, Connections
  <2>3. \A m \in Connections : m > connected <=> connection'[m] = "NONE"
    BY <1>1, <1>2, <2>2 DEF Numbered, TypeOK
  <2> QED
    BY <1>1, <2>1, <2>3 DEF Numbered
<1>5. CodesMatch'
  BY <1>1, <1>2 DEF CodesMatch, TypeOK, codeVars
<1>6. CallsMatch'
  <2>1. \A s \in Requests : calls'[s] = calls[s] \/ calls'[s] = Idle
    BY <1>1 DEF TypeOK
  <2> QED
    BY <1>1, <2>1 DEF CallsMatch, Idle
<1>7. OneConnectionPerCode'
  BY <1>1 DEF OneConnectionPerCode
<1>8. /\ \A p \in Pairs : Unspent(p)' => Unspent(p)
      /\ \A p \in Pairs : pair[p] # n => (Unspent(p)' <=> Unspent(p))
  BY <1>1 DEF Unspent, TokensOf
<1>9. OneUnspent'
  BY <1>1, <1>8 DEF OneUnspent
<1>10. LiveCanRefresh'
  BY <1>1, <1>2, <1>8 DEF LiveCanRefresh, TypeOK
<1>11. ReplayedRevoked'
  <2> SUFFICES ASSUME NEW m \in Connections, source[m] \in replayed', m # n
               PROVE  connection[m] = "REVOKED"
    BY <1>1, <1>2 DEF ReplayedRevoked, TypeOK
  <2>1. source[m] \in replayed
    BY <1>1, <1>2 DEF OneConnectionPerCode
  <2> QED
    BY <2>1 DEF ReplayedRevoked
<1> QED
  BY <1>3, <1>4, <1>5, <1>6, <1>7, <1>9, <1>10, <1>11

LEMMA InvNext == Inv /\ [Next]_vars => Inv'
<1> SUFFICES ASSUME Inv, [Next]_vars PROVE Inv'
  OBVIOUS
<1>1. CASE Next
  BY <1>1, InvReads, InvCodes, InvTime, InvExchange, InvRefresh, InvRevoke DEF Next
<1>2. CASE UNCHANGED vars
  BY <1>2 DEF vars, codeVars, connectionVars, pairVars, Inv, TypeOK, Numbered,
              CodesMatch, CallsMatch, OneConnectionPerCode, OneUnspent, Unspent,
              LiveCanRefresh, ReplayedRevoked
<1> QED
  BY <1>1, <1>2

LEMMA InvAlways == Spec => []Inv
  BY InvInit, InvNext, PTL DEF Spec

-----------------------------------------------------------------------------
\* However exchanges and rotations overlap, with each other and with
\* revocation and cleanup: a code makes one connection, a connection never
\* has two refresh tokens to rotate and, while it lives, always one.
THEOREM ChainIsOne == Spec => []OneChain
<1>1. Inv => OneChain
  BY DEF Inv, OneChain
<1> QED
  BY <1>1, InvAlways, PTL

\* The reuse of a code, once answered, leaves nothing that opens.
THEOREM ReplayIsAnswered == Spec => []ReplayEndsAll
<1>1. Inv => ReplayEndsAll
  BY DEF Inv, ReplayedRevoked, ReplayEndsAll, TokensOf, Opens
<1> QED
  BY <1>1, InvAlways, PTL
=============================================================================
