---------------------------- MODULE OutboxProofs ----------------------------
(***************************************************************************)
(* Theorems about module Outbox, for every value of its constants and any  *)
(* number of faults.                                                       *)
(***************************************************************************)
EXTENDS Outbox, FiniteSetTheorems, WellFoundedInduction, TLAPS

AtMessage == {"claim", "sending", "answered"}

\* What request r holds: messages that were written, those of its list from
\* its scope; one that was written to be sent at once is nobody else's.
Knows(r) ==
    /\ request[r].scope \subseteq {m \in Messages : Kind[m] # "DIRECT"}
    /\ request[r].queue \subseteq request[r].scope
    /\ request[r].failed \subseteq request[r].scope
    /\ request[r].bare \subseteq request[r].scope
    /\ \A m \in request[r].queue : status[m] # "NONE"
    /\ \A m \in request[r].failed : status[m] # "NONE"
    /\ request[r].at \in AtMessage =>
        /\ request[r].message \in Messages
        /\ status[request[r].message] # "NONE"
        /\ \/ request[r].message \in request[r].scope
           \/ request[r].scope = {} /\ Kind[request[r].message] = "DIRECT"
    /\ request[r].at = "idle" => ~request[r].alone /\ request[r].scope = {}

NewIsBare == \A m \in Messages : status[m] = "NONE" => ~document[m]

\* A request not marked as crowded runs by itself.
Uncrowded ==
    \A q, r \in Requests :
        (request[r].at # "idle" /\ ~request[r].crowded /\ q # r)
            => request[q].at = "idle"

\* The count of such a request is not behind the table.
Counts(r) ==
    (~request[r].crowded /\ request[r].scope # {}) =>
        /\ request[r].at \in AtMessage \cup {"loop"} =>
            Cardinality(sentInLast24h) <= request[r].sentToday
        /\ request[r].at \in AtMessage => request[r].sentToday < DailyLimit

\* Beside a request that runs alone there are only single messages.
Apart ==
    \A q, r \in Requests : (request[r].alone /\ q # r) => request[q].scope = {}

\* A request that may rewrite messages it did not claim runs alone, and finds
\* them as it read them.
Sole(r) ==
    /\ ~request[r].alone =>
        /\ request[r].failed = {} /\ request[r].bare = {}
        /\ \A m \in request[r].scope : ~Bare(m)
    /\ request[r].alone =>
        /\ \A m \in request[r].failed : status[m] = "FAILED"
        /\ \A m \in request[r].queue : status[m] = "QUEUED"
    /\ request[r].at # "requeue" => request[r].failed = {}
    /\ request[r].at \in AtMessage => request[r].message \notin request[r].queue

\* A request that claimed m and knows of no delivery; all of them.
Owes(q, m) ==
    /\ q.message = m
    /\ \/ q.at = "sending"
       \/ q.at = "answered" /\ ~q.ok

Load(m) == {r \in Requests : Owes(request[r], m)}

\* Deliveries and claims that may become deliveries are covered by doubts, but
\* for one; by doubts alone where the next claim raises none.
Credit(m) ==
    /\ IsFiniteSet(Load(m))
    /\ deliveries[m] + Cardinality(Load(m)) <= 1 + doubts[m]
    /\ (status[m] # "SENT" /\ lease[m] = "FREE") =>
        deliveries[m] + Cardinality(Load(m)) <= doubts[m]

\* The inductive invariant.
Inv ==
    /\ TypeOK /\ NewIsBare /\ Uncrowded
    /\ \A r \in Requests : Knows(r) /\ Counts(r)

ExclusiveInv ==
    /\ Apart
    /\ \A r \in Requests : Sole(r)
    /\ \A m \in Messages : Credit(m)

-----------------------------------------------------------------------------
\* The first of a list of messages is on it.
LEMMA MinIn ==
    ASSUME NEW S, S \subseteq Messages, S # {}
    PROVE  Min(S) \in S
<1> DEFINE Below == {1 .. n : n \in S}
           R == StrictSubsetOrdering(Messages)
<1>1. S \subseteq Nat
  BY OutboxAssumption DEF Messages
<1>2. IsWellFoundedOn(R, FiniteSubsetsOf(Messages))
  BY FS_StrictSubsetOrderingWellFounded
<1>3. Below \subseteq FiniteSubsetsOf(Messages)
  <2> SUFFICES ASSUME NEW n \in S PROVE 1 .. n \in FiniteSubsetsOf(Messages)
    OBVIOUS
  <2>1. 1 .. n \subseteq Messages
    BY OutboxAssumption DEF Messages
  <2>2. IsFiniteSet(1 .. n)
    BY <1>1, FS_Interval
  <2> QED
    BY <2>1, <2>2 DEF FiniteSubsetsOf
<1>4. PICK X \in Below : \A Y \in Below : <<Y, X>> \notin R
  <2>1. Below # {}
    OBVIOUS
  <2> HIDE DEF Below, R
  <2> QED
    BY <1>2, <1>3, <2>1, WFMin
<1>5. PICK x \in S : X = 1 .. x
  BY <1>4
<1>6. ASSUME NEW y \in S PROVE x <= y
  <2> SUFFICES ASSUME y < x PROVE FALSE
    BY <1>1
  <2>1. 1 .. y \subseteq Messages /\ 1 .. x \subseteq Messages
    BY OutboxAssumption DEF Messages
  <2>2. 1 .. y \subseteq 1 .. x /\ 1 .. y # 1 .. x
    <3>1. x \in 1 .. x /\ x \notin 1 .. y
      BY <1>1, OutboxAssumption DEF Messages
    <3>2. 1 .. y \subseteq 1 .. x
      BY <1>1
    <3> QED
      BY <3>1, <3>2
  <2>3. <<1 .. y, 1 .. x>> \in R
    BY <2>1, <2>2 DEF StrictSubsetOrdering
  <2>4. 1 .. y \in Below
    OBVIOUS
  <2> QED
    BY <1>4, <1>5, <2>3, <2>4
<1> QED
  BY <1>6 DEF Min

\* Counting what was sent.
LEMMA SentCount ==
    ASSUME Inv
    PROVE  /\ sentInLast24h \subseteq Messages
           /\ IsFiniteSet(sentInLast24h)
           /\ Cardinality(sentInLast24h) \in Nat
<1>1. sentInLast24h \subseteq Messages
  BY DEF Inv, TypeOK, sentInLast24h
<1>2. IsFiniteSet(Messages)
  BY OutboxAssumption, FS_Interval DEF Messages
<1> QED
  BY <1>1, <1>2, FS_Subset, FS_CardinalityType

LEMMA IdleState ==
    /\ Idle \in RequestState
    /\ Idle.at = "idle" /\ ~Idle.alone /\ ~Idle.ok
    /\ Idle.scope = {} /\ Idle.queue = {} /\ Idle.failed = {} /\ Idle.bare = {}
    /\ Idle.message = 0 /\ Idle.sentToday = 0
BY OutboxAssumption DEF Idle, RequestState, Steps

\* A request goes on; the others stay.
LEMMA Moves ==
    ASSUME Inv, NEW r \in Requests, NEW s \in RequestState,
           request' = [request EXCEPT ![r] = s]
    PROVE  /\ request' \in [Requests -> RequestState]
           /\ request'[r] = s
           /\ \A o \in Requests : o # r => request'[o] = request[o]
BY DEF Inv, TypeOK

\* The same but for the mark that others ran beside it.
Alike(s, t) ==
    /\ s.at = t.at /\ s.alone = t.alone /\ s.scope = t.scope
    /\ s.failed = t.failed /\ s.queue = t.queue /\ s.bare = t.bare
    /\ s.message = t.message /\ s.ok = t.ok

Stays(o) == Alike(request'[o], request[o])

\* A request begins; those that run are marked.
LEMMA Starts ==
    ASSUME Inv, NEW r \in Requests, NEW s \in RequestState, Start(r, s)
    PROVE  /\ request' \in [Requests -> RequestState]
           /\ Alike(request'[r], s)
           /\ request'[r].crowded = (Running # {})
           /\ \A o \in Requests : o # r =>
                Stays(o) /\ request'[o].crowded = (o \in Running)
<1> DEFINE mark(o) == IF o = r THEN Running # {} ELSE o \in Running
           old(o) == IF o = r THEN s ELSE request[o]
<1>1. request \in [Requests -> RequestState]
  BY DEF Inv, TypeOK
<1>2. ASSUME NEW o \in Requests PROVE mark(o) \in BOOLEAN /\ old(o) \in RequestState
  <2>1. CASE o = r
    BY <2>1
  <2>2. CASE o # r
    BY <1>1, <2>2
  <2> QED
    BY <2>1, <2>2
<1>3. request' = [o \in Requests |-> [old(o) EXCEPT !.crowded = mark(o)]]
  BY DEF Start
<1> HIDE DEF mark, old
<1>4. ASSUME NEW o \in Requests
      PROVE  /\ request'[o] \in RequestState
             /\ Alike(request'[o], old(o)) /\ request'[o].crowded = mark(o)
  BY <1>2, <1>3 DEF RequestState, Alike
<1>5. request' \in [Requests -> RequestState]
  BY <1>3, <1>4
<1> QED
  BY <1>4, <1>5 DEF mark, old, Stays

-----------------------------------------------------------------------------
(* The parts of the invariant that concern requests which do not move.     *)

RowsTyped ==
    /\ status \in [Messages -> {"NONE", "QUEUED", "FAILED", "SENT"}]
    /\ attempts \in [Messages -> 0 .. MaxAttempts]
    /\ lease \in [Messages -> {"FREE", "TAKEN", "OLD"}]
    /\ document \in [Messages -> BOOLEAN]
    /\ recent \subseteq Messages
    /\ sends \in 0 .. MaxSends
    /\ faults \in 0 .. MaxFaults
    /\ deliveries \in [Messages -> Nat]
    /\ doubts \in [Messages -> Nat]

\* No message is unwritten, no document taken away.
RowsGrow ==
    \A m \in Messages :
        /\ status[m] # "NONE" => status'[m] # "NONE"
        /\ document[m] => document'[m]

LEMMA Facts ==
    ASSUME Inv
    PROVE  /\ RowsTyped /\ NewIsBare
           /\ request \in [Requests -> RequestState]
           /\ \A r \in Requests :
                request[r] \in RequestState /\ Knows(r) /\ Counts(r)
BY DEF Inv, TypeOK, RowsTyped

LEMMA KnowsStays ==
    ASSUME Inv, RowsGrow, NEW o \in Requests, Stays(o)
    PROVE  Knows(o)'
<1>1. Knows(o)
  BY Facts
<1>2. \A m \in Messages : status[m] # "NONE" => status'[m] # "NONE"
  BY DEF RowsGrow
<1>3. request[o].queue \subseteq Messages /\ request[o].failed \subseteq Messages
  BY <1>1 DEF Knows
<1> QED
  BY <1>1, <1>2, <1>3 DEF Knows, Stays, Alike

\* A running request goes on to s.
LEMMA RunStep ==
    ASSUME Inv, NEW r \in Requests, NEW s \in RequestState,
           request[r].at # "idle",
           request' = [request EXCEPT ![r] = s],
           s.at # "idle" => s.crowded = request[r].crowded,
           RowsGrow, RowsTyped', NewIsBare', Knows(r)', Counts(r)'
    PROVE  Inv'
<1>1. /\ request' \in [Requests -> RequestState]
      /\ request'[r] = s
      /\ \A o \in Requests : o # r => request'[o] = request[o]
  BY Moves
<1>2. TypeOK'
  BY <1>1 DEF TypeOK, RowsTyped
<1>3. Uncrowded
  BY DEF Inv
<1>4. Uncrowded'
  BY <1>1, <1>3 DEF Uncrowded
<1>5. ASSUME NEW o \in Requests, o # r PROVE Knows(o)' /\ Counts(o)'
  <2>1. request'[o] = request[o]
    BY <1>1, <1>5
  <2>2. Knows(o)'
    BY <2>1, KnowsStays DEF Stays, Alike
  <2>3. request[o].at = "idle" \/ request[o].crowded
    BY <1>3, <1>5 DEF Uncrowded
  <2>4. Counts(o)'
    BY <2>1, <2>3, Facts DEF Counts, Knows
  <2> QED
    BY <2>2, <2>4
<1> QED
  BY <1>2, <1>4, <1>5 DEF Inv

\* An idle request begins: with a scope, or with one message.
LEMMA StartStep ==
    ASSUME Inv, NEW r \in Requests, NEW s \in RequestState,
           request[r].at = "idle", Start(r, s),
           s.at \in {"read", "requeue"} \/ s.scope = {},
           RowsGrow, RowsTyped', NewIsBare', Knows(r)'
    PROVE  Inv'
<1>1. /\ request' \in [Requests -> RequestState]
      /\ Alike(request'[r], s) /\ request'[r].crowded = (Running # {})
  BY Starts
<1>2. request'[r].at = s.at /\ request'[r].scope = s.scope
  BY <1>1 DEF Alike
<1>3. ASSUME NEW o \in Requests, o # r
      PROVE  /\ Stays(o) /\ request'[o].crowded = (o \in Running)
             /\ request'[o].at = request[o].at /\ request'[o].scope = request[o].scope
  BY <1>3, Starts DEF Stays, Alike
<1>4. TypeOK'
  BY <1>1 DEF TypeOK, RowsTyped
<1>5. Uncrowded'
  <2> SUFFICES ASSUME NEW q \in Requests, NEW o \in Requests,
                      request'[o].at # "idle", ~request'[o].crowded, q # o
               PROVE  request'[q].at = "idle"
    BY DEF Uncrowded
  <2>1. o = r
    BY <1>3 DEF Running
  <2>2. request[q].at = "idle"
    BY <2>1, <1>1 DEF Running
  <2> QED
    BY <2>1, <2>2, <1>3
<1>6. ASSUME NEW o \in Requests PROVE Knows(o)' /\ Counts(o)'
  <2>1. CASE o = r
    BY <2>1, <1>2 DEF Counts, AtMessage
  <2>2. CASE o # r
    <3>1. Knows(o)'
      BY <2>2, <1>3, KnowsStays
    <3>2. request[o].at = "idle" => request'[o].scope = {}
      BY <2>2, <1>3, Facts DEF Knows
    <3>3. request[o].at # "idle" => request'[o].crowded
      BY <2>2, <1>3 DEF Running
    <3> QED
      BY <3>1, <3>2, <3>3 DEF Counts
  <2> QED
    BY <2>1, <2>2
<1> QED
  BY <1>4, <1>5, <1>6 DEF Inv

\* No request moves, and nothing is sent.
LEMMA TableStep ==
    ASSUME Inv, request' = request, RowsGrow, RowsTyped', NewIsBare',
           sentInLast24h' \subseteq sentInLast24h
    PROVE  Inv'
<1>1. TypeOK' /\ Uncrowded'
  BY DEF Inv, TypeOK, RowsTyped, Uncrowded
<1>2. \A o \in Requests : Knows(o)'
  BY KnowsStays DEF Stays, Alike
<1>3. Cardinality(sentInLast24h') <= Cardinality(sentInLast24h)
      /\ Cardinality(sentInLast24h') \in Nat
  BY SentCount, FS_Subset, FS_CardinalityType
<1>4. ASSUME NEW o \in Requests PROVE Counts(o)'
  <2>1. request[o].sentToday \in Nat
    BY Facts DEF RequestState
  <2> QED
    BY <1>3, <2>1, SentCount, Facts DEF Counts
<1> QED
  BY <1>1, <1>2, <1>4 DEF Inv

-----------------------------------------------------------------------------
(* One lemma per step of the invariant without Exclusive.                  *)

LEMMA SentGrowth ==
    ASSUME Inv, NEW m, sentInLast24h' \subseteq sentInLast24h \cup {m}
    PROVE  /\ Cardinality(sentInLast24h)' \in Nat
           /\ Cardinality(sentInLast24h)' <= Cardinality(sentInLast24h) + 1
           /\ sentInLast24h' \subseteq sentInLast24h =>
                Cardinality(sentInLast24h)' <= Cardinality(sentInLast24h)
<1>1. IsFiniteSet(sentInLast24h) /\ Cardinality(sentInLast24h) \in Nat
  BY SentCount
<1>2. /\ IsFiniteSet(sentInLast24h \cup {m})
      /\ Cardinality(sentInLast24h \cup {m}) <= Cardinality(sentInLast24h) + 1
  <2>1. /\ IsFiniteSet(sentInLast24h \cup {m})
        /\ Cardinality(sentInLast24h \cup {m}) =
             IF m \in sentInLast24h THEN Cardinality(sentInLast24h)
             ELSE Cardinality(sentInLast24h) + 1
    BY <1>1, FS_AddElement
  <2> QED
    BY <1>1, <2>1
<1>3. /\ IsFiniteSet(sentInLast24h')
      /\ Cardinality(sentInLast24h') <= Cardinality(sentInLast24h \cup {m})
      /\ Cardinality(sentInLast24h') \in Nat
  BY <1>2, FS_Subset, FS_CardinalityType
<1>4. Cardinality(sentInLast24h \cup {m}) \in Nat
  BY <1>2, FS_CardinalityType
<1>5. sentInLast24h' \subseteq sentInLast24h =>
        Cardinality(sentInLast24h') <= Cardinality(sentInLast24h)
  BY <1>1, FS_Subset
<1> QED
  BY <1>1, <1>2, <1>3, <1>4, <1>5

LEMMA WritingHolds ==
    ASSUME Inv, NEW m \in Messages, enqueueNotification(m)
    PROVE  Inv'
<1> USE Facts
<1>1. status[m] = "NONE" /\ ~document[m]
  BY DEF enqueueNotification, IsNext, Unwritten, NewIsBare
<1>2. PICK b \in BOOLEAN : document' = [document EXCEPT ![m] = b]
  <2>1. document = [document EXCEPT ![m] = FALSE]
    BY <1>1 DEF RowsTyped
  <2> QED
    BY <2>1 DEF enqueueNotification
<1>3. status' = [status EXCEPT ![m] = "QUEUED"]
      /\ UNCHANGED <<attempts, lease, recent, request, bounds, history>>
  BY DEF enqueueNotification
<1>4. RowsTyped'
  BY <1>2, <1>3 DEF RowsTyped, bounds, history
<1>5. RowsGrow
  BY <1>1, <1>2, <1>3 DEF RowsGrow, RowsTyped
<1>6. NewIsBare'
  BY <1>2, <1>3 DEF NewIsBare, RowsTyped
<1>7. sentInLast24h' \subseteq sentInLast24h
  BY <1>3 DEF sentInLast24h, RowsTyped
<1> QED
  BY <1>3, <1>4, <1>5, <1>6, <1>7, TableStep

LEMMA TimeHolds ==
    ASSUME Inv,
           dayPasses \/ \E m \in Messages : leaseExpires(m) \/ leaseOutlived(m)
    PROVE  Inv'
<1> USE Facts
<1>1. /\ UNCHANGED <<status, attempts, document, request, sends, deliveries, doubts>>
      /\ recent' \subseteq recent
      /\ faults' \in 0 .. MaxFaults
      /\ lease' \in [Messages -> {"FREE", "TAKEN", "OLD"}]
  BY OutboxAssumption DEF dayPasses, leaseExpires, leaseOutlived, bounds, history, RowsTyped
<1>2. RowsTyped' /\ RowsGrow /\ NewIsBare'
  BY <1>1 DEF RowsTyped, RowsGrow, NewIsBare
<1>3. sentInLast24h' \subseteq sentInLast24h
  BY <1>1 DEF sentInLast24h
<1> QED
  BY <1>1, <1>2, <1>3, TableStep

LEMMA ClicksHold ==
    ASSUME Inv, NEW r \in Requests, NEW scope \in Scopes,
           clickSend(r, scope) \/ clickResend(r, scope)
    PROVE  Inv'
<1> USE Facts
<1>1. scope \subseteq {m \in Messages : Kind[m] # "DIRECT"}
  BY OutboxAssumption
<1>2. PICK s \in RequestState :
        /\ Start(r, s)
        /\ s.at \in {"read", "requeue"} /\ s.scope = scope
        /\ s.failed \subseteq {m \in scope : Retryable(m)}
        /\ s.queue = {} /\ s.bare = {}
  <2>1. CASE clickSend(r, scope)
    <3> DEFINE alone == Alone("send", scope)
               s == [Idle EXCEPT !.at = "read", !.scope = scope, !.alone = alone]
    <3>1. alone \in BOOLEAN
      BY OutboxAssumption DEF Alone
    <3>2. Start(r, s)
      BY <2>1 DEF clickSend
    <3> HIDE DEF alone
    <3>3. /\ s \in RequestState /\ s.at = "read" /\ s.scope = scope
          /\ s.failed = {} /\ s.queue = {} /\ s.bare = {}
      BY <1>1, <3>1, IdleState DEF RequestState, Steps
    <3> QED
      BY <3>2, <3>3
  <2>2. CASE clickResend(r, scope)
    <3> DEFINE alone == Alone("resend", scope)
               failed == {m \in scope : Retryable(m)}
               s == [Idle EXCEPT !.at = "requeue", !.scope = scope, !.alone = alone,
                                 !.failed = failed]
    <3>1. alone \in BOOLEAN /\ failed \subseteq Messages
      BY <1>1, OutboxAssumption DEF Alone
    <3>2. Start(r, s)
      BY <2>2 DEF clickResend
    <3> HIDE DEF alone, failed
    <3>3. /\ s \in RequestState /\ s.at = "requeue" /\ s.scope = scope
          /\ s.failed = failed /\ s.queue = {} /\ s.bare = {}
      BY <1>1, <3>1, IdleState DEF RequestState, Steps
    <3> HIDE DEF s
    <3> QED
      BY <3>2, <3>3 DEF failed
  <2> QED
    BY <2>1, <2>2
<1>5. /\ request[r].at = "idle"
      /\ UNCHANGED <<rows, faults, history>>
      /\ sends' \in 0 .. MaxSends
  BY OutboxAssumption DEF clickSend, clickResend, bounds, RowsTyped
<1>6. RowsTyped' /\ RowsGrow /\ NewIsBare'
  BY <1>5 DEF RowsTyped, RowsGrow, NewIsBare, rows, history
<1>7. Alike(request'[r], s)
  BY <1>2, Starts
<1>8. Knows(r)'
  BY <1>1, <1>2, <1>5, <1>7 DEF Knows, Alike, AtMessage, Retryable, rows
<1> QED
  BY <1>2, <1>5, <1>6, <1>8, StartStep

LEMMA SingleHolds ==
    ASSUME Inv, NEW r \in Requests, NEW m \in Messages, queueNotification(r, m)
    PROVE  Inv'
<1> USE Facts
<1> DEFINE s == [Idle EXCEPT !.at = "claim", !.message = m]
<1>0. m \in 0 .. MaxMessages
  BY OutboxAssumption DEF Messages
<1>1. /\ s \in RequestState
      /\ s.at = "claim" /\ s.message = m /\ s.scope = {} /\ s.failed = {}
      /\ s.queue = {} /\ s.bare = {}
  BY <1>0, IdleState DEF RequestState, Steps
<1> HIDE DEF s
<1>2. /\ Start(r, s) /\ request[r].at = "idle" /\ Kind[m] = "DIRECT"
      /\ status' = [status EXCEPT ![m] = "QUEUED"]
      /\ UNCHANGED <<attempts, lease, document, recent, bounds, history>>
  BY DEF queueNotification, s
<1>3. RowsTyped' /\ RowsGrow /\ NewIsBare'
  BY <1>2 DEF RowsTyped, RowsGrow, NewIsBare, bounds, history
<1>4. Alike(request'[r], s)
  BY <1>1, <1>2, Starts
<1>5. Knows(r)'
  BY <1>1, <1>2, <1>4 DEF Knows, Alike, AtMessage, RowsTyped
<1> QED
  BY <1>1, <1>2, <1>3, <1>5, StartStep

\* A message of the list was tried.
LEMMA TriedState ==
    ASSUME NEW q \in RequestState, NEW m
    PROVE  /\ Tried(q, m) \in RequestState
           /\ Tried(q, m).at = q.at /\ Tried(q, m).crowded = q.crowded
           /\ Tried(q, m).alone = q.alone /\ Tried(q, m).scope = q.scope
           /\ Tried(q, m).queue = q.queue \ {m} /\ Tried(q, m).failed = q.failed
           /\ Tried(q, m).bare = q.bare /\ Tried(q, m).sentToday = q.sentToday
           /\ Tried(q, m).message = q.message /\ Tried(q, m).ok = q.ok
<1>1. q.attempted + 1 \in Nat
  BY DEF RequestState
<1>2. q.queue \ {m} \in SUBSET Messages
  BY DEF RequestState
<1> DEFINE n == q.attempted + 1
           queue == q.queue \ {m}
<1>3. Tried(q, m) = [q EXCEPT !.queue = queue, !.attempted = n]
  BY DEF Tried
<1> HIDE DEF n, queue
<1>4. [q EXCEPT !.queue = queue, !.attempted = n] \in RequestState
  BY <1>1, <1>2 DEF RequestState, n, queue
<1>5. /\ Tried(q, m).at = q.at /\ Tried(q, m).crowded = q.crowded
      /\ Tried(q, m).alone = q.alone /\ Tried(q, m).scope = q.scope
      /\ Tried(q, m).queue = queue /\ Tried(q, m).failed = q.failed
      /\ Tried(q, m).bare = q.bare /\ Tried(q, m).sentToday = q.sentToday
      /\ Tried(q, m).message = q.message /\ Tried(q, m).ok = q.ok
  BY <1>3 DEF RequestState
<1> QED
  BY <1>3, <1>4, <1>5 DEF queue

LEMMA RequeueHolds ==
    ASSUME Inv, NEW r \in Requests, requeueFailed(r)
    PROVE  Inv'
<1> USE Facts
<1> DEFINE m == Min(request[r].failed)
           s == [request[r] EXCEPT !.failed = @ \ {m}]
<1>1. m \in request[r].failed /\ m \in Messages
  BY MinIn DEF requeueFailed, RequestState
<1>2. /\ request[r].at = "requeue"
      /\ status' = [status EXCEPT ![m] = "QUEUED"]
      /\ request' = [request EXCEPT ![r] = s]
      /\ UNCHANGED <<attempts, lease, document, recent, bounds, history>>
  BY DEF requeueFailed
<1> HIDE DEF m
<1>3. /\ s \in RequestState /\ s.at = "requeue" /\ s.crowded = request[r].crowded
      /\ s.failed \subseteq request[r].failed
      /\ s.scope = request[r].scope /\ s.queue = request[r].queue
      /\ s.bare = request[r].bare
  BY <1>2 DEF RequestState
<1> HIDE DEF s
<1>4. RowsTyped' /\ RowsGrow /\ NewIsBare'
  BY <1>1, <1>2 DEF RowsTyped, RowsGrow, NewIsBare, bounds, history, Knows
<1>5. request'[r] = s
  BY <1>2, <1>3, Moves
<1>6. request[r].queue \subseteq Messages /\ request[r].failed \subseteq Messages
  BY DEF RequestState
<1>7. Knows(r)'
  BY <1>3, <1>4, <1>5, <1>6 DEF Knows, AtMessage, RowsGrow
<1>8. Counts(r)'
  BY <1>3, <1>5 DEF Counts, AtMessage
<1> QED
  BY <1>2, <1>3, <1>4, <1>7, <1>8, RunStep

LEMMA ReadQueueHolds ==
    ASSUME Inv, NEW r \in Requests, readQueue(r)
    PROVE  Inv'
<1> USE Facts
<1> DEFINE queue == {m \in request[r].scope : status[m] = "QUEUED"}
           bare == {m \in queue : Bare(m)}
           sent == Cardinality(sentInLast24h)
           s == [request[r] EXCEPT !.at = "loop", !.queue = queue, !.bare = bare,
                                   !.sentToday = sent]
<1>1. /\ request[r].at \in {"read", "requeue"}
      /\ request' = [request EXCEPT ![r] = s]
      /\ UNCHANGED <<rows, bounds, history>>
  BY DEF readQueue
<1>2. queue \subseteq request[r].scope /\ bare \subseteq queue /\ sent \in Nat
      /\ \A m \in queue : status[m] = "QUEUED"
  BY SentCount
<1> HIDE DEF queue, bare, sent
<1>3. /\ s \in RequestState /\ s.at = "loop" /\ s.crowded = request[r].crowded
      /\ s.failed = request[r].failed /\ s.scope = request[r].scope
      /\ s.queue = queue /\ s.bare = bare /\ s.sentToday = sent
  BY <1>2 DEF RequestState, Steps
<1> HIDE DEF s
<1>4. RowsTyped' /\ RowsGrow /\ NewIsBare'
  BY <1>1 DEF RowsTyped, RowsGrow, NewIsBare, rows, bounds, history
<1>5. request'[r] = s
  BY <1>1, <1>3, Moves
<1>6. Knows(r)'
  BY <1>1, <1>2, <1>3, <1>5 DEF Knows, AtMessage, rows
<1>7. sentInLast24h' = sentInLast24h
  BY <1>1 DEF sentInLast24h, rows
<1>8. Counts(r)'
  BY <1>2, <1>3, <1>5, <1>7 DEF Counts, AtMessage, sent
<1> QED
  BY <1>1, <1>3, <1>4, <1>6, <1>8, RunStep

\* The end of a request, orderly or not.
LEMMA EndsHold ==
    ASSUME Inv, NEW r \in Requests, finish(r) \/ crash(r)
    PROVE  Inv'
<1> USE Facts
<1>1. /\ request[r].at # "idle"
      /\ request' = [request EXCEPT ![r] = Idle]
      /\ UNCHANGED <<rows, sends, history>>
      /\ faults' \in 0 .. MaxFaults
  BY OutboxAssumption DEF finish, crash, bounds, RowsTyped
<1>2. RowsTyped' /\ RowsGrow /\ NewIsBare'
  BY <1>1 DEF RowsTyped, RowsGrow, NewIsBare, rows, history
<1>3. request'[r] = Idle
  BY <1>1, IdleState, Moves
<1>4. Knows(r)' /\ Counts(r)'
  BY <1>3, IdleState DEF Knows, Counts, AtMessage
<1> QED
  BY <1>1, <1>2, <1>4, IdleState, RunStep

LEMMA PrepareFailsHolds ==
    ASSUME Inv, NEW r \in Requests, prepareFails(r)
    PROVE  Inv'
<1> USE Facts
<1> DEFINE m == Min(request[r].queue)
           s == Tried(request[r], m)
<1>1. m \in request[r].queue /\ m \in Messages /\ request[r].at = "loop"
  BY MinIn DEF prepareFails, MayTry, RequestState
<1>2. /\ status' = [status EXCEPT ![m] = "FAILED"]
      /\ attempts' = [attempts EXCEPT ![m] = OneMore(m)]
      /\ request' = [request EXCEPT ![r] = s]
      /\ UNCHANGED <<lease, document, recent, bounds, history>>
  BY DEF prepareFails
<1> HIDE DEF m
<1>3. /\ s \in RequestState /\ s.at = "loop" /\ s.crowded = request[r].crowded
      /\ s.queue \subseteq request[r].queue /\ s.failed = request[r].failed
      /\ s.scope = request[r].scope /\ s.bare = request[r].bare
      /\ s.sentToday = request[r].sentToday
  BY <1>1, TriedState
<1> HIDE DEF s
<1>4. OneMore(m) \in 0 .. MaxAttempts
  BY <1>1, OutboxAssumption DEF OneMore, RowsTyped
<1>5. RowsTyped' /\ RowsGrow /\ NewIsBare'
  BY <1>1, <1>2, <1>4 DEF RowsTyped, RowsGrow, NewIsBare, bounds, history, Knows
<1>6. request'[r] = s
  BY <1>2, <1>3, Moves
<1>7. request[r].queue \subseteq Messages /\ request[r].failed \subseteq Messages
      /\ request[r].sentToday \in Nat
  BY DEF RequestState
<1>8. Knows(r)'
  BY <1>3, <1>5, <1>6, <1>7 DEF Knows, AtMessage, RowsGrow
<1>9. sentInLast24h' \subseteq sentInLast24h
  BY <1>2 DEF sentInLast24h, RowsTyped
<1>10. Cardinality(sentInLast24h)' <= Cardinality(sentInLast24h)
       /\ Cardinality(sentInLast24h)' \in Nat /\ Cardinality(sentInLast24h) \in Nat
  BY <1>9, SentCount, SentGrowth
<1>11. Counts(r)'
  BY <1>1, <1>3, <1>6, <1>7, <1>10 DEF Counts, AtMessage
<1> QED
  BY <1>1, <1>2, <1>3, <1>5, <1>8, <1>11, RunStep

LEMMA PrepareHolds ==
    ASSUME Inv, NEW r \in Requests, prepare(r)
    PROVE  Inv'
<1> USE Facts
<1> DEFINE m == Min(request[r].queue)
           s == [Tried(request[r], m) EXCEPT !.at = "claim", !.message = m]
           made == document[m] \/ m \in request[r].bare
<1>1. m \in request[r].queue /\ m \in Messages /\ request[r].at = "loop"
      /\ ~LimitReached(r)
  BY MinIn DEF prepare, MayTry, RequestState
<1>2. /\ document' = [document EXCEPT ![m] = made]
      /\ request' = [request EXCEPT ![r] = s]
      /\ UNCHANGED <<status, attempts, lease, recent, bounds, history>>
  BY DEF prepare
<1>3. made \in BOOLEAN /\ (document[m] => made) /\ status[m] # "NONE"
  BY <1>1 DEF RowsTyped, Knows
<1>0. m \in 0 .. MaxMessages
  BY <1>1, OutboxAssumption DEF Messages
<1> HIDE DEF m, made
<1> DEFINE t == Tried(request[r], m)
<1>t. /\ t \in RequestState /\ t.crowded = request[r].crowded
      /\ t.queue \subseteq request[r].queue /\ t.failed = request[r].failed
      /\ t.scope = request[r].scope /\ t.bare = request[r].bare
      /\ t.sentToday = request[r].sentToday
  BY TriedState
<1> HIDE DEF t
<1>u. s = [t EXCEPT !.at = "claim", !.message = m]
  BY DEF t
<1> HIDE DEF s
<1>4. /\ s \in RequestState /\ s.at = "claim" /\ s.crowded = request[r].crowded
      /\ s.queue \subseteq request[r].queue /\ s.failed = request[r].failed
      /\ s.scope = request[r].scope /\ s.bare = request[r].bare
      /\ s.sentToday = request[r].sentToday /\ s.message = m
  BY <1>0, <1>t, <1>u DEF RequestState, Steps
<1>5. RowsTyped' /\ RowsGrow /\ NewIsBare'
  BY <1>1, <1>2, <1>3 DEF RowsTyped, RowsGrow, NewIsBare, bounds, history
<1>6. request'[r] = s
  BY <1>2, <1>4, Moves
<1>7. Knows(r)'
  BY <1>1, <1>2, <1>3, <1>4, <1>6 DEF Knows, AtMessage
<1>8. sentInLast24h' = sentInLast24h
  BY <1>2 DEF sentInLast24h
<1>9. request[r].sentToday \in Nat /\ DailyLimit \in Nat
  BY OutboxAssumption DEF RequestState
<1>10. Counts(r)'
  BY <1>1, <1>4, <1>6, <1>8, <1>9 DEF Counts, AtMessage, LimitReached
<1> QED
  BY <1>1, <1>2, <1>4, <1>5, <1>7, <1>10, RunStep

\* The request goes back to its list, or ends.
LEMMA BackState ==
    ASSUME NEW q \in RequestState
    PROVE  /\ Back(q) \in RequestState
           /\ q.scope = {} => Back(q) = Idle
           /\ q.scope # {} =>
                /\ Back(q).at = "loop" /\ Back(q).crowded = q.crowded
                /\ Back(q).alone = q.alone /\ Back(q).scope = q.scope
                /\ Back(q).queue = q.queue /\ Back(q).failed = q.failed
                /\ Back(q).bare = q.bare /\ Back(q).sentToday = q.sentToday
<1>1. CASE q.scope = {}
  BY <1>1, IdleState DEF Back
<1>2. CASE q.scope # {}
  <2>1. Back(q) = [q EXCEPT !.at = "loop", !.message = 0]
    BY <1>2 DEF Back
  <2>2. 0 \in 0 .. MaxMessages
    BY OutboxAssumption
  <2> QED
    BY <1>2, <2>1, <2>2 DEF RequestState, Steps
<1> QED
  BY <1>1, <1>2

\* What the invariant says of a request that came back from a message.
LEMMA BackKnows ==
    ASSUME Inv, RowsGrow, NEW r \in Requests, NEW q \in RequestState,
           request'[r] = Back(q),
           q.scope = request[r].scope, q.queue = request[r].queue,
           q.failed = request[r].failed, q.bare = request[r].bare
    PROVE  Knows(r)'
<1> USE Facts
<1>1. CASE q.scope = {}
  BY <1>1, BackState, IdleState DEF Knows, AtMessage
<1>2. CASE q.scope # {}
  <2>1. request[r].queue \subseteq Messages /\ request[r].failed \subseteq Messages
    BY DEF RequestState
  <2> QED
    BY <1>2, <2>1, BackState DEF Knows, AtMessage, RowsGrow
<1> QED
  BY <1>1, <1>2

LEMMA ClaimHolds ==
    ASSUME Inv, NEW r \in Requests, claim(r)
    PROVE  Inv'
<1> USE Facts
<1> DEFINE m == request[r].message
           s == [request[r] EXCEPT !.at = "sending"]
           d == IF lease[m] = "OLD" THEN doubts[m] + 1 ELSE doubts[m]
<1>1. /\ request[r].at = "claim" /\ m \in Messages
      /\ attempts' = [attempts EXCEPT ![m] = OneMore(m)]
      /\ lease' = [lease EXCEPT ![m] = "TAKEN"]
      /\ doubts' = [doubts EXCEPT ![m] = d]
      /\ request' = [request EXCEPT ![r] = s]
      /\ UNCHANGED <<status, document, recent, bounds, deliveries>>
  BY DEF claim, Knows, AtMessage
<1>2. OneMore(m) \in 0 .. MaxAttempts /\ d \in Nat
  BY <1>1, OutboxAssumption DEF OneMore, RowsTyped
<1> HIDE DEF d
<1>3. RowsTyped' /\ RowsGrow /\ NewIsBare'
  BY <1>1, <1>2 DEF RowsTyped, RowsGrow, NewIsBare, bounds
<1>4. /\ s \in RequestState /\ s.at = "sending" /\ s.crowded = request[r].crowded
      /\ s.failed = request[r].failed /\ s.scope = request[r].scope
      /\ s.queue = request[r].queue /\ s.bare = request[r].bare
      /\ s.sentToday = request[r].sentToday /\ s.message = request[r].message
  BY DEF RequestState, Steps
<1> HIDE DEF s
<1>5. request'[r] = s
  BY <1>1, <1>4, Moves
<1>6. Knows(r)'
  BY <1>1, <1>4, <1>5 DEF Knows, AtMessage
<1>7. sentInLast24h' = sentInLast24h
  BY <1>1 DEF sentInLast24h
<1>8. Counts(r)'
  BY <1>1, <1>4, <1>5, <1>7 DEF Counts, AtMessage
<1> QED
  BY <1>1, <1>3, <1>4, <1>6, <1>8, RunStep

LEMMA ClaimRefusedHolds ==
    ASSUME Inv, NEW r \in Requests, claimRefused(r)
    PROVE  Inv'
<1> USE Facts
<1> DEFINE seen == IF status[request[r].message] = "SENT" THEN 1 ELSE 0
           n == request[r].sentToday + seen
           q == Counted(request[r], seen)
           s == Back(q)
<1>1. /\ request[r].at = "claim"
      /\ request' = [request EXCEPT ![r] = s]
      /\ UNCHANGED <<rows, bounds, history>>
  BY DEF claimRefused
<1>2. n \in Nat /\ n >= request[r].sentToday /\ request[r].sentToday \in Nat
  BY DEF RequestState
<1>q. q = [request[r] EXCEPT !.sentToday = n, !.ok = FALSE]
  BY DEF Counted
<1> HIDE DEF n, q
<1>3. /\ q \in RequestState /\ q.crowded = request[r].crowded
      /\ q.failed = request[r].failed /\ q.scope = request[r].scope
      /\ q.queue = request[r].queue /\ q.bare = request[r].bare
      /\ q.sentToday = n
  BY <1>2, <1>q DEF RequestState
<1>4. s \in RequestState /\ (s.at # "idle" => s.crowded = request[r].crowded)
  BY <1>3, BackState, IdleState
<1>5. request'[r] = s
  BY <1>1, <1>4, Moves
<1>6. RowsTyped' /\ RowsGrow /\ NewIsBare' /\ sentInLast24h' = sentInLast24h
  BY <1>1 DEF RowsTyped, RowsGrow, NewIsBare, rows, bounds, history, sentInLast24h
<1>7. Knows(r)'
  BY <1>3, <1>5, <1>6, BackKnows
<1>8. Counts(r)'
  <2>1. CASE q.scope = {}
    BY <2>1, <1>3, <1>5, BackState, IdleState DEF Counts
  <2>2. CASE q.scope # {}
    <3>1. s.at = "loop" /\ s.crowded = request[r].crowded
          /\ s.scope = request[r].scope /\ s.sentToday = n
      BY <2>2, <1>3, BackState
    <3> HIDE DEF s
    <3> QED
      BY <3>1, <1>1, <1>2, <1>5, <1>6, SentCount DEF Counts, AtMessage
  <2> QED
    BY <2>1, <2>2
<1> QED
  BY <1>1, <1>4, <1>6, <1>7, <1>8, RunStep

LEMMA AnswersHold ==
    ASSUME Inv, NEW r \in Requests, accepted(r) \/ rejected(r) \/ answerLost(r)
    PROVE  Inv'
<1> USE Facts
<1> DEFINE m == request[r].message
<1>1. m \in Messages /\ request[r].at = "sending"
  BY DEF accepted, rejected, answerLost, Knows, AtMessage
<1>2. PICK ok \in BOOLEAN :
        request' = [request EXCEPT ![r] = [request[r] EXCEPT !.at = "answered", !.ok = ok]]
  BY DEF accepted, rejected, answerLost, Answer
<1> DEFINE s == [request[r] EXCEPT !.at = "answered", !.ok = ok]
<1>3. /\ UNCHANGED <<rows, sends>>
      /\ faults' \in 0 .. MaxFaults
      /\ deliveries' \in [Messages -> Nat] /\ doubts' \in [Messages -> Nat]
  <2>1. CASE accepted(r)
    BY <1>1, <2>1 DEF accepted, bounds, RowsTyped
  <2>2. CASE rejected(r)
    BY <2>2 DEF rejected, bounds, history, RowsTyped
  <2>3. CASE answerLost(r)
    BY <1>1, <2>3, OutboxAssumption DEF answerLost, RowsTyped
  <2> QED
    BY <2>1, <2>2, <2>3
<1>4. RowsTyped' /\ RowsGrow /\ NewIsBare' /\ sentInLast24h' = sentInLast24h
  BY <1>3 DEF RowsTyped, RowsGrow, NewIsBare, rows, sentInLast24h
<1>5. /\ s \in RequestState /\ s.at = "answered" /\ s.crowded = request[r].crowded
      /\ s.failed = request[r].failed /\ s.scope = request[r].scope
      /\ s.queue = request[r].queue /\ s.bare = request[r].bare
      /\ s.sentToday = request[r].sentToday /\ s.message = request[r].message
  BY DEF RequestState, Steps
<1>6. request' = [request EXCEPT ![r] = s]
  BY <1>2
<1> HIDE DEF s
<1>7. request'[r] = s
  BY <1>5, <1>6, Moves
<1>8. Knows(r)'
  BY <1>1, <1>3, <1>5, <1>7 DEF Knows, AtMessage, rows
<1>9. Counts(r)'
  BY <1>1, <1>4, <1>5, <1>7 DEF Counts, AtMessage
<1> QED
  BY <1>1, <1>4, <1>5, <1>6, <1>8, <1>9, RunStep

LEMMA RecordHolds ==
    ASSUME Inv, NEW r \in Requests, record(r)
    PROVE  Inv'
<1> USE Facts
<1> DEFINE m  == request[r].message
           ok == request[r].ok
           more == IF ok THEN 1 ELSE 0
           n == request[r].sentToday + more
           q == Counted(request[r], more)
           s == Back(q)
           outcome == IF ok THEN "SENT" ELSE "FAILED"
<1>1. /\ request[r].at = "answered" /\ m \in Messages
      /\ status' = [status EXCEPT ![m] = outcome]
      /\ lease' = [lease EXCEPT ![m] = "FREE"]
      /\ recent' = IF ok THEN recent \cup {m} ELSE recent
      /\ request' = [request EXCEPT ![r] = s]
      /\ UNCHANGED <<attempts, document, bounds, history>>
  BY DEF record, Result, Knows, AtMessage
<1>2. /\ n \in Nat /\ request[r].sentToday \in Nat
      /\ n = IF ok THEN request[r].sentToday + 1 ELSE request[r].sentToday
  BY DEF RequestState
<1>q. q = [request[r] EXCEPT !.sentToday = n, !.ok = FALSE]
  BY DEF Counted
<1>a. outcome \in {"SENT", "FAILED"} /\ (outcome = "SENT" => ok) /\ status[m] # "NONE"
  BY <1>1 DEF Knows, AtMessage
<1> HIDE DEF n, m, ok, outcome, q, more
<1>3. /\ q \in RequestState /\ q.crowded = request[r].crowded
      /\ q.failed = request[r].failed /\ q.scope = request[r].scope
      /\ q.queue = request[r].queue /\ q.bare = request[r].bare
      /\ q.sentToday = n
  BY <1>2, <1>q DEF RequestState
<1>4. s \in RequestState /\ (s.at # "idle" => s.crowded = request[r].crowded)
  BY <1>3, BackState, IdleState
<1>5. request'[r] = s
  BY <1>1, <1>4, Moves
<1>6. RowsTyped' /\ RowsGrow /\ NewIsBare'
  BY <1>1, <1>a DEF RowsTyped, RowsGrow, NewIsBare, bounds, history
<1>7. Knows(r)'
  BY <1>3, <1>5, <1>6, BackKnows
<1>8. /\ sentInLast24h' \subseteq sentInLast24h \cup {m}
      /\ ~ok => sentInLast24h' \subseteq sentInLast24h
  BY <1>1, <1>a DEF sentInLast24h, RowsTyped
<1>9. Counts(r)'
  <2>1. CASE q.scope = {}
    BY <2>1, <1>3, <1>5, BackState, IdleState DEF Counts
  <2>2. CASE q.scope # {}
    <3>1. s.at = "loop" /\ s.crowded = request[r].crowded
          /\ s.scope = request[r].scope /\ s.sentToday = n
      BY <2>2, <1>3, BackState
    <3> HIDE DEF s
    <3>2. /\ Cardinality(sentInLast24h)' \in Nat /\ Cardinality(sentInLast24h) \in Nat
          /\ Cardinality(sentInLast24h)' <= Cardinality(sentInLast24h) + 1
          /\ ~ok => Cardinality(sentInLast24h)' <= Cardinality(sentInLast24h)
      BY <1>8, SentCount, SentGrowth
    <3>3. ASSUME ~request[r].crowded, request[r].scope # {}
          PROVE  Cardinality(sentInLast24h)' <= n
      <4>1. Cardinality(sentInLast24h) <= request[r].sentToday
        BY <1>1, <3>3 DEF Counts, AtMessage
      <4> QED
        BY <4>1, <3>2, <1>2
    <3> QED
      BY <3>1, <3>3, <1>5 DEF Counts, AtMessage
  <2> QED
    BY <2>1, <2>2
<1> QED
  BY <1>1, <1>4, <1>6, <1>7, <1>9, RunStep

-----------------------------------------------------------------------------
LEMMA InvInit == Init => Inv
<1> SUFFICES ASSUME Init PROVE Inv
  OBVIOUS
<1>1. \A r \in Requests : request[r] = Idle
  BY DEF Init
<1>2. RowsTyped /\ NewIsBare
  BY OutboxAssumption DEF Init, RowsTyped, NewIsBare
<1>3. request \in [Requests -> RequestState]
  BY IdleState DEF Init
<1>4. \A r \in Requests : Knows(r) /\ Counts(r)
  BY <1>1, IdleState DEF Knows, Counts, AtMessage
<1>5. Uncrowded
  BY <1>1, IdleState DEF Uncrowded
<1> QED
  BY <1>2, <1>3, <1>4, <1>5 DEF Inv, TypeOK, RowsTyped

LEMMA InvStep == Inv /\ [Next]_vars => Inv'
<1> SUFFICES ASSUME Inv, [Next]_vars PROVE Inv'
  OBVIOUS
<1>1. ASSUME NEW r \in Requests, step(r) PROVE Inv'
  BY <1>1, RequeueHolds, ReadQueueHolds, EndsHold, PrepareFailsHolds, PrepareHolds,
     ClaimHolds, ClaimRefusedHolds, AnswersHold, RecordHolds DEF step
<1>2. CASE UNCHANGED vars
  <2>1. UNCHANGED <<status, attempts, lease, document, recent, request, sends, faults,
                    deliveries, doubts>>
    BY <1>2 DEF vars, rows, bounds, history
  <2>2. RowsTyped' /\ RowsGrow /\ NewIsBare' /\ sentInLast24h' = sentInLast24h
    BY <2>1, Facts DEF RowsTyped, RowsGrow, NewIsBare, sentInLast24h
  <2> QED
    BY <2>1, <2>2, TableStep
<1> QED
  BY <1>1, <1>2, WritingHolds, TimeHolds, EndsHold, SingleHolds, ClicksHold DEF Next

LEMMA InvAlways == Spec => []Inv
BY InvInit, InvStep, PTL DEF Spec

\* Every row and every request stays of its type, for any number of messages,
\* requests and faults; the message a request works on is one of its own.
THEOREM TypeCorrect == Spec => []TypeOK
<1>1. Inv => TypeOK
  BY DEF Inv
<1> QED
  BY <1>1, InvAlways, PTL

\* No list is sent past the daily limit, except by a request that another one
\* ran beside: what the request counted is never behind the table
\* (dispatchQueued, sentInLast24h).
THEOREM LimitHolds == Spec => LimitKept
<1> DEFINE Within == \A r \in Requests :
              ( /\ request[r].at = "sending" /\ request'[r].at = "answered"
                /\ request[r].scope # {}
                /\ ~request[r].crowded
                /\ deliveries' # deliveries )
              => Cardinality(sentInLast24h) < DailyLimit
<1>1. Inv /\ [Next]_vars => [Within]_vars
  <2> SUFFICES ASSUME Inv, NEW r \in Requests,
                      request[r].at = "sending", request[r].scope # {},
                      ~request[r].crowded
               PROVE  Cardinality(sentInLast24h) < DailyLimit
    OBVIOUS
  <2>1. /\ Cardinality(sentInLast24h) <= request[r].sentToday
        /\ request[r].sentToday < DailyLimit
    BY Facts DEF Counts, AtMessage
  <2>2. request[r].sentToday \in Nat /\ DailyLimit \in Nat
    BY Facts, OutboxAssumption DEF RequestState
  <2> QED
    BY <2>1, <2>2, SentCount
<1> QED
  BY <1>1, InvAlways, PTL DEF Spec, LimitKept

-----------------------------------------------------------------------------
(* SentOnce.  A claim that raises no doubt is the only one of its message:  *)
(* the credit of a message covers its deliveries and the claims of which    *)
(* nobody knows yet whether they became one.                                *)

\* The load of a message depends on these fields only.
LEMMA LoadSame ==
    ASSUME NEW m \in Messages,
           \A o \in Requests :
              \/ /\ request'[o].at = request[o].at
                 /\ request'[o].message = request[o].message
                 /\ request'[o].ok = request[o].ok
              \/ /\ request[o].at \notin {"sending", "answered"}
                 /\ request'[o].at \notin {"sending", "answered"}
    PROVE  Load(m)' = Load(m)
BY DEF Load, Owes

\* The rows change, the claims do not, and no message becomes one that may be
\* claimed without a doubt.
LEMMA CreditSame ==
    ASSUME Inv, NEW m \in Messages, Credit(m), Load(m)' = Load(m),
           deliveries' = deliveries, doubts' = doubts,
           status'[m] # "SENT" /\ lease'[m] = "FREE"
                => status[m] # "SENT" /\ lease[m] = "FREE"
    PROVE  Credit(m)'
BY DEF Credit

\* A claim that ends without a delivery gives its credit back.
LEMMA LoadLess ==
    ASSUME NEW m \in Messages, IsFiniteSet(Load(m)), NEW r,
           Load(m)' = Load(m) \ {r}
    PROVE  /\ IsFiniteSet(Load(m)') /\ Cardinality(Load(m)) \in Nat
           /\ Cardinality(Load(m)') = IF r \in Load(m) THEN Cardinality(Load(m)) - 1
                                     ELSE Cardinality(Load(m))
BY FS_RemoveElement, FS_CardinalityType

LEMMA CreditRemoved ==
    ASSUME Inv, NEW m \in Messages, Credit(m), NEW r,
           Load(m)' = Load(m) \ {r},
           deliveries' = deliveries, doubts' = doubts,
           status'[m] # "SENT" /\ lease'[m] = "FREE"
                => \/ status[m] # "SENT" /\ lease[m] = "FREE"
                   \/ r \in Load(m)
    PROVE  Credit(m)'
<1>1. /\ IsFiniteSet(Load(m)') /\ Cardinality(Load(m)) \in Nat
      /\ Cardinality(Load(m)') = IF r \in Load(m) THEN Cardinality(Load(m)) - 1
                                ELSE Cardinality(Load(m))
  BY LoadLess DEF Credit
<1>2. deliveries[m] \in Nat /\ doubts[m] \in Nat
  BY Facts DEF RowsTyped
<1> QED
  BY <1>1, <1>2 DEF Credit

\* What holds of a request's lists goes on to hold while nobody else writes the
\* messages of one that runs alone.
LEMMA SoleStays ==
    ASSUME Inv, RowsGrow, NEW o \in Requests, Sole(o),
           request'[o].alone = request[o].alone,
           request'[o].scope = request[o].scope,
           request'[o].failed \subseteq request[o].failed,
           request'[o].queue \subseteq request[o].queue,
           request'[o].bare \subseteq request[o].bare,
           request[o].alone =>
              /\ \A m \in request'[o].failed : status'[m] = status[m]
              /\ \A m \in request'[o].queue : status'[m] = status[m],
           request'[o].at # "requeue" => request'[o].failed = {},
           request'[o].at \in AtMessage => request'[o].message \notin request'[o].queue
    PROVE  Sole(o)'
<1>1. request[o].scope \subseteq Messages
  BY Facts DEF RequestState
<1>2. \A m \in request[o].scope : ~Bare(m) => ~Bare(m)'
  BY <1>1 DEF RowsGrow, Bare
<1> QED
  BY <1>2 DEF Sole

\* One request runs on; what it writes is its own.
LEMMA RunApart ==
    ASSUME Inv, ExclusiveInv, NEW r \in Requests, NEW s \in RequestState,
           request' = [request EXCEPT ![r] = s],
           s.alone => request[r].alone,
           s.scope = request[r].scope \/ s.scope = {},
           RowsGrow,
           \A m \in Messages : status'[m] # status[m] =>
                \/ m \in request[r].scope
                \/ request[r].scope = {} /\ Kind[m] = "DIRECT",
           Sole(r)'
    PROVE  Apart' /\ \A o \in Requests : Sole(o)'
<1>1. request'[r] = s /\ \A o \in Requests : o # r => request'[o] = request[o]
  BY Moves
<1>2. Apart
  BY DEF ExclusiveInv
<1>3. Apart'
  BY <1>1, <1>2 DEF Apart
<1>4. ASSUME NEW o \in Requests, o # r PROVE Sole(o)'
  <2>1. Sole(o) /\ request'[o] = request[o]
    BY <1>1, <1>4 DEF ExclusiveInv
  <2>2. /\ request[o].scope \subseteq {m \in Messages : Kind[m] # "DIRECT"}
        /\ request[o].failed \subseteq request[o].scope
        /\ request[o].queue \subseteq request[o].scope
    BY Facts DEF Knows
  <2>3. ASSUME request[o].alone, NEW m \in request[o].scope PROVE status'[m] = status[m]
    <3>1. request[r].scope = {}
      BY <1>2, <1>4, <2>3 DEF Apart
    <3> QED
      BY <2>2, <3>1
  <2> QED
    BY <2>1, <2>2, <2>3, SoleStays DEF Sole
<1> QED
  BY <1>3, <1>4

\* An idle request begins.
LEMMA StartApart ==
    ASSUME Inv, ExclusiveInv, NEW r \in Requests, NEW s \in RequestState,
           Start(r, s), RowsGrow,
           \A m \in Messages : status[m] # "NONE" => status'[m] = status[m],
           s.scope # {} => \A q \in Requests : ~request[q].alone,
           s.alone => Running = {},
           Sole(r)'
    PROVE  Apart' /\ \A o \in Requests : Sole(o)'
<1>1. Alike(request'[r], s) /\ \A o \in Requests : o # r => Stays(o)
  BY Starts
<1>2. ASSUME NEW o \in Requests, o # r
      PROVE  /\ request'[o].at = request[o].at /\ request'[o].alone = request[o].alone
             /\ request'[o].scope = request[o].scope
  BY <1>1, <1>2 DEF Stays, Alike
<1>3. Running = {} => \A o \in Requests : request[o].scope = {}
  BY Facts DEF Running, Knows
<1>4. Apart'
  BY <1>1, <1>2, <1>3 DEF ExclusiveInv, Apart, Alike
<1>5. ASSUME NEW o \in Requests, o # r PROVE Sole(o)'
  <2>1. Sole(o) /\ Stays(o)
    BY <1>1, <1>5 DEF ExclusiveInv
  <2>2. /\ \A m \in request[o].failed : m \in Messages /\ status[m] # "NONE"
        /\ \A m \in request[o].queue : m \in Messages /\ status[m] # "NONE"
    BY Facts DEF Knows
  <2> QED
    BY <2>1, <2>2, SoleStays DEF Sole, Stays, Alike
<1> QED
  BY <1>4, <1>5

\* No request moves.
LEMMA TableApart ==
    ASSUME Inv, ExclusiveInv, request' = request, RowsGrow,
           \A m \in Messages : status[m] # "NONE" => status'[m] = status[m]
    PROVE  Apart' /\ \A o \in Requests : Sole(o)'
<1>1. Apart'
  BY DEF ExclusiveInv, Apart
<1>2. ASSUME NEW o \in Requests PROVE Sole(o)'
  <2>1. Sole(o)
    BY DEF ExclusiveInv
  <2>2. /\ \A m \in request[o].failed : m \in Messages /\ status[m] # "NONE"
        /\ \A m \in request[o].queue : m \in Messages /\ status[m] # "NONE"
    BY Facts DEF Knows
  <2> QED
    BY <2>1, <2>2, SoleStays DEF Sole
<1> QED
  BY <1>1, <1>2

\* A request that runs on takes its claim with it, or leaves it.
LEMMA RunLoad ==
    ASSUME Inv, NEW r \in Requests, NEW s \in RequestState,
           request' = [request EXCEPT ![r] = s], NEW m \in Messages
    PROVE  Load(m)' = IF Owes(s, m) THEN Load(m) \cup {r} ELSE Load(m) \ {r}
<1>1. request'[r] = s /\ \A o \in Requests : o # r => request'[o] = request[o]
  BY Moves
<1>2. \A o \in Requests : o \in Load(m)' <=> Owes(request'[o], m)
  BY DEF Load, Owes
<1>3. \A o \in Requests : o \in Load(m) <=> Owes(request[o], m)
  BY DEF Load
<1>4. Load(m)' \subseteq Requests /\ Load(m) \subseteq Requests
  BY DEF Load
<1> QED
  BY <1>1, <1>2, <1>3, <1>4

LEMMA WritingApart ==
    ASSUME Inv, ExclusiveInv, NEW n \in Messages, enqueueNotification(n)
    PROVE  ExclusiveInv'
<1> USE Facts
<1>1. status[n] = "NONE" /\ status' = [status EXCEPT ![n] = "QUEUED"]
      /\ UNCHANGED <<attempts, lease, recent, request, bounds, history>>
  BY DEF enqueueNotification, IsNext, Unwritten
<1>2. ~document[n]
  BY <1>1 DEF NewIsBare
<1>3. \A m \in Messages : document[m] => document'[m]
  BY <1>2 DEF enqueueNotification, RowsTyped
<1>4. RowsGrow /\ \A m \in Messages : status[m] # "NONE" => status'[m] = status[m]
  BY <1>1, <1>3 DEF RowsGrow, RowsTyped
<1>5. Apart' /\ \A o \in Requests : Sole(o)'
  BY <1>1, <1>4, TableApart
<1>6. ASSUME NEW m \in Messages PROVE Credit(m)'
  BY <1>1, LoadSame, CreditSame DEF ExclusiveInv, history, RowsTyped
<1> QED
  BY <1>5, <1>6 DEF ExclusiveInv

LEMMA TimeApart ==
    ASSUME Inv, ExclusiveInv,
           dayPasses \/ \E m \in Messages : leaseExpires(m) \/ leaseOutlived(m)
    PROVE  ExclusiveInv'
<1> USE Facts
<1>1. /\ UNCHANGED <<status, attempts, document, request, sends, deliveries, doubts>>
      /\ \A m \in Messages : lease'[m] = "FREE" => lease[m] = "FREE"
  BY DEF dayPasses, leaseExpires, leaseOutlived, bounds, history, RowsTyped
<1>2. RowsGrow /\ \A m \in Messages : status[m] # "NONE" => status'[m] = status[m]
  BY <1>1 DEF RowsGrow
<1>3. Apart' /\ \A o \in Requests : Sole(o)'
  BY <1>1, <1>2, TableApart
<1>4. ASSUME NEW m \in Messages PROVE Credit(m)'
  BY <1>1, LoadSame, CreditSame DEF ExclusiveInv
<1> QED
  BY <1>3, <1>4 DEF ExclusiveInv

\* Nobody claims anything by starting; the rows of written messages stay.
LEMMA StartCredit ==
    ASSUME Inv, ExclusiveInv, NEW r \in Requests, NEW s \in RequestState,
           request[r].at = "idle", Start(r, s),
           s.at \in {"read", "requeue", "claim"},
           UNCHANGED <<lease, deliveries, doubts>>,
           \A m \in Messages : status'[m] # "SENT" => status[m] # "SENT"
    PROVE  \A m \in Messages : Credit(m)'
<1> SUFFICES ASSUME NEW m \in Messages PROVE Credit(m)'
  OBVIOUS
<1>1. Alike(request'[r], s) /\ \A o \in Requests : o # r => Stays(o)
  BY Starts
<1>2. Load(m)' = Load(m)
  BY <1>1, LoadSame DEF Stays, Alike
<1> QED
  BY <1>2, CreditSame DEF ExclusiveInv

LEMMA SingleApart ==
    ASSUME Inv, ExclusiveInv, NEW r \in Requests, NEW m \in Messages,
           queueNotification(r, m)
    PROVE  ExclusiveInv'
<1> USE Facts
<1> DEFINE s == [Idle EXCEPT !.at = "claim", !.message = m]
<1>0. m \in 0 .. MaxMessages
  BY OutboxAssumption DEF Messages
<1>1. /\ s \in RequestState
      /\ s.at = "claim" /\ s.message = m /\ s.scope = {} /\ s.failed = {}
      /\ s.queue = {} /\ s.bare = {} /\ ~s.alone
  BY <1>0, IdleState DEF RequestState, Steps
<1> HIDE DEF s
<1>2. /\ Start(r, s) /\ request[r].at = "idle" /\ status[m] = "NONE"
      /\ status' = [status EXCEPT ![m] = "QUEUED"]
      /\ UNCHANGED <<attempts, lease, document, recent, bounds, history>>
  BY DEF queueNotification, IsNext, Unwritten, s
<1>3. RowsGrow /\ \A n \in Messages : status[n] # "NONE" => status'[n] = status[n]
  BY <1>2 DEF RowsGrow, RowsTyped
<1>4. Alike(request'[r], s)
  BY <1>1, <1>2, Starts
<1>5. Sole(r)'
  BY <1>1, <1>4 DEF Alike, Sole
<1>6. Apart' /\ \A o \in Requests : Sole(o)'
  BY <1>1, <1>2, <1>3, <1>5, StartApart
<1>7. \A n \in Messages : Credit(n)'
  BY <1>1, <1>2, StartCredit DEF history, RowsTyped
<1> QED
  BY <1>6, <1>7 DEF ExclusiveInv

LEMMA ClicksApart ==
    ASSUME Exclusive = TRUE, Inv, ExclusiveInv,
           NEW r \in Requests, NEW scope \in Scopes,
           clickSend(r, scope) \/ clickResend(r, scope)
    PROVE  ExclusiveInv'
<1> USE Facts
<1>1. scope \subseteq {m \in Messages : Kind[m] # "DIRECT"}
  BY OutboxAssumption
<1>2. request[r].at = "idle" /\ UNCHANGED <<rows, history>>
  BY DEF clickSend, clickResend
<1>3. PICK s \in RequestState :
        /\ Start(r, s)
        /\ s.at \in {"read", "requeue"} /\ s.scope = scope
        /\ s.at # "requeue" => s.failed = {}
        /\ \A m \in s.failed : status[m] = "FAILED"
        /\ s.queue = {} /\ s.bare = {}
        /\ ~s.alone => s.failed = {} /\ \A m \in scope : ~Bare(m)
        /\ s.alone => Running = {}
        /\ \A q \in Running : ~request[q].alone
  <2>1. CASE clickSend(r, scope)
    <3> DEFINE alone == Alone("send", scope)
               s == [Idle EXCEPT !.at = "read", !.scope = scope, !.alone = alone]
    <3>1. alone \in BOOLEAN /\ (~alone => \A m \in scope : ~Bare(m))
      BY DEF Alone
    <3>2. Start(r, s) /\ \A q \in Running : ~alone /\ ~request[q].alone
      BY <2>1 DEF clickSend, MayStart
    <3> HIDE DEF alone
    <3>3. /\ s \in RequestState /\ s.at = "read" /\ s.scope = scope
          /\ s.failed = {} /\ s.queue = {} /\ s.bare = {} /\ s.alone = alone
      BY <1>1, <3>1, IdleState DEF RequestState, Steps
    <3> HIDE DEF s
    <3> QED
      BY <3>1, <3>2, <3>3
  <2>2. CASE clickResend(r, scope)
    <3> DEFINE alone == Alone("resend", scope)
               failed == {m \in scope : Retryable(m)}
               s == [Idle EXCEPT !.at = "requeue", !.scope = scope, !.alone = alone,
                                 !.failed = failed]
    <3>1. alone \in BOOLEAN /\ alone /\ failed \subseteq Messages
          /\ \A m \in failed : status[m] = "FAILED"
      BY <1>1 DEF Alone, Retryable
    <3>2. Start(r, s) /\ \A q \in Running : ~alone /\ ~request[q].alone
      BY <2>2 DEF clickResend, MayStart
    <3> HIDE DEF alone, failed
    <3>3. /\ s \in RequestState /\ s.at = "requeue" /\ s.scope = scope
          /\ s.failed = failed /\ s.queue = {} /\ s.bare = {} /\ s.alone = alone
      BY <1>1, <3>1, IdleState DEF RequestState, Steps
    <3> HIDE DEF s
    <3> QED
      BY <3>1, <3>2, <3>3
  <2> QED
    BY <2>1, <2>2
<1>4. RowsGrow /\ \A m \in Messages : status[m] # "NONE" => status'[m] = status[m]
  BY <1>2 DEF RowsGrow, rows
<1>5. Alike(request'[r], s)
  BY <1>3, Starts
<1>6. \A m \in scope : Bare(m)' <=> Bare(m)
  BY <1>2 DEF Bare, rows
<1>7. Sole(r)'
  BY <1>2, <1>3, <1>5, <1>6 DEF Sole, Alike, AtMessage, rows
<1>8. \A q \in Requests : ~request[q].alone
  BY <1>3 DEF Knows, Running
<1>9. Apart' /\ \A o \in Requests : Sole(o)'
  BY <1>3, <1>4, <1>7, <1>8, StartApart
<1>10. \A m \in Messages : Credit(m)'
  BY <1>2, <1>3, StartCredit DEF rows, history
<1> QED
  BY <1>9, <1>10 DEF ExclusiveInv

\* A request that holds no claim runs on and claims nothing.
LEMMA QuietCredit ==
    ASSUME Inv, ExclusiveInv, NEW r \in Requests, NEW s \in RequestState,
           request' = [request EXCEPT ![r] = s],
           request[r].at \notin {"sending", "answered"},
           s.at \notin {"sending", "answered"},
           UNCHANGED <<lease, deliveries, doubts>>,
           \A m \in Messages : status'[m] # "SENT" => status[m] # "SENT"
    PROVE  \A m \in Messages : Credit(m)'
<1> SUFFICES ASSUME NEW m \in Messages PROVE Credit(m)'
  OBVIOUS
<1>1. Load(m)' = Load(m)
  BY RunLoad DEF Load, Owes
<1> QED
  BY <1>1, CreditSame DEF ExclusiveInv

LEMMA RequeueApart ==
    ASSUME Inv, ExclusiveInv, NEW r \in Requests, requeueFailed(r)
    PROVE  ExclusiveInv'
<1> USE Facts
<1> DEFINE m == Min(request[r].failed)
           failed == request[r].failed \ {m}
           s == [request[r] EXCEPT !.failed = failed]
<1>1. m \in request[r].failed /\ m \in Messages
  BY MinIn DEF requeueFailed, RequestState
<1>2. /\ request[r].at = "requeue"
      /\ status' = [status EXCEPT ![m] = "QUEUED"]
      /\ request' = [request EXCEPT ![r] = s]
      /\ UNCHANGED <<attempts, lease, document, recent, bounds, history>>
  BY DEF requeueFailed
<1>3. Sole(r)
  BY DEF ExclusiveInv
<1>4. request[r].alone /\ status[m] = "FAILED" /\ m \in request[r].scope
  BY <1>1, <1>3 DEF Sole, Knows
<1>5. failed \subseteq request[r].failed \ {m}
  OBVIOUS
<1> HIDE DEF m, failed
<1>6. /\ s \in RequestState /\ s.at = "requeue" /\ s.alone = request[r].alone
      /\ s.failed = failed /\ s.scope = request[r].scope
      /\ s.queue = request[r].queue /\ s.bare = request[r].bare
  BY <1>2, <1>5 DEF RequestState
<1> HIDE DEF s
<1>7. request'[r] = s
  BY <1>2, <1>6, Moves
<1>8. \A n \in Messages : status'[n] = IF n = m THEN "QUEUED" ELSE status[n]
  BY <1>2 DEF RowsTyped
<1>9. RowsGrow
  BY <1>1, <1>2, <1>8 DEF RowsGrow
<1>10. request[r].failed \subseteq Messages /\ request[r].queue \subseteq Messages
  BY DEF RequestState
<1>11. Sole(r)'
  BY <1>2, <1>3, <1>4, <1>5, <1>6, <1>7, <1>8, <1>10 DEF Sole, AtMessage
<1>12. Apart' /\ \A o \in Requests : Sole(o)'
  BY <1>1, <1>2, <1>4, <1>6, <1>8, <1>9, <1>11, RunApart
<1>13. \A n \in Messages : Credit(n)'
  BY <1>2, <1>4, <1>6, <1>8, QuietCredit DEF history
<1> QED
  BY <1>12, <1>13 DEF ExclusiveInv

LEMMA ReadQueueApart ==
    ASSUME Inv, ExclusiveInv, NEW r \in Requests, readQueue(r)
    PROVE  ExclusiveInv'
<1> USE Facts
<1> DEFINE queue == {m \in request[r].scope : status[m] = "QUEUED"}
           bare == {m \in queue : Bare(m)}
           sent == Cardinality(sentInLast24h)
           s == [request[r] EXCEPT !.at = "loop", !.queue = queue, !.bare = bare,
                                   !.sentToday = sent]
<1>1. /\ \/ request[r].at = "read"
         \/ request[r].at = "requeue" /\ request[r].failed = {}
      /\ request' = [request EXCEPT ![r] = s]
      /\ UNCHANGED <<rows, bounds, history>>
  BY DEF readQueue
<1>2. Sole(r)
  BY DEF ExclusiveInv
<1>3. /\ queue \subseteq request[r].scope /\ bare \subseteq queue /\ sent \in Nat
      /\ \A m \in queue : status[m] = "QUEUED"
      /\ ~request[r].alone => bare = {}
  BY <1>2, SentCount DEF Sole
<1> HIDE DEF queue, bare, sent
<1>4. /\ s \in RequestState /\ s.at = "loop" /\ s.alone = request[r].alone
      /\ s.failed = request[r].failed /\ s.scope = request[r].scope
      /\ s.queue = queue /\ s.bare = bare
  BY <1>3 DEF RequestState, Steps
<1> HIDE DEF s
<1>5. request'[r] = s
  BY <1>1, <1>4, Moves
<1>6. RowsGrow /\ \A m \in Messages : Bare(m)' <=> Bare(m)
  BY <1>1 DEF RowsGrow, rows, Bare
<1>7. request[r].scope \subseteq Messages
  BY DEF RequestState
<1>8. Sole(r)'
  BY <1>1, <1>2, <1>3, <1>4, <1>5, <1>6, <1>7 DEF Sole, AtMessage, rows
<1>9. Apart' /\ \A o \in Requests : Sole(o)'
  BY <1>1, <1>4, <1>6, <1>8, RunApart DEF rows
<1>10. \A m \in Messages : Credit(m)'
  BY <1>1, <1>4, QuietCredit DEF rows, history
<1> QED
  BY <1>9, <1>10 DEF ExclusiveInv

LEMMA PrepareFailsApart ==
    ASSUME Inv, ExclusiveInv, NEW r \in Requests, prepareFails(r)
    PROVE  ExclusiveInv'
<1> USE Facts
<1> DEFINE m == Min(request[r].queue)
           s == Tried(request[r], m)
<1>1. /\ m \in request[r].queue /\ m \in Messages /\ request[r].at = "loop"
      /\ m \in request[r].bare
  BY MinIn DEF prepareFails, MayTry, RequestState
<1>2. /\ status' = [status EXCEPT ![m] = "FAILED"]
      /\ attempts' = [attempts EXCEPT ![m] = OneMore(m)]
      /\ request' = [request EXCEPT ![r] = s]
      /\ UNCHANGED <<lease, document, recent, bounds, history>>
  BY DEF prepareFails
<1>3. Sole(r)
  BY DEF ExclusiveInv
<1>4. request[r].alone /\ status[m] = "QUEUED" /\ m \in request[r].scope
  BY <1>1, <1>3 DEF Sole, Knows
<1> HIDE DEF m
<1>5. /\ s \in RequestState /\ s.at = "loop" /\ s.alone = request[r].alone
      /\ s.queue = request[r].queue \ {m} /\ s.failed = request[r].failed
      /\ s.scope = request[r].scope /\ s.bare = request[r].bare
  BY <1>1, TriedState
<1> HIDE DEF s
<1>6. request'[r] = s
  BY <1>2, <1>5, Moves
<1>7. \A n \in Messages : status'[n] = IF n = m THEN "FAILED" ELSE status[n]
  BY <1>2 DEF RowsTyped
<1>8. RowsGrow
  BY <1>1, <1>2, <1>7 DEF RowsGrow
<1>9. request[r].queue \subseteq Messages /\ request[r].failed = {}
  BY <1>1, <1>3 DEF RequestState, Sole
<1>10. Sole(r)'
  BY <1>1, <1>3, <1>4, <1>5, <1>6, <1>7, <1>9 DEF Sole, AtMessage
<1>11. Apart' /\ \A o \in Requests : Sole(o)'
  BY <1>1, <1>2, <1>4, <1>5, <1>7, <1>8, <1>10, RunApart
<1>12. \A n \in Messages : Credit(n)'
  BY <1>1, <1>2, <1>4, <1>5, <1>7, QuietCredit DEF history
<1> QED
  BY <1>11, <1>12 DEF ExclusiveInv

LEMMA PrepareApart ==
    ASSUME Inv, ExclusiveInv, NEW r \in Requests, prepare(r)
    PROVE  ExclusiveInv'
<1> USE Facts
<1> DEFINE m == Min(request[r].queue)
           made == document[m] \/ m \in request[r].bare
           t == Tried(request[r], m)
           s == [t EXCEPT !.at = "claim", !.message = m]
<1>1. m \in request[r].queue /\ m \in Messages /\ request[r].at = "loop"
  BY MinIn DEF prepare, MayTry, RequestState
<1>2. /\ document' = [document EXCEPT ![m] = made]
      /\ request' = [request EXCEPT ![r] = s]
      /\ UNCHANGED <<status, attempts, lease, recent, bounds, history>>
  BY DEF prepare
<1>3. document[m] => made
  OBVIOUS
<1>4. m \in 0 .. MaxMessages
  BY <1>1, OutboxAssumption DEF Messages
<1> HIDE DEF m, made
<1>5. /\ t \in RequestState /\ t.alone = request[r].alone
      /\ t.queue = request[r].queue \ {m} /\ t.failed = request[r].failed
      /\ t.scope = request[r].scope /\ t.bare = request[r].bare
  BY TriedState
<1> HIDE DEF t
<1>6. /\ s \in RequestState /\ s.at = "claim" /\ s.alone = request[r].alone
      /\ s.queue = request[r].queue \ {m} /\ s.failed = request[r].failed
      /\ s.scope = request[r].scope /\ s.bare = request[r].bare /\ s.message = m
  BY <1>4, <1>5 DEF RequestState, Steps
<1> HIDE DEF s
<1>7. request'[r] = s
  BY <1>2, <1>6, Moves
<1>8. RowsGrow
  BY <1>2, <1>3 DEF RowsGrow, RowsTyped
<1>9. request[r].failed = {} /\ Sole(r)
  BY <1>1 DEF ExclusiveInv, Sole
<1>10. Sole(r)'
  BY <1>2, <1>6, <1>7, <1>8, <1>9, SoleStays
<1>11. Apart' /\ \A o \in Requests : Sole(o)'
  BY <1>2, <1>6, <1>8, <1>10, RunApart
<1>12. \A n \in Messages : Credit(n)'
  BY <1>1, <1>2, <1>6, QuietCredit DEF history
<1> QED
  BY <1>11, <1>12 DEF ExclusiveInv

LEMMA BackSole ==
    ASSUME Inv, RowsGrow, NEW r \in Requests, NEW q \in RequestState, Sole(r),
           request'[r] = Back(q), request[r].at \in AtMessage,
           q.alone = request[r].alone, q.scope = request[r].scope,
           q.queue = request[r].queue, q.failed = request[r].failed,
           q.bare = request[r].bare,
           \A m \in request[r].queue : status'[m] = status[m]
    PROVE  Sole(r)'
<1>1. CASE q.scope = {}
  BY <1>1, BackState, IdleState DEF Sole, AtMessage
<1>2. CASE q.scope # {}
  <2>1. request[r].failed = {}
    BY DEF Sole, AtMessage
  <2> QED
    BY <1>2, <2>1, BackState, SoleStays DEF Sole, AtMessage
<1> QED
  BY <1>1, <1>2

LEMMA ClaimRefusedApart ==
    ASSUME Inv, ExclusiveInv, NEW r \in Requests, claimRefused(r)
    PROVE  ExclusiveInv'
<1> USE Facts
<1> DEFINE seen == IF status[request[r].message] = "SENT" THEN 1 ELSE 0
           n == request[r].sentToday + seen
           q == Counted(request[r], seen)
           s == Back(q)
<1>1. /\ request[r].at = "claim"
      /\ request' = [request EXCEPT ![r] = s]
      /\ UNCHANGED <<rows, bounds, history>>
  BY DEF claimRefused
<1>2. n \in Nat
  BY DEF RequestState
<1>3. q = [request[r] EXCEPT !.sentToday = n, !.ok = FALSE]
  BY DEF Counted
<1> HIDE DEF n, q
<1>4. /\ q \in RequestState /\ q.alone = request[r].alone
      /\ q.failed = request[r].failed /\ q.scope = request[r].scope
      /\ q.queue = request[r].queue /\ q.bare = request[r].bare
  BY <1>2, <1>3 DEF RequestState
<1>5. RowsGrow
  BY <1>1 DEF RowsGrow, rows
<1>6. s \in RequestState /\ s.at \in {"idle", "loop"}
      /\ (s.alone => request[r].alone) /\ (s.scope = request[r].scope \/ s.scope = {})
  BY <1>4, BackState, IdleState
<1>7. Sole(r)'
  <2>1. request'[r] = s /\ Sole(r)
    BY <1>1, <1>6, Moves DEF ExclusiveInv
  <2> QED
    BY <1>1, <1>4, <1>5, <2>1, BackSole DEF rows, AtMessage
<1>8. Apart' /\ \A o \in Requests : Sole(o)'
  BY <1>1, <1>5, <1>6, <1>7, RunApart DEF rows
<1>9. \A m \in Messages : Credit(m)'
  BY <1>1, <1>6, QuietCredit DEF rows, history
<1> QED
  BY <1>8, <1>9 DEF ExclusiveInv

\* The end of a request, orderly or not; a claim it held is gone.
LEMMA EndsApart ==
    ASSUME Inv, ExclusiveInv, NEW r \in Requests, finish(r) \/ crash(r)
    PROVE  ExclusiveInv'
<1> USE Facts
<1>1. request' = [request EXCEPT ![r] = Idle] /\ UNCHANGED <<rows, sends, history>>
  BY DEF finish, crash, bounds
<1>2. request'[r] = Idle
  BY <1>1, IdleState, Moves
<1>3. RowsGrow
  BY <1>1 DEF RowsGrow, rows
<1>4. Sole(r)'
  BY <1>2, IdleState DEF Sole, AtMessage
<1>5. Apart' /\ \A o \in Requests : Sole(o)'
  BY <1>1, <1>3, <1>4, IdleState, RunApart DEF rows
<1>6. ASSUME NEW m \in Messages PROVE Credit(m)'
  <2>1. Load(m)' = Load(m) \ {r}
    BY <1>1, IdleState, RunLoad DEF Owes
  <2> QED
    BY <1>1, <2>1, CreditRemoved DEF ExclusiveInv, rows, history
<1> QED
  BY <1>5, <1>6 DEF ExclusiveInv

LEMMA ClaimApart ==
    ASSUME Inv, ExclusiveInv, NEW r \in Requests, claim(r)
    PROVE  ExclusiveInv'
<1> USE Facts
<1>0. PICK m \in Messages : m = request[r].message
  BY DEF claim, Knows, AtMessage
<1> DEFINE s == [request[r] EXCEPT !.at = "sending"]
<1>1. /\ request[r].at = "claim"
      /\ status[m] # "SENT" /\ lease[m] \in {"FREE", "OLD"}
      /\ lease' = [lease EXCEPT ![m] = "TAKEN"]
      /\ doubts' = [doubts EXCEPT ![m] = IF lease[m] = "OLD" THEN doubts[m] + 1
                                         ELSE doubts[m]]
      /\ request' = [request EXCEPT ![r] = s]
      /\ UNCHANGED <<status, document, recent, bounds, deliveries>>
  BY <1>0 DEF claim, Claimable
<1>2. /\ s \in RequestState /\ s.at = "sending" /\ s.alone = request[r].alone
      /\ s.failed = request[r].failed /\ s.scope = request[r].scope
      /\ s.queue = request[r].queue /\ s.bare = request[r].bare
      /\ s.message = m
  BY <1>0 DEF RequestState, Steps
<1> HIDE DEF s
<1>3. request'[r] = s
  BY <1>1, <1>2, Moves
<1>4. RowsGrow
  BY <1>1 DEF RowsGrow
<1>5. Sole(r)'
  BY <1>0, <1>1, <1>2, <1>3, <1>4, SoleStays DEF ExclusiveInv, Sole, AtMessage
<1>6. Apart' /\ \A o \in Requests : Sole(o)'
  BY <1>1, <1>2, <1>4, <1>5, RunApart
<1>7. r \notin Load(m)
  BY <1>1 DEF Load, Owes
<1>8. Credit(m)'
  <2>1. Load(m)' = Load(m) \cup {r}
    BY <1>1, <1>2, RunLoad DEF Owes
  <2>2. Credit(m)
    BY <1>1 DEF ExclusiveInv
  <2>3. /\ IsFiniteSet(Load(m)') /\ Cardinality(Load(m)) \in Nat
        /\ Cardinality(Load(m)') = Cardinality(Load(m)) + 1
    BY <1>7, <2>1, <2>2, FS_AddElement, FS_CardinalityType DEF Credit
  <2>4. deliveries[m] \in Nat /\ doubts[m] \in Nat /\ lease'[m] = "TAKEN"
        /\ doubts'[m] = IF lease[m] = "OLD" THEN doubts[m] + 1 ELSE doubts[m]
    BY <1>1 DEF RowsTyped
  <2> QED
    BY <1>1, <2>2, <2>3, <2>4 DEF Credit
<1>9. ASSUME NEW n \in Messages, n # m PROVE Credit(n)'
  <2>1. Load(n)' = Load(n)
    BY <1>0, <1>1, <1>2, <1>9, RunLoad DEF Owes, Load
  <2>2. lease'[n] = lease[n] /\ doubts'[n] = doubts[n]
    BY <1>1, <1>9 DEF RowsTyped
  <2> QED
    BY <1>1, <2>1, <2>2 DEF ExclusiveInv, Credit
<1> QED
  BY <1>6, <1>8, <1>9 DEF ExclusiveInv

\* The provider's answer, whatever it is: a delivery turns the claim into one,
\* and one that nobody knows of is a doubt.
LEMMA AnswersApart ==
    ASSUME Inv, ExclusiveInv, NEW r \in Requests,
           accepted(r) \/ rejected(r) \/ answerLost(r)
    PROVE  ExclusiveInv'
<1> USE Facts
<1>0. PICK m \in Messages : m = request[r].message
  BY DEF accepted, rejected, answerLost, Knows, AtMessage
<1>1. PICK ok \in BOOLEAN :
        /\ request[r].at = "sending"
        /\ request' = [request EXCEPT ![r] = [request[r] EXCEPT !.at = "answered", !.ok = ok]]
        /\ UNCHANGED rows
        /\ \/ ok /\ deliveries' = [deliveries EXCEPT ![m] = @ + 1] /\ doubts' = doubts
           \/ ~ok /\ UNCHANGED <<deliveries, doubts>>
           \/ ~ok /\ deliveries' = [deliveries EXCEPT ![m] = @ + 1]
                  /\ doubts' = [doubts EXCEPT ![m] = @ + 1]
  <2>1. CASE accepted(r)
    BY <1>0, <2>1 DEF accepted, Answer
  <2>2. CASE rejected(r)
    BY <2>2 DEF rejected, Answer, history
  <2>3. CASE answerLost(r)
    BY <1>0, <2>3 DEF answerLost, Answer
  <2> QED
    BY <2>1, <2>2, <2>3
<1> DEFINE s == [request[r] EXCEPT !.at = "answered", !.ok = ok]
<1>2. /\ s \in RequestState /\ s.at = "answered" /\ s.alone = request[r].alone
      /\ s.failed = request[r].failed /\ s.scope = request[r].scope
      /\ s.queue = request[r].queue /\ s.bare = request[r].bare
      /\ s.message = m /\ s.ok = ok
  BY <1>0 DEF RequestState, Steps
<1>3. request' = [request EXCEPT ![r] = s]
  BY <1>1
<1> HIDE DEF s
<1>4. request'[r] = s
  BY <1>2, <1>3, Moves
<1>5. RowsGrow
  BY <1>1 DEF RowsGrow, rows
<1>6. Sole(r)'
  BY <1>0, <1>1, <1>2, <1>4, <1>5, SoleStays DEF ExclusiveInv, Sole, AtMessage, rows
<1>7. Apart' /\ \A o \in Requests : Sole(o)'
  BY <1>1, <1>2, <1>3, <1>5, <1>6, RunApart DEF rows
<1>8. Credit(m)'
  <2>1. Credit(m)
    BY DEF ExclusiveInv
  <2>2. r \in Load(m)
    BY <1>0, <1>1 DEF Load, Owes
  <2>3. Load(m)' = IF ok THEN Load(m) \ {r} ELSE Load(m)
    <3>1. Owes(s, m) <=> ~ok
      BY <1>2 DEF Owes
    <3>2. Load(m)' = IF Owes(s, m) THEN Load(m) \cup {r} ELSE Load(m) \ {r}
      BY <1>2, <1>3, RunLoad
    <3>3. Load(m) \cup {r} = Load(m)
      BY <2>2
    <3> QED
      BY <3>1, <3>2, <3>3
  <2>4. /\ IsFiniteSet(Load(m)') /\ Cardinality(Load(m)) \in Nat
        /\ Cardinality(Load(m)') = IF ok THEN Cardinality(Load(m)) - 1
                                  ELSE Cardinality(Load(m))
    BY <2>1, <2>2, <2>3, LoadLess, FS_CardinalityType DEF Credit
  <2>5. /\ deliveries[m] \in Nat /\ doubts[m] \in Nat
        /\ \/ ok /\ deliveries'[m] = deliveries[m] + 1 /\ doubts'[m] = doubts[m]
           \/ ~ok /\ deliveries'[m] = deliveries[m] /\ doubts'[m] = doubts[m]
           \/ ~ok /\ deliveries'[m] = deliveries[m] + 1 /\ doubts'[m] = doubts[m] + 1
    BY <1>1 DEF RowsTyped
  <2>6. status' = status /\ lease' = lease
    BY <1>1 DEF rows
  <2> QED
    BY <2>1, <2>4, <2>5, <2>6 DEF Credit
<1>9. ASSUME NEW n \in Messages, n # m PROVE Credit(n)'
  <2>1. Load(n)' = Load(n)
    BY <1>0, <1>2, <1>3, <1>9, RunLoad DEF Owes, Load
  <2>2. deliveries'[n] = deliveries[n] /\ doubts'[n] = doubts[n]
    BY <1>1, <1>9 DEF RowsTyped
  <2> QED
    BY <1>1, <2>1, <2>2 DEF ExclusiveInv, Credit, rows
<1> QED
  BY <1>7, <1>8, <1>9 DEF ExclusiveInv

\* A failure gives its claim back: the message may be claimed again without a
\* doubt, for this claim was no delivery.
LEMMA RecordApart ==
    ASSUME Inv, ExclusiveInv, NEW r \in Requests, record(r)
    PROVE  ExclusiveInv'
<1> USE Facts
<1>0. PICK m \in Messages : m = request[r].message
  BY DEF record, Knows, AtMessage
<1> DEFINE ok == request[r].ok
           more == IF ok THEN 1 ELSE 0
           n == request[r].sentToday + more
           q == Counted(request[r], more)
           s == Back(q)
           outcome == IF ok THEN "SENT" ELSE "FAILED"
<1>1. /\ request[r].at = "answered"
      /\ status' = [status EXCEPT ![m] = outcome]
      /\ lease' = [lease EXCEPT ![m] = "FREE"]
      /\ request' = [request EXCEPT ![r] = s]
      /\ UNCHANGED <<attempts, document, bounds, history>>
  BY <1>0 DEF record, Result
<1>2. n \in Nat /\ (outcome # "SENT" => ~ok) /\ outcome # "NONE"
  BY DEF RequestState
<1>3. q = [request[r] EXCEPT !.sentToday = n, !.ok = FALSE]
  BY DEF Counted
<1> HIDE DEF n, q, outcome
<1>4. /\ q \in RequestState /\ q.alone = request[r].alone
      /\ q.failed = request[r].failed /\ q.scope = request[r].scope
      /\ q.queue = request[r].queue /\ q.bare = request[r].bare
  BY <1>2, <1>3 DEF RequestState
<1>5. s \in RequestState /\ s.at \in {"idle", "loop"}
      /\ (s.alone => request[r].alone) /\ (s.scope = request[r].scope \/ s.scope = {})
  BY <1>4, BackState, IdleState
<1>6. request'[r] = s /\ Sole(r)
  BY <1>1, <1>5, Moves DEF ExclusiveInv
<1>7. \A o \in Messages : o # m => status'[o] = status[o] /\ lease'[o] = lease[o]
  BY <1>1 DEF RowsTyped
<1>8. RowsGrow
  BY <1>1, <1>2 DEF RowsGrow, RowsTyped
<1>9. Sole(r)'
  <2>1. request[r].queue \subseteq Messages /\ m \notin request[r].queue
    BY <1>0, <1>1, <1>6 DEF RequestState, Sole, AtMessage
  <2> QED
    BY <1>1, <1>4, <1>6, <1>7, <1>8, <2>1, BackSole DEF AtMessage
<1>10. \/ m \in request[r].scope
       \/ request[r].scope = {} /\ Kind[m] = "DIRECT"
  BY <1>0, <1>1 DEF Knows, AtMessage
<1>11. Apart' /\ \A o \in Requests : Sole(o)'
  BY <1>1, <1>5, <1>7, <1>8, <1>9, <1>10, RunApart
<1>12. ASSUME NEW o \in Messages PROVE Credit(o)'
  <2>1. Load(o)' = Load(o) \ {r}
    BY <1>1, <1>5, RunLoad DEF Owes
  <2>2. o = m /\ status'[o] # "SENT" => r \in Load(o)
    BY <1>0, <1>1, <1>2 DEF Load, Owes, RowsTyped
  <2> QED
    BY <1>1, <1>7, <2>1, <2>2, CreditRemoved DEF ExclusiveInv, history
<1> QED
  BY <1>11, <1>12 DEF ExclusiveInv

-----------------------------------------------------------------------------
LEMMA ExclusiveInit == Init => ExclusiveInv
<1> SUFFICES ASSUME Init PROVE ExclusiveInv
  OBVIOUS
<1>1. \A r \in Requests : request[r] = Idle
  BY DEF Init
<1>2. Apart /\ \A r \in Requests : Sole(r)
  BY <1>1, IdleState DEF Apart, Sole, AtMessage
<1>3. ASSUME NEW m \in Messages PROVE Credit(m)
  <2>1. Load(m) = {}
    BY <1>1, IdleState DEF Load, Owes
  <2>2. deliveries[m] = 0 /\ doubts[m] = 0
    BY DEF Init
  <2> QED
    BY <2>1, <2>2, FS_EmptySet DEF Credit
<1> QED
  BY <1>2, <1>3 DEF ExclusiveInv

LEMMA ExclusiveStep ==
    ASSUME Exclusive = TRUE
    PROVE  Inv /\ ExclusiveInv /\ [Next]_vars => ExclusiveInv'
<1> SUFFICES ASSUME Inv, ExclusiveInv, [Next]_vars PROVE ExclusiveInv'
  OBVIOUS
<1>1. ASSUME NEW r \in Requests, step(r) PROVE ExclusiveInv'
  BY <1>1, RequeueApart, ReadQueueApart, EndsApart, PrepareFailsApart, PrepareApart,
     ClaimApart, ClaimRefusedApart, AnswersApart, RecordApart DEF step
<1>2. CASE UNCHANGED vars
  <2>1. /\ request' = request /\ status' = status /\ document' = document
        /\ lease' = lease /\ deliveries' = deliveries /\ doubts' = doubts
    BY <1>2 DEF vars, rows, history
  <2>2. Apart' /\ \A o \in Requests : Sole(o)'
    BY <2>1, TableApart DEF RowsGrow
  <2>3. ASSUME NEW m \in Messages PROVE Credit(m)'
    BY <2>1, LoadSame, CreditSame DEF ExclusiveInv
  <2> QED
    BY <2>2, <2>3 DEF ExclusiveInv
<1> QED
  BY <1>1, <1>2, WritingApart, TimeApart, EndsApart, SingleApart, ClicksApart DEF Next

\* While clicks that rewrite messages they did not claim run alone, nobody gets
\* a message twice, for any number of requests, messages and faults, unless its
\* first send is in doubt (the claim in dispatchNotification).
THEOREM NobodyTwice ==
    ASSUME Exclusive = TRUE
    PROVE  Spec => []SentOnce
<1>1. Init => Inv /\ ExclusiveInv
  BY InvInit, ExclusiveInit
<1>2. (Inv /\ ExclusiveInv) /\ [Next]_vars => (Inv /\ ExclusiveInv)'
  BY InvStep, ExclusiveStep
<1>3. Inv /\ ExclusiveInv => SentOnce
  <2> SUFFICES ASSUME Inv, ExclusiveInv, NEW m \in Messages
               PROVE  deliveries[m] <= 1 + doubts[m]
    BY DEF SentOnce
  <2>1. Cardinality(Load(m)) \in Nat
        /\ deliveries[m] + Cardinality(Load(m)) <= 1 + doubts[m]
    BY FS_CardinalityType DEF ExclusiveInv, Credit
  <2>2. deliveries[m] \in Nat /\ doubts[m] \in Nat
    BY Facts DEF RowsTyped
  <2> QED
    BY <2>1, <2>2
<1> QED
  BY <1>1, <1>2, <1>3, PTL DEF Spec
=============================================================================
