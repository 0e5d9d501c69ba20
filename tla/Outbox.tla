------------------------------- MODULE Outbox -------------------------------
(***************************************************************************)
(* The outbox of e-mail messages: src/src/server/notifications/service.ts  *)
(* and dailyBudget.ts, with the calls that fill and work it off            *)
(* (dispatchMeetingEmails, dispatchInvoiceEmails, queueNotification).      *)
(*                                                                         *)
(* Nothing sends in the background.  A message is written QUEUED; the      *)
(* request that wrote it, or a later click on "send the unsent", takes a   *)
(* list of what is queued and sends it one by one.  A claim with a lease   *)
(* keeps two requests from sending one message; every other write to a     *)
(* message is by id.  A request may die between any two of its statements, *)
(* a provider may answer late or its answer may be lost.                   *)
(*                                                                         *)
(* SENT stands for SENT, DELIVERED and SEEN, which every reader of the     *)
(* status treats alike.  A message's events, texts and addresses are left  *)
(* out; an address the allowlist blocks and an attachment that cannot be   *)
(* read are sends that fail.                                               *)
(***************************************************************************)
EXTENDS Naturals, FiniteSets, FiniteSetsExt

CONSTANTS
    Requests,     \* concurrent server requests
    MaxMessages,  \* bound: messages
    Kind,         \* of each message, by its number
    Scopes,       \* the message sets a click works off: a meeting, a batch
    DailyLimit,   \* EMAIL_DAILY_SOFT_LIMIT
    MaxPerClick,  \* MEETING_EMAIL_DISPATCH_MAX, INVOICE_EMAIL_DISPATCH_MAX
    MaxAttempts,  \* MAX_ATTEMPTS
    Exclusive,    \* assumption of a run: see Alone
    MaxSends,     \* bound: clicks on plain "send"
    MaxFaults     \* bound: crashes, late and lost answers

Messages == 1 .. MaxMessages

\* MEETING: an invitation or a ballot.  INVOICE: needs its PDF, made when the
\* message is written or, if that failed, before it is sent.  DIRECT: sent by
\* the request that writes it (queueNotification).
Kinds == {"MEETING", "INVOICE", "DIRECT"}

ASSUME OutboxAssumption ==
    /\ MaxMessages \in Nat
    /\ Kind \in [Messages -> Kinds]
    /\ \A s \in Scopes : s \subseteq {m \in Messages : Kind[m] # "DIRECT"}
    /\ DailyLimit \in Nat \ {0}
    /\ MaxPerClick \in Nat \ {0}
    /\ MaxAttempts \in Nat \ {0}
    /\ Exclusive \in BOOLEAN
    /\ MaxSends \in Nat
    /\ MaxFaults \in Nat

VARIABLES
    status,      \* NotificationMessage.status, "NONE" before it is written
    attempts,    \* its attempts; MAX_ATTEMPTS stands for any larger number
    lease,       \* dispatchingAt: null, younger or older than the lease
    document,    \* attachmentDocumentId is set
    recent,      \* messages whose sentAt lies in the last 24 hours
    request,     \* the state of each request
    sends,       \* clicks on plain "send" so far
    faults,      \* crashes, late and lost answers so far
    deliveries,  \* history: how often the provider took each message
    doubts       \* history: lost answers and leases taken over

rows == <<status, attempts, lease, document, recent>>
bounds == <<sends, faults>>
history == <<deliveries, doubts>>
vars == <<rows, request, bounds, history>>

Steps == {"idle", "requeue", "read", "loop", "claim", "sending", "answered"}

RequestState ==
    [at: Steps, alone: BOOLEAN,
     crowded: BOOLEAN,          \* history: another ran beside it
     scope: SUBSET Messages,    \* the messages the request may touch
     failed: SUBSET Messages,   \* read by requeueFailed, not yet written back
     queue: SUBSET Messages,    \* read by dispatchQueued, not yet tried
     bare: SUBSET Messages,     \* of the queue: had no document when read
     sentToday: Nat, attempted: Nat,
     message: 0 .. MaxMessages, \* the one being dispatched
     ok: BOOLEAN]               \* the provider's answer

Idle == [at |-> "idle", alone |-> FALSE, crowded |-> FALSE, scope |-> {},
         failed |-> {}, queue |-> {}, bare |-> {}, sentToday |-> 0,
         attempted |-> 0, message |-> 0, ok |-> FALSE]

Running == {r \in Requests : request[r].at # "idle"}

\* r starts in state q; whoever runs is no longer alone.
Start(r, q) ==
    request' = [o \in Requests |->
        IF o = r THEN [q EXCEPT !.crowded = Running # {}]
        ELSE [request[o] EXCEPT !.crowded = o \in Running]]

Init ==
    /\ status = [m \in Messages |-> "NONE"]
    /\ attempts = [m \in Messages |-> 0]
    /\ lease = [m \in Messages |-> "FREE"]
    /\ document = [m \in Messages |-> FALSE]
    /\ recent = {}
    /\ request = [r \in Requests |-> Idle]
    /\ sends = 0
    /\ faults = 0
    /\ deliveries = [m \in Messages |-> 0]
    /\ doubts = [m \in Messages |-> 0]

-----------------------------------------------------------------------------
(* Writing messages.                                                       *)

Unwritten == {m \in Messages : status[m] = "NONE"}

\* Messages are written in the order of their numbers (createdAt).
IsNext(m) == m \in Unwritten /\ \A n \in Unwritten : m <= n

enqueueNotification(m) ==
    /\ IsNext(m)
    /\ Kind[m] # "DIRECT"
    /\ status' = [status EXCEPT ![m] = "QUEUED"]
    /\ document' \in IF Kind[m] = "INVOICE"
                     THEN {[document EXCEPT ![m] = b] : b \in BOOLEAN}
                     ELSE {document}
    /\ UNCHANGED <<attempts, lease, recent, request, bounds, history>>

\* Writes the message and dispatches it at once, whatever the daily limit.
queueNotification(r, m) ==
    /\ request[r].at = "idle"
    /\ IsNext(m)
    /\ Kind[m] = "DIRECT"
    /\ status' = [status EXCEPT ![m] = "QUEUED"]
    /\ Start(r, [Idle EXCEPT !.at = "claim", !.message = m])
    /\ UNCHANGED <<attempts, lease, document, recent, bounds, history>>

-----------------------------------------------------------------------------
(* A click: "send" after something was written, or "send the unsent",      *)
(* which first puts back what failed.                                      *)

Bare(m) == Kind[m] = "INVOICE" /\ ~document[m]

\* Where Exclusive, clicks that may rewrite a message another request is
\* sending (a retry, a failed PDF) run alone.  The code has no such guard.
Alone(button, s) ==
    Exclusive /\ (button = "resend" \/ \E m \in s : Bare(m))

MayStart(button, s) ==
    \A q \in Running : ~Alone(button, s) /\ ~request[q].alone

\* Mutant: failed messages are retried for ever.
RetryAlways(m) == status[m] = "FAILED"

Retryable(m) == status[m] = "FAILED" /\ attempts[m] < MaxAttempts

\* dispatchMeetingEmails and dispatchInvoiceEmails.
clickSend(r, s) ==
    /\ request[r].at = "idle"
    /\ MayStart("send", s)
    /\ sends < MaxSends
    /\ sends' = sends + 1
    /\ Start(r, [Idle EXCEPT !.at = "read", !.scope = s, !.alone = Alone("send", s)])
    /\ UNCHANGED <<rows, faults, history>>

\* dispatchMeetingEmails with retryFailed and retryInvoiceEmails; the read of
\* requeueFailed.
clickResend(r, s) ==
    /\ request[r].at = "idle"
    /\ MayStart("resend", s)
    /\ Start(r, [Idle EXCEPT !.at = "requeue", !.scope = s,
                             !.alone = Alone("resend", s),
                             !.failed = {m \in s : Retryable(m)}])
    /\ UNCHANGED <<rows, bounds, history>>

\* requeueFailed writes by id: whatever became of the message meanwhile.
requeueFailed(r) ==
    LET m == Min(request[r].failed)
    IN  /\ request[r].at = "requeue"
        /\ request[r].failed # {}
        /\ status' = [status EXCEPT ![m] = "QUEUED"]
        /\ request' = [request EXCEPT ![r].failed = @ \ {m}]
        /\ UNCHANGED <<attempts, lease, document, recent, bounds, history>>

sentInLast24h == {m \in recent : status[m] = "SENT"}

readQueue(r) ==
    /\ \/ request[r].at = "read"
       \/ request[r].at = "requeue" /\ request[r].failed = {}
    /\ LET queue == {m \in request[r].scope : status[m] = "QUEUED"}
       IN  request' = [request EXCEPT
              ![r].at = "loop",
              ![r].queue = queue,
              ![r].bare = {m \in queue : Bare(m)},
              ![r].sentToday = Cardinality(sentInLast24h)]
    /\ UNCHANGED <<rows, bounds, history>>

-----------------------------------------------------------------------------
(* dispatchQueued: the loop over the messages read, the oldest first.      *)

\* Mutant: only what was already sent when the queue was read is compared.
LimitOfOthers(r) == Cardinality(sentInLast24h \ request[r].scope) >= DailyLimit

LimitReached(r) == request[r].sentToday >= DailyLimit

\* The loop may go on: the limits on messages and on the day leave room.
MayTry(r) ==
    /\ request[r].at = "loop"
    /\ request[r].queue # {}
    /\ request[r].attempted < MaxPerClick
    /\ ~LimitReached(r)

\* Its end; after the first message the time budget may be spent, too.
finish(r) ==
    /\ request[r].at = "loop"
    /\ ~MayTry(r) \/ request[r].attempted > 0
    /\ request' = [request EXCEPT ![r] = Idle]
    /\ UNCHANGED <<rows, bounds, history>>

Tried(q, m) == [q EXCEPT !.queue = @ \ {m}, !.attempted = @ + 1]

\* Mutant: attempts run past the last one.
OneTooMany(m) == attempts[m] + 1

OneMore(m) == IF attempts[m] < MaxAttempts THEN attempts[m] + 1 ELSE MaxAttempts

\* The PDF of an invoice is not there and cannot be made: the failure is
\* written by id, without a claim.
prepareFails(r) ==
    LET m == Min(request[r].queue)
    IN  /\ MayTry(r)
        /\ m \in request[r].bare
        /\ status' = [status EXCEPT ![m] = "FAILED"]
        /\ attempts' = [attempts EXCEPT ![m] = OneMore(m)]
        /\ request' = [request EXCEPT ![r] = Tried(@, m)]
        /\ UNCHANGED <<lease, document, recent, bounds, history>>

prepare(r) ==
    LET m == Min(request[r].queue)
    IN  /\ MayTry(r)
        /\ document' = [document EXCEPT ![m] = @ \/ m \in request[r].bare]
        /\ request' = [request EXCEPT ![r] =
                          [Tried(@, m) EXCEPT !.at = "claim", !.message = m]]
        /\ UNCHANGED <<status, attempts, lease, recent, bounds, history>>

-----------------------------------------------------------------------------
(* dispatchNotification.                                                   *)

\* The request goes on to its next message, if it has a list.
Back(q) == IF q.scope = {} THEN Idle ELSE [q EXCEPT !.at = "loop", !.message = 0]

\* n more messages count for the day.
Counted(q, n) == [q EXCEPT !.sentToday = @ + n, !.ok = FALSE]

\* Mutant: no lease, as before; the status alone decides.
ClaimableByStatus(m) == status[m] \in {"QUEUED", "FAILED"}

\* The WHERE of the claim.
Claimable(m) ==
    /\ status[m] \in {"QUEUED", "FAILED"}
    /\ lease[m] \in {"FREE", "OLD"}

claim(r) ==
    LET m == request[r].message
    IN  /\ request[r].at = "claim"
        /\ Claimable(m)
        /\ attempts' = [attempts EXCEPT ![m] = OneMore(m)]
        /\ lease' = [lease EXCEPT ![m] = "TAKEN"]
        /\ doubts' = [doubts EXCEPT ![m] = IF lease[m] = "OLD" THEN @ + 1 ELSE @]
        /\ request' = [request EXCEPT ![r].at = "sending"]
        /\ UNCHANGED <<status, document, recent, bounds, deliveries>>

\* Sent already, or another request holds it; a message found sent counts
\* for the day although someone else sent it.
claimRefused(r) ==
    LET m == request[r].message
        seen == IF status[m] = "SENT" THEN 1 ELSE 0
    IN  /\ request[r].at = "claim"
        /\ ~Claimable(m)
        /\ request' = [request EXCEPT ![r] = Back(Counted(@, seen))]
        /\ UNCHANGED <<rows, bounds, history>>

Answer(r, ok) ==
    request' = [request EXCEPT ![r].at = "answered", ![r].ok = ok]

accepted(r) ==
    /\ request[r].at = "sending"
    /\ deliveries' = [deliveries EXCEPT ![request[r].message] = @ + 1]
    /\ Answer(r, TRUE)
    /\ UNCHANGED <<rows, bounds, doubts>>

\* Refused by the provider, blocked by the allowlist, or no attachment.
rejected(r) ==
    /\ request[r].at = "sending"
    /\ Answer(r, FALSE)
    /\ UNCHANGED <<rows, bounds, history>>

\* The provider took the message and the connection broke.
answerLost(r) ==
    LET m == request[r].message
    IN  /\ request[r].at = "sending"
        /\ faults < MaxFaults
        /\ faults' = faults + 1
        /\ deliveries' = [deliveries EXCEPT ![m] = @ + 1]
        /\ doubts' = [doubts EXCEPT ![m] = @ + 1]
        /\ Answer(r, FALSE)
        /\ UNCHANGED <<rows, sends>>

Result(r) == [status EXCEPT ![request[r].message] =
                 IF request[r].ok THEN "SENT" ELSE "FAILED"]

\* The outcome is written by id and gives up whatever lease there is.
record(r) ==
    LET m == request[r].message
        ok == request[r].ok
    IN  /\ request[r].at = "answered"
        /\ status' = Result(r)
        /\ lease' = [lease EXCEPT ![m] = "FREE"]
        /\ recent' = IF ok THEN recent \cup {m} ELSE recent
        /\ request' = [request EXCEPT
              ![r] = Back(Counted(@, IF ok THEN 1 ELSE 0))]
        /\ UNCHANGED <<attempts, document, bounds, history>>

-----------------------------------------------------------------------------
(* Time and faults.                                                        *)

\* A request that dies keeps its claim.
crash(r) ==
    /\ request[r].at # "idle"
    /\ faults < MaxFaults
    /\ faults' = faults + 1
    /\ request' = [request EXCEPT ![r] = Idle]
    /\ UNCHANGED <<rows, sends, history>>

Dispatching(m) ==
    \E r \in Requests : request[r].at \in {"sending", "answered"} /\ request[r].message = m

\* Two minutes after the claim of a request that died.
leaseExpires(m) ==
    /\ lease[m] = "TAKEN"
    /\ ~Dispatching(m)
    /\ lease' = [lease EXCEPT ![m] = "OLD"]
    /\ UNCHANGED <<status, attempts, document, recent, request, bounds, history>>

\* The provider takes longer than that; the call has no timeout of its own.
leaseOutlived(m) ==
    /\ lease[m] = "TAKEN"
    /\ Dispatching(m)
    /\ faults < MaxFaults
    /\ faults' = faults + 1
    /\ lease' = [lease EXCEPT ![m] = "OLD"]
    /\ UNCHANGED <<status, attempts, document, recent, request, sends, history>>

dayPasses ==
    /\ recent # {}
    /\ recent' = {}
    /\ UNCHANGED <<status, attempts, lease, document, request, bounds, history>>

-----------------------------------------------------------------------------
\* The statements of a request that runs.
step(r) ==
    \/ requeueFailed(r) \/ readQueue(r) \/ finish(r)
    \/ prepareFails(r) \/ prepare(r)
    \/ claim(r) \/ claimRefused(r)
    \/ accepted(r) \/ rejected(r) \/ answerLost(r) \/ record(r)

Next ==
    \/ \E m \in Messages :
          enqueueNotification(m) \/ leaseExpires(m) \/ leaseOutlived(m)
    \/ \E r \in Requests :
          \/ step(r) \/ crash(r)
          \/ \E m \in Messages : queueNotification(r, m)
          \/ \E s \in Scopes : clickSend(r, s) \/ clickResend(r, s)
    \/ dayPasses

\* A request that runs goes on until it ends or dies, time passes, and
\* somebody keeps coming back to "send the unsent" while nothing is running.
\* Plain "send", a fault or a new message never has to happen.
Fairness ==
    /\ \A r \in Requests : WF_vars(step(r))
    /\ \A m \in Messages : WF_vars(leaseExpires(m))
    /\ WF_vars(dayPasses)
    /\ \A s \in Scopes : SF_vars(\E r \in Requests : clickResend(r, s))

Spec == Init /\ [][Next]_vars
FairSpec == Spec /\ Fairness

-----------------------------------------------------------------------------
TypeOK ==
    /\ status \in [Messages -> {"NONE", "QUEUED", "FAILED", "SENT"}]
    /\ attempts \in [Messages -> 0 .. MaxAttempts]
    /\ lease \in [Messages -> {"FREE", "TAKEN", "OLD"}]
    /\ document \in [Messages -> BOOLEAN]
    /\ recent \subseteq Messages
    /\ request \in [Requests -> RequestState]
    /\ sends \in 0 .. MaxSends
    /\ faults \in 0 .. MaxFaults
    /\ deliveries \in [Messages -> Nat]
    /\ doubts \in [Messages -> Nat]

\* Nobody gets a message twice, unless its first send is in doubt: the answer
\* was lost, or the request that claimed it died or outlived its lease.
SentOnce == \A m \in Messages : deliveries[m] <= 1 + doubts[m]

\* The daily limit holds: a list is never sent past it, except by a request
\* that another one overtook since it counted.
LimitKept ==
    [][\A r \in Requests :
          ( /\ request[r].at = "sending" /\ request'[r].at = "answered"
            /\ request[r].scope # {}
            /\ ~request[r].crowded
            /\ deliveries' # deliveries )
          => Cardinality(sentInLast24h) < DailyLimit]_vars

\* Every message of a scope is sent in the end, or fails MAX_ATTEMPTS times: a
\* dead request's claim, the limits of a click and of a day and older messages
\* that keep failing do not hold it up for ever.
EveryMessageSettles ==
    \A m \in UNION Scopes :
        status[m] # "NONE" ~>
            \/ status[m] = "SENT"
            \/ status[m] = "FAILED" /\ attempts[m] = MaxAttempts
=============================================================================
