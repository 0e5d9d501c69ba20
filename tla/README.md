# A verification of zev-app

zev-app runs a Bosnian condominium association (ZEV): assemblies and their
votes, invoices and payments, bank statements, notifications. It is a Next.js
application: stateless request handlers (`src/src/server/services/*.ts`) over
one Postgres database through Prisma. Nothing runs in the background; every
change of state is a service function called by a page, a route handler or an
MCP tool.

The database runs at its default isolation, READ COMMITTED; no code asks for
another level or locks a row. That one fact shapes this project. A guard that
reads and a write that follows are *not* one step, and what the code can
rely on when requests overlap is what the schema's unique constraints, the
append-only triggers and a few conditional `updateMany` enforce. So properties
come in two groups, and every module says which is which:

- what holds **however requests interleave** (checked with two requests in
  flight, and proved for any number), and
- what the **guards promise** and keep when calls do not overlap (checked with
  one request, i.e. any order of whole calls), or keep outside exactly named
  cases, which the module then records in a history variable (`lost`, `late`,
  `unheard`, `doubts`, ...).

## 1. Inventory

| Component | State | Operations | Interacts with | Hard part | What makes it correct | Module |
|---|---|---|---|---|---|---|
| Voting engine (`engines/voting.ts`) | none (pure) | `quorumRequirement`, `presenceQuorum`, `computeVotingResult` | voting, live meeting | rounding, boundaries | least owner quorum; bar and result agree; more approval never hurts | `VotingEngine` |
| Voting on a proposal (`meetings.ts`) | Proposal, EligibleVoter, ApprovalToken, Vote | draft, open, revise, withdraw, close; vote by link, by hand, correct; revoke, reissue, expire a link | ownership (base), outbox (links), engine | overlapping votes, stale guards, wrong codes, retries | one counted vote per voter; result complete; links die for good; versions frozen | `Voting` |
| Session ballots (`meetings.ts`) | VotingBallot and its tokens | issue, submit all votes at once, reissue, revoke | voting | many votes in one transaction against closings | all or nothing; a submitted ballot leaves nothing open | `Session` |
| Meetings, agenda, attendance (`meetings.ts`) | Meeting, AgendaItem, attendance, proxies | status machine, invitations, quorum | voting, ballots | opens and closes proposals one by one, outside one transaction | nobody is left without a way to vote; the voting ends with the session | `Session` (status machine) |
| Payments and allocations (`payments.ts`) | Payment, PaymentAllocation, FinTransaction | enter, import, allocate, take back, reverse | billing, accounts | sums read before insert; cached statuses; two ways to take money back | no sum above its amount; statuses follow the rows; a reversal matches its row | `Ledger` |
| Billing and invoices (`billing.ts`, `engines/billing.ts`) | Invoice, InvoiceBatch, ChargeItem | draft batch, issue, cancel, correct | payments, outbox | double issue, correction chains | a debt is owed once, whatever batches and corrections bill it; a cancelled invoice is final | `Ledger` |
| Bank statements, SMS (`bankSms.ts`, `payments.ts`, `paymentMatching.ts`) | IncomingBankSms, statement rows | ingest, confirm, dismiss, import, merge duplicates | payments, expenses | two confirmations of one notification; confirm against dismiss; batches | a notification is booked once, a dismissed one never | `BankQueue` |
| Expenses, accounts (`expenses.ts`, `finance.ts`) | Expense, MoneyAccount, FinTransaction | enter, pay, cancel, transfer | bank import | partial payments in parallel | paid amount and status follow the books; not overpaid | `BankQueue` |
| Outbox (`notifications/*`, `invoiceEmail.ts`) | NotificationMessage | enqueue, claim with a lease, prepare, send, retry | everything that notifies | crash after claim, lease expiry, late answers, daily limit | a message leaves once; what is queued leaves when sent again | `Outbox` |
| OAuth for MCP clients (`mcp/oauth/*`) | codes, connections, access and refresh tokens | authorise, exchange, rotate, answer reuse, revoke, clean up | MCP tools | rotation races; the answer to a reuse against late exchanges | one connection per code, one unspent refresh token; reuse ends everything | `OAuth` |
| Onboarding (`onboarding.ts`, `onboardingImport.ts`) | invitation, draft with a version, proof files | invite, accept, edit, publish, discard | creates a ZEV | optimistic version; files stored outside the transaction; two drafts of one owner | no lost edit; what is published was shown; every stake has its proof | `Onboarding` |
| Voting base and ownership (`ownership.ts`, `parties.ts`, `property.ts`, `evoteConsent.ts`) | stakes in time, representatives, consents | start, end, transfer | voting, billing | intervals, sums of shares | shares never above the whole | none |
| Users and roles (`users.ts`, `auth`) | User, Membership, Session | invite, deactivate, roles | all | last president, recorded in two columns | a ZEV keeps an active president | none |
| Notes, plans, records, register | versioned rows | edit, adopt | meetings | optimistic versions | no lost update | none |
| Maintenance | request with a status | small status machine | expenses | none to speak of | legal transitions | none |

Documents, reports, settings, the user interface, MCP wrappers, generated code
and scripts are listed in `PROJECT.json` with the reason they are left out: I/O,
read-only queries, rendering, or thin calls of the services above.

The hazards of this code, each at its line with the properties that would catch it,
are in `PROJECT.json` under `hazards`. Where the code does not prevent a hazard, or
a property excludes a case of it, the note says so: such a hazard has no property,
or only one for the part that is prevented. The properties of `voting_versions`,
`voting_serial` and `ledger_serial` are there for the guards of whole calls from stale
pages and would not catch overlapping ones.

## 2. Modules

| Module | Models |
|---|---|
| `VotingEngine` | `engines/voting.ts` as operators |
| `Voting` | a proposal and its versions, base, links, votes, calls in flight |
| `BallotBox` | abstract: what voting promises |
| `VotingRefinement` | the mapping from `Voting` to `BallotBox` |
| `Session` | a meeting's status, its proposals, ballots with one link for all |
| `Ledger` | payments, allocations, the batches of a period, the life of an invoice |
| `BankQueue` | bank notifications, statement lines, expenses |
| `Outbox` | messages, the requests that send them, provider, lease, daily limit |
| `OAuth` | codes, connections, token pairs |
| `Onboarding` | invitations, drafts, proof files, wizard pages and assistants |
| `VotingProofs` (with the refinement and the engine), `SessionProofs`, `LedgerProofs`, `BankProofs`, `OutboxProofs`, `OAuthProofs`, `OnboardingProofs` | theorems checked by TLAPS |
| `SumProofs` | lemmas about sums over finite sets, for the modules that add up money or weights |
| `MCVotingEngine`, `MCVoting`, `MCSession`, `MCLedger`, `MCBankQueue`, `MCOutbox`, `MCOAuth`, `MCOnboarding` | instances for TLC |

Definitions keep the source's names (`openVoting`, `reissueToken`,
`computeVotingResult`, `issueTokenPair`...); `PROJECT.json` "map" gives
the lines. A definition marked `Mutant:` is a plausible bug of the definition
below it. It is used nowhere in the specification; it shows that the property
it is listed with in `PROJECT.json` would catch that bug.

### How a handler becomes actions

`xRead(r, ...)` takes the guards of handler `x` and remembers in the request's
state what the handler read; `xCommit(r)` makes all its writes visible at once.
Between the two, anything other requests do may happen. A guard that fails is a
call that returns an error: no step. `Commit` re-checks only what the database
re-checks (unique keys and the WHERE of `updateMany`); every other write is by id
and overwrites. `abort` is a call that dies in between with its transaction: a
crash, a timeout, or a violated constraint. Where a handler is *not* one
transaction (`advanceMeetingStatus`, the dispatch loop, the proof of a stake),
each statement that is visible to others is a step of its own, and the handler
may die after any of them.

Numbering rows (votes of a voter, rows of an invoice, invoices of a community,
token pairs) stands for their identity; the next number is taken at commit,
because of two calls that took one number the unique key kills one.

### `Voting` and the code

| Code (`meetings.ts`) | Actions |
|---|---|
| `updateDraftProposal`, `withdrawProposal`, `createProposalRevision` | `updateDraft*`, `withdraw*`, `revise*` |
| `openVoting` | `openVoting*`: freezes text hash, base and rule, issues link 1 of each voter |
| `submitVote`, `castElectronicVoteTx` | `submitVote*`; wrong code: `badCodeRead`, `badCodeCount`, `autoRevoke` |
| `recordManualVote`, `correctVote` | `manualVote*`, `correctVote*` |
| `revokeToken`, `reissueToken`, `inspectApprovalToken` | `revokeToken*`, `reissueToken*`, `expireToken*` |
| `computeProposalResult`, `closeVoting` | `effectiveVotes`, `Outcome`, `closeVoting*` |
| the clock | `DeadlinePasses` |

Abstracted: text is one of `Texts` and its hash is the text itself (the code
hashes title and text and compares hashes for equality only); the voting base is
the constant `Subjects` with `Weight`, read by every opening. The unique key of
EligibleVoter also contains the owner, so "a second opening fails" assumes that the
representative of a subject does not change between two overlapping openings.
`Vote.invalid` is never set by any code, so `CountedVote` has it FALSE (the engine
is checked with invalid votes as well). Codes, receipts, notifications and audit
rows do not feed back into the state. The links of this module are links of one
proposal; its variable `ballot` stays empty, session ballots are module `Session`.

A handler's several reads are one step. This loses nothing: votes are never
deleted, so a guard that would fail on a later read fails at commit or was passed
on a state the model also has; and a proposal that has left `VOTING_OPEN` never
returns to it, so `closeVoting`, which reads the status again in front of its
transaction, sees no status that the first read does not allow.

### `Session` and the code

| Code (`meetings.ts`) | Actions |
|---|---|
| `advanceMeetingStatus` | `advanceRead`, then step by step `openNext` (one draft), `issueRead`/`issueNext` (one recipient), `move` (the status), `closeNext` (one proposal), `finish` |
| `closeVoting` of one proposal | `closeOne` |
| `submitBallot` | `submitRead`, `submitCommit` (claims the ballot, votes on all it can); wrong code: `wrongRead`, `wrongCount`, `autoRevoke` |
| `reissueBallot`, `revokeBallot` | `reissue*`, `revoke*` |
| `recordManualVote` | `hand*` |
| a crash, an error, a closed tab | `abort` |

One official runs an assembly, so the calls of officials do not overlap each
other (`DeskFree`); voters overlap everything. What is voted, results, and the
window inside `castElectronicVoteTx` between its `findFirst` and its insert belong
to module `Voting`; deadlines are left out (all proposals of a ballot share one,
and past it calls only fail). Two things the model shows and no property forbids,
because no document does: a spent ballot can afterwards be written REVOKED or
SUPERSEDED by an overlapping revocation, replacement or automatic revocation
(`meetings.ts:2749`, `2821`), its votes still count; and a call that dies after the
meeting's status is written leaves proposals open, which a repetition of the call
does not close. Hence `ClosedWithSession` says what a call that *ends* leaves.

### `Ledger` and the code

| Code | Actions |
|---|---|
| `issueSingleInvoice`, `cancelInvoice`, `correctInvoice` (`billing.ts`) | `issueSingleInvoice`, `cancelInvoice*`, `correctInvoice*` |
| `createDraftBatch`, `issueBatch` (`billing.ts`) | `createDraftBatch`, `issueBatchRead`, `issueBatchCommit` |
| `enterPayment` (`payments.ts`), `cancelTransaction` (`finance.ts`) | same names (no guard reads shared rows, or one that any order allows: one step) |
| `allocatePayment`, `reverseAllocation`, `reversePaymentInTx`, an IN row of `commitStatementRowsInTx` | `allocateRead`, `reverseAllocationRead`, `reversePaymentRead`, `importRead`, then `Refresh`, `Store` |

A booking has a step in the middle, `Refresh`: `allocatePayment` and
the reversals insert their rows and then compute statuses from what is committed
*by then* plus their own rows, and store the outcome by id. Merging it with either
neighbour would hide stale statuses.

Amounts are whole numbers: the code uses exact decimals of two places throughout
and only adds and compares them. An import has one row here; batches are module
`BankQueue`. A payment's name is chosen when it is entered; `NewPayment` also
excludes names of imports in flight. `correctInvoice` leaves the allocations of the
original where they are; the model does, too, and claims nothing about them.
Batches are of one period and issue one invoice per unit; the amounts of a draft are
arbitrary (charge items and their calculation are left out). `issueBatch` takes its
first number in a query after its guards, so a second call of the same batch that
reads its guards before and its number after the first commit issues all invoices
again; the commit step, which takes numbers, has that order in it.

### `BankQueue` and the code

| Code | Actions |
|---|---|
| `receiveBankSms`, `dismissBankSms` (`bankSms.ts`) | same names |
| `confirmBankSms` (`bankSms.ts`) | `confirmRead`, `storeRead`, `storeCommit` |
| `commitPdfImports`, `assertStatementRowsCommittable`, `commitStatementRowsInTx` (`payments.ts`) | `importRead`, `Committable`, `storeRead`, `storeCommit` |
| `payExpense`, `cancelExpense` (`expenses.ts`) | `payRead` with the same two steps; `cancel*` |

A request that books has three steps: its checks in front of the transaction
(`seen`), what it reads of the expenses inside (`read`), and its writes, with the
claim of the notifications. `lost`, `late` and `paired` are the expenses for which
the order of events defeats the code, exactly: an update written over one that was
not read; an expense paid by another request between check and booking; an expense
paid by two rows of one batch, each of which fits alone (the comment at
`payments.ts:588` promises to fail such a batch up front). An import also writes
PAID or PARTIALLY_PAID over CANCELLED, and a statement can be imported twice;
both are actions of the model. Left out: reading SMS and PDF text, suggestions of
the preview, merging of duplicates after the fact (`paymentMatching.ts`), and
`cancelTransaction` of an expense's transaction, which no page offers.

### `Outbox` and the code

| Code | Actions |
|---|---|
| `enqueueNotification`, `queueInvoiceEmails`; `queueNotification` | `enqueueNotification`; `queueNotification` (writes and sends at once) |
| `dispatchMeetingEmails`, `dispatchInvoiceEmails` | `clickSend`, `clickResend` |
| `requeueFailed`, `dispatchQueued` (`dailyBudget.ts`) | `requeueFailed`, `readQueue`, `finish` |
| preparation of an invoice's PDF (`invoiceEmail.ts`) | `prepare`, `prepareFails` |
| `dispatchNotification` (`service.ts`) | `claim`, `claimRefused`, `record` |
| the provider | `accepted`, `rejected`, `answerLost` |
| the clock, crashes | `leaseExpires`, `leaseOutlived`, `dayPasses`, `crash` |

The read in front of the claim is merged with it (the claim repeats its test), and
so are the reading of the queue and of the messages sent today. `Exclusive = TRUE`
is an assumption of the run: clicks on "send the unsent", and sendings of invoices
that still lack their PDF, run alone; `Alone` says so. Without it two overlapping
clicks do send a message twice (§3). `doubts` counts lost answers and leases taken
over (the provider is called without a timeout): each permits one more delivery.
Two facts without a property: a failed DIRECT message is never retried
(`retryFailed` has no caller), and two overlapping queueings of one invoice write
two messages.

### `OAuth` and the code

| Code | Actions |
|---|---|
| `approveAuthorization` (`authorize.ts`) | `approveAuthorization` |
| `exchangeAuthorizationCode`, `issueTokenPair` (`token.ts`) | `exchangeRead`, `exchangeCommit`, `issueTokenPair` |
| `refreshAccessToken` (`token.ts`) | `refreshRead`, `refreshCommit` |
| reuse of a code or of a rotated token, `revokeConnectionAndTokens` | `replayRead`, `reuseRead`, `revokeRead`, `revokeConnectionAndTokens` |
| `revokeOAuthToken`, `mcpConnections.ts`, `users.ts` | `revokeRead`, `setActive` |
| `runOAuthCleanup` (`cleanup.ts`), the clock | `cleanupCode`, `cleanupTokens`, `codeExpires`, `graceEnds`, `accessEnds`, `connectionExpires` |

An access token and the refresh token issued with it are one pair. Registration of
clients, PKCE, redirect addresses and scopes are pure checks of one request and
left out. Codes are deleted some time after they expire; reuse of a deleted code
is refused but no longer ends its tokens, so `ReplayEndsAll` speaks of reuse that
was answered (`replayed`).

### `Onboarding` and the code

| Code (`onboarding.ts` unless said) | Actions |
|---|---|
| invitations: create, reissue, revoke, expire | `inviteRead`, `inviteCreate`, `reissueOnboardingInvite`, `revokeOnboardingInvite`, `inviteExpires` |
| `acceptOnboardingInvite` | `acceptRead`, `acceptCommit` |
| every edit of the draft, `onboardingImport.ts` | `change`, `saved`, `notSaved` |
| adding a stake with its proof | `addDraftStake`, `stakeRead`, then `saved`, or `deleteFile` after a failure |
| `publishOnboardingDraft` | `publishRead`, `publishFiles`, `publishCommit` |
| `discardOnboardingDraft` | same name |

The content of a draft is a set of items. A window is a page of the wizard, which
finds "the newest draft of this owner" and sends only a version
(`server/actions/onboardingWizard.ts`), or an assistant, which sends the draft's
id. `unheard` collects the stakes whose saving was not answered (the handler then
removes the proof of a stake that may be there), `strayed` the drafts written from
a page that showed another draft of the same owner. Left out: what makes a step
complete, uniqueness of the accountant's e-mail, the rows publication creates:
functions of the content alone. A crash may leave proof files that no draft names;
`addDraftStake` loads the draft and stores the file in one step, so the model has no
file stored for a draft discarded in between. Such a file is removed again
(`deleteFile`) when the saving fails, and no property speaks of it.

## 3. Runs

Bounds are the CONSTANTS of each `.cfg`.

| Run | Instance | Shows |
|---|---|---|
| `voting_engine` | 3 voters weighing 1, 2, 3; 5 percentages for quorum and for majority, all rule types; at most one invalid vote and one that does not count for the quorum | `OwnerQuorumIsLeast`, `BarAgreesWithResult`, `ApprovalHelps`. 0, a third, a half, two thirds and the whole meet every comparison at, below and above its boundary |
| `voting_table` | 2 requests, 1 voter, 2 links, 3 votes | interleaved: `VoteTableInv` (a used link has its vote, one vote per link, corrections pair up, results count real votes), `CorrectionsKeepCount`, `FrozenOnce` |
| `voting_versions` | 1 request, 2 versions, 2 texts, a link that dies of one wrong code | `OneLiveVersion`, `TextIsFrozen`, `DecisionIsFinal` |
| `voting_serial` | 1 request, 2 voters, 2 links and 2 votes each | `OneEffectiveVote`, `VotedLinkIsUsed`, `DeadLinkRecordsNothing`, `NoVoteAfterClose`, `ResultIsComplete` and the refinement `ImplementsBallotBox` |
| `voting_double_vote` | 2 requests, 1 voter | **violation** of `OneEffectiveVote`: a vote by hand and one by link |
| `session` | 2 requests, 2 proposals, 2 owners, 2 ballots, 1 vote on paper, a ballot dies of 2 wrong codes, 3 statuses | `SessionInv` (a ballot that voted is spent, its tokens are used and its holder's, one vote per token, nothing is left on a spent ballot), `DeadBallotRecordsNothing`, `OpenedMeansIssued`, `ClosedWithSession` |
| `ledger_table` | 2 requests, 1 payment, 3 invoices (one and two correctives), 3 rows each, 4 in all (`FewRows`), no batch | interleaved: `TypeOK`, `ReversalsMatch`, `CorrectionPairs` |
| `ledger_serial` | 1 request, 2 payments, 2 invoices, 2 batches, 1 unit, amounts 1 and 2, 3 rows each; at most one row once both batches are drafted (`FewRowsBesideBatches`) | `NothingOverallocated`, `StatusFollowsLedger`, `DebtCountedOnce`, `NoMoneyIntoDead`, `CancelledIsFinal` |
| `bank` | 2 requests, 2 notifications, 1 statement line, 2 expenses of 2, amounts 1 and 2 | `OneBookingPerSms`, `ExpenseAddsUp`, `NotOverpaid` |
| `outbox_delivery` | 2 requests, 3 messages (a batch of two invoices, one direct), daily limit 1, 2 a click, 2 attempts, 2 sends, 1 fault | `TypeOK`, `SentOnce`, `LimitKept` and, under fairness, `EveryMessageSettles`; deadlock is checked |
| `oauth` | 2 requests, 2 codes, 2 connections, 3 pairs | `OneChain`, `ReplayEndsAll` |
| `onboarding` | 2 invitations of one address, 2 windows, 1 stake, 1 other entry, 3 versions | `NoLostEdit`, `PublishedAsShown`, `ProofsKept`, `ClosedIsFinal` |

Why the bounds suffice: every race in this code is between two calls about the
same row, so two requests show it, and a third call is reached by one of the two
finishing and starting again. Three votes of one voter are a vote, its correction
and a competing one; three rows of an invoice are an allocation, its reversal and a
row by the other way of reversing; three token pairs are an exchange, a rotation
and the rotation of that, or an exchange of each of two connections; three versions
of a draft are an edit, another writer's edit and a third on either. Two voters are enough for a
quorum to be met or missed, two expenses and two notifications for a batch with
rows for one and for both. A daily limit of one makes a batch of two wait for the
next day. Symmetry is used over names that no definition orders or singles out.

**Fairness.** Only `outbox_delivery` has a liveness property, and only `FairSpec`
of `Outbox` states fairness: weak fairness of the steps of a running request and of
the clock (`leaseExpires`, `dayPasses`), which run whatever the application does,
and strong fairness of `clickResend` (from the code there is nobody else: a
message left QUEUED waits for the president to click again, and he does). Crashes
and lost answers are bounded by `MaxFaults`; without a bound on them a message may
fail for ever. In the other runs a request may stay unfinished for ever and nothing
must happen. Deadlock checking is off there because the bounded tables fill up, at
which point the bounded system really stops.

### Disagreements with the documents

`voting_double_vote` ends in a counterexample; `PROJECT.json` "findings" quotes the
sentence of the repository it contradicts. Other promises fail in the models when
calls overlap, or one call at a time from a page loaded before an earlier call. Each
is reproduced by changing one constant, or by stating the property that is named:

- `voting_serial` with two requests violates `ResultIsComplete`: a vote commits
  between the count and the closing. It violates `VotedLinkIsUsed` and
  `DeadLinkRecordsNothing` by a revocation, and `NoVoteAfterClose` by a closing, that
  overlaps a vote.
- `ledger_serial` with two requests violates `NothingOverallocated`: two
  allocations each read the sum before the other's row. It violates
  `StatusFollowsLedger`, `NoMoneyIntoDead` and `CancelledIsFinal` in the same way, and
  `DebtCountedOnce` by issuing one batch twice, against "Prevents duplicate issuance
  per period" (`billing.ts:295`; the unique key of the period bars a second batch).
- A link that was already replaced can be reissued (`reissueToken` from a stale
  page), which leaves its voter two live links.
- `reversePayment` followed by `reverseAllocation` of an allocation it took back
  takes the same money back twice.
- `Outbox` with `Exclusive = FALSE`, messages of kind MEETING and a scope that
  holds them (`Ballot`, `Meeting` in `MCOutbox`) violates `SentOnce`: of two overlapping clicks on "send the unsent" one
  writes QUEUED over the SENT of the other (`dailyBudget.ts:105`).
- `NotOverpaid` without `paired` is violated: two rows of one batch overpay an
  expense.
- `voting_versions` with two requests violates `TextIsFrozen` (an update changes a
  draft that is being opened), `DecisionIsFinal` (two closings decide twice) and
  `OneLiveVersion` (a withdrawal overwrites SUPERSEDED).

The passing runs state these promises for serial calls, or outside the named cases.

## 4. Proofs

TLAPS checks eight modules of proofs to the last leaf, for any number of requests,
windows, voters, versions, links, ballots, payments, invoices, messages, codes and
drafts. Every safety property of the passing runs is a theorem; only the liveness
property is not. What is assumed is named in the modules and evaluated by TLC on
every run:

| Assumption | What a proof takes from it, and why it is so |
|---|---|
| `VotingAssumption` | there are finitely many subjects with natural weights, `NoBallot` and `NoText` are not values; counters have bounds |
| `NoChoiceAssumption` | an empty place in the ballot box is no choice |
| `SessionAssumption` | every owner has a recipient, there is at least one; a ballot allows a wrong code before it dies |
| `LedgerAssumption` | amounts are natural numbers and positive; there is a unit |
| `BankAssumption` | notifications and statement lines are finite sets, disjoint; amounts are positive |
| `OutboxAssumption` | a scope holds no DIRECT message (the queries of the three lists select a meeting, a ballot or invoices); limits are positive |
| `OAuthAssumption`, `OnboardingAssumption` | bounds of counters and markers that are no values |

Theorems called `Serial...` have one hypothesis more, `\A q, r \in Requests : q = r`:
calls do not overlap. That is where the code promises the property and
does not keep it otherwise (§3, "Disagreements"). `NobodyTwice` has `Exclusive = TRUE`,
for the same reason. Everything else holds however requests interleave and die.

### Voting

| Theorem | States | Argument |
|---|---|---|
| `TypeCorrect` | `[]TypeOK` | inductive as it stands, one lemma for reads and one for commits |
| `VoteTableCorrect` | `[]VoteTableInv` | a commit writes what its call read earlier, so the invariant says what calls in flight remember: rows are never deleted, hence what was read may be late but is not wrong. Uniqueness comes from the constraints checked at commit |
| `CorrectionsCount` | `[]CorrectionsKeepCount` | `CountInv`: the table is finite and each voter has as many counted votes as entered ones; a correction adds its row to the counted ones and takes exactly one out, by `VoteTableInv` |
| `VotingOpensOnce` | `FrozenOnce` | only `openVotingCommit` writes `frozen` or makes link 1 active, and `BaseIsNew` bars a second one |
| `SerialOneEffectiveVote` | `[]OneEffectiveVote` | `SerialInv`: at most one call is in flight (`Alone`), and while a vote is, its voter has no counted vote (`GuardHolds`) |
| `SerialVotedLinkIsUsed`, `SerialTextIsFrozen`, `SerialOneLiveVersion` | the three invariants | conjuncts of `ProposalInv`, with `ReadsHold` (what the one call in flight has read is still so: status, text, link, counted votes), `DraftIsUnopened` and `LinksNeedOpening` |
| `SerialNoVoteAfterClose`, `SerialDeadLinkRecordsNothing`, `SerialResultIsComplete`, `SerialDecisionIsFinal` | the four action properties | each commit from `ReadsHold`: the guard of the read is true again when the commit writes |
| `SerialImplementsBallotBox` | `ImplementsBallotBox` | initial states map to initial states; a read is a stutter; opening, withdrawing, revising, closing, inserting and correcting a vote are the steps of `BallotBox`. The two decide alike (`SameDecision`): under `OneEffectiveVote` the counted rows and the filled places of the box correspond one to one with the same weight and choice (`BoxHolds`), and the engine's outcome is carried over such a renaming (`OutcomeCarried`) |

### The engine

The run `voting_engine` lets members choose and change their choice under
every rule. The theorems are about that specification, `TrialSpec` of `MCVotingEngine`,
for any finite voting base (`Members`) and any set of natural percentages
(`Percents`), the hypotheses of these theorems.

| Theorem | States | Argument |
|---|---|---|
| `EngineOwnerQuorum` | `[]OwnerQuorumIsLeast` | arithmetic of the ceiling (`RoundUpIsLeast`); `TrialInv` types the rule |
| `EngineBarAgrees` | `[]BarAgreesWithResult` | votes are one to one with their voters, so what the bar and the result weigh is the same sum (`PapersBySide`); a missing weight is positive exactly when the quorum is not reached |
| `EngineApprovalHelps` | `ApprovalHelps` | an approval more takes nothing from the quorum (`QuorumKept`), adds its weight to one side and to no other; the majority stays (`MajorityKept`, where a percentage of votes cast that is passed is below the whole) |

### Session

One invariant, `Inv`, inductive however voters and officials overlap: `SessionInv`; no
two officials at work, which `DeskFree` guarantees (`OneAtDesk`); a token exists once
its proposal is opened (`TokensFollow`); and what each call read is still true or
can only have shrunk (`CallsMatch`). For the last, the tables never go back
(`NothingComesBack`): a ballot keeps its holder and is never ACTIVE again, a proposal
never opens again.

| Theorem | States | Argument |
|---|---|---|
| `BallotsHold` | `[]SessionInv` | `Inv`; in the submission of a ballot, what can be voted on it was among what the call read, so nothing is left |
| `DeadBallotsAreSilent` | `DeadBallotRecordsNothing` | only the claim in `submitCommit` lets votes in |
| `OpeningIssuesAll`, `LeavingClosesAll` | `OpenedMeansIssued`, `ClosedWithSession` | the list of the official's call misses nothing (`DeskKnows`): voters only shorten what is to be issued or closed |

### Ledger

| Theorem | States | Argument |
|---|---|---|
| `TypeCorrect` | `[]TypeOK` | with finite tables, so that each sum is an integer |
| `CorrectionsPair` | `[]CorrectionPairs` | `InvoiceInv`: invoice numbers have no gaps (`NoGaps`), and calls in flight name invoices that exist (`CallsKnowInvoices`) |
| `ReversalsExact` | `[]ReversalsMatch` | `RowInv`: rows of an invoice are numbered 1, 2, ... (`RowsNumbered`), and a reversal in flight names a row of the table with its amount (`CallsNameRows`) |
| `SerialDebtCountedOnce`, `SerialCancelledIsFinal` | `[]DebtCountedOnce`, `CancelledIsFinal` | `SerialInv`: a call in flight is alone and what its guard read still holds (`Guarded`); as long as no batch is issued, no invoice bills a unit (`Billed`) |
| `SerialNothingOverallocated`, `SerialStatusFollows`, `SerialNoMoneyIntoDead` | the three | `MoneyInv`: a booking in flight fits (`Fits`): its rows leave room on their invoices and on their payment, and the statuses it is going to write are those of the table with its rows in it |

### Bank

| Theorem | States | Argument |
|---|---|---|
| `TypeCorrect` | `[]TypeOK` | batches are finite, so what they add is a natural number |
| `BookedOnce` | `[]OneBookingPerSms` | `QueueInv`: the claim alone decides, nothing need be known of what requests have read |
| `PaidFollowsBooks` | `[]PaidIsSpent` | a request that writes over what it has not read puts the expense in `lost`; otherwise one sum is added to the expense and to the books |
| `ExpensesAddUp`, `NothingOverpaid` | `[]ExpenseAddsUp`, `[]NotOverpaid` | `BookInv`: a batch was checked row by row against what was seen (`GoodRequest`); outside the named cases it has one row for an expense and what was seen is what is paid |

### Outbox

| Theorem | States | Argument |
|---|---|---|
| `TypeCorrect` | `[]TypeOK` | `Inv`: what a request holds are written messages, of its scope or its own (`Knows`) |
| `LimitHolds` | `LimitKept` | `Uncrowded` and `Counts`: a request nobody overtook runs by itself, so its count is not behind the table |
| `NobodyTwice` | with `Exclusive = TRUE`, `[]SentOnce` | `ExclusiveInv`: `Credit`, the deliveries of a message and the requests that claimed it and know of no delivery are covered by its doubts but for one, and by doubts alone when the next claim raises none. Requests that may write to messages they have not claimed run alone (`Apart`, `Sole`) |

### OAuth and Onboarding

| Theorem | States | Argument |
|---|---|---|
| `ChainIsOne` | `[]OneChain` of `OAuth` | `Inv`: pairs and connections are numbered in order (`Numbered`), a code that made a connection is spent and knows it (`CodesMatch`) |
| `ReplayIsAnswered` | `[]ReplayEndsAll` of `OAuth` | the same `Inv`: the connections of an answered code are REVOKED for good (`ReplayedRevoked`), and a revocation in flight names the connection and the code it belongs to (`CallsMatch`) |
| `TypeCorrect`, `EditsAreKept`, `PublicationIsReviewed`, `StakesAreProved`, `ClosingIsFinal` | `TypeOK` and the four properties of `Onboarding` | `Inv`, below |

The optimistic version of a draft carries the invariant of `OnboardingProofs`:
content never changes without the version, so a window whose version is
still the draft's holds the draft's content (`Reads`, `Writes`, `Publishes`); that
is all the conditional update checks, and all it needs to. `Once` follows a proof
file: a stake is entered by one window in one draft, and while it is entered, or may
still be, nobody else drops its proof, unless its saving was not answered. `Invited`
ties a draft to an accepted invitation, so a draft begins empty.

### Sums

Money and weights are sums over finite sets (`SumFunction` of the community
modules, a recursive function). That the recursion has a solution, and that a sum
does not depend on the order, would be inductions on subsets, whose theorem takes an
operator and cannot be used with these provers. `SumProofs` takes a smallest
counterexample instead: the proper-subset relation on the subsets of a finite set is
well-founded, which the library states without an operator parameter. From there:
sums of integers are integers (`SumType`), an element added or removed (`SumAdd`,
`SumRemove`), two disjoint tables (`SumUnion`), parts (`SumPart`), and one-to-one
renaming (`SumCarried`). `OutboxProofs` uses the same device for the least message
of a list.

### Only model-checked

`EveryMessageSettles`: liveness under fairness is beyond the prover. That the
serial properties fail when calls overlap, and `SentOnce` without `Exclusive`, are
counterexamples of runs (§3). The bounds on counters (`MaxVotes`, `MaxRows`, ...)
are constants in the proofs, too, and may be of any size there.

## 5. Not modelled

Almost four fifths of the lines of this repository are the generated Prisma client
(`src/src/generated`), which holds no decision of the application; the
schema's constraints and triggers that the services rely on are in the models of
those services. Beside it:

- **Ownership and voting base**: intervals and sums of shares edited by one
  official. `Voting` and `Session` take the base as a constant.
- **Charge items and the calculation of amounts** (`engines/billing.ts`, meter
  readings): `Ledger` takes the amounts of a draft batch as given.
- **Merging of duplicate payments** (`paymentMatching.ts`): it reverses and
  allocates through the services of `Ledger`, whose reversals overlap in the same
  way.
- **Users and roles**, **maintenance**, **plans, records, register**: rows with a
  guard of their own and no protocol between them. **Meeting notes** carry the same
  optimistic version as a draft of `Onboarding`.
- **Agenda, attendance, proxies, invitations**: single rows edited before voting.
- **MCP tools**: thin calls of the services above, as the same user.
- **Providers of mail and Viber**: external; `Outbox` sees accepted, refused, or no
  answer.
- **Documents, reports, settings, user interface, scripts, build**: I/O, queries,
  rendering.
