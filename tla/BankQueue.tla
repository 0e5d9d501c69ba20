------------------------------ MODULE BankQueue ------------------------------
(***************************************************************************)
(* Bank transfers on their way into the books, and the expenses they pay:  *)
(* bankSms.ts, payments.ts (import of reviewed rows) and expenses.ts in    *)
(* src/src/server/services.                                                *)
(*                                                                         *)
(* A notification of the bank (IncomingBankSms) waits until the accountant *)
(* confirms or dismisses it; the lines of a statement are imported without *)
(* a queue.  A confirmed notification and an imported line become a row of *)
(* the books, a payment of an owner or a FinTransaction; a row that pays   *)
(* an expense adds to its paidAmount, and so does payExpense.              *)
(*                                                                         *)
(* Requests overlap at READ COMMITTED.  One that books has three steps:    *)
(* its checks, in front of the transaction; inside it, what it reads of    *)
(* the expenses it will write; and its writes, with the claim of the       *)
(* notifications.  (The claim is the first statement of the transaction    *)
(* and locks the notifications until the writes are visible.)              *)
(***************************************************************************)
EXTENDS Integers, FiniteSets, Functions

CONSTANTS
    Requests,
    Sms,         \* notifications that the bank may send
    Lines,       \* lines of statements
    Expenses,
    Amounts,     \* amounts of rows
    None,
    Total,       \* the amount of every expense
    MaxSpent     \* bound: of what is paid for an expense

ASSUME BankAssumption ==
    /\ None \notin Sms \cup Lines \cup Expenses
    /\ Sms \cap Lines = {}
    /\ IsFiniteSet(Sms) /\ IsFiniteSet(Lines)
    /\ Amounts \subseteq Nat \ {0}
    /\ Total \in Nat \ {0}
    /\ MaxSpent \in Nat

VARIABLES
    sms,         \* IncomingBankSms.status, "NONE" before it arrives
    bookings,    \* rows of the books made from a notification: how many
    paid,        \* Expense.paidAmount
    status,      \* Expense.status
    spent,       \* sum of the FinTransactions with this expenseId
    requests,
    lost,        \* expenses on which a request wrote over what it had not
                 \* read (for the properties)
    late,        \* expenses a request checked before another paid them (for
                 \* the properties)
    paired       \* expenses paid by two rows of one batch (for the properties)

traces == <<lost, late, paired>>
expenseVars == <<paid, status, spent, traces>>
vars == <<sms, bookings, expenseVars, requests>>

Row == [source: Sms \cup Lines \cup {None}, expense: Expenses \cup {None},
        amount: Amounts]

Request == [at: {"idle", "confirming", "importing", "paying", "storing", "cancelling"},
            rows: SUBSET Row,
            expense: Expenses \cup {None},   \* to be cancelled
            seen: [Expenses -> Nat],         \* paidAmount when it was checked
            read: [Expenses -> Nat]]         \* paidAmount to add to

Idle == [at |-> "idle", rows |-> {}, expense |-> None,
         seen |-> [e \in Expenses |-> 0], read |-> [e \in Expenses |-> 0]]

Init ==
    /\ sms = [s \in Sms |-> "NONE"]
    /\ bookings = [s \in Sms |-> 0]
    /\ paid = [e \in Expenses |-> 0]
    /\ status = [e \in Expenses |-> "UNPAID"]
    /\ spent = [e \in Expenses |-> 0]
    /\ requests = [r \in Requests |-> Idle]
    /\ lost = {}
    /\ late = {}
    /\ paired = {}

Go(r, me) == requests' = [requests EXCEPT ![r] = me]

\* The notifications a batch of rows comes from, and its rows for an expense.
SmsOf(rows) == {x.source : x \in rows} \cap Sms
For(e, rows) == {x \in rows : x.expense = e}
Added(e, rows) == SumFunction([x \in For(e, rows) |-> x.amount])

-----------------------------------------------------------------------------
(* The queue.                                                              *)

\* The same text again only counts a hit on the row there is: no step.
receiveBankSms(s) ==
    /\ sms[s] = "NONE"
    /\ \E understood \in BOOLEAN :
        sms' = [sms EXCEPT ![s] = IF understood THEN "PENDING" ELSE "REJECTED"]
    /\ UNCHANGED <<bookings, expenseVars, requests>>

dismissBankSms(s) ==
    /\ sms[s] \in {"PENDING", "REJECTED"}
    /\ sms' = [sms EXCEPT ![s] = "DISMISSED"]
    /\ UNCHANGED <<bookings, expenseVars, requests>>

-----------------------------------------------------------------------------
(* Booking.                                                                *)

\* Every way to choose an expense (or none) and an amount for these sources.
Batches(sources) ==
    {{[source |-> s, expense |-> f[s].expense, amount |-> f[s].amount] : s \in sources} :
        f \in [sources -> [expense: Expenses \cup {None}, amount: Amounts]]}

\* Mutant: an expense with something left takes any amount.
CommittableIfOpen(rows) == \A x \in rows : x.expense # None => paid[x.expense] < Total

\* assertStatementRowsCommittable: row by row, against the expense as it is.
Committable(rows) ==
    \A x \in rows : x.expense # None => x.amount <= Total - paid[x.expense]

Check(r, at, rows) ==
    /\ requests[r].at = "idle"
    /\ Go(r, [Idle EXCEPT !.at = at, !.rows = rows, !.seen = paid])
    /\ UNCHANGED <<sms, bookings, expenseVars>>

confirmRead(r, rows) ==
    /\ \A s \in SmsOf(rows) : sms[s] = "PENDING"
    /\ Committable(rows)
    /\ Check(r, "confirming", rows)

importRead(r, rows) ==
    /\ Committable(rows)
    /\ Check(r, "importing", rows)

\* payExpense, which checks inside its transaction.
payRead(r, e, amount) ==
    /\ status[e] # "CANCELLED"
    /\ paid[e] + amount <= Total
    /\ requests[r].at = "idle"
    /\ Go(r, [Idle EXCEPT !.at = "storing", !.seen = paid, !.read = paid,
              !.rows = {[source |-> None, expense |-> e, amount |-> amount]}])
    /\ UNCHANGED <<sms, bookings, expenseVars>>

\* Mutant: the claim takes whatever has not been dismissed.
ClaimedUnlessDismissed(rows) == \A s \in SmsOf(rows) : sms[s] # "DISMISSED"

\* updateMany PENDING to CONFIRMING counts every notification of the batch.
Claimed(rows) == \A s \in SmsOf(rows) : sms[s] = "PENDING"

\* commitStatementRowsInTx reads the expenses of its rows ...
storeRead(r) ==
    /\ requests[r].at \in {"confirming", "importing"}
    /\ Claimed(requests[r].rows)
    /\ Go(r, [requests[r] EXCEPT !.at = "storing", !.read = paid])
    /\ UNCHANGED <<sms, bookings, expenseVars>>

\* Mutant: each row adds to what was read before the first.
NewPaidByOne(me, e) == me.read[e] + (CHOOSE x \in For(e, me.rows) : TRUE).amount

\* Each row adds to what the row before it has left.
NewPaid(me, e) == me.read[e] + Added(e, me.rows)

\* ... and everything becomes visible, or nothing does.
storeCommit(r) ==
    LET me == requests[r]
        pays == {e \in Expenses : For(e, me.rows) # {}}
        new == [e \in pays |-> NewPaid(me, e)]
    IN  /\ me.at = "storing"
        /\ Claimed(me.rows)
        /\ \A e \in pays : new[e] <= MaxSpent /\ spent[e] + Added(e, me.rows) <= MaxSpent
        /\ sms' = [s \in Sms |-> IF s \in SmsOf(me.rows) THEN "CONFIRMED" ELSE sms[s]]
        /\ bookings' = [s \in Sms |-> IF s \in SmsOf(me.rows) THEN bookings[s] + 1
                                      ELSE bookings[s]]
        /\ paid' = [e \in Expenses |-> IF e \in pays THEN new[e] ELSE paid[e]]
        /\ status' = [e \in Expenses |->
               IF e \notin pays THEN status[e]
               ELSE IF new[e] >= Total THEN "PAID" ELSE "PARTIALLY_PAID"]
        /\ spent' = [e \in Expenses |->
               IF e \in pays THEN spent[e] + Added(e, me.rows) ELSE spent[e]]
        /\ lost' = lost \cup {e \in pays : me.read[e] # paid[e]}
        /\ late' = late \cup {e \in pays : me.seen[e] # paid[e]}
        /\ paired' = paired \cup {e \in pays : Cardinality(For(e, me.rows)) > 1}
        /\ Go(r, Idle)

-----------------------------------------------------------------------------
(* Cancelling an expense nothing was paid for.                             *)

cancelRead(r, e) ==
    /\ requests[r].at = "idle"
    /\ paid[e] = 0
    /\ Go(r, [Idle EXCEPT !.at = "cancelling", !.expense = e])
    /\ UNCHANGED <<sms, bookings, expenseVars>>

cancelCommit(r) ==
    LET e == requests[r].expense
    IN  /\ requests[r].at = "cancelling"
        /\ status' = [status EXCEPT ![e] = "CANCELLED"]
        /\ lost' = lost \cup {x \in {e} : paid[x] # 0}
        /\ Go(r, Idle)
        /\ UNCHANGED <<sms, bookings, paid, spent, late, paired>>

\* A check fails, a process dies, the transaction times out.
abort(r) ==
    /\ requests[r].at # "idle"
    /\ Go(r, Idle)
    /\ UNCHANGED <<sms, bookings, expenseVars>>

Next ==
    \/ \E s \in Sms : receiveBankSms(s) \/ dismissBankSms(s)
    \/ \E r \in Requests :
        \/ \E sources \in SUBSET Sms \ {{}} : \E rows \in Batches(sources) :
               confirmRead(r, rows)
        \/ \E sources \in SUBSET Lines \ {{}} : \E rows \in Batches(sources) :
               importRead(r, rows)
        \/ \E e \in Expenses, amount \in Amounts : payRead(r, e, amount)
        \/ \E e \in Expenses : cancelRead(r, e)
        \/ storeRead(r) \/ storeCommit(r) \/ cancelCommit(r) \/ abort(r)

Spec == Init /\ [][Next]_vars

-----------------------------------------------------------------------------
TypeOK ==
    /\ sms \in [Sms -> {"NONE", "PENDING", "REJECTED", "CONFIRMED", "DISMISSED"}]
    /\ bookings \in [Sms -> Nat]
    /\ paid \in [Expenses -> Nat]
    /\ status \in [Expenses -> {"UNPAID", "PARTIALLY_PAID", "PAID", "CANCELLED"}]
    /\ spent \in [Expenses -> Nat]
    /\ requests \in [Requests -> Request]
    /\ lost \in SUBSET Expenses
    /\ late \in SUBSET Expenses
    /\ paired \in SUBSET Expenses

\* A notification is booked once if it is confirmed, and otherwise not at all:
\* however often and with whatever others it is confirmed or dismissed at once
\* (confirmBankSms, dismissBankSms).
OneBookingPerSms ==
    \A s \in Sms : bookings[s] = IF sms[s] = "CONFIRMED" THEN 1 ELSE 0

\* What an expense shows as paid is what the books say was spent on it, unless
\* of two requests whose transactions overlap one wrote over the other's payment
\* (commitStatementRowsInTx, payExpense).
PaidIsSpent == \A e \in Expenses \ lost : paid[e] = spent[e]

\* ... and then its status says how much that is, on a cancelled one nothing
\* (cancelExpense).
StatusSaysPaid ==
    \A e \in Expenses \ lost :
        CASE status[e] = "PAID" -> paid[e] >= Total
          [] status[e] = "PARTIALLY_PAID" -> 0 < paid[e] /\ paid[e] < Total
          [] OTHER -> paid[e] = 0

\* Both: the cached columns of an expense agree with the books.
ExpenseAddsUp == PaidIsSpent /\ StatusSaysPaid

\* No expense is overpaid, unless it was paid between a request's check and
\* its booking, or one batch had two rows for it
\* (assertStatementRowsCommittable, payExpense).
NotOverpaid == \A e \in Expenses \ (lost \cup late \cup paired) : spent[e] <= Total
=============================================================================
