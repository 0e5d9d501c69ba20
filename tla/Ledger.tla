------------------------------- MODULE Ledger -------------------------------
(***************************************************************************)
(* Owners' invoices, their payments and what links them:                   *)
(* src/src/server/services/payments.ts, and billing.ts from the draft of a *)
(* batch on, with the constraints of src/prisma/schema.prisma.             *)
(*                                                                         *)
(* PaymentAllocation is append-only: money that goes back is a row with a  *)
(* negative amount.  What is paid and what is free are sums over the rows, *)
(* while the statuses of payments and invoices are stored and rewritten by *)
(* refreshPaymentStatus and refreshInvoiceStatus.                          *)
(*                                                                         *)
(* Concurrency is as in module Voting (READ COMMITTED, no locks), but a    *)
(* booking has three steps: ...Read takes the guards and the amounts,      *)
(* Refresh computes the statuses from the rows committed by then and the   *)
(* call's own rows, Store makes everything visible.  Reads are not         *)
(* repeated: Store checks the unique constraints and writes statuses by    *)
(* id.  Abort is a call that dies with its transaction.                    *)
(*                                                                         *)
(* An invoice is known by its number (per year and community, here of one  *)
(* year: one more than the last, and unique, so a call that lost the race  *)
(* for a number dies); amounts are whole.  Batches are of one period:      *)
(* those of two periods share nothing but the numbers.                     *)
(***************************************************************************)
EXTENDS Integers, FiniteSets, Functions

CONSTANTS
    Requests,       \* concurrent server requests
    Payments,       \* payments that may be entered or imported
    Amounts,        \* amounts of payments and totals of invoices
    Batches,        \* batches that may be drafted for one period
    UnitCount,      \* units that are charged in it
    MaxInvoices,    \* bound: invoices
    MaxRows         \* bound: allocation rows of an invoice

ASSUME LedgerAssumption ==
    /\ Amounts \subseteq Nat \ {0}
    /\ UnitCount \in Nat \ {0}
    /\ MaxInvoices \in Nat \ {0}
    /\ MaxRows \in Nat \ {0}

Invoices == 1 .. MaxInvoices
Units == 1 .. UnitCount

InvoiceStatus == {"ISSUED", "PAID", "CANCELLED", "CORRECTED"}
PaymentStatus == {"UNAPPLIED", "PARTIALLY_APPLIED", "APPLIED", "REVERSED"}
CashStatus == {"ACTIVE", "CANCELLED"}
BatchStatus == {"DRAFT", "ISSUED"}

\* The rows of an invoice are numbered.  A reversal names the row of the same
\* invoice that it undoes; reverses = 0: it is none (reversalOfId is null).
NewRow == [payment: Payments, invoice: Invoices, amount: Int, reverses: 0 .. MaxRows]
Row == [id: 1 .. MaxRows, payment: Payments, invoice: Invoices, amount: Int,
        reverses: 0 .. MaxRows]

VARIABLES
    istatus,    \* Invoice.status by number, "NONE" before it is issued
    total,      \* Invoice.total
    corrects,   \* Invoice.correctionOfId, 0 if none
    unit,       \* Invoice.unitId if it bills the period, 0 if it does not
    bstatus,    \* InvoiceBatch.status, "NONE" before it is drafted
    preview,    \* InvoiceBatch.previewData: the amount of each unit
    pstatus,    \* Payment.status, "NONE" before it is entered
    amount,     \* Payment.amount
    reversed,   \* Payment.reversedAt is set
    cash,       \* status of the payment's FinTransaction
    allocs,     \* table PaymentAllocation
    calls       \* calls between their reads and their commit

invoiceVars == <<istatus, total, corrects, unit>>
batchVars == <<bstatus, preview>>
paymentVars == <<pstatus, amount, reversed, cash>>
vars == <<invoiceVars, batchVars, paymentVars, allocs, calls>>

-----------------------------------------------------------------------------
(* Sums over the rows.                                                     *)

SumOf(rows) == SumFunction([x \in rows |-> x.amount])

Paid(i) == SumOf({x \in allocs : x.invoice = i})
Allocated(p) == SumOf({x \in allocs : x.payment = p})
netAllocations(p, i) == SumOf({x \in allocs : x.payment = p /\ x.invoice = i})

Open(i) == total[i] - Paid(i)
Free(p) == amount[p] - Allocated(p)

PaymentStatusFor(money, allocated) ==
    IF allocated = 0 THEN "UNAPPLIED"
    ELSE IF allocated >= money THEN "APPLIED" ELSE "PARTIALLY_APPLIED"

\* Mutant: the status an expense would have.
InvoiceStatusLikeExpense(due, paid) == IF paid >= due THEN "PAID" ELSE "PARTIALLY_PAID"

\* An invoice of nothing is never PAID.
InvoiceStatusFor(due, paid) == IF paid >= due /\ due # 0 THEN "PAID" ELSE "ISSUED"

-----------------------------------------------------------------------------
(* Calls in flight.  A booking carries the rows it will insert, the amount *)
(* of the payment it creates (0 if it creates none) and, once refreshed,   *)
(* the statuses it will write ("NONE": not written).                       *)

BookOps == {"allocate", "reverseAllocation", "reversePayment", "import"}

Booking ==
    [req: Requests, op: BookOps, refreshed: BOOLEAN, payment: Payments,
     money: Amounts \cup {0}, rows: SUBSET NewRow,
     pnew: PaymentStatus \cup {"NONE"},
     inew: [Invoices -> InvoiceStatus \cup {"NONE"}]]
CancelCall == [req: Requests, op: {"cancelInvoice"}, invoice: Invoices]
CorrectCall == [req: Requests, op: {"correctInvoice"}, invoice: Invoices,
                newTotal: Amounts \cup {0}]
IssueCall == [req: Requests, op: {"issueBatch"}, batch: Batches]

Call == Booking \cup CancelCall \cup CorrectCall \cup IssueCall

Idle(r) == \A c \in calls : c.req # r
Finish(c) == calls' = calls \ {c}

Book(r, op, p, money, rows) ==
    /\ Idle(r)
    /\ calls' = calls \cup
          {[req |-> r, op |-> op, refreshed |-> FALSE, payment |-> p,
            money |-> money, rows |-> rows, pnew |-> "NONE",
            inew |-> [i \in Invoices |-> "NONE"]]}
    /\ UNCHANGED <<invoiceVars, batchVars, paymentVars, allocs>>

TypeOK ==
    /\ istatus \in [Invoices -> InvoiceStatus \cup {"NONE"}]
    /\ total \in [Invoices -> Amounts \cup {0}]
    /\ corrects \in [Invoices -> 0 .. MaxInvoices]
    /\ unit \in [Invoices -> 0 .. UnitCount]
    /\ bstatus \in [Batches -> BatchStatus \cup {"NONE"}]
    /\ preview \in [Batches -> [Units -> Amounts \cup {0}]]
    /\ pstatus \in [Payments -> PaymentStatus \cup {"NONE"}]
    /\ amount \in [Payments -> Amounts \cup {0}]
    /\ reversed \in [Payments -> BOOLEAN]
    /\ cash \in [Payments -> CashStatus \cup {"NONE"}]
    /\ allocs \subseteq Row
    /\ calls \subseteq Call

Init ==
    /\ istatus = [i \in Invoices |-> "NONE"]
    /\ total = [i \in Invoices |-> 0]
    /\ corrects = [i \in Invoices |-> 0]
    /\ unit = [i \in Invoices |-> 0]
    /\ bstatus = [b \in Batches |-> "NONE"]
    /\ preview = [b \in Batches |-> [u \in Units |-> 0]]
    /\ pstatus = [p \in Payments |-> "NONE"]
    /\ amount = [p \in Payments |-> 0]
    /\ reversed = [p \in Payments |-> FALSE]
    /\ cash = [p \in Payments |-> "NONE"]
    /\ allocs = {}
    /\ calls = {}

-----------------------------------------------------------------------------
(* Invoices: issueSingleInvoice, cancelInvoice, correctInvoice.            *)

NextNumber(n) ==
    /\ istatus[n] = "NONE"
    /\ n > 1 => istatus[n - 1] # "NONE"

issueSingleInvoice(t) ==
    /\ \E n \in Invoices :
          /\ NextNumber(n)
          /\ istatus' = [istatus EXCEPT ![n] = "ISSUED"]
          /\ total' = [total EXCEPT ![n] = t]
    /\ UNCHANGED <<corrects, unit, batchVars, paymentVars, allocs, calls>>

\* Mutant: money still on the invoice is not looked at.
cancelUnchecked(r, i) ==
    /\ istatus[i] \notin {"NONE", "CANCELLED"}
    /\ Idle(r)
    /\ calls' = calls \cup {[req |-> r, op |-> "cancelInvoice", invoice |-> i]}
    /\ UNCHANGED <<invoiceVars, batchVars, paymentVars, allocs>>

cancelInvoiceRead(r, i) ==
    /\ istatus[i] \notin {"NONE", "CANCELLED"}
    /\ Paid(i) = 0
    /\ Idle(r)
    /\ calls' = calls \cup {[req |-> r, op |-> "cancelInvoice", invoice |-> i]}
    /\ UNCHANGED <<invoiceVars, batchVars, paymentVars, allocs>>

cancelInvoiceCommit(c) ==
    /\ c.op = "cancelInvoice"
    /\ istatus' = [istatus EXCEPT ![c.invoice] = "CANCELLED"]
    /\ Finish(c)
    /\ UNCHANGED <<total, corrects, unit, batchVars, paymentVars, allocs>>

correctInvoiceRead(r, i, t) ==
    /\ istatus[i] = "ISSUED"
    /\ \A j \in Invoices : corrects[j] # i
    /\ Idle(r)
    /\ calls' = calls \cup
          {[req |-> r, op |-> "correctInvoice", invoice |-> i, newTotal |-> t]}
    /\ UNCHANGED <<invoiceVars, batchVars, paymentVars, allocs>>

\* correctionOfId is unique.  (Mutant: it is not.)
MayCorrectAgain(i) == TRUE
NotCorrected(i) == \A j \in Invoices : corrects[j] # i

\* The original's allocations stay on it.
correctInvoiceCommit(c) ==
    /\ c.op = "correctInvoice"
    /\ NotCorrected(c.invoice)
    /\ \E n \in Invoices :
          /\ NextNumber(n)
          /\ istatus' = [istatus EXCEPT ![n] = "ISSUED", ![c.invoice] = "CORRECTED"]
          /\ total' = [total EXCEPT ![n] = c.newTotal]
          /\ corrects' = [corrects EXCEPT ![n] = c.invoice]
          /\ unit' = [unit EXCEPT ![n] = unit[c.invoice]]
    /\ Finish(c)
    /\ UNCHANGED <<batchVars, paymentVars, allocs>>

-----------------------------------------------------------------------------
(* The period's batch: createDraftBatch, issueBatch.                       *)

\* A period has at most one batch of each status (one_issued_batch_per_period).
NoOther(b, s) == \A d \in Batches \ {b} : bstatus[d] # s

\* The amounts come from the charge items, which are left out.
createDraftBatch(b, amounts) ==
    /\ bstatus[b] = "NONE"
    /\ NoOther(b, "DRAFT")
    /\ bstatus' = [bstatus EXCEPT ![b] = "DRAFT"]
    /\ preview' = [preview EXCEPT ![b] = amounts]
    /\ UNCHANGED <<invoiceVars, paymentVars, allocs, calls>>

\* Mutant: an issued batch may be issued again.
issueBatchAgain(r, b) ==
    /\ bstatus[b] # "NONE"
    /\ NoOther(b, "ISSUED")
    /\ Idle(r)
    /\ calls' = calls \cup {[req |-> r, op |-> "issueBatch", batch |-> b]}
    /\ UNCHANGED <<invoiceVars, batchVars, paymentVars, allocs>>

issueBatchRead(r, b) ==
    /\ bstatus[b] = "DRAFT"
    /\ NoOther(b, "ISSUED")
    /\ Idle(r)
    /\ calls' = calls \cup {[req |-> r, op |-> "issueBatch", batch |-> b]}
    /\ UNCHANGED <<invoiceVars, batchVars, paymentVars, allocs>>

\* One invoice per unit, with the next numbers.  The status is written by id.
issueBatchCommit(c) ==
    /\ c.op = "issueBatch"
    /\ NoOther(c.batch, "ISSUED")
    /\ \E n \in Invoices :
          /\ NextNumber(n)
          /\ n + UnitCount - 1 \in Invoices
          /\ LET new == n .. n + UnitCount - 1 IN
             /\ istatus' = [i \in Invoices |-> IF i \in new THEN "ISSUED" ELSE istatus[i]]
             /\ total' = [i \in Invoices |-> IF i \in new THEN preview[c.batch][i - n + 1]
                                             ELSE total[i]]
             /\ unit' = [i \in Invoices |-> IF i \in new THEN i - n + 1 ELSE unit[i]]
    /\ bstatus' = [bstatus EXCEPT ![c.batch] = "ISSUED"]
    /\ Finish(c)
    /\ UNCHANGED <<corrects, preview, paymentVars, allocs>>

-----------------------------------------------------------------------------
(* Payments: enterPayment, and the cash side cancelTransaction.            *)

NewPayment(p) == pstatus[p] = "NONE" /\ \A c \in calls : c.op \in BookOps => c.payment # p

\* Also an imported row for which no invoice was chosen.
enterPayment(p, a) ==
    /\ NewPayment(p)
    /\ pstatus' = [pstatus EXCEPT ![p] = "UNAPPLIED"]
    /\ amount' = [amount EXCEPT ![p] = a]
    /\ cash' = [cash EXCEPT ![p] = "ACTIVE"]
    /\ UNCHANGED <<reversed, invoiceVars, batchVars, allocs, calls>>

\* The transaction of a payment can be cancelled on its own.
cancelTransaction(p) ==
    /\ cash[p] = "ACTIVE"
    /\ cash' = [cash EXCEPT ![p] = "CANCELLED"]
    /\ UNCHANGED <<pstatus, amount, reversed, invoiceVars, batchVars, allocs, calls>>

-----------------------------------------------------------------------------
(* Bookings: allocatePayment, reverseAllocation, reversePaymentInTx, and   *)
(* an IN row of commitStatementRowsInTx matched with an invoice.           *)

\* Mutant: what the invoice has open is not looked at.
allocateOverInvoice(r, p, i, a) ==
    /\ pstatus[p] # "NONE"
    /\ ~reversed[p]
    /\ istatus[i] \notin {"NONE", "CANCELLED"}
    /\ a <= Free(p)
    /\ Book(r, "allocate", p, 0,
            {[payment |-> p, invoice |-> i, amount |-> a, reverses |-> 0]})

\* Mutant: a reversed payment or a cancelled invoice is taken.
allocateAnyState(r, p, i, a) ==
    /\ pstatus[p] # "NONE"
    /\ istatus[i] # "NONE"
    /\ a <= Free(p)
    /\ a <= Open(i)
    /\ Book(r, "allocate", p, 0,
            {[payment |-> p, invoice |-> i, amount |-> a, reverses |-> 0]})

\* Any positive amount that is free and open: "as much as possible" is one.
\* A corrected invoice is no obstacle.
allocateRead(r, p, i, a) ==
    /\ pstatus[p] # "NONE"
    /\ ~reversed[p]
    /\ istatus[i] \notin {"NONE", "CANCELLED"}
    /\ a <= Free(p)
    /\ a <= Open(i)
    /\ Book(r, "allocate", p, 0,
            {[payment |-> p, invoice |-> i, amount |-> a, reverses |-> 0]})

\* Whether the payment was reversed meanwhile is not looked at.
reverseAllocationRead(r, x) ==
    /\ x.amount > 0
    /\ ~\E y \in allocs : y.invoice = x.invoice /\ y.reverses = x.id
    /\ Book(r, "reverseAllocation", x.payment, 0,
            {[payment |-> x.payment, invoice |-> x.invoice, amount |-> -x.amount,
              reverses |-> x.id]})

\* One row per invoice that still holds money of the payment; none of them
\* names the rows it undoes.
reversePaymentRead(r, p) ==
    /\ pstatus[p] # "NONE"
    /\ ~reversed[p]
    /\ Book(r, "reversePayment", p, 0,
            {[payment |-> p, invoice |-> i, amount |-> -netAllocations(p, i),
              reverses |-> 0] : i \in {i \in Invoices : netAllocations(p, i) > 0}})

\* The row is cut to what the invoice has open; without anything open, or on a
\* cancelled invoice, the payment is entered unapplied.
importRead(r, p, a, i) ==
    /\ NewPayment(p)
    /\ istatus[i] # "NONE"
    /\ LET fit == IF Open(i) < a THEN Open(i) ELSE a
       IN  Book(r, "import", p, a,
                IF istatus[i] = "CANCELLED" \/ fit <= 0 THEN {}
                ELSE {[payment |-> p, invoice |-> i, amount |-> fit, reverses |-> 0]})

\* refreshInvoiceStatus, for every invoice the call has a row on.
RefreshedInvoice(c, i) ==
    LET own == {x \in c.rows : x.invoice = i}
    IN  IF own = {} \/ istatus[i] \notin {"ISSUED", "PAID"} THEN "NONE"
        ELSE InvoiceStatusFor(total[i], Paid(i) + SumOf(own))

\* Mutant: the status is computed without the call's own rows.
RefreshedBefore(c) == PaymentStatusFor(amount[c.payment], Allocated(c.payment))

\* refreshPaymentStatus; reversePaymentInTx writes REVERSED itself.
RefreshedPayment(c) ==
    IF c.op = "reversePayment" \/ reversed[c.payment] THEN "REVERSED"
    ELSE PaymentStatusFor(IF c.op = "import" THEN c.money ELSE amount[c.payment],
                          Allocated(c.payment) + SumOf(c.rows))

Refresh(c) ==
    /\ c.op \in BookOps
    /\ ~c.refreshed
    /\ calls' = (calls \ {c}) \cup
          {[c EXCEPT !.refreshed = TRUE,
                     !.pnew = RefreshedPayment(c),
                     !.inew = [i \in Invoices |-> RefreshedInvoice(c, i)]]}
    /\ UNCHANGED <<invoiceVars, batchVars, paymentVars, allocs>>

\* reversalOfId is unique.  (Mutant: it is not.)
ReversedTwice(rows) == TRUE
UniqueReversal(rows) ==
    \A x \in rows : x.reverses # 0 =>
        ~\E y \in allocs : y.invoice = x.invoice /\ y.reverses = x.reverses

\* A call has at most one row per invoice.
RowsOf(i) == {y \in allocs : y.invoice = i}

Numbered(rows) ==
    {[id |-> Cardinality(RowsOf(x.invoice)) + 1, payment |-> x.payment,
      invoice |-> x.invoice, amount |-> x.amount, reverses |-> x.reverses] : x \in rows}

Store(c) ==
    /\ c.op \in BookOps
    /\ c.refreshed
    /\ UniqueReversal(c.rows)
    /\ \A x \in c.rows : Cardinality(RowsOf(x.invoice)) < MaxRows
    /\ allocs' = allocs \cup Numbered(c.rows)
    /\ istatus' = [i \in Invoices |-> IF c.inew[i] = "NONE" THEN istatus[i]
                                      ELSE c.inew[i]]
    /\ pstatus' = [pstatus EXCEPT ![c.payment] = c.pnew]
    /\ amount' = IF c.op = "import" THEN [amount EXCEPT ![c.payment] = c.money]
                 ELSE amount
    /\ reversed' = IF c.op = "reversePayment" THEN [reversed EXCEPT ![c.payment] = TRUE]
                   ELSE reversed
    /\ cash' = CASE c.op = "import" -> [cash EXCEPT ![c.payment] = "ACTIVE"]
                 [] c.op = "reversePayment" -> [cash EXCEPT ![c.payment] = "CANCELLED"]
                 [] OTHER -> cash
    /\ Finish(c)
    /\ UNCHANGED <<total, corrects, unit, batchVars>>

-----------------------------------------------------------------------------

Abort(c) ==
    /\ Finish(c)
    /\ UNCHANGED <<invoiceVars, batchVars, paymentVars, allocs>>

Read(r) ==
    \/ \E i \in Invoices :
          \/ cancelInvoiceRead(r, i)
          \/ \E t \in Amounts \cup {0} : correctInvoiceRead(r, i, t)
    \/ \E p \in Payments :
          \/ reversePaymentRead(r, p)
          \/ \E i \in Invoices, a \in Amounts :
                allocateRead(r, p, i, a) \/ importRead(r, p, a, i)
    \/ \E x \in allocs : reverseAllocationRead(r, x)
    \/ \E b \in Batches : issueBatchRead(r, b)

Commit(c) ==
    \/ cancelInvoiceCommit(c)
    \/ correctInvoiceCommit(c)
    \/ issueBatchCommit(c)
    \/ Refresh(c)
    \/ Store(c)

Next ==
    \/ \E t \in Amounts : issueSingleInvoice(t)
    \/ \E b \in Batches, amounts \in [Units -> Amounts] : createDraftBatch(b, amounts)
    \/ \E p \in Payments : cancelTransaction(p) \/ \E a \in Amounts : enterPayment(p, a)
    \/ \E r \in Requests : Read(r)
    \/ \E c \in calls : Commit(c) \/ Abort(c)

Spec == Init /\ [][Next]_vars

-----------------------------------------------------------------------------
(* What holds however requests interleave.                                 *)

\* Taking an allocation back is exact and happens once: a row that names
\* another undoes exactly that row, which brought money in, and no row is named
\* twice, also when two accountants take the same allocation back at once.
ReversalsMatch ==
    \A x \in allocs : x.reverses # 0 =>
        /\ \E y \in allocs : /\ y.id = x.reverses /\ y.id < x.id /\ y.amount > 0
                             /\ y.payment = x.payment /\ y.invoice = x.invoice
                             /\ x.amount = -y.amount
        /\ \A z \in allocs : z.invoice = x.invoice /\ z.reverses = x.reverses => z = x

\* Corrections form chains: an invoice has at most one corrective, a later one,
\* and an invoice marked CORRECTED has it.
CorrectionPairs ==
    /\ \A i, j \in Invoices : corrects[i] = corrects[j] /\ corrects[i] # 0 => i = j
    /\ \A j \in Invoices : corrects[j] # 0 => corrects[j] < j /\ istatus[j] # "NONE"
    /\ \A i \in Invoices : istatus[i] = "CORRECTED" => \E j \in Invoices : corrects[j] = i

-----------------------------------------------------------------------------
(* What the guards promise, and keep when calls do not overlap.            *)

\* No invoice takes more than its total and no payment gives more than its
\* amount; the surplus stays an unapplied advance.
NothingOverallocated ==
    /\ \A i \in Invoices : Paid(i) <= total[i]
    /\ \A p \in Payments : Allocated(p) <= amount[p]

\* The stored statuses say what the rows say.
StatusFollowsLedger ==
    /\ \A i \in Invoices : istatus[i] \in {"ISSUED", "PAID"} =>
          istatus[i] = InvoiceStatusFor(total[i], Paid(i))
    /\ \A p \in Payments : pstatus[p] # "NONE" =>
          pstatus[p] = IF reversed[p] THEN "REVERSED"
                       ELSE PaymentStatusFor(amount[p], Allocated(p))

\* A debt is owed once: an invoice that has a corrective is out of the owner's
\* balance, and of the invoices that bill a unit for the period, by whatever
\* batch or correction, one at most counts.
Dead(i) == istatus[i] \in {"CORRECTED", "CANCELLED"}
DebtCountedOnce ==
    /\ \A j \in Invoices : corrects[j] # 0 => Dead(corrects[j])
    /\ \A i, j \in Invoices :
          unit[i] = unit[j] /\ unit[i] # 0 /\ i # j => Dead(i) \/ Dead(j)

\* Money enters neither a cancelled invoice nor from a reversed payment.
NoMoneyIntoDead ==
    [][\A x \in allocs' \ allocs : x.amount > 0 =>
          ~reversed[x.payment] /\ istatus[x.invoice] # "CANCELLED"]_vars

\* A cancelled invoice stays cancelled, and was cancelled without money on it.
CancelledIsFinal ==
    [][\A i \in Invoices :
          /\ istatus[i] = "CANCELLED" => istatus'[i] = "CANCELLED"
          /\ istatus[i] # "CANCELLED" /\ istatus'[i] = "CANCELLED" => Paid(i) = 0]_vars
=============================================================================
