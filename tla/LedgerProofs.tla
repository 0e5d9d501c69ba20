---------------------------- MODULE LedgerProofs ----------------------------
(***************************************************************************)
(* Proofs about module Ledger, for any number of requests, payments,       *)
(* batches, invoices and rows.  The first parts are about which rows and   *)
(* which invoices there are and which of them count, whatever the amounts; *)
(* the last is about the money, with the sums of module SumProofs.         *)
(***************************************************************************)
EXTENDS Ledger, SumProofs

\* What a booking looks like, whatever its amounts are.
BookShape(c) ==
    DOMAIN c = {"req", "op", "refreshed", "payment", "money", "rows", "pnew", "inew"}

-----------------------------------------------------------------------------
(* Corrections.  The invariant adds that numbers have no gap, and that a   *)
(* call in flight writes to invoices that exist.                           *)

NoGaps ==
    \A m, n \in Invoices : m <= n /\ istatus[n] # "NONE" => istatus[m] # "NONE"

CallsKnowInvoices ==
    \A c \in calls :
        /\ c.op \in {"cancelInvoice", "correctInvoice"} =>
              c.invoice \in Invoices /\ istatus[c.invoice] # "NONE"
        /\ c.op \in BookOps =>
              /\ BookShape(c)
              /\ c.inew \in [Invoices -> {"NONE", "ISSUED", "PAID"}]
              /\ \A i \in Invoices : c.inew[i] # "NONE" => istatus[i] # "NONE"

InvoiceInv ==
    /\ istatus \in [Invoices -> InvoiceStatus \cup {"NONE"}]
    /\ corrects \in [Invoices -> 0 .. MaxInvoices]
    /\ NoGaps
    /\ CallsKnowInvoices
    /\ CorrectionPairs

\* A fresh number comes right after the issued ones.
LEMMA FreshIsNext ==
    ASSUME NoGaps, NEW n \in Invoices, NextNumber(n)
    PROVE  /\ \A m \in Invoices : m < n <=> istatus[m] # "NONE"
           /\ \A m \in Invoices : m <= n <=> m = n \/ istatus[m] # "NONE"
  <1>1. ASSUME NEW m \in Invoices, istatus[m] # "NONE" PROVE m < n
    BY <1>1 DEF NoGaps, NextNumber, Invoices
  <1>2. ASSUME NEW m \in Invoices, m < n PROVE istatus[m] # "NONE"
    <2>1. n - 1 \in Invoices /\ m <= n - 1 /\ n > 1
      BY <1>2, LedgerAssumption DEF Invoices
    <2> QED
      BY <2>1 DEF NoGaps, NextNumber
  <1>3. \A m \in Invoices : m <= n <=> m < n \/ m = n
    BY LedgerAssumption DEF Invoices
  <1> QED
    BY <1>1, <1>2, <1>3

\* A step that leaves the invoices alone and adds at most one well-formed call.
LEMMA NewCallKnows ==
    ASSUME InvoiceInv, UNCHANGED invoiceVars, NEW d, calls' \subseteq calls \cup {d},
           d.op \in {"cancelInvoice", "correctInvoice"} =>
              d.invoice \in Invoices /\ istatus[d.invoice] # "NONE",
           d.op \in BookOps =>
              /\ BookShape(d)
              /\ d.inew \in [Invoices -> {"NONE", "ISSUED", "PAID"}]
              /\ \A i \in Invoices : d.inew[i] # "NONE" => istatus[i] # "NONE"
    PROVE  InvoiceInv'
  <1>1. istatus' = istatus /\ corrects' = corrects /\ total' = total
    BY DEF invoiceVars
  <1>2. CallsKnowInvoices'
    BY <1>1 DEF InvoiceInv, CallsKnowInvoices, BookShape
  <1>3. NoGaps' /\ CorrectionPairs'
    BY <1>1 DEF InvoiceInv, NoGaps, CorrectionPairs
  <1> QED
    BY <1>1, <1>2, <1>3 DEF InvoiceInv

\* The same for a booking that was just begun.
LEMMA BookingKnows ==
    ASSUME InvoiceInv, NEW r, NEW op, op \in BookOps, NEW p, NEW money, NEW rows,
           Book(r, op, p, money, rows)
    PROVE  InvoiceInv'
  <1> DEFINE d == [req |-> r, op |-> op, refreshed |-> FALSE, payment |-> p,
                   money |-> money, rows |-> rows, pnew |-> "NONE",
                   inew |-> [i \in Invoices |-> "NONE"]]
  <1>1. calls' = calls \cup {d} /\ UNCHANGED invoiceVars
    BY DEF Book
  <1>2. /\ d.op \in BookOps /\ BookShape(d)
        /\ d.inew = [i \in Invoices |-> "NONE"]
    BY DEF BookShape
  <1>3. d.op \notin {"cancelInvoice", "correctInvoice"}
    BY <1>2 DEF BookOps
  <1> HIDE DEF d
  <1> QED
    BY <1>1, <1>2, <1>3, NewCallKnows

LEMMA ReadKnows ==
    ASSUME InvoiceInv, NEW r \in Requests, Read(r)
    PROVE  InvoiceInv'
  <1>1. ASSUME NEW i \in Invoices, cancelInvoiceRead(r, i)
        PROVE  InvoiceInv'
    <2> DEFINE d == [req |-> r, op |-> "cancelInvoice", invoice |-> i]
    <2>1. calls' = calls \cup {d} /\ UNCHANGED invoiceVars /\ istatus[i] # "NONE"
      BY <1>1 DEF cancelInvoiceRead
    <2>2. d.op \notin BookOps /\ d.invoice = i
      BY DEF BookOps
    <2> HIDE DEF d
    <2> QED
      BY <2>1, <2>2, NewCallKnows
  <1>2. ASSUME NEW i \in Invoices, NEW t \in Amounts \cup {0}, correctInvoiceRead(r, i, t)
        PROVE  InvoiceInv'
    <2> DEFINE d == [req |-> r, op |-> "correctInvoice", invoice |-> i, newTotal |-> t]
    <2>1. calls' = calls \cup {d} /\ UNCHANGED invoiceVars /\ istatus[i] # "NONE"
      BY <1>2 DEF correctInvoiceRead
    <2>2. d.op \notin BookOps /\ d.invoice = i
      BY DEF BookOps
    <2> HIDE DEF d
    <2> QED
      BY <2>1, <2>2, NewCallKnows
  <1>3. ASSUME NEW p \in Payments, reversePaymentRead(r, p)
        PROVE  InvoiceInv'
    BY <1>3, BookingKnows DEF reversePaymentRead, BookOps
  <1>4. ASSUME NEW p \in Payments, NEW i \in Invoices, NEW a \in Amounts,
               allocateRead(r, p, i, a)
        PROVE  InvoiceInv'
    BY <1>4, BookingKnows DEF allocateRead, BookOps
  <1>5. ASSUME NEW p \in Payments, NEW i \in Invoices, NEW a \in Amounts,
               importRead(r, p, a, i)
        PROVE  InvoiceInv'
    BY <1>5, BookingKnows DEF importRead, BookOps
  <1>6. ASSUME NEW x \in allocs, reverseAllocationRead(r, x)
        PROVE  InvoiceInv'
    BY <1>6, BookingKnows DEF reverseAllocationRead, BookOps
  <1>7. ASSUME NEW b \in Batches, issueBatchRead(r, b)
        PROVE  InvoiceInv'
    <2> DEFINE d == [req |-> r, op |-> "issueBatch", batch |-> b]
    <2>1. calls' = calls \cup {d} /\ UNCHANGED invoiceVars
      BY <1>7 DEF issueBatchRead
    <2>2. d.op \notin BookOps /\ d.op \notin {"cancelInvoice", "correctInvoice"}
      BY DEF BookOps
    <2> HIDE DEF d
    <2> QED
      BY <2>1, <2>2, NewCallKnows
  <1> QED
    BY <1>1, <1>2, <1>3, <1>4, <1>5, <1>6, <1>7 DEF Read

LEMMA RefreshKnows ==
    ASSUME InvoiceInv, NEW c \in calls, Refresh(c)
    PROVE  InvoiceInv'
  <1> DEFINE inew == [i \in Invoices |-> RefreshedInvoice(c, i)]
             d == [c EXCEPT !.refreshed = TRUE, !.pnew = RefreshedPayment(c), !.inew = inew]
  <1>1. calls' \subseteq calls \cup {d} /\ UNCHANGED invoiceVars /\ c.op \in BookOps
    BY DEF Refresh
  <1>2. BookShape(c)
    BY <1>1 DEF InvoiceInv, CallsKnowInvoices
  <1>3. \A i \in Invoices : /\ RefreshedInvoice(c, i) \in {"NONE", "ISSUED", "PAID"}
                            /\ RefreshedInvoice(c, i) # "NONE" => istatus[i] # "NONE"
    BY DEF RefreshedInvoice, InvoiceStatusFor
  <1>4. inew \in [Invoices -> {"NONE", "ISSUED", "PAID"}]
        /\ \A i \in Invoices : inew[i] # "NONE" => istatus[i] # "NONE"
    BY <1>3
  <1> HIDE DEF inew
  <1>5. BookShape(d) /\ d.inew = inew /\ d.op = c.op
    BY <1>2 DEF BookShape
  <1>6. d.op \notin {"cancelInvoice", "correctInvoice"}
    BY <1>1, <1>5 DEF BookOps
  <1> HIDE DEF d
  <1> QED
    BY <1>1, <1>4, <1>5, <1>6, NewCallKnows

\* A step that keeps or issues invoices one by one, without corrections.
LEMMA IssueKnows ==
    ASSUME InvoiceInv, NEW t, issueSingleInvoice(t)
    PROVE  InvoiceInv'
  <1>1. PICK n \in Invoices : /\ NextNumber(n)
                              /\ istatus' = [istatus EXCEPT ![n] = "ISSUED"]
    BY DEF issueSingleInvoice
  <1>2. corrects' = corrects /\ calls' = calls
    BY DEF issueSingleInvoice
  <1>3. /\ istatus' \in [Invoices -> InvoiceStatus \cup {"NONE"}]
        /\ \A i \in Invoices : istatus'[i] = IF i = n THEN "ISSUED" ELSE istatus[i]
    BY <1>1 DEF InvoiceInv, InvoiceStatus
  <1>4. NoGaps'
    BY <1>1, <1>3, FreshIsNext DEF InvoiceInv, NoGaps
  <1>5. CallsKnowInvoices'
    BY <1>2, <1>3 DEF InvoiceInv, CallsKnowInvoices, BookShape
  <1>6. CorrectionPairs'
    BY <1>1, <1>2, <1>3 DEF InvoiceInv, CorrectionPairs, NextNumber
  <1> QED
    BY <1>2, <1>3, <1>4, <1>5, <1>6 DEF InvoiceInv

\* A batch issues several invoices, without gaps and corrections.
LEMMA IssueBatchKnows ==
    ASSUME InvoiceInv, NEW c \in calls, issueBatchCommit(c)
    PROVE  InvoiceInv'
  <1>1. PICK n \in Invoices :
            /\ NextNumber(n)
            /\ istatus' = [i \in Invoices |-> IF i \in n .. n + UnitCount - 1
                                             THEN "ISSUED" ELSE istatus[i]]
    BY DEF issueBatchCommit
  <1>2. corrects' = corrects /\ calls' \subseteq calls
    BY DEF issueBatchCommit, Finish
  <1> DEFINE new == n .. n + UnitCount - 1
  <1>3. \A m \in Invoices : m < n <=> istatus[m] # "NONE"
    BY <1>1, FreshIsNext DEF InvoiceInv
  <1>4. \A i \in Invoices : i \in new => istatus[i] = "NONE"
    BY <1>3, LedgerAssumption DEF Invoices
  <1>5. \A l, m \in Invoices : l <= m /\ m \in new => l \in new \/ l < n
    BY LedgerAssumption DEF Invoices
  <1> HIDE DEF new
  <1>6. /\ istatus' \in [Invoices -> InvoiceStatus \cup {"NONE"}]
        /\ \A i \in Invoices : istatus'[i] = IF i \in new THEN "ISSUED" ELSE istatus[i]
    BY <1>1 DEF InvoiceInv, InvoiceStatus, new
  <1>7. NoGaps'
    BY <1>3, <1>5, <1>6 DEF InvoiceInv, NoGaps
  <1>8. CallsKnowInvoices'
    BY <1>2, <1>6 DEF InvoiceInv, CallsKnowInvoices, BookShape
  <1>9. CorrectionPairs'
    BY <1>2, <1>4, <1>6 DEF InvoiceInv, CorrectionPairs
  <1> QED
    BY <1>2, <1>6, <1>7, <1>8, <1>9 DEF InvoiceInv

LEMMA CorrectKnows ==
    ASSUME InvoiceInv, NEW c \in calls, correctInvoiceCommit(c)
    PROVE  InvoiceInv'
  <1> DEFINE old == c.invoice
  <1>1. PICK n \in Invoices :
            /\ NextNumber(n)
            /\ istatus' = [istatus EXCEPT ![n] = "ISSUED", ![old] = "CORRECTED"]
            /\ corrects' = [corrects EXCEPT ![n] = old]
    BY DEF correctInvoiceCommit
  <1>2. old \in Invoices /\ istatus[old] # "NONE" /\ NotCorrected(old)
    BY DEF correctInvoiceCommit, InvoiceInv, CallsKnowInvoices
  <1> HIDE DEF old
  <1>3. old < n
    BY <1>1, <1>2 DEF InvoiceInv, NoGaps, NextNumber, Invoices
  <1>4. /\ istatus' \in [Invoices -> InvoiceStatus \cup {"NONE"}]
        /\ \A i \in Invoices : istatus'[i] = IF i = old THEN "CORRECTED"
                                             ELSE IF i = n THEN "ISSUED" ELSE istatus[i]
    BY <1>1, <1>2, <1>3 DEF InvoiceInv, InvoiceStatus
  <1>5. /\ corrects' \in [Invoices -> 0 .. MaxInvoices]
        /\ \A i \in Invoices : corrects'[i] = IF i = n THEN old ELSE corrects[i]
    BY <1>1, <1>2 DEF InvoiceInv, Invoices
  <1>6. NoGaps'
    BY <1>1, <1>2, <1>4, FreshIsNext DEF InvoiceInv, NoGaps
  <1>7. CallsKnowInvoices'
    <2>1. calls' \subseteq calls
      BY DEF correctInvoiceCommit, Finish
    <2>2. \A i \in Invoices : istatus[i] # "NONE" => istatus'[i] # "NONE"
      BY <1>4
    <2> QED
      BY <2>1, <2>2 DEF InvoiceInv, CallsKnowInvoices, BookShape
  <1>8. CorrectionPairs'
    BY <1>1, <1>2, <1>3, <1>4, <1>5
    DEF InvoiceInv, CorrectionPairs, NextNumber, NotCorrected, Invoices
  <1> QED
    BY <1>4, <1>5, <1>6, <1>7, <1>8 DEF InvoiceInv

\* Commits that write statuses of invoices that exist, and not CORRECTED.
LEMMA StatusWriteKnows ==
    ASSUME InvoiceInv, NEW c \in calls, cancelInvoiceCommit(c) \/ Store(c)
    PROVE  InvoiceInv'
  <1>1. corrects' = corrects /\ calls' \subseteq calls
    BY DEF cancelInvoiceCommit, Store, Finish
  <1>2. /\ istatus' \in [Invoices -> InvoiceStatus \cup {"NONE"}]
        /\ \A i \in Invoices :
              /\ istatus'[i] # "NONE" <=> istatus[i] # "NONE"
              /\ istatus'[i] = "CORRECTED" => istatus[i] = "CORRECTED"
    <2>1. CASE cancelInvoiceCommit(c)
      <3>1. c.invoice \in Invoices /\ istatus[c.invoice] # "NONE"
        BY <2>1 DEF cancelInvoiceCommit, InvoiceInv, CallsKnowInvoices
      <3> QED
        BY <2>1, <3>1 DEF cancelInvoiceCommit, InvoiceInv, InvoiceStatus
    <2>2. CASE Store(c)
      <3>1. /\ c.inew \in [Invoices -> {"NONE", "ISSUED", "PAID"}]
            /\ \A i \in Invoices : c.inew[i] # "NONE" => istatus[i] # "NONE"
        BY <2>2 DEF Store, InvoiceInv, CallsKnowInvoices
      <3> QED
        BY <2>2, <3>1 DEF Store, InvoiceInv, InvoiceStatus
    <2> QED
      BY <2>1, <2>2
  <1>3. NoGaps' /\ CorrectionPairs'
    BY <1>1, <1>2 DEF InvoiceInv, NoGaps, CorrectionPairs
  <1>4. CallsKnowInvoices'
    BY <1>1, <1>2 DEF InvoiceInv, CallsKnowInvoices, BookShape
  <1> QED
    BY <1>1, <1>2, <1>3, <1>4 DEF InvoiceInv

\* No invoice is there at first, and no step breaks the invariant.
LEMMA InvoiceInit == Init => InvoiceInv
  BY LedgerAssumption
  DEF Init, InvoiceInv, NoGaps, CallsKnowInvoices, CorrectionPairs, Invoices

LEMMA InvoiceNext == InvoiceInv /\ [Next]_vars => InvoiceInv'
  <1> SUFFICES ASSUME InvoiceInv, [Next]_vars PROVE InvoiceInv'
    OBVIOUS
  <1>1. ASSUME NEW t \in Amounts, issueSingleInvoice(t) PROVE InvoiceInv'
    BY <1>1, IssueKnows
  <1>2. ASSUME UNCHANGED invoiceVars, calls' \subseteq calls PROVE InvoiceInv'
    <2>1. istatus' = istatus /\ corrects' = corrects
      BY <1>2 DEF invoiceVars
    <2> QED
      BY <1>2, <2>1 DEF InvoiceInv, NoGaps, CorrectionPairs, CallsKnowInvoices, BookShape
  <1>3. ASSUME NEW p \in Payments,
               cancelTransaction(p) \/ \E a \in Amounts : enterPayment(p, a)
        PROVE  InvoiceInv'
    BY <1>2, <1>3 DEF cancelTransaction, enterPayment
  <1>8. ASSUME NEW b \in Batches, NEW amounts \in [Units -> Amounts],
               createDraftBatch(b, amounts)
        PROVE  InvoiceInv'
    BY <1>2, <1>8 DEF createDraftBatch
  <1>4. ASSUME NEW r \in Requests, Read(r) PROVE InvoiceInv'
    BY <1>4, ReadKnows
  <1>5. ASSUME NEW c \in calls, Commit(c) PROVE InvoiceInv'
    BY <1>5, StatusWriteKnows, CorrectKnows, RefreshKnows, IssueBatchKnows DEF Commit
  <1>6. ASSUME NEW c \in calls, Abort(c) PROVE InvoiceInv'
    BY <1>2, <1>6 DEF Abort, Finish
  <1>7. ASSUME UNCHANGED vars PROVE InvoiceInv'
    BY <1>2, <1>7 DEF vars
  <1> QED
    BY <1>1, <1>3, <1>4, <1>5, <1>6, <1>7, <1>8 DEF Next

LEMMA InvoicesHold == Spec => []InvoiceInv
  BY InvoiceInit, InvoiceNext, PTL DEF Spec

\* However calls overlap, an invoice has at most one corrective, a later one,
\* and every invoice out of force by correction has it (correctInvoice).
THEOREM CorrectionsPair == Spec => []CorrectionPairs
  <1>1. InvoiceInv => CorrectionPairs
    BY DEF InvoiceInv
  <1> QED
    BY <1>1, InvoicesHold, PTL

-----------------------------------------------------------------------------
(* Reversals.  The invariant adds that the rows of an invoice are numbered *)
(* without repetition and that a reversing call in flight names a row of   *)
(* the table, which is never deleted.                                      *)

\* Row x undoes row y.
Undoes(x, y) ==
    /\ y.id = x.reverses /\ y.invoice = x.invoice /\ y.payment = x.payment
    /\ y.amount > 0 /\ x.amount = -y.amount

RowsNumbered ==
    /\ \A i \in Invoices : IsFiniteSet(RowsOf(i))
    /\ \A x \in allocs : /\ x.invoice \in Invoices
                         /\ x.id \in 1 .. Cardinality(RowsOf(x.invoice))
    /\ \A x, y \in allocs : x.invoice = y.invoice /\ x.id = y.id => x = y

GoodRows(rows) ==
    /\ \A x \in rows : x.invoice \in Invoices
    /\ \A x, y \in rows : x.invoice = y.invoice => x = y
    /\ \A x \in rows : x.reverses # 0 => \E y \in allocs : Undoes(x, y)

CallsNameRows ==
    \A c \in calls : c.op \in BookOps => BookShape(c) /\ GoodRows(c.rows)

RowInv == RowsNumbered /\ CallsNameRows /\ ReversalsMatch

\* A step that leaves the rows alone and adds at most one well-formed call.
LEMMA NewCallNames ==
    ASSUME RowInv, UNCHANGED allocs, NEW d, calls' \subseteq calls \cup {d},
           d.op \in BookOps => BookShape(d) /\ GoodRows(d.rows)
    PROVE  RowInv'
  <1>1. RowsNumbered' /\ ReversalsMatch'
    BY DEF RowInv, RowsNumbered, ReversalsMatch, RowsOf
  <1>2. CallsNameRows'
    BY DEF RowInv, CallsNameRows, GoodRows, BookShape, Undoes
  <1> QED
    BY <1>1, <1>2 DEF RowInv

LEMMA BookingNames ==
    ASSUME RowInv, NEW r, NEW op, NEW p, NEW money, NEW rows, GoodRows(rows),
           Book(r, op, p, money, rows)
    PROVE  RowInv'
  <1> DEFINE d == [req |-> r, op |-> op, refreshed |-> FALSE, payment |-> p,
                   money |-> money, rows |-> rows, pnew |-> "NONE",
                   inew |-> [i \in Invoices |-> "NONE"]]
  <1>1. calls' = calls \cup {d} /\ UNCHANGED allocs
    BY DEF Book
  <1>2. BookShape(d) /\ d.rows = rows
    BY DEF BookShape
  <1> HIDE DEF d
  <1> QED
    BY <1>1, <1>2, NewCallNames

LEMMA ReadNames ==
    ASSUME RowInv, NEW r \in Requests, Read(r)
    PROVE  RowInv'
  <1>1. ASSUME NEW d, calls' = calls \cup {d}, UNCHANGED allocs,
               d.op \in {"cancelInvoice", "correctInvoice", "issueBatch"}
        PROVE  RowInv'
    BY <1>1, NewCallNames DEF BookOps
  <1>2. ASSUME NEW i \in Invoices, cancelInvoiceRead(r, i)
        PROVE  RowInv'
    <2> DEFINE d == [req |-> r, op |-> "cancelInvoice", invoice |-> i]
    <2>1. calls' = calls \cup {d} /\ UNCHANGED allocs /\ d.op = "cancelInvoice"
      BY <1>2 DEF cancelInvoiceRead
    <2> HIDE DEF d
    <2> QED
      BY <1>1, <2>1
  <1>3. ASSUME NEW i \in Invoices, NEW t \in Amounts \cup {0}, correctInvoiceRead(r, i, t)
        PROVE  RowInv'
    <2> DEFINE d == [req |-> r, op |-> "correctInvoice", invoice |-> i, newTotal |-> t]
    <2>1. calls' = calls \cup {d} /\ UNCHANGED allocs /\ d.op = "correctInvoice"
      BY <1>3 DEF correctInvoiceRead
    <2> HIDE DEF d
    <2> QED
      BY <1>1, <2>1
  <1>4. ASSUME NEW p \in Payments, reversePaymentRead(r, p)
        PROVE  RowInv'
    <2> DEFINE rows == {[payment |-> p, invoice |-> i, amount |-> -netAllocations(p, i),
                         reverses |-> 0] : i \in {i \in Invoices : netAllocations(p, i) > 0}}
    <2>1. GoodRows(rows)
      BY DEF GoodRows
    <2>2. Book(r, "reversePayment", p, 0, rows)
      BY <1>4 DEF reversePaymentRead
    <2> HIDE DEF rows
    <2> QED
      BY <2>1, <2>2, BookingNames
  <1>5. ASSUME NEW p \in Payments, NEW i \in Invoices, NEW a \in Amounts,
               allocateRead(r, p, i, a)
        PROVE  RowInv'
    <2>1. GoodRows({[payment |-> p, invoice |-> i, amount |-> a, reverses |-> 0]})
      BY DEF GoodRows
    <2> QED
      BY <1>5, <2>1, BookingNames DEF allocateRead
  <1>6. ASSUME NEW p \in Payments, NEW i \in Invoices, NEW a \in Amounts,
               importRead(r, p, a, i)
        PROVE  RowInv'
    <2> DEFINE fit == IF Open(i) < a THEN Open(i) ELSE a
               rows == IF istatus[i] = "CANCELLED" \/ fit <= 0 THEN {}
                       ELSE {[payment |-> p, invoice |-> i, amount |-> fit, reverses |-> 0]}
    <2>1. Book(r, "import", p, a, rows)
      BY <1>6 DEF importRead
    <2> HIDE DEF fit
    <2>2. GoodRows(rows)
      BY DEF GoodRows
    <2> HIDE DEF rows
    <2> QED
      BY <2>1, <2>2, BookingNames
  <1>7. ASSUME NEW x \in allocs, reverseAllocationRead(r, x)
        PROVE  RowInv'
    <2> DEFINE row == [payment |-> x.payment, invoice |-> x.invoice, amount |-> -x.amount,
                       reverses |-> x.id]
    <2>1. Undoes(row, x) /\ row.invoice \in Invoices
      BY <1>7 DEF Undoes, reverseAllocationRead, RowInv, RowsNumbered
    <2>2. Book(r, "reverseAllocation", x.payment, 0, {row})
      BY <1>7 DEF reverseAllocationRead
    <2> HIDE DEF row
    <2>3. GoodRows({row})
      BY <2>1 DEF GoodRows
    <2> QED
      BY <2>2, <2>3, BookingNames
  <1>8. ASSUME NEW b \in Batches, issueBatchRead(r, b)
        PROVE  RowInv'
    <2> DEFINE d == [req |-> r, op |-> "issueBatch", batch |-> b]
    <2>1. calls' = calls \cup {d} /\ UNCHANGED allocs /\ d.op = "issueBatch"
      BY <1>8 DEF issueBatchRead
    <2> HIDE DEF d
    <2> QED
      BY <1>1, <2>1
  <1> QED
    BY <1>2, <1>3, <1>4, <1>5, <1>6, <1>7, <1>8 DEF Read

LEMMA RefreshNames ==
    ASSUME RowInv, NEW c \in calls, Refresh(c)
    PROVE  RowInv'
  <1> DEFINE inew == [i \in Invoices |-> RefreshedInvoice(c, i)]
             d == [c EXCEPT !.refreshed = TRUE, !.pnew = RefreshedPayment(c), !.inew = inew]
  <1>1. calls' \subseteq calls \cup {d} /\ UNCHANGED allocs /\ c.op \in BookOps
    BY DEF Refresh
  <1>2. BookShape(c) /\ GoodRows(c.rows)
    BY <1>1 DEF RowInv, CallsNameRows
  <1> HIDE DEF inew
  <1>3. BookShape(d) /\ d.rows = c.rows
    BY <1>2 DEF BookShape
  <1> HIDE DEF d
  <1> QED
    BY <1>1, <1>2, <1>3, NewCallNames

\* What Store does to the rows of one invoice.
LEMMA StoreNumbers ==
    ASSUME RowInv, NEW c \in calls, Store(c)
    PROVE  /\ allocs' = allocs \cup Numbered(c.rows)
           /\ RowsNumbered'
           /\ \A x \in Numbered(c.rows) :
                 \E w \in c.rows : /\ x.payment = w.payment /\ x.invoice = w.invoice
                                  /\ x.amount = w.amount /\ x.reverses = w.reverses
                                  /\ x.id = Cardinality(RowsOf(x.invoice)) + 1
           /\ \A x, y \in Numbered(c.rows) : x.invoice = y.invoice => x = y
  <1>1. allocs' = allocs \cup Numbered(c.rows) /\ GoodRows(c.rows)
    BY DEF Store, RowInv, CallsNameRows
  <1>2. \A x \in Numbered(c.rows) :
           \E w \in c.rows : /\ x.payment = w.payment /\ x.invoice = w.invoice
                            /\ x.amount = w.amount /\ x.reverses = w.reverses
                            /\ x.id = Cardinality(RowsOf(x.invoice)) + 1
    BY DEF Numbered
  <1>3. \A x, y \in Numbered(c.rows) : x.invoice = y.invoice => x = y
    BY <1>1 DEF Numbered, GoodRows
  <1>4. \A x \in Numbered(c.rows) : x.invoice \in Invoices
    BY <1>1, <1>2 DEF GoodRows
  <1>5. ASSUME NEW i \in Invoices
        PROVE  /\ IsFiniteSet(RowsOf(i)')
               /\ Cardinality(RowsOf(i)) \in Nat /\ Cardinality(RowsOf(i)') \in Nat
               /\ Cardinality(RowsOf(i)) <= Cardinality(RowsOf(i)')
               /\ \A x \in Numbered(c.rows) : x.invoice = i =>
                     Cardinality(RowsOf(i)') = Cardinality(RowsOf(i)) + 1
    <2>1. IsFiniteSet(RowsOf(i)) /\ Cardinality(RowsOf(i)) \in Nat
      BY FS_CardinalityType DEF RowInv, RowsNumbered
    <2>2. CASE \A x \in Numbered(c.rows) : x.invoice # i
      <3>1. RowsOf(i)' = RowsOf(i)
        BY <1>1, <2>2 DEF RowsOf
      <3> QED
        BY <2>1, <2>2, <3>1
    <2>3. ASSUME NEW x \in Numbered(c.rows), x.invoice = i
          PROVE  /\ IsFiniteSet(RowsOf(i)')
                 /\ Cardinality(RowsOf(i)') = Cardinality(RowsOf(i)) + 1
      <3>1. RowsOf(i)' = RowsOf(i) \cup {x}
        BY <1>1, <1>3, <2>3 DEF RowsOf
      <3>2. x \notin RowsOf(i)
        BY <1>2, <2>1, <2>3 DEF RowsOf, RowInv, RowsNumbered
      <3> QED
        BY <2>1, <3>1, <3>2, FS_AddElement
    <2> QED
      BY <2>1, <2>2, <2>3
  <1>6. ASSUME NEW x \in allocs'
        PROVE  x.invoice \in Invoices /\ x.id \in 1 .. Cardinality(RowsOf(x.invoice)')
    <2>1. CASE x \in allocs
      <3>1. x.invoice \in Invoices /\ x.id \in 1 .. Cardinality(RowsOf(x.invoice))
        BY <2>1 DEF RowInv, RowsNumbered
      <3> QED
        BY <1>5, <3>1
    <2>2. CASE x \in Numbered(c.rows)
      BY <1>2, <1>4, <1>5, <2>2
    <2> QED
      BY <1>1, <2>1, <2>2
  <1>7. ASSUME NEW x \in allocs', NEW y \in allocs', x.invoice = y.invoice, x.id = y.id
        PROVE  x = y
    <2>1. ASSUME NEW v \in allocs, NEW w \in Numbered(c.rows), v.invoice = w.invoice
          PROVE  v.id # w.id
      <3>1. /\ v.invoice \in Invoices /\ v.id \in 1 .. Cardinality(RowsOf(v.invoice))
            /\ w.id = Cardinality(RowsOf(w.invoice)) + 1
        BY <1>2, <2>1 DEF RowInv, RowsNumbered
      <3> QED
        BY <1>5, <2>1, <3>1
    <2> QED
      BY <1>1, <1>3, <1>7, <2>1 DEF RowInv, RowsNumbered
  <1>8. RowsNumbered'
    BY <1>5, <1>6, <1>7 DEF RowsNumbered
  <1> QED
    BY <1>1, <1>2, <1>3, <1>8

LEMMA StoreNames ==
    ASSUME RowInv, NEW c \in calls, Store(c)
    PROVE  RowInv'
  <1>1. /\ allocs' = allocs \cup Numbered(c.rows)
        /\ RowsNumbered'
        /\ \A x \in Numbered(c.rows) :
              \E w \in c.rows : /\ x.payment = w.payment /\ x.invoice = w.invoice
                               /\ x.amount = w.amount /\ x.reverses = w.reverses
                               /\ x.id = Cardinality(RowsOf(x.invoice)) + 1
        /\ \A x, y \in Numbered(c.rows) : x.invoice = y.invoice => x = y
    BY StoreNumbers
  <1>2. CallsNameRows'
    <2>1. calls' \subseteq calls /\ allocs \subseteq allocs'
      BY <1>1 DEF Store, Finish
    <2> QED
      BY <2>1 DEF RowInv, CallsNameRows, GoodRows, BookShape, Undoes
  <1>3. UniqueReversal(c.rows) /\ GoodRows(c.rows)
    BY DEF Store, RowInv, CallsNameRows
  <1>4. ASSUME NEW x \in Numbered(c.rows), x.reverses # 0
        PROVE  /\ \E y \in allocs : Undoes(x, y) /\ y.id < x.id
               /\ \A y \in allocs : y.invoice = x.invoice => y.reverses # x.reverses
    <2>1. PICK w \in c.rows : /\ x.payment = w.payment /\ x.invoice = w.invoice
                              /\ x.amount = w.amount /\ x.reverses = w.reverses
                              /\ x.id = Cardinality(RowsOf(x.invoice)) + 1
      BY <1>1
    <2>2. PICK y \in allocs : Undoes(w, y)
      BY <1>3, <1>4, <2>1 DEF GoodRows
    <2>3. Undoes(x, y)
      BY <2>1, <2>2 DEF Undoes
    <2>4. y.id < x.id
      <3>1. /\ y.invoice = x.invoice /\ y.invoice \in Invoices
            /\ y.id \in 1 .. Cardinality(RowsOf(y.invoice))
            /\ Cardinality(RowsOf(y.invoice)) \in Nat
        BY <2>3, FS_CardinalityType DEF Undoes, RowInv, RowsNumbered
      <3> QED
        BY <2>1, <3>1
    <2> QED
      BY <1>3, <1>4, <2>1, <2>3, <2>4 DEF UniqueReversal
  <1>5. ReversalsMatch'
    <2> SUFFICES ASSUME NEW x \in allocs', x.reverses # 0
                 PROVE  /\ \E y \in allocs' : Undoes(x, y) /\ y.id < x.id
                        /\ \A z \in allocs' :
                              z.invoice = x.invoice /\ z.reverses = x.reverses => z = x
      BY DEF ReversalsMatch, Undoes
    <2>1. CASE x \in allocs
      <3>1. /\ \E y \in allocs : Undoes(x, y) /\ y.id < x.id
            /\ \A z \in allocs : z.invoice = x.invoice /\ z.reverses = x.reverses => z = x
        BY <2>1 DEF RowInv, ReversalsMatch, Undoes
      <3>2. ASSUME NEW z \in Numbered(c.rows) , z.invoice = x.invoice
            PROVE  z.reverses # x.reverses
        BY <1>4, <2>1, <3>2
      <3> QED
        BY <1>1, <3>1, <3>2
    <2>2. CASE x \in Numbered(c.rows)
      BY <1>1, <1>4, <2>2
    <2> QED
      BY <1>1, <2>1, <2>2
  <1> QED
    BY <1>1, <1>2, <1>5 DEF RowInv

\* Nothing is booked at first, and no step breaks the invariant.
LEMMA RowInit == Init => RowInv
  BY FS_EmptySet
  DEF Init, RowInv, RowsNumbered, CallsNameRows, ReversalsMatch, RowsOf

LEMMA RowNext == RowInv /\ [Next]_vars => RowInv'
  <1> SUFFICES ASSUME RowInv, [Next]_vars PROVE RowInv'
    OBVIOUS
  <1>1. ASSUME UNCHANGED allocs, calls' \subseteq calls PROVE RowInv'
    BY <1>1 DEF RowInv, RowsNumbered, RowsOf, CallsNameRows, GoodRows, BookShape,
                Undoes, ReversalsMatch
  <1>2. ASSUME NEW t \in Amounts, issueSingleInvoice(t) PROVE RowInv'
    BY <1>1, <1>2 DEF issueSingleInvoice
  <1>3. ASSUME NEW p \in Payments,
               cancelTransaction(p) \/ \E a \in Amounts : enterPayment(p, a)
        PROVE  RowInv'
    BY <1>1, <1>3 DEF cancelTransaction, enterPayment
  <1>8. ASSUME NEW b \in Batches, NEW amounts \in [Units -> Amounts],
               createDraftBatch(b, amounts)
        PROVE  RowInv'
    BY <1>1, <1>8 DEF createDraftBatch
  <1>4. ASSUME NEW r \in Requests, Read(r) PROVE RowInv'
    BY <1>4, ReadNames
  <1>5. ASSUME NEW c \in calls, Commit(c) PROVE RowInv'
    <2>1. CASE cancelInvoiceCommit(c) \/ correctInvoiceCommit(c) \/ issueBatchCommit(c)
      BY <1>1, <2>1 DEF cancelInvoiceCommit, correctInvoiceCommit, issueBatchCommit, Finish
    <2> QED
      BY <1>5, <2>1, RefreshNames, StoreNames DEF Commit
  <1>6. ASSUME NEW c \in calls, Abort(c) PROVE RowInv'
    BY <1>1, <1>6 DEF Abort, Finish
  <1>7. ASSUME UNCHANGED vars PROVE RowInv'
    BY <1>1, <1>7 DEF vars
  <1> QED
    BY <1>2, <1>3, <1>4, <1>5, <1>6, <1>7, <1>8 DEF Next

LEMMA RowsHold == Spec => []RowInv
  BY RowInit, RowNext, PTL DEF Spec

\* However calls overlap, a row that reverses an allocation undoes exactly one
\* earlier row, and no row is undone twice (reverseAllocation).
THEOREM ReversalsExact == Spec => []ReversalsMatch
  <1>1. RowInv => ReversalsMatch
    BY DEF RowInv
  <1> QED
    BY <1>1, RowsHold, PTL

-----------------------------------------------------------------------------
(* What the guards keep when calls do not overlap.  A call in flight is    *)
(* then alone, so what its guard read still holds when it commits; that a  *)
(* unit was not billed before follows from the status of the batch alone.  *)

Alone ==
    /\ \A c \in calls : c.req \in Requests
    /\ \A c, d \in calls : c = d

Guarded(c) ==
    /\ c.op = "cancelInvoice" => Paid(c.invoice) = 0
    /\ c.op = "correctInvoice" => istatus[c.invoice] = "ISSUED"
    /\ c.op = "issueBatch" => c.batch \in Batches /\ \A b \in Batches : bstatus[b] # "ISSUED"
    /\ c.op \in BookOps =>
          \A i \in Invoices : c.inew[i] # "NONE" => istatus[i] \in {"ISSUED", "PAID"}

Billed ==
    /\ unit \in [Invoices -> 0 .. UnitCount]
    /\ bstatus \in [Batches -> BatchStatus \cup {"NONE"}]
    /\ \A i \in Invoices : unit[i] # 0 => istatus[i] # "NONE"
    /\ (\A b \in Batches : bstatus[b] # "ISSUED") => \A i \in Invoices : unit[i] = 0

SerialInv ==
    /\ Alone
    /\ \A c \in calls : Guarded(c)
    /\ Billed
    /\ DebtCountedOnce

\* A step that begins a call or takes it further, and writes nothing else.
LEMMA CallSerial ==
    ASSUME SerialInv, UNCHANGED <<invoiceVars, batchVars, allocs>>,
           NEW d, calls' \subseteq {d}, d.req \in Requests, Guarded(d)
    PROVE  SerialInv'
  <1>1. Alone'
    BY DEF Alone
  <1>2. \A c \in calls' : Guarded(c)'
    BY DEF Guarded, invoiceVars, batchVars, Paid
  <1>3. Billed' /\ DebtCountedOnce'
    BY DEF SerialInv, Billed, DebtCountedOnce, Dead, invoiceVars, batchVars
  <1> QED
    BY <1>1, <1>2, <1>3 DEF SerialInv

\* An idle request is alone.
LEMMA IdleIsEmpty ==
    ASSUME \A q, r \in Requests : q = r, SerialInv, NEW r \in Requests, Idle(r)
    PROVE  calls = {}
  BY DEF SerialInv, Alone, Idle

\* A booking that was just begun writes no status yet.
LEMMA BookSerial ==
    ASSUME \A q, r \in Requests : q = r, SerialInv, NEW r \in Requests,
           NEW op \in BookOps, NEW p, NEW money, NEW rows, Book(r, op, p, money, rows)
    PROVE  SerialInv'
  <1> DEFINE d == [req |-> r, op |-> op, refreshed |-> FALSE, payment |-> p,
                   money |-> money, rows |-> rows, pnew |-> "NONE",
                   inew |-> [i \in Invoices |-> "NONE"]]
  <1>1. /\ calls' = {d} /\ d.req \in Requests
        /\ UNCHANGED <<invoiceVars, batchVars, allocs>>
    BY IdleIsEmpty DEF Book
  <1>2. Guarded(d)
    BY DEF Guarded, BookOps
  <1> HIDE DEF d
  <1> QED
    BY <1>1, <1>2, CallSerial

\* Every first step of a call.
LEMMA ReadSerial ==
    ASSUME \A q, r \in Requests : q = r, SerialInv, NEW r \in Requests, Read(r)
    PROVE  SerialInv'
  <1>1. ASSUME NEW i \in Invoices, cancelInvoiceRead(r, i)
        PROVE  SerialInv'
    <2> DEFINE d == [req |-> r, op |-> "cancelInvoice", invoice |-> i]
    <2>1. /\ calls' = {d} /\ UNCHANGED <<invoiceVars, batchVars, allocs>>
          /\ d.req \in Requests /\ Paid(i) = 0
      BY <1>1, IdleIsEmpty DEF cancelInvoiceRead
    <2>2. Guarded(d)
      BY <2>1 DEF Guarded, BookOps
    <2> HIDE DEF d
    <2> QED
      BY <2>1, <2>2, CallSerial
  <1>2. ASSUME NEW i \in Invoices, NEW t \in Amounts \cup {0}, correctInvoiceRead(r, i, t)
        PROVE  SerialInv'
    <2> DEFINE d == [req |-> r, op |-> "correctInvoice", invoice |-> i, newTotal |-> t]
    <2>1. /\ calls' = {d} /\ UNCHANGED <<invoiceVars, batchVars, allocs>>
          /\ d.req \in Requests /\ istatus[i] = "ISSUED"
      BY <1>2, IdleIsEmpty DEF correctInvoiceRead
    <2>2. Guarded(d)
      BY <2>1 DEF Guarded, BookOps
    <2> HIDE DEF d
    <2> QED
      BY <2>1, <2>2, CallSerial
  <1>3. ASSUME NEW b \in Batches, issueBatchRead(r, b)
        PROVE  SerialInv'
    <2> DEFINE d == [req |-> r, op |-> "issueBatch", batch |-> b]
    <2>1. /\ calls' = {d} /\ UNCHANGED <<invoiceVars, batchVars, allocs>>
          /\ d.req \in Requests
      BY <1>3, IdleIsEmpty DEF issueBatchRead
    <2>2. \A e \in Batches : bstatus[e] # "ISSUED"
      BY <1>3 DEF issueBatchRead, NoOther
    <2>3. Guarded(d)
      BY <2>2 DEF Guarded, BookOps
    <2> HIDE DEF d
    <2> QED
      BY <2>1, <2>3, CallSerial
  <1>4. ASSUME NEW p \in Payments, reversePaymentRead(r, p)
        PROVE  SerialInv'
    BY <1>4, BookSerial DEF reversePaymentRead, BookOps
  <1>5. ASSUME NEW p \in Payments, NEW i \in Invoices, NEW a \in Amounts,
               allocateRead(r, p, i, a)
        PROVE  SerialInv'
    BY <1>5, BookSerial DEF allocateRead, BookOps
  <1>6. ASSUME NEW p \in Payments, NEW i \in Invoices, NEW a \in Amounts,
               importRead(r, p, a, i)
        PROVE  SerialInv'
    BY <1>6, BookSerial DEF importRead, BookOps
  <1>7. ASSUME NEW x \in allocs, reverseAllocationRead(r, x)
        PROVE  SerialInv'
    BY <1>7, BookSerial DEF reverseAllocationRead, BookOps
  <1> QED
    BY <1>1, <1>2, <1>3, <1>4, <1>5, <1>6, <1>7 DEF Read

\* A refreshed booking will write statuses of invoices that are in force.
LEMMA RefreshSerial ==
    ASSUME InvoiceInv, SerialInv, NEW c \in calls, Refresh(c)
    PROVE  SerialInv'
  <1> DEFINE inew == [i \in Invoices |-> RefreshedInvoice(c, i)]
             d == [c EXCEPT !.refreshed = TRUE, !.pnew = RefreshedPayment(c), !.inew = inew]
  <1>1. /\ calls' = {d} /\ UNCHANGED <<invoiceVars, batchVars, allocs>>
        /\ c.op \in BookOps /\ BookShape(c)
    BY DEF Refresh, SerialInv, Alone, InvoiceInv, CallsKnowInvoices
  <1>2. \A i \in Invoices : inew[i] # "NONE" => istatus[i] \in {"ISSUED", "PAID"}
    BY DEF RefreshedInvoice
  <1> HIDE DEF inew
  <1>3. d.op = c.op /\ d.inew = inew /\ d.req = c.req
    BY <1>1 DEF BookShape
  <1> HIDE DEF d
  <1>4. Guarded(d) /\ d.req \in Requests
    BY <1>1, <1>2, <1>3 DEF Guarded, BookOps, SerialInv, Alone
  <1> QED
    BY <1>1, <1>4, CallSerial

\* What is dead stays so, whatever a step writes, and who corrects whom, or
\* bills which unit, did not change: no debt counts more often than before.
LEMMA DebtKept ==
    ASSUME DebtCountedOnce, UNCHANGED <<corrects, unit>>, corrects \in [Invoices -> 0 .. MaxInvoices],
           \A i \in Invoices : Dead(i) => Dead(i)'
    PROVE  DebtCountedOnce'
  <1>1. \A j \in Invoices : corrects[j] # 0 => corrects[j] \in Invoices
    BY LedgerAssumption DEF Invoices
  <1> QED
    BY <1>1 DEF DebtCountedOnce

\* Commits: what is cancelled or corrected stays so, a corrective takes the
\* place of its original, and a batch bills units that nothing has billed.
LEMMA CommitSerial ==
    ASSUME InvoiceInv, SerialInv, NEW c \in calls, Commit(c)
    PROVE  SerialInv'
  <1>1. /\ calls = {c} /\ Guarded(c) /\ Billed /\ DebtCountedOnce
        /\ corrects \in [Invoices -> 0 .. MaxInvoices]
        /\ istatus \in [Invoices -> InvoiceStatus \cup {"NONE"}]
    BY DEF SerialInv, Alone, InvoiceInv
  <1>2. SUFFICES ASSUME ~Refresh(c) PROVE Billed' /\ DebtCountedOnce'
    <2>1. CASE Refresh(c)
      BY <2>1, RefreshSerial
    <2>2. CASE ~Refresh(c)
      <3>1. calls' = {}
        BY <1>1, <2>2 DEF Commit, cancelInvoiceCommit, correctInvoiceCommit,
                          issueBatchCommit, Store, Finish
      <3> QED
        BY <1>2, <2>2, <3>1 DEF SerialInv, Alone
    <2> QED
      BY <2>1, <2>2
  <1>3. CASE cancelInvoiceCommit(c) \/ Store(c)
    <2>1. /\ UNCHANGED <<corrects, unit, bstatus>>
          /\ \A i \in Invoices : /\ Dead(i) => Dead(i)'
                                 /\ istatus[i] # "NONE" => istatus'[i] # "NONE"
      <3>1. CASE cancelInvoiceCommit(c)
        BY <1>1, <3>1 DEF cancelInvoiceCommit, Dead, batchVars
      <3>2. CASE Store(c)
        BY <1>1, <3>2 DEF Store, Dead, batchVars, Guarded
      <3> QED
        BY <1>3, <3>1, <3>2
    <2> QED
      BY <1>1, <2>1, DebtKept DEF Billed
  <1>4. CASE correctInvoiceCommit(c)
    <2> DEFINE old == c.invoice
    <2>1. PICK n \in Invoices :
              /\ NextNumber(n)
              /\ istatus' = [istatus EXCEPT ![n] = "ISSUED", ![old] = "CORRECTED"]
              /\ corrects' = [corrects EXCEPT ![n] = old]
              /\ unit' = [unit EXCEPT ![n] = unit[old]]
      BY <1>4 DEF correctInvoiceCommit
    <2>2. /\ old \in Invoices /\ istatus[old] = "ISSUED" /\ old # n
          /\ istatus[n] = "NONE" /\ bstatus' = bstatus
      BY <1>1, <1>4, <2>1 DEF correctInvoiceCommit, InvoiceInv, CallsKnowInvoices, Guarded,
                              NextNumber, batchVars
    <2> HIDE DEF old
    <2>3. \A i \in Invoices :
              /\ istatus'[i] = IF i = old THEN "CORRECTED" ELSE IF i = n THEN "ISSUED" ELSE istatus[i]
              /\ corrects'[i] = IF i = n THEN old ELSE corrects[i]
              /\ unit'[i] = IF i = n THEN unit[old] ELSE unit[i]
      BY <1>1, <2>1, <2>2 DEF Billed
    <2>4. Billed'
      <3>1. unit' \in [Invoices -> 0 .. UnitCount]
        BY <1>1, <2>1, <2>2 DEF Billed
      <3> QED
        BY <1>1, <2>2, <2>3, <3>1 DEF Billed
    <2>5. \A i \in Invoices : Dead(i) => Dead(i)'
      BY <2>2, <2>3 DEF Dead
    <2>6. ASSUME NEW j \in Invoices, corrects'[j] # 0
          PROVE  Dead(corrects[j])'
      <3>1. CASE j = n
        BY <2>2, <2>3, <3>1 DEF Dead
      <3>2. CASE j # n
        <4>1. corrects'[j] = corrects[j] /\ corrects[j] \in Invoices
          BY <1>1, <2>3, <2>6, <3>2, LedgerAssumption DEF Invoices
        <4>2. Dead(corrects[j])
          BY <1>1, <2>6, <4>1 DEF DebtCountedOnce
        <4> QED
          BY <2>5, <4>1, <4>2 DEF Dead
      <3> QED
        BY <3>1, <3>2
    <2>7. ASSUME NEW i \in Invoices, NEW j \in Invoices,
                 unit'[i] = unit'[j], unit'[i] # 0, i # j
          PROVE  Dead(i)' \/ Dead(j)'
      <3>1. ASSUME NEW k \in Invoices, k # n, unit[k] = unit[old], unit[old] # 0
            PROVE  Dead(k)'
        <4>1. CASE k = old
          BY <2>2, <2>3, <4>1 DEF Dead
        <4>2. CASE k # old
          BY <1>1, <2>2, <2>5, <3>1, <4>2 DEF DebtCountedOnce, Dead
        <4> QED
          BY <4>1, <4>2
      <3> QED
        BY <1>1, <2>3, <2>5, <2>7, <3>1 DEF DebtCountedOnce
    <2> QED
      BY <2>4, <2>6, <2>7 DEF DebtCountedOnce, Dead
  <1>5. CASE issueBatchCommit(c)
    <2>1. PICK n \in Invoices :
              /\ NextNumber(n)
              /\ istatus' = [i \in Invoices |-> IF i \in n .. n + UnitCount - 1
                                               THEN "ISSUED" ELSE istatus[i]]
              /\ unit' = [i \in Invoices |-> IF i \in n .. n + UnitCount - 1
                                            THEN i - n + 1 ELSE unit[i]]
      BY <1>5 DEF issueBatchCommit
    <2>2. /\ corrects' = corrects
          /\ bstatus' = [bstatus EXCEPT ![c.batch] = "ISSUED"] /\ c.batch \in Batches
          /\ \A i \in Invoices : unit[i] = 0
      BY <1>1, <1>5 DEF issueBatchCommit, Guarded, Billed
    <2>3. \A i \in Invoices : i \in n .. n + UnitCount - 1 => istatus[i] = "NONE"
      BY <2>1, FreshIsNext, LedgerAssumption DEF InvoiceInv, Invoices
    <2>4. Billed'
      <3>1. \A i \in Invoices : i \in n .. n + UnitCount - 1 => i - n + 1 \in 0 .. UnitCount
        BY LedgerAssumption DEF Invoices
      <3>2. unit' \in [Invoices -> 0 .. UnitCount]
        BY <1>1, <2>1, <3>1 DEF Billed
      <3>3. /\ bstatus' \in [Batches -> BatchStatus \cup {"NONE"}]
            /\ bstatus'[c.batch] = "ISSUED"
        BY <1>1, <2>2 DEF Billed, BatchStatus
      <3>4. \A i \in Invoices : unit'[i] # 0 => istatus'[i] # "NONE"
        BY <2>1, <2>2
      <3> QED
        BY <2>2, <3>2, <3>3, <3>4 DEF Billed
    <2>5. \A i \in Invoices : Dead(i) => Dead(i)'
      BY <2>1, <2>3 DEF Dead
    <2>6. ASSUME NEW j \in Invoices, corrects'[j] # 0
          PROVE  Dead(corrects[j])'
      BY <1>1, <2>2, <2>5, <2>6, LedgerAssumption DEF DebtCountedOnce, Dead, Invoices
    <2>7. ASSUME NEW i \in Invoices, NEW j \in Invoices, unit'[i] = unit'[j], unit'[i] # 0
          PROVE  i = j
      BY <2>1, <2>2, <2>7, LedgerAssumption DEF Invoices
    <2> QED
      BY <2>4, <2>6, <2>7 DEF DebtCountedOnce, Dead
  <1> QED
    BY <1>2, <1>3, <1>4, <1>5 DEF Commit

\* Steps of no call: the invoice is new, or the batch is.
LEMMA IssueSerial ==
    ASSUME InvoiceInv, SerialInv, NEW t \in Amounts, issueSingleInvoice(t)
    PROVE  SerialInv'
  <1>1. PICK n \in Invoices : NextNumber(n) /\ istatus' = [istatus EXCEPT ![n] = "ISSUED"]
    BY DEF issueSingleInvoice
  <1>2. /\ UNCHANGED <<corrects, unit, bstatus, allocs, calls>> /\ istatus[n] = "NONE"
        /\ corrects \in [Invoices -> 0 .. MaxInvoices]
        /\ \A i \in Invoices : istatus'[i] = IF i = n THEN "ISSUED" ELSE istatus[i]
    BY <1>1 DEF issueSingleInvoice, batchVars, NextNumber, InvoiceInv
  <1>3. DebtCountedOnce'
    BY <1>2, DebtKept DEF SerialInv, Dead
  <1>4. Alone' /\ Billed'
    BY <1>2 DEF SerialInv, Alone, Billed
  <1>5. \A c \in calls' : Guarded(c)'
    <2> SUFFICES ASSUME NEW c \in calls PROVE Guarded(c)'
      BY <1>2
    <2>1. /\ Guarded(c)
          /\ c.op = "correctInvoice" => c.invoice \in Invoices
      BY DEF SerialInv, InvoiceInv, CallsKnowInvoices
    <2>2. UNCHANGED Paid(c.invoice)
      BY <1>2 DEF Paid
    <2> QED
      BY <1>2, <2>1, <2>2 DEF Guarded
  <1> QED
    BY <1>3, <1>4, <1>5 DEF SerialInv

\* A draft is no issued batch.
LEMMA DraftSerial ==
    ASSUME SerialInv, NEW b \in Batches, NEW amounts, createDraftBatch(b, amounts)
    PROVE  SerialInv'
  <1>1. /\ UNCHANGED <<istatus, corrects, unit, allocs, calls>>
        /\ bstatus' = [bstatus EXCEPT ![b] = "DRAFT"] /\ bstatus[b] = "NONE"
    BY DEF createDraftBatch, invoiceVars
  <1>2. bstatus \in [Batches -> BatchStatus \cup {"NONE"}]
    BY DEF SerialInv, Billed
  <1>3. \A d \in Batches : bstatus'[d] = "ISSUED" <=> bstatus[d] = "ISSUED"
    BY <1>1, <1>2
  <1>4. Billed'
    BY <1>1, <1>2, <1>3 DEF SerialInv, Billed, BatchStatus
  <1>5. \A c \in calls' : Guarded(c)'
    BY <1>1, <1>3 DEF SerialInv, Guarded, Paid
  <1>6. Alone' /\ DebtCountedOnce'
    BY <1>1 DEF SerialInv, Alone, DebtCountedOnce, Dead
  <1> QED
    BY <1>4, <1>5, <1>6 DEF SerialInv

\* All steps; those that only end a call, or write payments, change nothing here.
LEMMA NextSerial ==
    ASSUME \A q, r \in Requests : q = r, InvoiceInv, SerialInv, [Next]_vars
    PROVE  SerialInv'
  <1>1. ASSUME UNCHANGED <<invoiceVars, batchVars, allocs>>, calls' \subseteq calls
        PROVE  SerialInv'
    <2>1. Alone' /\ \A c \in calls' : Guarded(c)'
      BY <1>1 DEF SerialInv, Alone, Guarded, Paid, invoiceVars, batchVars
    <2>2. Billed' /\ DebtCountedOnce'
      BY <1>1 DEF SerialInv, Billed, DebtCountedOnce, Dead, invoiceVars, batchVars
    <2> QED
      BY <2>1, <2>2 DEF SerialInv
  <1>2. ASSUME NEW p \in Payments,
               cancelTransaction(p) \/ \E a \in Amounts : enterPayment(p, a)
        PROVE  SerialInv'
    BY <1>1, <1>2 DEF cancelTransaction, enterPayment
  <1>3. ASSUME NEW c \in calls, Abort(c) PROVE SerialInv'
    BY <1>1, <1>3 DEF Abort, Finish
  <1>4. CASE UNCHANGED vars
    BY <1>1, <1>4 DEF vars
  <1> QED
    BY <1>2, <1>3, <1>4, IssueSerial, DraftSerial, ReadSerial, CommitSerial DEF Next

\* The serial invariant holds if one call runs at a time.
LEMMA SerialHolds ==
    ASSUME \A q, r \in Requests : q = r
    PROVE  Spec => []SerialInv
  <1>1. Init => SerialInv
    BY LedgerAssumption
    DEF Init, SerialInv, Alone, Billed, DebtCountedOnce, Dead, BatchStatus
  <1>2. InvoiceInv /\ SerialInv /\ [Next]_vars => SerialInv'
    BY NextSerial
  <1> QED
    BY <1>1, <1>2, InvoicesHold, PTL DEF Spec

\* One call at a time, a unit's charges of the period are owed by one invoice
\* at most, and a corrected invoice is out of the balance, for any number of
\* batches, units and corrections (issueBatch, correctInvoice).
THEOREM SerialDebtCountedOnce ==
    ASSUME \A q, r \in Requests : q = r
    PROVE  Spec => []DebtCountedOnce
  <1>1. SerialInv => DebtCountedOnce
    BY DEF SerialInv
  <1> QED
    BY <1>1, SerialHolds, PTL

\* One call at a time, a cancelled invoice stays cancelled and was cancelled
\* without money on it: what cancelInvoice has read still holds when it
\* writes, and no status computed before is written over it.
THEOREM SerialCancelledIsFinal ==
    ASSUME \A q, r \in Requests : q = r
    PROVE  Spec => CancelledIsFinal
  <1> DEFINE Final == \A i \in Invoices :
                /\ istatus[i] = "CANCELLED" => istatus'[i] = "CANCELLED"
                /\ istatus[i] # "CANCELLED" /\ istatus'[i] = "CANCELLED" => Paid(i) = 0
  <1>1. InvoiceInv /\ SerialInv /\ [Next]_vars => [Final]_vars
    <2> SUFFICES ASSUME InvoiceInv, SerialInv, Next, NEW i \in Invoices
                 PROVE  /\ istatus[i] = "CANCELLED" => istatus'[i] = "CANCELLED"
                        /\ istatus[i] # "CANCELLED" /\ istatus'[i] = "CANCELLED" => Paid(i) = 0
      BY DEF vars
    <2>0. istatus \in [Invoices -> InvoiceStatus \cup {"NONE"}]
      BY DEF InvoiceInv
    <2>1. CASE istatus' = istatus
      BY <2>1
    <2>2. ASSUME NEW t \in Amounts, issueSingleInvoice(t)
          PROVE  (istatus'[i] = "CANCELLED") <=> (istatus[i] = "CANCELLED")
      BY <2>0, <2>2 DEF issueSingleInvoice, NextNumber
    <2>3. ASSUME NEW c \in calls, cancelInvoiceCommit(c)
          PROVE  /\ istatus[i] = "CANCELLED" => istatus'[i] = "CANCELLED"
                 /\ istatus[i] # "CANCELLED" /\ istatus'[i] = "CANCELLED" => Paid(i) = 0
      BY <2>0, <2>3 DEF cancelInvoiceCommit, SerialInv, Guarded
    <2>4. ASSUME NEW c \in calls, correctInvoiceCommit(c)
          PROVE  (istatus'[i] = "CANCELLED") <=> (istatus[i] = "CANCELLED")
      BY <2>0, <2>4 DEF correctInvoiceCommit, SerialInv, Guarded, NextNumber
    <2>5. ASSUME NEW c \in calls, issueBatchCommit(c)
          PROVE  (istatus'[i] = "CANCELLED") <=> (istatus[i] = "CANCELLED")
      <3>1. PICK n \in Invoices :
              /\ NextNumber(n)
              /\ istatus' = [j \in Invoices |-> IF j \in n .. n + UnitCount - 1
                                               THEN "ISSUED" ELSE istatus[j]]
        BY <2>5 DEF issueBatchCommit
      <3>2. i \in n .. n + UnitCount - 1 => istatus[i] = "NONE"
        BY <3>1, FreshIsNext, LedgerAssumption DEF InvoiceInv, Invoices
      <3> QED
        BY <3>1, <3>2
    <2>6. ASSUME NEW c \in calls, Store(c)
          PROVE  (istatus'[i] = "CANCELLED") <=> (istatus[i] = "CANCELLED")
      <3>1. c.inew[i] \in {"NONE", "ISSUED", "PAID"}
        BY <2>6 DEF Store, InvoiceInv, CallsKnowInvoices
      <3> QED
        BY <2>0, <2>6, <3>1 DEF Store, SerialInv, Guarded
    <2>7. ASSUME NEW r \in Requests, Read(r) PROVE istatus' = istatus
      <3>1. ASSUME NEW j \in Invoices, NEW t \in Amounts \cup {0},
                   cancelInvoiceRead(r, j) \/ correctInvoiceRead(r, j, t)
            PROVE  istatus' = istatus
        BY <3>1 DEF cancelInvoiceRead, correctInvoiceRead, invoiceVars
      <3>2. ASSUME NEW p \in Payments, reversePaymentRead(r, p)
            PROVE  istatus' = istatus
        BY <3>2 DEF reversePaymentRead, Book, invoiceVars
      <3>3. ASSUME NEW p \in Payments, NEW j \in Invoices, NEW a \in Amounts,
                   allocateRead(r, p, j, a) \/ importRead(r, p, a, j)
            PROVE  istatus' = istatus
        BY <3>3 DEF allocateRead, importRead, Book, invoiceVars
      <3>4. ASSUME NEW x \in allocs, reverseAllocationRead(r, x)
            PROVE  istatus' = istatus
        BY <3>4 DEF reverseAllocationRead, Book, invoiceVars
      <3>5. ASSUME NEW b \in Batches, issueBatchRead(r, b)
            PROVE  istatus' = istatus
        BY <3>5 DEF issueBatchRead, invoiceVars
      <3> QED
        BY <2>7, <3>1, <3>2, <3>3, <3>4, <3>5 DEF Read
    <2>8. ASSUME NEW c \in calls, Refresh(c) \/ Abort(c) PROVE istatus' = istatus
      BY <2>8 DEF Refresh, Abort, invoiceVars
    <2>9. ASSUME NEW p \in Payments,
                 cancelTransaction(p) \/ \E a \in Amounts : enterPayment(p, a)
          PROVE  istatus' = istatus
      BY <2>9 DEF cancelTransaction, enterPayment, invoiceVars
    <2>10. ASSUME NEW b \in Batches, NEW amounts, createDraftBatch(b, amounts)
           PROVE  istatus' = istatus
      BY <2>10 DEF createDraftBatch, invoiceVars
    <2> QED
      BY <2>1, <2>2, <2>3, <2>4, <2>5, <2>6, <2>7, <2>8, <2>9, <2>10 DEF Next, Commit
  <1> QED
    BY <1>1, InvoicesHold, SerialHolds, PTL DEF Spec, CancelledIsFinal

-----------------------------------------------------------------------------
(* Types.  The rows are finitely many, so that they have a sum.            *)

RowsFinite ==
    /\ IsFiniteSet(allocs)
    /\ \A c \in calls : c.op \in BookOps => IsFiniteSet(c.rows)

TypeInv == TypeOK /\ RowsFinite

LEMMA SumOfType ==
    ASSUME NEW S, IsFiniteSet(S), \A x \in S : x.amount \in Int
    PROVE  SumOf(S) \in Int
  <1> DEFINE f == [x \in S |-> x.amount]
  <1>1. SumOf(S) = SumFunctionOnSet(f, S)
    BY DEF SumOf, SumFunction
  <1>2. \A x \in S : f[x] \in Int
    OBVIOUS
  <1> HIDE DEF f
  <1> QED
    BY <1>1, <1>2, SumType

\* Any selection of the rows has a sum.
LEMMA PartType ==
    ASSUME TypeInv, NEW S, S \subseteq allocs
    PROVE  IsFiniteSet(S) /\ SumOf(S) \in Int
  <1>1. IsFiniteSet(S)
    BY FS_Subset DEF TypeInv, RowsFinite
  <1>2. \A x \in S : x.amount \in Int
    BY DEF TypeInv, TypeOK, Row
  <1> QED
    BY <1>1, <1>2, SumOfType

LEMMA BalanceTypes ==
    ASSUME TypeInv
    PROVE  /\ \A i \in Invoices : Paid(i) \in Int /\ total[i] \in Nat
           /\ \A p \in Payments : Allocated(p) \in Int /\ amount[p] \in Nat
           /\ \A p \in Payments, i \in Invoices : netAllocations(p, i) \in Int
  <1>1. ASSUME NEW i \in Invoices PROVE Paid(i) \in Int
    BY PartType DEF Paid
  <1>2. ASSUME NEW p \in Payments PROVE Allocated(p) \in Int
    BY PartType DEF Allocated
  <1>3. ASSUME NEW p \in Payments, NEW i \in Invoices PROVE netAllocations(p, i) \in Int
    BY PartType DEF netAllocations
  <1>4. (\A i \in Invoices : total[i] \in Nat) /\ (\A p \in Payments : amount[p] \in Nat)
    <2>1. /\ total \in [Invoices -> Amounts \cup {0}]
          /\ amount \in [Payments -> Amounts \cup {0}]
      BY DEF TypeInv, TypeOK
    <2>2. \A a \in Amounts \cup {0} : a \in Nat
      BY LedgerAssumption
    <2> QED
      BY <2>1, <2>2
  <1> QED
    BY <1>1, <1>2, <1>3, <1>4

\* The operation tells what a call is.
LEMMA CallKinds ==
    ASSUME NEW c \in Call
    PROVE  /\ c.op \in BookOps => c \in Booking
           /\ c.op = "cancelInvoice" => c \in CancelCall
           /\ c.op = "correctInvoice" => c \in CorrectCall
           /\ c.op = "issueBatch" => c \in IssueCall
  BY DEF Call, Booking, CancelCall, CorrectCall, IssueCall, BookOps

LEMMA NewCallTypes ==
    ASSUME TypeInv, UNCHANGED <<invoiceVars, batchVars, paymentVars, allocs>>,
           NEW d \in Call, calls' \subseteq calls \cup {d},
           d.op \in BookOps => IsFiniteSet(d.rows)
    PROVE  TypeInv'
  <1>1. TypeOK'
    BY DEF TypeInv, TypeOK, invoiceVars, batchVars, paymentVars
  <1>2. RowsFinite'
    BY DEF TypeInv, RowsFinite
  <1> QED
    BY <1>1, <1>2 DEF TypeInv

LEMMA BookingTypes ==
    ASSUME TypeInv, NEW r \in Requests, NEW op \in BookOps, NEW p \in Payments,
           NEW money \in Amounts \cup {0}, NEW rows \in SUBSET NewRow, IsFiniteSet(rows),
           Book(r, op, p, money, rows)
    PROVE  TypeInv'
  <1> DEFINE none == [i \in Invoices |-> "NONE"]
             d == [req |-> r, op |-> op, refreshed |-> FALSE, payment |-> p,
                   money |-> money, rows |-> rows, pnew |-> "NONE", inew |-> none]
  <1>1. calls' = calls \cup {d} /\ UNCHANGED <<invoiceVars, batchVars, paymentVars, allocs>>
    BY DEF Book
  <1>2. none \in [Invoices -> InvoiceStatus \cup {"NONE"}]
    OBVIOUS
  <1> HIDE DEF none
  <1>3. d \in Booking /\ d.rows = rows
    BY <1>2 DEF Booking
  <1> HIDE DEF d
  <1>4. d \in Call
    BY <1>3 DEF Call
  <1> QED
    BY <1>1, <1>3, <1>4, NewCallTypes

LEMMA ReadTypes ==
    ASSUME TypeInv, NEW r \in Requests, Read(r)
    PROVE  TypeInv'
  <1>1. ASSUME NEW i \in Invoices, cancelInvoiceRead(r, i)
        PROVE TypeInv'
    <2> DEFINE d == [req |-> r, op |-> "cancelInvoice", invoice |-> i]
    <2>1. calls' = calls \cup {d} /\ UNCHANGED <<invoiceVars, batchVars, paymentVars, allocs>>
      BY <1>1 DEF cancelInvoiceRead
    <2>2. d \in CancelCall /\ d.op = "cancelInvoice"
      BY DEF CancelCall
    <2> HIDE DEF d
    <2>3. d \in Call /\ d.op \notin BookOps
      BY <2>2 DEF Call, BookOps
    <2> QED
      BY <2>1, <2>3, NewCallTypes
  <1>2. ASSUME NEW i \in Invoices, NEW t \in Amounts \cup {0}, correctInvoiceRead(r, i, t)
        PROVE TypeInv'
    <2> DEFINE d == [req |-> r, op |-> "correctInvoice", invoice |-> i, newTotal |-> t]
    <2>1. calls' = calls \cup {d} /\ UNCHANGED <<invoiceVars, batchVars, paymentVars, allocs>>
      BY <1>2 DEF correctInvoiceRead
    <2>2. d \in CorrectCall /\ d.op = "correctInvoice"
      BY DEF CorrectCall
    <2> HIDE DEF d
    <2>3. d \in Call /\ d.op \notin BookOps
      BY <2>2 DEF Call, BookOps
    <2> QED
      BY <2>1, <2>3, NewCallTypes
  <1>3. ASSUME NEW b \in Batches, issueBatchRead(r, b)
        PROVE TypeInv'
    <2> DEFINE d == [req |-> r, op |-> "issueBatch", batch |-> b]
    <2>1. calls' = calls \cup {d} /\ UNCHANGED <<invoiceVars, batchVars, paymentVars, allocs>>
      BY <1>3 DEF issueBatchRead
    <2>2. d \in IssueCall /\ d.op = "issueBatch"
      BY DEF IssueCall
    <2> HIDE DEF d
    <2>3. d \in Call /\ d.op \notin BookOps
      BY <2>2 DEF Call, BookOps
    <2> QED
      BY <2>1, <2>3, NewCallTypes
  <1>4. ASSUME NEW p \in Payments, reversePaymentRead(r, p)
        PROVE TypeInv'
    <2> DEFINE held == {i \in Invoices : netAllocations(p, i) > 0}
               F == [i \in held |-> [payment |-> p, invoice |-> i,
                                     amount |-> -netAllocations(p, i), reverses |-> 0]]
               rows == {F[i] : i \in held}
    <2>1. Book(r, "reversePayment", p, 0, rows)
      BY <1>4 DEF reversePaymentRead
    <2>2. IsFiniteSet(held)
      <3>1. IsFiniteSet(Invoices)
        BY FS_Interval, LedgerAssumption DEF Invoices
      <3>2. held \subseteq Invoices
        OBVIOUS
      <3> HIDE DEF held
      <3> QED
        BY <3>1, <3>2, FS_Subset
    <2>3. IsFiniteSet(rows)
      <3> HIDE DEF held, F
      <3> QED
        BY <2>2, ImageIsFinite
    <2>4. rows \subseteq NewRow
      <3>1. \A i \in held : -netAllocations(p, i) \in Int /\ i \in Invoices
        BY BalanceTypes
      <3>2. 0 \in 0 .. MaxRows
        BY LedgerAssumption
      <3> QED
        BY <3>1, <3>2 DEF NewRow
    <2> HIDE DEF rows
    <2> QED
      BY <2>1, <2>3, <2>4, BookingTypes DEF BookOps
  <1>5. ASSUME NEW p \in Payments, NEW i \in Invoices, NEW a \in Amounts,
               allocateRead(r, p, i, a)
        PROVE TypeInv'
    <2> DEFINE rows == {[payment |-> p, invoice |-> i, amount |-> a, reverses |-> 0]}
    <2>1. rows \subseteq NewRow
      BY LedgerAssumption DEF NewRow
    <2>2. IsFiniteSet(rows)
      BY FS_Singleton
    <2>3. Book(r, "allocate", p, 0, rows)
      BY <1>5 DEF allocateRead
    <2> HIDE DEF rows
    <2> QED
      BY <2>1, <2>2, <2>3, BookingTypes DEF BookOps
  <1>6. ASSUME NEW p \in Payments, NEW i \in Invoices, NEW a \in Amounts,
               importRead(r, p, a, i)
        PROVE TypeInv'
    <2> DEFINE fit == IF Open(i) < a THEN Open(i) ELSE a
               rows == IF istatus[i] = "CANCELLED" \/ fit <= 0 THEN {}
                       ELSE {[payment |-> p, invoice |-> i, amount |-> fit, reverses |-> 0]}
    <2>1. Book(r, "import", p, a, rows)
      BY <1>6 DEF importRead
    <2>2. fit \in Int
      BY BalanceTypes, LedgerAssumption DEF Open
    <2> HIDE DEF fit
    <2>3. rows \subseteq NewRow
      BY <2>2, LedgerAssumption DEF NewRow
    <2>4. IsFiniteSet(rows)
      BY FS_Singleton, FS_EmptySet
    <2> HIDE DEF rows
    <2> QED
      BY <2>1, <2>3, <2>4, BookingTypes DEF BookOps
  <1>7. ASSUME NEW x \in allocs, reverseAllocationRead(r, x)
        PROVE TypeInv'
    <2> DEFINE rows == {[payment |-> x.payment, invoice |-> x.invoice,
                         amount |-> -x.amount, reverses |-> x.id]}
    <2>1. x \in Row
      BY DEF TypeInv, TypeOK
    <2>2. rows \subseteq NewRow
      BY <2>1, LedgerAssumption DEF NewRow, Row
    <2>3. IsFiniteSet(rows)
      BY FS_Singleton
    <2>4. Book(r, "reverseAllocation", x.payment, 0, rows) /\ x.payment \in Payments
      BY <1>7, <2>1 DEF reverseAllocationRead, Row
    <2> HIDE DEF rows
    <2> QED
      BY <2>2, <2>3, <2>4, BookingTypes DEF BookOps
  <1> QED
    BY <1>1, <1>2, <1>3, <1>4, <1>5, <1>6, <1>7 DEF Read

LEMMA RefreshTypes ==
    ASSUME TypeInv, NEW c \in calls, Refresh(c)
    PROVE  TypeInv'
  <1> DEFINE inew == [i \in Invoices |-> RefreshedInvoice(c, i)]
             d == [c EXCEPT !.refreshed = TRUE, !.pnew = RefreshedPayment(c), !.inew = inew]
  <1>1. /\ calls' \subseteq calls \cup {d}
        /\ UNCHANGED <<invoiceVars, batchVars, paymentVars, allocs>>
        /\ c.op \in BookOps
    BY DEF Refresh
  <1>2. c \in Booking /\ IsFiniteSet(c.rows)
    BY <1>1, CallKinds DEF TypeInv, TypeOK, RowsFinite
  <1>3. RefreshedPayment(c) \in PaymentStatus
    BY DEF RefreshedPayment, PaymentStatusFor, PaymentStatus
  <1>4. inew \in [Invoices -> InvoiceStatus \cup {"NONE"}]
    BY DEF RefreshedInvoice, InvoiceStatusFor, InvoiceStatus
  <1> HIDE DEF inew
  <1>5. d \in Booking /\ d.rows = c.rows
    BY <1>2, <1>3, <1>4 DEF Booking
  <1> HIDE DEF d
  <1>6. d \in Call
    BY <1>5 DEF Call
  <1> QED
    BY <1>1, <1>2, <1>5, <1>6, NewCallTypes

\* The rows a booking inserts are rows of the table.
LEMMA NumberedTypes ==
    ASSUME TypeInv, NEW c \in calls, Store(c)
    PROVE  Numbered(c.rows) \subseteq Row /\ IsFiniteSet(Numbered(c.rows))
  <1>1. c \in Booking /\ IsFiniteSet(c.rows)
    BY CallKinds DEF Store, TypeInv, TypeOK, RowsFinite
  <1>2. \A x \in c.rows : x \in NewRow
    BY <1>1 DEF Booking
  <1>3. ASSUME NEW x \in c.rows PROVE Cardinality(RowsOf(x.invoice)) + 1 \in 1 .. MaxRows
    <2>1. IsFiniteSet(RowsOf(x.invoice))
      BY PartType DEF RowsOf
    <2>2. Cardinality(RowsOf(x.invoice)) \in Nat
      BY <2>1, FS_CardinalityType
    <2>3. Cardinality(RowsOf(x.invoice)) < MaxRows
      BY DEF Store
    <2> QED
      BY <2>2, <2>3, LedgerAssumption
  <1> DEFINE F == [x \in c.rows |-> [id |-> Cardinality(RowsOf(x.invoice)) + 1,
                     payment |-> x.payment, invoice |-> x.invoice, amount |-> x.amount,
                     reverses |-> x.reverses]]
  <1>4. Numbered(c.rows) = {F[x] : x \in c.rows}
    BY DEF Numbered
  <1>5. \A x \in c.rows : F[x] \in Row
    BY <1>2, <1>3 DEF NewRow, Row
  <1> HIDE DEF F
  <1> QED
    BY <1>1, <1>4, <1>5, ImageIsFinite

LEMMA StoreTypes ==
    ASSUME TypeInv, NEW c \in calls, Store(c)
    PROVE  TypeInv'
  <1>1. c \in Booking /\ TypeOK /\ RowsFinite
    BY CallKinds DEF Store, TypeInv, TypeOK
  <1>2. allocs' \subseteq Row /\ IsFiniteSet(allocs')
    BY <1>1, NumberedTypes, FS_Union DEF Store, TypeOK, RowsFinite
  <1>3. calls' \subseteq calls
    BY DEF Store, Finish
  <1>4. istatus' \in [Invoices -> InvoiceStatus \cup {"NONE"}]
    BY <1>1 DEF Store, TypeOK, Booking
  <1>5. /\ pstatus' \in [Payments -> PaymentStatus \cup {"NONE"}]
        /\ amount' \in [Payments -> Amounts \cup {0}]
        /\ reversed' \in [Payments -> BOOLEAN]
        /\ cash' \in [Payments -> CashStatus \cup {"NONE"}]
    BY <1>1 DEF Store, TypeOK, Booking, CashStatus
  <1>6. UNCHANGED <<total, corrects, unit, bstatus, preview>>
    BY DEF Store, batchVars
  <1>7. TypeOK'
    BY <1>1, <1>2, <1>3, <1>4, <1>5, <1>6 DEF TypeOK
  <1>8. RowsFinite'
    BY <1>1, <1>2, <1>3 DEF RowsFinite
  <1> QED
    BY <1>7, <1>8 DEF TypeInv

\* Commits that write invoices and batches.
LEMMA InvoiceTypes ==
    ASSUME TypeInv, UNCHANGED <<paymentVars, allocs>>, calls' \subseteq calls,
           istatus' \in [Invoices -> InvoiceStatus \cup {"NONE"}],
           total' \in [Invoices -> Amounts \cup {0}],
           corrects' \in [Invoices -> 0 .. MaxInvoices],
           unit' \in [Invoices -> 0 .. UnitCount],
           bstatus' \in [Batches -> BatchStatus \cup {"NONE"}],
           preview' \in [Batches -> [Units -> Amounts \cup {0}]]
    PROVE  TypeInv'
  <1>1. TypeOK'
    BY DEF TypeInv, TypeOK, paymentVars
  <1>2. RowsFinite'
    BY DEF TypeInv, RowsFinite
  <1> QED
    BY <1>1, <1>2 DEF TypeInv

LEMMA CommitTypes ==
    ASSUME TypeInv, NEW c \in calls, Commit(c)
    PROVE  TypeInv'
  <1>1. TypeOK /\ c \in Call
    BY DEF TypeInv, TypeOK
  <1>2. CASE cancelInvoiceCommit(c)
    <2>1. istatus' \in [Invoices -> InvoiceStatus \cup {"NONE"}]
      BY <1>1, <1>2 DEF cancelInvoiceCommit, TypeOK, InvoiceStatus
    <2>2. /\ UNCHANGED <<total, corrects, unit, bstatus, preview, paymentVars, allocs>>
          /\ calls' \subseteq calls
      BY <1>2 DEF cancelInvoiceCommit, Finish, batchVars
    <2> QED
      BY <1>1, <2>1, <2>2, InvoiceTypes DEF TypeOK
  <1>3. CASE correctInvoiceCommit(c)
    <2>0. c \in CorrectCall
      BY <1>1, <1>3, CallKinds DEF correctInvoiceCommit
    <2>1. PICK n \in Invoices :
              /\ istatus' = [istatus EXCEPT ![n] = "ISSUED", ![c.invoice] = "CORRECTED"]
              /\ total' = [total EXCEPT ![n] = c.newTotal]
              /\ corrects' = [corrects EXCEPT ![n] = c.invoice]
              /\ unit' = [unit EXCEPT ![n] = unit[c.invoice]]
      BY <1>3 DEF correctInvoiceCommit
    <2>2. c.invoice \in Invoices /\ c.newTotal \in Amounts \cup {0}
      BY <2>0 DEF CorrectCall
    <2>3. /\ istatus' \in [Invoices -> InvoiceStatus \cup {"NONE"}]
          /\ total' \in [Invoices -> Amounts \cup {0}]
          /\ corrects' \in [Invoices -> 0 .. MaxInvoices]
          /\ unit' \in [Invoices -> 0 .. UnitCount]
      BY <1>1, <2>1, <2>2 DEF TypeOK, InvoiceStatus, Invoices
    <2>4. UNCHANGED <<bstatus, preview, paymentVars, allocs>> /\ calls' \subseteq calls
      BY <1>3 DEF correctInvoiceCommit, Finish, batchVars
    <2> QED
      BY <1>1, <2>3, <2>4, InvoiceTypes DEF TypeOK
  <1>4. CASE issueBatchCommit(c)
    <2>0. c \in IssueCall
      BY <1>1, <1>4, CallKinds DEF issueBatchCommit
    <2>1. PICK n \in Invoices :
              /\ istatus' = [i \in Invoices |-> IF i \in n .. n + UnitCount - 1
                                               THEN "ISSUED" ELSE istatus[i]]
              /\ total' = [i \in Invoices |-> IF i \in n .. n + UnitCount - 1
                                             THEN preview[c.batch][i - n + 1] ELSE total[i]]
              /\ unit' = [i \in Invoices |-> IF i \in n .. n + UnitCount - 1
                                            THEN i - n + 1 ELSE unit[i]]
      BY <1>4 DEF issueBatchCommit
    <2>2. \A i \in Invoices : i \in n .. n + UnitCount - 1 =>
              i - n + 1 \in Units /\ i - n + 1 \in 0 .. UnitCount
      BY LedgerAssumption DEF Invoices, Units
    <2>3. preview[c.batch] \in [Units -> Amounts \cup {0}]
      BY <1>1, <2>0 DEF TypeOK, IssueCall
    <2>4. istatus' \in [Invoices -> InvoiceStatus \cup {"NONE"}]
      BY <1>1, <2>1 DEF TypeOK, InvoiceStatus
    <2>5. total' \in [Invoices -> Amounts \cup {0}] /\ unit' \in [Invoices -> 0 .. UnitCount]
      BY <1>1, <2>1, <2>2, <2>3 DEF TypeOK
    <2>6. /\ UNCHANGED <<corrects, preview, paymentVars, allocs>> /\ calls' \subseteq calls
          /\ bstatus' \in [Batches -> BatchStatus \cup {"NONE"}]
      BY <1>1, <1>4 DEF issueBatchCommit, Finish, TypeOK, BatchStatus
    <2> QED
      BY <1>1, <2>4, <2>5, <2>6, InvoiceTypes DEF TypeOK
  <1> QED
    BY <1>2, <1>3, <1>4, RefreshTypes, StoreTypes DEF Commit

LEMMA TypesInit == Init => TypeInv
  <1> SUFFICES ASSUME Init PROVE TypeInv
    OBVIOUS
  <1>1. TypeOK
    BY LedgerAssumption DEF Init, TypeOK
  <1>2. RowsFinite
    BY FS_EmptySet DEF Init, RowsFinite
  <1> QED
    BY <1>1, <1>2 DEF TypeInv

LEMMA TypesNext == TypeInv /\ [Next]_vars => TypeInv'
  <1> SUFFICES ASSUME TypeInv, [Next]_vars PROVE TypeInv'
    OBVIOUS
  <1>1. ASSUME NEW t \in Amounts, issueSingleInvoice(t) PROVE TypeInv'
    <2>1. PICK n \in Invoices : /\ istatus' = [istatus EXCEPT ![n] = "ISSUED"]
                                /\ total' = [total EXCEPT ![n] = t]
      BY <1>1 DEF issueSingleInvoice
    <2>2. /\ istatus' \in [Invoices -> InvoiceStatus \cup {"NONE"}]
          /\ total' \in [Invoices -> Amounts \cup {0}]
      BY <2>1 DEF TypeInv, TypeOK, InvoiceStatus
    <2>3. UNCHANGED <<corrects, unit, bstatus, preview, paymentVars, allocs, calls>>
      BY <1>1 DEF issueSingleInvoice, batchVars
    <2> QED
      BY <2>2, <2>3, InvoiceTypes DEF TypeInv, TypeOK
  <1>2. ASSUME NEW b \in Batches, NEW amounts \in [Units -> Amounts],
               createDraftBatch(b, amounts)
        PROVE  TypeInv'
    <2>1. amounts \in [Units -> Amounts \cup {0}]
      OBVIOUS
    <2>2. /\ bstatus' \in [Batches -> BatchStatus \cup {"NONE"}]
          /\ preview' \in [Batches -> [Units -> Amounts \cup {0}]]
      BY <1>2, <2>1 DEF createDraftBatch, TypeInv, TypeOK, BatchStatus
    <2>3. UNCHANGED <<istatus, total, corrects, unit, paymentVars, allocs, calls>>
      BY <1>2 DEF createDraftBatch, invoiceVars
    <2> QED
      BY <2>2, <2>3, InvoiceTypes DEF TypeInv, TypeOK
  <1>3. ASSUME NEW p \in Payments,
               cancelTransaction(p) \/ \E a \in Amounts : enterPayment(p, a)
        PROVE  TypeInv'
    <2>1. /\ UNCHANGED <<reversed, invoiceVars, batchVars, allocs, calls>>
          /\ pstatus' \in [Payments -> PaymentStatus \cup {"NONE"}]
          /\ amount' \in [Payments -> Amounts \cup {0}]
          /\ cash' \in [Payments -> CashStatus \cup {"NONE"}]
      BY <1>3 DEF cancelTransaction, enterPayment, TypeInv, TypeOK, PaymentStatus, CashStatus
    <2> QED
      BY <2>1 DEF TypeInv, TypeOK, RowsFinite, invoiceVars, batchVars
  <1>4. ASSUME NEW r \in Requests, Read(r) PROVE TypeInv'
    BY <1>4, ReadTypes
  <1>5. ASSUME NEW c \in calls, Commit(c) PROVE TypeInv'
    BY <1>5, CommitTypes
  <1>6. ASSUME NEW c \in calls, Abort(c) PROVE TypeInv'
    BY <1>6 DEF Abort, Finish, TypeInv, TypeOK, RowsFinite, invoiceVars, batchVars,
      paymentVars
  <1>7. CASE UNCHANGED vars
    BY <1>7 DEF vars, TypeInv, TypeOK, RowsFinite, invoiceVars, batchVars, paymentVars
  <1> QED
    BY <1>1, <1>2, <1>3, <1>4, <1>5, <1>6, <1>7 DEF Next

LEMMA TypesHold == Spec => []TypeInv
  BY TypesInit, TypesNext, PTL DEF Spec

\* Invoices, batches, payments, rows and the calls in flight have their types,
\* however calls overlap (schema.prisma, payments.ts and billing.ts).
THEOREM TypeCorrect == Spec => []TypeOK
  <1>1. TypeInv => TypeOK
    BY DEF TypeInv
  <1> QED
    BY <1>1, TypesHold, PTL

-----------------------------------------------------------------------------
(* Money, when calls do not overlap.  Rows refer to what is there, and a   *)
(* booking in flight still fits: its rows leave room on their invoices and *)
(* on their payment, and the statuses it will write are those that follow  *)
(* from the table and its own rows.                                        *)

Fresh ==
    /\ \A x \in allocs : istatus[x.invoice] # "NONE" /\ pstatus[x.payment] # "NONE"
    /\ \A p \in Payments : pstatus[p] = "NONE" => ~reversed[p]

Money(c) == IF c.op = "import" THEN c.money ELSE amount[c.payment]

Fits(c) ==
    /\ c.op = "import" <=> pstatus[c.payment] = "NONE"
    /\ \A x \in c.rows :
          /\ x.payment = c.payment
          /\ istatus[x.invoice] # "NONE"
          /\ Paid(x.invoice) + x.amount <= total[x.invoice]
          /\ x.amount > 0 => ~reversed[c.payment] /\ istatus[x.invoice] # "CANCELLED"
    /\ Allocated(c.payment) + SumOf(c.rows) <= Money(c)
    /\ c.refreshed => /\ c.pnew = RefreshedPayment(c)
                      /\ \A i \in Invoices : c.inew[i] = RefreshedInvoice(c, i)

BookingsFit == \A c \in calls : c.op \in BookOps => Fits(c)

MoneyInv == Fresh /\ NothingOverallocated /\ StatusFollowsLedger /\ BookingsFit

\* Sums of rows: none, one, one more, of two tables, none positive.
LEMMA SumOfNone == SumOf({}) = 0
  BY SumEmpty DEF SumOf, SumFunction

LEMMA SumOfUnion ==
    ASSUME NEW S, NEW T, IsFiniteSet(S), IsFiniteSet(T), S \cap T = {},
           \A x \in S \cup T : x.amount \in Int
    PROVE  SumOf(S \cup T) = SumOf(S) + SumOf(T)
  <1> DEFINE U == S \cup T
             f == [x \in U |-> x.amount]
             g == [x \in S |-> x.amount]
             h == [x \in T |-> x.amount]
  <1>1. /\ SumOf(U) = SumFunctionOnSet(f, U)
        /\ SumOf(S) = SumFunctionOnSet(g, S)
        /\ SumOf(T) = SumFunctionOnSet(h, T)
    BY DEF SumOf, SumFunction
  <1>2. /\ \A x \in U : f[x] \in Int
        /\ \A x \in S : f[x] = g[x]
        /\ \A x \in T : f[x] = h[x]
    OBVIOUS
  <1> HIDE DEF f, g, h
  <1>3. SumFunctionOnSet(f, S \cup T) = SumFunctionOnSet(f, S) + SumFunctionOnSet(f, T)
    BY <1>2, SumUnion
  <1>4. SumFunctionOnSet(f, S) = SumFunctionOnSet(g, S)
    BY <1>2, SumSame
  <1>5. SumFunctionOnSet(f, T) = SumFunctionOnSet(h, T)
    BY <1>2, SumSame
  <1> QED
    BY <1>1, <1>3, <1>4, <1>5

LEMMA SumOfOne ==
    ASSUME NEW x, x.amount \in Int
    PROVE  SumOf({x}) = x.amount
  <1> DEFINE f == [y \in {x} |-> y.amount]
  <1>1. SumOf({x}) = SumFunctionOnSet(f, {x})
    BY DEF SumOf, SumFunction
  <1>2. f[x] = x.amount /\ \A y \in {x} : f[y] \in Int
    OBVIOUS
  <1>3. IsFiniteSet({x}) /\ {x} \ {x} = {} /\ x \in {x}
    BY FS_Singleton
  <1> HIDE DEF f
  <1>4. SumFunctionOnSet(f, {x}) = f[x] + SumFunctionOnSet(f, {x} \ {x})
    BY <1>2, <1>3, SumRemove
  <1>5. SumFunctionOnSet(f, {x} \ {x}) = 0
    BY <1>3, SumEmpty
  <1> QED
    BY <1>1, <1>2, <1>4, <1>5

LEMMA SumOfNegative ==
    ASSUME NEW S, IsFiniteSet(S), \A x \in S : x.amount \in Int /\ x.amount <= 0
    PROVE  SumOf(S) <= 0
  <1> DEFINE f == [x \in S |-> x.amount]
  <1>1. SumOf(S) = SumFunctionOnSet(f, S)
    BY DEF SumOf, SumFunction
  <1>2. \A x \in S : f[x] \in Int /\ f[x] <= 0
    OBVIOUS
  <1> HIDE DEF f
  <1> QED
    BY <1>1, <1>2, SumNotPositive

\* Numbering changes no amounts.
LEMMA SumOfNumbered ==
    ASSUME NEW rows, IsFiniteSet(rows), GoodRows(rows), \A x \in rows : x.amount \in Int
    PROVE  SumOf(Numbered(rows)) = SumOf(rows)
  <1> DEFINE h == [x \in rows |-> [id |-> Cardinality(RowsOf(x.invoice)) + 1,
                     payment |-> x.payment, invoice |-> x.invoice, amount |-> x.amount,
                     reverses |-> x.reverses]]
             T == {h[x] : x \in rows}
             f == [x \in rows |-> x.amount]
             g == [x \in T |-> x.amount]
  <1>1. Numbered(rows) = T
    BY DEF Numbered
  <1>2. SumOf(T) = SumFunctionOnSet(g, T) /\ SumOf(rows) = SumFunctionOnSet(f, rows)
    BY DEF SumOf, SumFunction
  <1>3. \A x \in rows : f[x] \in Int /\ g[h[x]] = f[x]
    OBVIOUS
  <1>4. \A x, y \in rows : h[x] = h[y] => x = y
    BY DEF GoodRows
  <1> HIDE DEF f, g, h
  <1>5. SumFunctionOnSet(g, T) = SumFunctionOnSet(f, rows)
    BY <1>3, <1>4, SumCarried
  <1> HIDE DEF T
  <1> QED
    BY <1>1, <1>2, <1>5

\* Where there are no rows, nothing is paid.
LEMMA FreshIsZero ==
    ASSUME Fresh
    PROVE  /\ \A i \in Invoices : istatus[i] = "NONE" => Paid(i) = 0
           /\ \A p \in Payments : pstatus[p] = "NONE" => Allocated(p) = 0
  <1>1. ASSUME NEW i \in Invoices, istatus[i] = "NONE" PROVE Paid(i) = 0
    <2>1. {x \in allocs : x.invoice = i} = {}
      BY <1>1 DEF Fresh
    <2> QED
      BY <2>1, SumOfNone DEF Paid
  <1>2. ASSUME NEW p \in Payments, pstatus[p] = "NONE" PROVE Allocated(p) = 0
    <2>1. {x \in allocs : x.payment = p} = {}
      BY <1>2 DEF Fresh
    <2> QED
      BY <2>1, SumOfNone DEF Allocated
  <1> QED
    BY <1>1, <1>2

\* A step that writes no table, and adds at most one booking that fits.
LEMMA NewCallFits ==
    ASSUME MoneyInv, UNCHANGED <<istatus, total, pstatus, amount, reversed, allocs>>,
           NEW d, calls' \subseteq calls \cup {d}, d.op \in BookOps => Fits(d)
    PROVE  MoneyInv'
  <1>1. Fresh' /\ NothingOverallocated' /\ StatusFollowsLedger'
    BY DEF MoneyInv, Fresh, NothingOverallocated, StatusFollowsLedger, Paid, Allocated
  <1>2. ASSUME NEW c, Fits(c) PROVE Fits(c)'
    <2>1. /\ RefreshedPayment(c)' = RefreshedPayment(c)
          /\ \A i \in Invoices : RefreshedInvoice(c, i)' = RefreshedInvoice(c, i)
      BY DEF RefreshedPayment, RefreshedInvoice, Paid, Allocated
    <2>2. /\ Money(c)' = Money(c) /\ Allocated(c.payment)' = Allocated(c.payment)
          /\ \A i : Paid(i)' = Paid(i)
      BY DEF Money, Paid, Allocated
    <2> QED
      BY <1>2, <2>1, <2>2 DEF Fits
  <1>3. BookingsFit'
    BY <1>2 DEF MoneyInv, BookingsFit
  <1> QED
    BY <1>1, <1>3 DEF MoneyInv

LEMMA NewBookingFits ==
    ASSUME MoneyInv, NEW r, NEW op \in BookOps, NEW p \in Payments, NEW money, NEW rows,
           Book(r, op, p, money, rows),
           op = "import" <=> pstatus[p] = "NONE",
           \A x \in rows :
              /\ x.payment = p
              /\ istatus[x.invoice] # "NONE"
              /\ Paid(x.invoice) + x.amount <= total[x.invoice]
              /\ x.amount > 0 => ~reversed[p] /\ istatus[x.invoice] # "CANCELLED",
           Allocated(p) + SumOf(rows) <= IF op = "import" THEN money ELSE amount[p]
    PROVE  MoneyInv'
  <1> DEFINE d == [req |-> r, op |-> op, refreshed |-> FALSE, payment |-> p,
                   money |-> money, rows |-> rows, pnew |-> "NONE",
                   inew |-> [i \in Invoices |-> "NONE"]]
  <1>1. calls' = calls \cup {d}
        /\ UNCHANGED <<istatus, total, pstatus, amount, reversed, allocs>>
    BY DEF Book, invoiceVars, paymentVars
  <1>2. /\ d.op = op /\ d.payment = p /\ d.money = money /\ d.rows = rows
        /\ d.refreshed = FALSE
    OBVIOUS
  <1> HIDE DEF d
  <1>3. Fits(d)
    BY <1>2 DEF Fits, Money
  <1> QED
    BY <1>1, <1>3, NewCallFits

\* allocatePayment: the amount was free and open.
LEMMA AllocateFits ==
    ASSUME TypeInv, MoneyInv, NEW r \in Requests, NEW p \in Payments, NEW i \in Invoices,
           NEW a \in Amounts, allocateRead(r, p, i, a)
    PROVE  MoneyInv'
  <1> DEFINE x == [payment |-> p, invoice |-> i, amount |-> a, reverses |-> 0]
             rows == {x}
  <1>1. /\ Book(r, "allocate", p, 0, rows) /\ pstatus[p] # "NONE" /\ ~reversed[p]
        /\ istatus[i] \notin {"NONE", "CANCELLED"} /\ a <= Free(p) /\ a <= Open(i)
    BY DEF allocateRead
  <1>2. /\ Paid(i) \in Int /\ total[i] \in Nat /\ Allocated(p) \in Int /\ amount[p] \in Nat
        /\ a \in Int
    BY BalanceTypes, LedgerAssumption
  <1>3. x.payment = p /\ x.invoice = i /\ x.amount = a
    OBVIOUS
  <1> HIDE DEF x
  <1>4. SumOf(rows) = a
    BY <1>2, <1>3, SumOfOne
  <1>5. Paid(i) + a <= total[i] /\ Allocated(p) + a <= amount[p]
    BY <1>1, <1>2 DEF Free, Open
  <1>6. \A y \in rows : /\ y.payment = p /\ istatus[y.invoice] # "NONE"
                        /\ Paid(y.invoice) + y.amount <= total[y.invoice]
                        /\ ~reversed[p] /\ istatus[y.invoice] # "CANCELLED"
    BY <1>1, <1>3, <1>5
  <1> HIDE DEF rows
  <1> QED
    BY <1>1, <1>4, <1>5, <1>6, NewBookingFits DEF BookOps

\* reverseAllocation: money goes back.
LEMMA TakeBackFits ==
    ASSUME TypeInv, MoneyInv, NEW r \in Requests, NEW x \in allocs,
           reverseAllocationRead(r, x)
    PROVE  MoneyInv'
  <1> DEFINE y == [payment |-> x.payment, invoice |-> x.invoice, amount |-> -x.amount,
                   reverses |-> x.id]
             rows == {y}
  <1>1. Book(r, "reverseAllocation", x.payment, 0, rows) /\ x.amount > 0
    BY DEF reverseAllocationRead
  <1>2. x.payment \in Payments /\ x.invoice \in Invoices /\ x.amount \in Int
    BY DEF TypeInv, TypeOK, Row
  <1>3. /\ Paid(x.invoice) \in Int /\ total[x.invoice] \in Nat
        /\ Allocated(x.payment) \in Int /\ amount[x.payment] \in Nat
        /\ Paid(x.invoice) <= total[x.invoice] /\ Allocated(x.payment) <= amount[x.payment]
        /\ istatus[x.invoice] # "NONE" /\ pstatus[x.payment] # "NONE"
    BY <1>2, BalanceTypes DEF MoneyInv, NothingOverallocated, Fresh
  <1>4. /\ y.payment = x.payment /\ y.invoice = x.invoice /\ y.amount = -x.amount
        /\ y.amount \in Int /\ ~(y.amount > 0)
    BY <1>1, <1>2
  <1> HIDE DEF y
  <1>5. SumOf(rows) = y.amount
    BY <1>4, SumOfOne
  <1>6. /\ Paid(x.invoice) + y.amount <= total[x.invoice]
        /\ Allocated(x.payment) + y.amount <= amount[x.payment]
    BY <1>1, <1>2, <1>3, <1>4
  <1>7. \A z \in rows : /\ z.payment = x.payment /\ istatus[z.invoice] # "NONE"
                        /\ Paid(z.invoice) + z.amount <= total[z.invoice]
                        /\ ~(z.amount > 0)
    BY <1>3, <1>4, <1>6
  <1> HIDE DEF rows
  <1> QED
    BY <1>1, <1>2, <1>3, <1>5, <1>6, <1>7, NewBookingFits DEF BookOps

\* reversePaymentInTx: from every invoice the rest of the payment goes back.
LEMMA ReverseFits ==
    ASSUME TypeInv, MoneyInv, NEW r \in Requests, NEW p \in Payments,
           reversePaymentRead(r, p)
    PROVE  MoneyInv'
  <1> DEFINE held == {i \in Invoices : netAllocations(p, i) > 0}
             F == [i \in held |-> [payment |-> p, invoice |-> i,
                                   amount |-> -netAllocations(p, i), reverses |-> 0]]
             rows == {F[i] : i \in held}
  <1>1. Book(r, "reversePayment", p, 0, rows) /\ pstatus[p] # "NONE"
    BY DEF reversePaymentRead
  <1>2. IsFiniteSet(rows)
    <2>1. IsFiniteSet(Invoices) /\ held \subseteq Invoices
      BY FS_Interval, LedgerAssumption DEF Invoices
    <2> HIDE DEF held
    <2>2. IsFiniteSet(held)
      BY <2>1, FS_Subset
    <2> HIDE DEF F
    <2> QED
      BY <2>2, ImageIsFinite
  <1>3. ASSUME NEW x \in rows
        PROVE  /\ x.payment = p /\ x.amount \in Int /\ x.amount <= 0
               /\ x.invoice \in Invoices /\ istatus[x.invoice] # "NONE"
               /\ Paid(x.invoice) + x.amount <= total[x.invoice]
    <2>1. PICK i \in Invoices : /\ netAllocations(p, i) > 0
                                /\ x.payment = p /\ x.invoice = i
                                /\ x.amount = -netAllocations(p, i)
      OBVIOUS
    <2>2. /\ netAllocations(p, i) \in Int /\ Paid(i) \in Int /\ total[i] \in Nat
          /\ Paid(i) <= total[i]
      BY BalanceTypes DEF MoneyInv, NothingOverallocated
    <2>3. istatus[i] # "NONE"
      <3> SUFFICES ASSUME istatus[i] = "NONE" PROVE FALSE
        OBVIOUS
      <3>1. {y \in allocs : y.payment = p /\ y.invoice = i} = {}
        BY DEF MoneyInv, Fresh
      <3>2. netAllocations(p, i) = 0
        BY <3>1, SumOfNone DEF netAllocations
      <3> QED
        BY <2>1, <3>2
    <2> HIDE DEF rows
    <2> QED
      BY <2>1, <2>2, <2>3
  <1> HIDE DEF rows
  <1>4. SumOf(rows) <= 0 /\ SumOf(rows) \in Int
    BY <1>2, <1>3, SumOfNegative, SumOfType
  <1>5. Allocated(p) + SumOf(rows) <= amount[p]
    <2>1. Allocated(p) \in Int /\ amount[p] \in Nat /\ Allocated(p) <= amount[p]
      BY BalanceTypes DEF MoneyInv, NothingOverallocated
    <2> QED
      BY <1>4, <2>1
  <1>6. \A x \in rows : ~(x.amount > 0)
    BY <1>3
  <1> QED
    BY <1>1, <1>3, <1>5, <1>6, NewBookingFits DEF BookOps

\* An imported row is cut to what its invoice has open.
LEMMA ImportFits ==
    ASSUME TypeInv, MoneyInv, NEW r \in Requests, NEW p \in Payments, NEW i \in Invoices,
           NEW a \in Amounts, importRead(r, p, a, i)
    PROVE  MoneyInv'
  <1> DEFINE fit == IF Open(i) < a THEN Open(i) ELSE a
             x == [payment |-> p, invoice |-> i, amount |-> fit, reverses |-> 0]
             rows == IF istatus[i] = "CANCELLED" \/ fit <= 0 THEN {} ELSE {x}
  <1>1. Book(r, "import", p, a, rows) /\ pstatus[p] = "NONE" /\ istatus[i] # "NONE"
    BY DEF importRead, NewPayment
  <1>2. /\ Paid(i) \in Int /\ total[i] \in Nat /\ a \in Nat
        /\ fit \in Int /\ fit <= a /\ Paid(i) + fit <= total[i]
    BY BalanceTypes, LedgerAssumption DEF Open
  <1>3. x.payment = p /\ x.invoice = i /\ x.amount = fit
    OBVIOUS
  <1>4. Allocated(p) = 0 /\ ~reversed[p]
    BY <1>1, FreshIsZero DEF MoneyInv, Fresh
  <1> HIDE DEF x, fit
  <1>5. SumOf(rows) <= a /\ SumOf(rows) \in Int
    <2>1. CASE rows = {}
      BY <2>1, <1>2, SumOfNone
    <2>2. CASE rows = {x}
      BY <2>2, <1>2, <1>3, SumOfOne
    <2> QED
      BY <2>1, <2>2
  <1>6. \A y \in rows : /\ y.payment = p /\ istatus[y.invoice] # "NONE"
                        /\ Paid(y.invoice) + y.amount <= total[y.invoice]
                        /\ ~reversed[p] /\ istatus[y.invoice] # "CANCELLED"
    BY <1>1, <1>2, <1>3, <1>4
  <1> HIDE DEF rows
  <1>7. Allocated(p) + SumOf(rows) <= a
    BY <1>4, <1>5
  <1> QED
    BY <1>1, <1>6, <1>7, NewBookingFits DEF BookOps

LEMMA ReadFits ==
    ASSUME TypeInv, MoneyInv, NEW r \in Requests, Read(r)
    PROVE  MoneyInv'
  <1>1. ASSUME NEW i \in Invoices, cancelInvoiceRead(r, i)
        PROVE MoneyInv'
    <2> DEFINE d == [req |-> r, op |-> "cancelInvoice", invoice |-> i]
    <2>1. /\ calls' = calls \cup {d} /\ d.op = "cancelInvoice"
          /\ UNCHANGED <<istatus, total, pstatus, amount, reversed, allocs>>
      BY <1>1 DEF cancelInvoiceRead, invoiceVars, paymentVars
    <2> HIDE DEF d
    <2> QED
      BY <2>1, NewCallFits DEF BookOps
  <1>2. ASSUME NEW i \in Invoices, NEW t \in Amounts \cup {0}, correctInvoiceRead(r, i, t)
        PROVE MoneyInv'
    <2> DEFINE d == [req |-> r, op |-> "correctInvoice", invoice |-> i, newTotal |-> t]
    <2>1. /\ calls' = calls \cup {d} /\ d.op = "correctInvoice"
          /\ UNCHANGED <<istatus, total, pstatus, amount, reversed, allocs>>
      BY <1>2 DEF correctInvoiceRead, invoiceVars, paymentVars
    <2> HIDE DEF d
    <2> QED
      BY <2>1, NewCallFits DEF BookOps
  <1>3. ASSUME NEW b \in Batches, issueBatchRead(r, b)
        PROVE MoneyInv'
    <2> DEFINE d == [req |-> r, op |-> "issueBatch", batch |-> b]
    <2>1. /\ calls' = calls \cup {d} /\ d.op = "issueBatch"
          /\ UNCHANGED <<istatus, total, pstatus, amount, reversed, allocs>>
      BY <1>3 DEF issueBatchRead, invoiceVars, paymentVars
    <2> HIDE DEF d
    <2> QED
      BY <2>1, NewCallFits DEF BookOps
  <1> QED
    BY <1>1, <1>2, <1>3, ReverseFits, AllocateFits, ImportFits, TakeBackFits DEF Read

LEMMA RefreshFits ==
    ASSUME TypeInv, MoneyInv, NEW c \in calls, Refresh(c)
    PROVE  MoneyInv'
  <1> DEFINE inew == [i \in Invoices |-> RefreshedInvoice(c, i)]
             d == [c EXCEPT !.refreshed = TRUE, !.pnew = RefreshedPayment(c), !.inew = inew]
  <1>1. /\ calls' \subseteq calls \cup {d} /\ c.op \in BookOps
        /\ UNCHANGED <<istatus, total, pstatus, amount, reversed, allocs>>
    BY DEF Refresh, invoiceVars, paymentVars
  <1>2. c \in Booking /\ Fits(c)
    BY <1>1, CallKinds DEF TypeInv, TypeOK, MoneyInv, BookingsFit
  <1>3. \A i \in Invoices : inew[i] = RefreshedInvoice(c, i)
    OBVIOUS
  <1> HIDE DEF inew
  <1>4. /\ d.op = c.op /\ d.payment = c.payment /\ d.money = c.money /\ d.rows = c.rows
        /\ d.pnew = RefreshedPayment(c) /\ d.inew = inew
    BY <1>2 DEF Booking
  <1> HIDE DEF d
  <1>5. /\ RefreshedPayment(d) = RefreshedPayment(c)
        /\ \A i \in Invoices : RefreshedInvoice(d, i) = RefreshedInvoice(c, i)
        /\ Money(d) = Money(c)
    BY <1>4 DEF RefreshedPayment, RefreshedInvoice, Money
  <1>6. Fits(d)
    BY <1>2, <1>3, <1>4, <1>5 DEF Fits
  <1> QED
    BY <1>1, <1>6, NewCallFits

\* Invoices are issued, or leave the owner's balance when no booking is on.
LEMMA InvoicesFit ==
    ASSUME TypeInv, MoneyInv, UNCHANGED <<pstatus, amount, reversed, allocs>>,
           calls' \subseteq calls,
           \A i \in Invoices :
              \/ istatus'[i] = istatus[i] /\ total'[i] = total[i]
              \/ istatus[i] = "NONE" /\ istatus'[i] = "ISSUED" /\ total'[i] \in Nat
              \/ /\ istatus'[i] \in {"CANCELLED", "CORRECTED"} /\ total'[i] = total[i]
                 /\ istatus[i] # "NONE" /\ calls' = {}
    PROVE  MoneyInv'
  <1>1. /\ \A i : Paid(i)' = Paid(i)
        /\ \A p : Allocated(p)' = Allocated(p)
    BY DEF Paid, Allocated
  <1>2. \A x \in allocs : x.invoice \in Invoices
    BY DEF TypeInv, TypeOK, Row
  <1>3. Fresh'
    BY <1>2 DEF MoneyInv, Fresh
  <1>4. NothingOverallocated'
    <2>1. ASSUME NEW i \in Invoices PROVE Paid(i)' <= total'[i]
      <3>1. Paid(i) <= total[i] /\ (istatus[i] = "NONE" => Paid(i) = 0)
        BY FreshIsZero DEF MoneyInv, NothingOverallocated
      <3>2. CASE istatus[i] = "NONE" /\ istatus'[i] = "ISSUED" /\ total'[i] \in Nat
        BY <1>1, <3>1, <3>2
      <3> QED
        BY <1>1, <3>1, <3>2
    <2> QED
      BY <1>1, <2>1 DEF MoneyInv, NothingOverallocated
  <1>5. StatusFollowsLedger'
    <2>1. ASSUME NEW i \in Invoices, istatus'[i] \in {"ISSUED", "PAID"}
          PROVE  istatus'[i] = InvoiceStatusFor(total'[i], Paid(i)')
      <3>1. CASE istatus[i] = "NONE" /\ istatus'[i] = "ISSUED" /\ total'[i] \in Nat
        <4>1. Paid(i)' = 0
          BY <1>1, <3>1, FreshIsZero DEF MoneyInv
        <4> QED
          BY <3>1, <4>1 DEF InvoiceStatusFor
      <3>2. CASE istatus'[i] = istatus[i] /\ total'[i] = total[i]
        BY <1>1, <2>1, <3>2 DEF MoneyInv, StatusFollowsLedger
      <3> QED
        BY <2>1, <3>1, <3>2
    <2> QED
      BY <1>1, <2>1 DEF MoneyInv, StatusFollowsLedger
  <1>6. ASSUME NEW c \in calls', c.op \in BookOps PROVE Fits(c)'
    <2>1. c \in calls /\ c \in Booking /\ Fits(c)
      BY <1>6, CallKinds DEF TypeInv, TypeOK, MoneyInv, BookingsFit
    <2>2. \A x \in c.rows : x.invoice \in Invoices
      BY <2>1 DEF Booking, NewRow
    <2>3. \A i \in Invoices : istatus[i] # "NONE" =>
              istatus'[i] = istatus[i] /\ total'[i] = total[i]
      BY <1>6
    <2>4. RefreshedPayment(c)' = RefreshedPayment(c) /\ Money(c)' = Money(c)
      BY DEF RefreshedPayment, Allocated, Money
    <2>5. ASSUME NEW i \in Invoices
          PROVE  RefreshedInvoice(c, i)' = RefreshedInvoice(c, i)
      <3>1. CASE istatus[i] # "NONE"
        BY <1>1, <2>3, <3>1 DEF RefreshedInvoice
      <3>2. CASE istatus[i] = "NONE"
        <4>1. {x \in c.rows : x.invoice = i} = {}
          BY <2>1, <3>2 DEF Fits
        <4> QED
          BY <4>1 DEF RefreshedInvoice
      <3> QED
        BY <3>1, <3>2
    <2> QED
      BY <1>1, <2>1, <2>2, <2>3, <2>4, <2>5 DEF Fits
  <1>7. BookingsFit'
    BY <1>6 DEF BookingsFit
  <1> QED
    BY <1>3, <1>4, <1>5, <1>7 DEF MoneyInv

\* A payment that nobody books is entered.
LEMMA EnterFits ==
    ASSUME TypeInv, MoneyInv, NEW p \in Payments, NEW a \in Amounts, enterPayment(p, a)
    PROVE  MoneyInv'
  <1>1. /\ pstatus[p] = "NONE" /\ \A c \in calls : c.op \in BookOps => c.payment # p
        /\ pstatus' = [pstatus EXCEPT ![p] = "UNAPPLIED"]
        /\ amount' = [amount EXCEPT ![p] = a]
        /\ UNCHANGED <<reversed, istatus, total, allocs, calls>>
    BY DEF enterPayment, NewPayment, invoiceVars
  <1>2. /\ \A q \in Payments : pstatus'[q] = IF q = p THEN "UNAPPLIED" ELSE pstatus[q]
        /\ \A q \in Payments : amount'[q] = IF q = p THEN a ELSE amount[q]
    BY <1>1 DEF TypeInv, TypeOK
  <1>3. /\ \A i : Paid(i)' = Paid(i)
        /\ \A q : Allocated(q)' = Allocated(q)
    BY <1>1 DEF Paid, Allocated
  <1>4. Allocated(p) = 0 /\ ~reversed[p] /\ a \in Nat
    BY <1>1, FreshIsZero, LedgerAssumption DEF MoneyInv, Fresh
  <1>5. Fresh'
    <2>1. \A x \in allocs : x.payment \in Payments
      BY DEF TypeInv, TypeOK, Row
    <2> QED
      BY <1>1, <1>2, <2>1 DEF MoneyInv, Fresh
  <1>6. NothingOverallocated'
    BY <1>1, <1>2, <1>3, <1>4 DEF MoneyInv, NothingOverallocated
  <1>7. StatusFollowsLedger'
    BY <1>1, <1>2, <1>3, <1>4 DEF MoneyInv, StatusFollowsLedger, PaymentStatusFor
  <1>8. ASSUME NEW c \in calls, c.op \in BookOps PROVE Fits(c)'
    <2>1. c.payment \in Payments /\ c.payment # p /\ Fits(c)
      BY <1>1, <1>8, CallKinds DEF TypeInv, TypeOK, Booking, MoneyInv, BookingsFit
    <2>2. pstatus'[c.payment] = pstatus[c.payment] /\ amount'[c.payment] = amount[c.payment]
      BY <1>2, <2>1
    <2>3. /\ RefreshedPayment(c)' = RefreshedPayment(c) /\ Money(c)' = Money(c)
          /\ \A i \in Invoices : RefreshedInvoice(c, i)' = RefreshedInvoice(c, i)
      BY <1>1, <1>3, <2>2 DEF RefreshedPayment, RefreshedInvoice, Money
    <2> QED
      BY <1>1, <1>3, <2>1, <2>2, <2>3 DEF Fits
  <1>9. BookingsFit'
    BY <1>1, <1>8 DEF BookingsFit
  <1> QED
    BY <1>5, <1>6, <1>7, <1>9 DEF MoneyInv

\* What storing a booking does to the balances.
LEMMA StoreBalances ==
    ASSUME TypeInv, RowInv, MoneyInv, NEW c \in calls, Store(c)
    PROVE  /\ \A i \in Invoices :
                 \/ /\ {x \in c.rows : x.invoice = i} = {}
                    /\ Paid(i)' = Paid(i)
                 \/ \E w \in c.rows :
                       /\ w.invoice = i /\ {x \in c.rows : x.invoice = i} = {w}
                       /\ Paid(i)' = Paid(i) + w.amount
                       /\ SumOf({x \in c.rows : x.invoice = i}) = w.amount
           /\ \A p \in Payments :
                 Allocated(p)' = IF p = c.payment THEN Allocated(p) + SumOf(c.rows)
                                 ELSE Allocated(p)
  <1>1. /\ c \in Booking /\ Fits(c) /\ IsFiniteSet(c.rows) /\ GoodRows(c.rows)
        /\ c.op \in BookOps
    BY CallKinds DEF Store, TypeInv, TypeOK, RowsFinite, MoneyInv, BookingsFit, RowInv,
      CallsNameRows
  <1>2. \A w \in c.rows : /\ w.amount \in Int /\ w.invoice \in Invoices
                          /\ w.payment = c.payment
    BY <1>1 DEF Booking, NewRow, Fits
  <1> DEFINE new == Numbered(c.rows)
  <1>3. /\ allocs' = allocs \cup new
        /\ \A x \in new :
              \E w \in c.rows : /\ x.payment = w.payment /\ x.invoice = w.invoice
                               /\ x.amount = w.amount /\ x.reverses = w.reverses
                               /\ x.id = Cardinality(RowsOf(x.invoice)) + 1
        /\ \A x, y \in new : x.invoice = y.invoice => x = y
    BY StoreNumbers
  <1>4. ASSUME NEW w \in c.rows
        PROVE  \E x \in new : x.invoice = w.invoice /\ x.amount = w.amount
    <2> DEFINE y == [id |-> Cardinality(RowsOf(w.invoice)) + 1, payment |-> w.payment,
                     invoice |-> w.invoice, amount |-> w.amount, reverses |-> w.reverses]
    <2>1. y \in new
      BY DEF Numbered
    <2>2. y.invoice = w.invoice /\ y.amount = w.amount
      OBVIOUS
    <2> QED
      BY <2>1, <2>2
  <1>5. new \subseteq Row /\ IsFiniteSet(new)
    BY NumberedTypes
  <1>6. SumOf(new) = SumOf(c.rows)
    BY <1>1, <1>2, SumOfNumbered
  <1>7. ASSUME NEW x \in new PROVE x \notin allocs /\ x.payment = c.payment
    <2>1. x.payment = c.payment /\ x.id = Cardinality(RowsOf(x.invoice)) + 1
          /\ x.invoice \in Invoices
      BY <1>2, <1>3
    <2>2. Cardinality(RowsOf(x.invoice)) \in Nat
      BY <2>1, FS_CardinalityType DEF RowInv, RowsNumbered
    <2>3. x \in allocs => x.id \in 1 .. Cardinality(RowsOf(x.invoice))
      BY DEF RowInv, RowsNumbered
    <2> QED
      BY <2>1, <2>2, <2>3
  <1>8. \A x \in allocs \cup new : x.amount \in Int
    BY <1>5 DEF TypeInv, TypeOK, Row
  <1> HIDE DEF new
  <1>9. ASSUME NEW i \in Invoices
        PROVE  \/ /\ {x \in c.rows : x.invoice = i} = {}
                  /\ Paid(i)' = Paid(i)
               \/ \E w \in c.rows :
                     /\ w.invoice = i /\ {x \in c.rows : x.invoice = i} = {w}
                     /\ Paid(i)' = Paid(i) + w.amount
                     /\ SumOf({x \in c.rows : x.invoice = i}) = w.amount
    <2> DEFINE before == {x \in allocs : x.invoice = i}
               after == {x \in allocs' : x.invoice = i}
    <2>1. Paid(i) = SumOf(before) /\ Paid(i)' = SumOf(after)
      BY DEF Paid
    <2>2. IsFiniteSet(before)
      BY PartType
    <2>3. CASE {x \in c.rows : x.invoice = i} = {}
      <3>1. after = before
        BY <1>3, <2>3
      <3> QED
        BY <2>1, <2>3, <3>1
    <2>4. ASSUME NEW w \in c.rows, w.invoice = i
          PROVE  /\ {x \in c.rows : x.invoice = i} = {w}
                 /\ Paid(i)' = Paid(i) + w.amount
                 /\ SumOf({x \in c.rows : x.invoice = i}) = w.amount
      <3>1. {x \in c.rows : x.invoice = i} = {w}
        BY <1>1, <2>4 DEF GoodRows
      <3>2. PICK x \in new : x.invoice = i /\ x.amount = w.amount
        BY <1>4, <2>4
      <3>3. after = before \cup {x} /\ before \cap {x} = {}
        BY <1>3, <1>7, <3>2
      <3>4. IsFiniteSet({x}) /\ \A y \in before \cup {x} : y.amount \in Int
        BY <1>8, <3>2, FS_Singleton
      <3> HIDE DEF before, after
      <3>5. SumOf(after) = SumOf(before) + SumOf({x})
        BY <2>2, <3>3, <3>4, SumOfUnion
      <3>6. SumOf({x}) = w.amount /\ SumOf({w}) = w.amount
        BY <1>2, <3>2, SumOfOne
      <3> QED
        BY <2>1, <3>1, <3>5, <3>6
    <2> HIDE DEF before, after
    <2> QED
      BY <2>3, <2>4
  <1>10. ASSUME NEW p \in Payments
         PROVE  Allocated(p)' = IF p = c.payment THEN Allocated(p) + SumOf(c.rows)
                                ELSE Allocated(p)
    <2> DEFINE before == {x \in allocs : x.payment = p}
               after == {x \in allocs' : x.payment = p}
    <2>1. Allocated(p) = SumOf(before) /\ Allocated(p)' = SumOf(after)
      BY DEF Allocated
    <2>2. IsFiniteSet(before)
      BY PartType
    <2>3. CASE p # c.payment
      <3>1. after = before
        BY <1>3, <1>7, <2>3
      <3> QED
        BY <2>1, <2>3, <3>1
    <2>4. CASE p = c.payment
      <3>1. after = before \cup new /\ before \cap new = {}
        BY <1>3, <1>7, <2>4
      <3>2. \A y \in before \cup new : y.amount \in Int
        BY <1>8
      <3> HIDE DEF before, after
      <3>3. SumOf(after) = SumOf(before) + SumOf(new)
        BY <1>5, <2>2, <3>1, <3>2, SumOfUnion
      <3> QED
        BY <1>6, <2>1, <2>4, <3>3
    <2> QED
      BY <2>3, <2>4
  <1> QED
    BY <1>9, <1>10

\* A booking that fits and is alone stores what it promised.
LEMMA StoreFits ==
    ASSUME TypeInv, InvoiceInv, RowInv, SerialInv, MoneyInv, NEW c \in calls, Store(c)
    PROVE  MoneyInv'
  <1>1. c \in Booking /\ Fits(c) /\ c.refreshed /\ TypeOK
    BY CallKinds DEF Store, TypeInv, TypeOK, MoneyInv, BookingsFit
  <1>2. calls' = {}
    BY DEF Store, Finish, SerialInv, Alone
  <1> DEFINE p == c.payment
  <1>3. /\ p \in Payments /\ c.pnew = RefreshedPayment(c)
        /\ \A i \in Invoices : c.inew[i] = RefreshedInvoice(c, i)
        /\ c.money \in Amounts \cup {0}
    BY <1>1 DEF Booking, Fits
  <1>4. /\ pstatus' = [pstatus EXCEPT ![p] = c.pnew]
        /\ amount' = IF c.op = "import" THEN [amount EXCEPT ![p] = c.money] ELSE amount
        /\ reversed' = IF c.op = "reversePayment" THEN [reversed EXCEPT ![p] = TRUE]
                       ELSE reversed
        /\ istatus' = [i \in Invoices |-> IF c.inew[i] = "NONE" THEN istatus[i]
                                          ELSE c.inew[i]]
        /\ total' = total
    BY DEF Store
  <1> HIDE DEF p
  <1>5. ASSUME NEW q \in Payments
        PROVE  /\ pstatus'[q] = IF q = p THEN RefreshedPayment(c) ELSE pstatus[q]
               /\ amount'[q] = IF q = p THEN Money(c) ELSE amount[q]
               /\ reversed'[q] = IF q = p /\ c.op = "reversePayment" THEN TRUE
                                 ELSE reversed[q]
    <2>1. pstatus'[q] = IF q = p THEN RefreshedPayment(c) ELSE pstatus[q]
      BY <1>1, <1>3, <1>4 DEF TypeOK
    <2>2. amount'[q] = IF q = p THEN Money(c) ELSE amount[q]
      BY <1>1, <1>3, <1>4 DEF TypeOK, Money, p
    <2>3. reversed'[q] = IF q = p /\ c.op = "reversePayment" THEN TRUE ELSE reversed[q]
      BY <1>1, <1>3, <1>4 DEF TypeOK
    <2> QED
      BY <2>1, <2>2, <2>3
  <1>6. RefreshedPayment(c) \in PaymentStatus
    BY DEF RefreshedPayment, PaymentStatusFor, PaymentStatus
  <1>7. \A i \in Invoices : istatus[i] # "NONE" => istatus'[i] # "NONE"
    BY <1>4
  <1>8. Fresh'
    <2>1. ASSUME NEW x \in allocs'
          PROVE  istatus'[x.invoice] # "NONE" /\ pstatus'[x.payment] # "NONE"
      <3>1. CASE x \in allocs
        <4>1. x.invoice \in Invoices /\ x.payment \in Payments
          BY <1>1, <3>1 DEF TypeOK, Row
        <4>2. istatus[x.invoice] # "NONE" /\ pstatus[x.payment] # "NONE"
          BY <3>1 DEF MoneyInv, Fresh
        <4> QED
          BY <1>5, <1>6, <1>7, <4>1, <4>2 DEF PaymentStatus
      <3>2. CASE x \in Numbered(c.rows)
        <4>1. PICK w \in c.rows : x.payment = w.payment /\ x.invoice = w.invoice
          BY <3>2 DEF Numbered
        <4>2. w.invoice \in Invoices /\ istatus[w.invoice] # "NONE" /\ w.payment = p
          BY <1>1 DEF Booking, NewRow, Fits, p
        <4> QED
          BY <1>3, <1>5, <1>6, <1>7, <4>1, <4>2 DEF PaymentStatus
      <3> QED
        BY <2>1, <3>1, <3>2 DEF Store
    <2>2. ASSUME NEW q \in Payments, pstatus'[q] = "NONE" PROVE ~reversed'[q]
      <3>1. q # p
        BY <1>5, <1>6, <2>2 DEF PaymentStatus
      <3> QED
        BY <1>5, <2>2, <3>1 DEF MoneyInv, Fresh
    <2> QED
      BY <2>1, <2>2 DEF Fresh
  <1>9. ASSUME NEW i \in Invoices
        PROVE  /\ Paid(i)' <= total'[i]
               /\ istatus'[i] \in {"ISSUED", "PAID"} =>
                     istatus'[i] = InvoiceStatusFor(total'[i], Paid(i)')
    <2>1. c.inew[i] = RefreshedInvoice(c, i)
          /\ istatus'[i] = IF c.inew[i] = "NONE" THEN istatus[i] ELSE c.inew[i]
      BY <1>3, <1>4
    <2>2. CASE {x \in c.rows : x.invoice = i} = {} /\ Paid(i)' = Paid(i)
      <3>1. c.inew[i] = "NONE"
        BY <2>1, <2>2 DEF RefreshedInvoice
      <3> QED
        BY <1>4, <2>1, <2>2, <3>1 DEF MoneyInv, NothingOverallocated, StatusFollowsLedger
    <2>3. ASSUME NEW w \in c.rows, w.invoice = i, {x \in c.rows : x.invoice = i} = {w},
                 Paid(i)' = Paid(i) + w.amount,
                 SumOf({x \in c.rows : x.invoice = i}) = w.amount
          PROVE  /\ Paid(i)' <= total'[i]
                 /\ istatus'[i] \in {"ISSUED", "PAID"} =>
                       istatus'[i] = InvoiceStatusFor(total'[i], Paid(i)')
      <3>1. Paid(i)' <= total'[i]
        BY <1>1, <1>4, <2>3 DEF Fits
      <3>2. CASE istatus[i] \in {"ISSUED", "PAID"}
        <4>1. c.inew[i] = InvoiceStatusFor(total[i], Paid(i) + w.amount)
          BY <2>1, <2>3, <3>2 DEF RefreshedInvoice
        <4>2. c.inew[i] # "NONE"
          BY <4>1 DEF InvoiceStatusFor
        <4> QED
          BY <1>4, <2>1, <2>3, <3>1, <4>1, <4>2
      <3>3. CASE istatus[i] \notin {"ISSUED", "PAID"}
        <4>1. c.inew[i] = "NONE"
          BY <2>1, <3>3 DEF RefreshedInvoice
        <4> QED
          BY <2>1, <3>1, <3>3, <4>1
      <3> QED
        BY <3>2, <3>3
    <2> QED
      BY <2>2, <2>3, StoreBalances
  <1>10. ASSUME NEW q \in Payments
         PROVE  /\ Allocated(q)' <= amount'[q]
                /\ pstatus'[q] # "NONE" =>
                      pstatus'[q] = IF reversed'[q] THEN "REVERSED"
                                    ELSE PaymentStatusFor(amount'[q], Allocated(q)')
    <2>1. CASE q # p
      <3>1. Allocated(q)' = Allocated(q)
        BY <2>1, StoreBalances DEF p
      <3> QED
        BY <1>5, <2>1, <3>1 DEF MoneyInv, NothingOverallocated, StatusFollowsLedger
    <2>2. CASE q = p
      <3>1. Allocated(q)' = Allocated(p) + SumOf(c.rows)
        BY <1>3, <2>2, StoreBalances DEF p
      <3>2. amount'[q] = Money(c) /\ pstatus'[q] = RefreshedPayment(c)
            /\ reversed'[q] = IF c.op = "reversePayment" THEN TRUE ELSE reversed[p]
        BY <1>5, <2>2
      <3>3. Allocated(p) + SumOf(c.rows) <= Money(c)
        BY <1>1 DEF Fits, p
      <3>4. RefreshedPayment(c) =
              IF c.op = "reversePayment" \/ reversed[p] THEN "REVERSED"
              ELSE PaymentStatusFor(Money(c), Allocated(p) + SumOf(c.rows))
        BY DEF RefreshedPayment, Money, p
      <3> QED
        BY <3>1, <3>2, <3>3, <3>4
    <2> QED
      BY <2>1, <2>2
  <1>11. NothingOverallocated' /\ StatusFollowsLedger'
    BY <1>9, <1>10 DEF NothingOverallocated, StatusFollowsLedger
  <1>12. BookingsFit'
    BY <1>2 DEF BookingsFit
  <1> QED
    BY <1>8, <1>11, <1>12 DEF MoneyInv

LEMMA CommitFits ==
    ASSUME TypeInv, InvoiceInv, RowInv, SerialInv, MoneyInv, NEW c \in calls, Commit(c)
    PROVE  MoneyInv'
  <1>1. c \in Call /\ TypeOK /\ calls \ {c} = {} /\ Guarded(c)
    BY DEF TypeInv, TypeOK, SerialInv, Alone
  <1>2. CASE cancelInvoiceCommit(c)
    <2>1. /\ UNCHANGED <<pstatus, amount, reversed, allocs, total>> /\ calls' = {}
          /\ istatus' = [istatus EXCEPT ![c.invoice] = "CANCELLED"]
      BY <1>1, <1>2 DEF cancelInvoiceCommit, Finish, paymentVars
    <2>2. c.invoice \in Invoices /\ istatus[c.invoice] # "NONE"
      BY <1>2 DEF cancelInvoiceCommit, InvoiceInv, CallsKnowInvoices
    <2>3. \A i \in Invoices :
              istatus'[i] = IF i = c.invoice THEN "CANCELLED" ELSE istatus[i]
      BY <1>1, <2>1, <2>2 DEF TypeOK
    <2> QED
      BY <2>1, <2>2, <2>3, InvoicesFit
  <1>3. CASE correctInvoiceCommit(c)
    <2>1. PICK n \in Invoices :
              /\ NextNumber(n)
              /\ istatus' = [istatus EXCEPT ![n] = "ISSUED", ![c.invoice] = "CORRECTED"]
              /\ total' = [total EXCEPT ![n] = c.newTotal]
      BY <1>3 DEF correctInvoiceCommit
    <2>2. /\ UNCHANGED <<pstatus, amount, reversed, allocs>> /\ calls' = {}
      BY <1>1, <1>3 DEF correctInvoiceCommit, Finish, paymentVars
    <2>3. c.invoice \in Invoices /\ istatus[c.invoice] = "ISSUED" /\ c.invoice # n
          /\ istatus[n] = "NONE"
      BY <1>1, <1>3, <2>1 DEF correctInvoiceCommit, InvoiceInv, CallsKnowInvoices, Guarded,
        NextNumber
    <2>4. c.newTotal \in Nat
      BY <1>1, <1>3, CallKinds, LedgerAssumption DEF correctInvoiceCommit, CorrectCall
    <2>5. \A i \in Invoices :
              /\ istatus'[i] = IF i = c.invoice THEN "CORRECTED"
                               ELSE IF i = n THEN "ISSUED" ELSE istatus[i]
              /\ total'[i] = IF i = n THEN c.newTotal ELSE total[i]
      BY <1>1, <2>1, <2>3 DEF TypeOK
    <2> QED
      BY <2>2, <2>3, <2>4, <2>5, InvoicesFit
  <1>4. CASE issueBatchCommit(c)
    <2>1. PICK n \in Invoices :
              /\ NextNumber(n)
              /\ istatus' = [i \in Invoices |-> IF i \in n .. n + UnitCount - 1
                                               THEN "ISSUED" ELSE istatus[i]]
              /\ total' = [i \in Invoices |-> IF i \in n .. n + UnitCount - 1
                                             THEN preview[c.batch][i - n + 1] ELSE total[i]]
      BY <1>4 DEF issueBatchCommit
    <2>2. /\ UNCHANGED <<pstatus, amount, reversed, allocs>> /\ calls' \subseteq calls
      BY <1>4 DEF issueBatchCommit, Finish, paymentVars
    <2>3. \A i \in Invoices : i \in n .. n + UnitCount - 1 =>
              istatus[i] = "NONE" /\ i - n + 1 \in Units
      BY <2>1, FreshIsNext, LedgerAssumption DEF InvoiceInv, Invoices, Units
    <2>4. preview[c.batch] \in [Units -> Amounts \cup {0}]
      BY <1>1, <1>4, CallKinds DEF issueBatchCommit, IssueCall, TypeOK
    <2>5. \A a \in Amounts \cup {0} : a \in Nat
      BY LedgerAssumption
    <2>6. \A i \in Invoices : i \in n .. n + UnitCount - 1 =>
              istatus[i] = "NONE" /\ istatus'[i] = "ISSUED" /\ total'[i] \in Nat
      BY <2>1, <2>3, <2>4, <2>5
    <2>7. \A i \in Invoices : i \notin n .. n + UnitCount - 1 =>
              istatus'[i] = istatus[i] /\ total'[i] = total[i]
      BY <2>1
    <2> QED
      BY <2>2, <2>6, <2>7, InvoicesFit
  <1> QED
    BY <1>2, <1>3, <1>4, RefreshFits, StoreFits DEF Commit

LEMMA NextFits ==
    ASSUME TypeInv, InvoiceInv, RowInv, SerialInv, MoneyInv, [Next]_vars
    PROVE  MoneyInv'
  <1>1. ASSUME NEW t \in Amounts, issueSingleInvoice(t) PROVE MoneyInv'
    <2>1. PICK n \in Invoices : /\ NextNumber(n)
                                /\ istatus' = [istatus EXCEPT ![n] = "ISSUED"]
                                /\ total' = [total EXCEPT ![n] = t]
      BY <1>1 DEF issueSingleInvoice
    <2>2. UNCHANGED <<pstatus, amount, reversed, allocs, calls>>
      BY <1>1 DEF issueSingleInvoice, paymentVars
    <2>3. istatus[n] = "NONE" /\ t \in Nat
      BY <2>1, LedgerAssumption DEF NextNumber
    <2>4. \A i \in Invoices : /\ istatus'[i] = IF i = n THEN "ISSUED" ELSE istatus[i]
                              /\ total'[i] = IF i = n THEN t ELSE total[i]
      BY <2>1 DEF TypeInv, TypeOK
    <2> QED
      BY <2>2, <2>3, <2>4, InvoicesFit
  <1>2. ASSUME UNCHANGED <<istatus, total, pstatus, amount, reversed, allocs>>,
               calls' \subseteq calls
        PROVE  MoneyInv'
    <2> DEFINE d == [op |-> "none"]
    <2>1. d.op \notin BookOps /\ calls' \subseteq calls \cup {d}
      BY <1>2 DEF BookOps
    <2> HIDE DEF d
    <2> QED
      BY <1>2, <2>1, NewCallFits
  <1>3. ASSUME NEW b \in Batches, NEW amounts \in [Units -> Amounts],
               createDraftBatch(b, amounts)
        PROVE  MoneyInv'
    BY <1>2, <1>3 DEF createDraftBatch, invoiceVars, paymentVars
  <1>4. ASSUME NEW p \in Payments, cancelTransaction(p) PROVE MoneyInv'
    BY <1>2, <1>4 DEF cancelTransaction, invoiceVars
  <1>5. ASSUME NEW c \in calls, Abort(c) PROVE MoneyInv'
    BY <1>2, <1>5 DEF Abort, Finish, invoiceVars, paymentVars
  <1>6. CASE UNCHANGED vars
    BY <1>2, <1>6 DEF vars, invoiceVars, paymentVars
  <1> QED
    BY <1>1, <1>3, <1>4, <1>5, <1>6, EnterFits, ReadFits, CommitFits DEF Next

LEMMA MoneyHolds ==
    ASSUME \A q, r \in Requests : q = r
    PROVE  Spec => []MoneyInv
  <1>1. Init => MoneyInv
    <2> SUFFICES ASSUME Init PROVE MoneyInv
      OBVIOUS
    <2>1. Fresh /\ BookingsFit
      BY DEF Init, Fresh, BookingsFit
    <2>2. /\ \A i \in Invoices : istatus[i] = "NONE" /\ total[i] = 0
          /\ \A p \in Payments : pstatus[p] = "NONE" /\ amount[p] = 0
      BY DEF Init
    <2>3. NothingOverallocated
      BY <2>1, <2>2, FreshIsZero DEF NothingOverallocated
    <2>4. StatusFollowsLedger
      BY <2>2 DEF StatusFollowsLedger
    <2> QED
      BY <2>1, <2>3, <2>4 DEF MoneyInv
  <1>2. TypeInv /\ InvoiceInv /\ RowInv /\ SerialInv /\ MoneyInv /\ [Next]_vars => MoneyInv'
    BY NextFits
  <1> QED
    BY <1>1, <1>2, TypesHold, InvoicesHold, RowsHold, SerialHolds, PTL DEF Spec

\* One call at a time, no invoice takes more than its total and no payment
\* gives more than its amount, for any amounts, imports and reversals
\* (allocatePayment, importing rows, reversePaymentInTx).
THEOREM SerialNothingOverallocated ==
    ASSUME \A q, r \in Requests : q = r
    PROVE  Spec => []NothingOverallocated
  <1>1. MoneyInv => NothingOverallocated
    BY DEF MoneyInv
  <1> QED
    BY <1>1, MoneyHolds, PTL

\* One call at a time, the stored statuses of invoices and payments are those
\* that follow from the rows (refreshInvoiceStatus, refreshPaymentStatus).
THEOREM SerialStatusFollows ==
    ASSUME \A q, r \in Requests : q = r
    PROVE  Spec => []StatusFollowsLedger
  <1>1. MoneyInv => StatusFollowsLedger
    BY DEF MoneyInv
  <1> QED
    BY <1>1, MoneyHolds, PTL

\* One call at a time, money enters neither a cancelled invoice nor from a
\* reversed payment (allocatePayment, importing rows).
THEOREM SerialNoMoneyIntoDead ==
    ASSUME \A q, r \in Requests : q = r
    PROVE  Spec => NoMoneyIntoDead
  <1> DEFINE Alive == \A x \in allocs' \ allocs : x.amount > 0 =>
                         ~reversed[x.payment] /\ istatus[x.invoice] # "CANCELLED"
  <1>1. MoneyInv /\ [Next]_vars => [Alive]_vars
    <2> SUFFICES ASSUME MoneyInv, Next PROVE Alive
      OBVIOUS
    <2>1. CASE allocs' = allocs
      BY <2>1
    <2>2. ASSUME NEW c \in calls, Store(c) PROVE Alive
      <3> SUFFICES ASSUME NEW x \in allocs' \ allocs, x.amount > 0
                   PROVE  ~reversed[x.payment] /\ istatus[x.invoice] # "CANCELLED"
        OBVIOUS
      <3>1. PICK w \in c.rows : /\ x.payment = w.payment /\ x.invoice = w.invoice
                                /\ x.amount = w.amount
        BY <2>2 DEF Store, Numbered
      <3>2. Fits(c)
        BY <2>2 DEF Store, MoneyInv, BookingsFit
      <3> QED
        BY <3>1, <3>2 DEF Fits
    <2>3. ASSUME NEW c \in calls, Commit(c) \/ Abort(c), ~Store(c) PROVE allocs' = allocs
      BY <2>3 DEF Commit, Abort, cancelInvoiceCommit, correctInvoiceCommit,
        issueBatchCommit, Refresh
    <2>4. ASSUME NEW r \in Requests, Read(r) PROVE allocs' = allocs
      BY <2>4 DEF Read, cancelInvoiceRead, correctInvoiceRead, reversePaymentRead,
        allocateRead, importRead, reverseAllocationRead, issueBatchRead, Book
    <2>5. ASSUME NEW t \in Amounts, issueSingleInvoice(t) PROVE allocs' = allocs
      BY <2>5 DEF issueSingleInvoice
    <2>6. ASSUME NEW b \in Batches, NEW amounts, createDraftBatch(b, amounts)
          PROVE  allocs' = allocs
      BY <2>6 DEF createDraftBatch
    <2>7. ASSUME NEW p \in Payments,
                 cancelTransaction(p) \/ \E a \in Amounts : enterPayment(p, a)
          PROVE  allocs' = allocs
      BY <2>7 DEF cancelTransaction, enterPayment
    <2> QED
      BY <2>1, <2>2, <2>3, <2>4, <2>5, <2>6, <2>7 DEF Next
  <1> QED
    BY <1>1, MoneyHolds, PTL DEF Spec, NoMoneyIntoDead
=============================================================================
