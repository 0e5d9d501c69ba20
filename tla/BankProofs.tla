---------------------------- MODULE BankProofs ----------------------------
(* Theorems about module BankQueue, for any number of requests,            *)
(* notifications, lines and expenses.                                      *)
EXTENDS BankQueue, SumProofs

-----------------------------------------------------------------------------
(* The queue.  Nothing but the claim matters: a notification is counted by *)
(* the step that takes it from PENDING to CONFIRMED.                       *)

QueueOK ==
    /\ sms \in [Sms -> {"NONE", "PENDING", "REJECTED", "CONFIRMED", "DISMISSED"}]
    /\ bookings \in [Sms -> Nat]

QueueInv == QueueOK /\ OneBookingPerSms

(* All notifications are absent and none is booked.                        *)
LEMMA QueueInit == Init => QueueInv
<1> SUFFICES ASSUME Init PROVE QueueInv
  OBVIOUS
<1>1. QueueOK
  BY DEF Init, QueueOK
<1>2. OneBookingPerSms
  BY DEF Init, OneBookingPerSms
<1> QED
  BY <1>1, <1>2 DEF QueueInv

(* The steps that write the queue keep its invariant; all others leave it  *)
(* alone (receiveBankSms, dismissBankSms, confirmBankSms).                 *)
LEMMA QueueNext == QueueInv /\ [Next]_vars => QueueInv'
<1> SUFFICES ASSUME QueueInv, [Next]_vars PROVE QueueInv'
  OBVIOUS
<1> USE DEF QueueInv, QueueOK, OneBookingPerSms
<1>1. CASE UNCHANGED <<sms, bookings>>
  BY <1>1
<1>2. ASSUME NEW s \in Sms, receiveBankSms(s) PROVE QueueInv'
  BY <1>2 DEF receiveBankSms
<1>3. ASSUME NEW s \in Sms, dismissBankSms(s) PROVE QueueInv'
  BY <1>3 DEF dismissBankSms
<1>4. ASSUME NEW r \in Requests, storeCommit(r) PROVE QueueInv'
  <2> DEFINE taken == SmsOf(requests[r].rows)
  <2>1. \A s \in taken : sms[s] = "PENDING"
    BY <1>4 DEF storeCommit, Claimed
  <2>2. sms' = [s \in Sms |-> IF s \in taken THEN "CONFIRMED" ELSE sms[s]]
    BY <1>4 DEF storeCommit
  <2>3. bookings' = [s \in Sms |-> IF s \in taken THEN bookings[s] + 1 ELSE bookings[s]]
    BY <1>4 DEF storeCommit
  <2> HIDE DEF taken
  <2>4. QueueOK'
    BY <2>2, <2>3
  <2>5. ASSUME NEW s \in Sms
        PROVE bookings'[s] = IF sms'[s] = "CONFIRMED" THEN 1 ELSE 0
    <3>1. CASE s \in taken
      <4>1. bookings[s] = 0
        BY <3>1, <2>1
      <4> QED
        BY <3>1, <4>1, <2>2, <2>3
    <3>2. CASE s \notin taken
      BY <3>2, <2>2, <2>3
    <3> QED
      BY <3>1, <3>2
  <2> QED
    BY <2>4, <2>5
<1>5. ASSUME NEW r \in Requests,
             \/ \E sources \in SUBSET Sms \ {{}} : \E rows \in Batches(sources) :
                   confirmRead(r, rows)
             \/ \E sources \in SUBSET Lines \ {{}} : \E rows \in Batches(sources) :
                   importRead(r, rows)
             \/ \E e \in Expenses, amount \in Amounts : payRead(r, e, amount)
             \/ \E e \in Expenses : cancelRead(r, e)
             \/ storeRead(r) \/ cancelCommit(r) \/ abort(r)
      PROVE UNCHANGED <<sms, bookings>>
  BY <1>5 DEF confirmRead, importRead, Check, payRead, cancelRead, storeRead,
    cancelCommit, abort
<1>6. CASE UNCHANGED vars
  BY <1>1, <1>6 DEF vars
<1> QED
  BY <1>1, <1>2, <1>3, <1>4, <1>5, <1>6 DEF Next

(* However many requests confirm and dismiss it at once, a notification is *)
(* booked exactly once when it is confirmed and never otherwise            *)
(* (confirmBankSms, dismissBankSms).                                       *)
THEOREM BookedOnce == Spec => []OneBookingPerSms
<1>1. Init => QueueInv
  BY QueueInit
<1>2. QueueInv /\ [Next]_vars => QueueInv'
  BY QueueNext
<1>3. QueueInv => OneBookingPerSms
  BY DEF QueueInv
<1> QED
  BY <1>1, <1>2, <1>3, PTL DEF Spec

-----------------------------------------------------------------------------
(* The expenses.  What a batch adds is the same sum on both sides, so that *)
(* nothing need be known about sums.                                       *)

ExpenseDomains ==
    /\ paid = [e \in Expenses |-> paid[e]]
    /\ spent = [e \in Expenses |-> spent[e]]

ExpenseInv == ExpenseDomains /\ PaidIsSpent

LEMMA ExpenseNext == ExpenseInv /\ [Next]_vars => ExpenseInv'
<1> SUFFICES ASSUME ExpenseInv, [Next]_vars PROVE ExpenseInv'
  OBVIOUS
<1> USE DEF ExpenseInv, ExpenseDomains, PaidIsSpent
<1>1. CASE UNCHANGED <<paid, spent, lost>>
  BY <1>1
<1>2. ASSUME NEW r \in Requests, storeCommit(r) PROVE ExpenseInv'
  <2> DEFINE rows == requests[r].rows
             read == requests[r].read
             pays == {e \in Expenses : For(e, rows) # {}}
  <2>1. /\ paid' = [e \in Expenses |-> IF e \in pays
                      THEN [x \in pays |-> NewPaid(requests[r], x)][e] ELSE paid[e]]
        /\ spent' = [e \in Expenses |-> IF e \in pays
                       THEN spent[e] + Added(e, rows) ELSE spent[e]]
        /\ lost' = lost \cup {e \in pays : read[e] # paid[e]}
    BY <1>2 DEF storeCommit
  <2>2. \A e \in pays : [x \in pays |-> NewPaid(requests[r], x)][e] = read[e] + Added(e, rows)
    BY DEF NewPaid
  <2> HIDE DEF pays, rows, read
  <2>3. ExpenseDomains'
    BY <2>1
  <2>4. ASSUME NEW e \in Expenses, e \notin lost' PROVE paid'[e] = spent'[e]
    <3>1. paid[e] = spent[e]
      BY <2>1, <2>4
    <3>2. CASE e \in pays
      <4>1. read[e] = paid[e]
        BY <2>1, <2>4, <3>2
      <4>2. paid'[e] = read[e] + Added(e, rows)
        BY <2>1, <2>2, <3>2
      <4>3. spent'[e] = spent[e] + Added(e, rows)
        BY <2>1, <3>2
      <4> QED
        BY <3>1, <4>1, <4>2, <4>3
    <3>3. CASE e \notin pays
      BY <2>1, <3>1, <3>3
    <3> QED
      BY <3>2, <3>3
  <2> QED
    BY <2>3, <2>4
<1>3. ASSUME NEW r \in Requests, cancelCommit(r) PROVE ExpenseInv'
  <2>1. UNCHANGED <<paid, spent>> /\ lost \subseteq lost'
    BY <1>3 DEF cancelCommit
  <2> QED
    BY <2>1
<1>4. ASSUME NEW s \in Sms, receiveBankSms(s) \/ dismissBankSms(s)
      PROVE UNCHANGED <<paid, spent, lost>>
  BY <1>4 DEF receiveBankSms, dismissBankSms, expenseVars, traces
<1>5. ASSUME NEW r \in Requests,
             \/ \E sources \in SUBSET Sms \ {{}} : \E rows \in Batches(sources) :
                   confirmRead(r, rows)
             \/ \E sources \in SUBSET Lines \ {{}} : \E rows \in Batches(sources) :
                   importRead(r, rows)
             \/ \E e \in Expenses, amount \in Amounts : payRead(r, e, amount)
             \/ \E e \in Expenses : cancelRead(r, e)
             \/ storeRead(r) \/ abort(r)
      PROVE UNCHANGED <<paid, spent, lost>>
  BY <1>5 DEF confirmRead, importRead, Check, payRead, cancelRead, storeRead, abort,
    expenseVars, traces
<1>6. CASE UNCHANGED vars
  BY <1>1, <1>6 DEF vars, expenseVars, traces
<1> QED
  BY <1>1, <1>2, <1>3, <1>4, <1>5, <1>6 DEF Next

(* What an expense shows as paid is the sum of the transactions that paid  *)
(* it, for any batches of rows, as long as no transaction wrote over       *)
(* another's payment (commitStatementRowsInTx, payExpense).                *)
THEOREM PaidFollowsBooks == Spec => []PaidIsSpent
<1>1. Init => ExpenseInv
  BY DEF Init, ExpenseInv, ExpenseDomains, PaidIsSpent
<1>2. ExpenseInv /\ [Next]_vars => ExpenseInv'
  BY ExpenseNext
<1>3. ExpenseInv => PaidIsSpent
  BY DEF ExpenseInv
<1> QED
  BY <1>1, <1>2, <1>3, PTL DEF Spec

-----------------------------------------------------------------------------
(* The status of an expense and its limit.  A batch is finite, and what it *)
(* adds to an expense is the sum of its positive rows.                     *)

\* A request's batch is finite, was checked row by row against what was seen
\* of its expenses, and a cancellation names an expense.
GoodRequest(me) ==
    /\ IsFiniteSet(me.rows)
    /\ \A x \in me.rows : x.expense # None => x.amount <= Total - me.seen[x.expense]
    /\ me.at = "cancelling" => me.expense \in Expenses

\* What the status st of an expense says when p is paid.
Says(st, p) ==
    CASE st = "PAID" -> p >= Total
      [] st = "PARTIALLY_PAID" -> 0 < p /\ p < Total
      [] OTHER -> p = 0

Requested == \A r \in Requests : GoodRequest(requests[r])

BookInv == TypeOK /\ Requested /\ ExpenseAddsUp /\ NotOverpaid

LEMMA IdleRequest == Idle \in Request /\ GoodRequest(Idle)
BY FS_EmptySet DEF Idle, Request, GoodRequest

\* What a batch adds to an expense it has a row for is positive; a single row
\* adds its amount.
LEMMA AddedIs ==
    ASSUME NEW e, NEW rows \in SUBSET Row, IsFiniteSet(rows)
    PROVE  /\ Added(e, rows) \in Nat
           /\ For(e, rows) # {} => Added(e, rows) > 0
           /\ For(e, rows) # {} /\ Cardinality(For(e, rows)) <= 1 =>
                \E x \in For(e, rows) : Added(e, rows) = x.amount
<1> DEFINE S == For(e, rows)
           f == [x \in S |-> x.amount]
<1>1. Added(e, rows) = SumFunctionOnSet(f, S)
  BY DEF Added, SumFunction
<1>2. IsFiniteSet(S) /\ S \subseteq Row
  BY FS_Subset DEF For
<1>3. \A x \in S : f[x] = x.amount /\ f[x] \in Nat /\ f[x] > 0
  BY <1>2, BankAssumption DEF Row
<1> HIDE DEF S, f
<1>4. SumFunctionOnSet(f, S) \in Nat
  BY <1>2, <1>3, SumIsNat
<1>5. ASSUME NEW x \in S
      PROVE  /\ SumFunctionOnSet(f, S) = f[x] + SumFunctionOnSet(f, S \ {x})
             /\ SumFunctionOnSet(f, S \ {x}) \in Nat
             /\ IsFiniteSet(S \ {x})
  <2>1. IsFiniteSet(S \ {x})
    BY <1>2, FS_Subset
  <2>2. SumFunctionOnSet(f, S \ {x}) \in Nat
    BY <1>3, <2>1, SumIsNat
  <2>3. \A y \in S : f[y] \in Int
    BY <1>3
  <2> QED
    BY <1>2, <2>1, <2>2, <2>3, SumRemove
<1>6. ASSUME S # {} PROVE SumFunctionOnSet(f, S) > 0
  <2>1. PICK x \in S : TRUE
    BY <1>6
  <2> DEFINE rest == SumFunctionOnSet(f, S \ {x})
  <2>2. SumFunctionOnSet(f, S) = f[x] + rest /\ rest \in Nat
    BY <1>5
  <2>3. f[x] \in Nat /\ f[x] > 0
    BY <1>3
  <2> HIDE DEF rest
  <2> QED
    BY <2>2, <2>3
<1>7. ASSUME S # {}, Cardinality(S) <= 1
      PROVE  \E x \in S : SumFunctionOnSet(f, S) = x.amount
  <2>1. PICK x \in S : TRUE
    BY <1>7
  <2>2. S \ {x} = {}
    <3>1. Cardinality(S \ {x}) = Cardinality(S) - 1 /\ Cardinality(S) \in Nat
          /\ Cardinality(S \ {x}) \in Nat
      BY <1>2, <1>5, <2>1, FS_RemoveElement, FS_CardinalityType
    <3>2. Cardinality(S \ {x}) = 0
      BY <1>7, <3>1
    <3> QED
      BY <1>5, <3>2, FS_EmptySet
  <2>3. SumFunctionOnSet(f, S \ {x}) = 0
    BY <2>2, SumEmpty
  <2> QED
    BY <1>3, <1>5, <2>1, <2>3
<1> QED
  BY <1>1, <1>4, <1>6, <1>7 DEF S

\* Every batch of finitely many sources is a finite set of rows.
LEMMA BatchTypes ==
    ASSUME NEW sources, sources \subseteq Sms \/ sources \subseteq Lines,
           NEW rows \in Batches(sources)
    PROVE  rows \in SUBSET Row /\ IsFiniteSet(rows)
<1>1. PICK f \in [sources -> [expense: Expenses \cup {None}, amount: Amounts]] :
        rows = {[source |-> s, expense |-> f[s].expense, amount |-> f[s].amount]
                  : s \in sources}
  BY DEF Batches
<1>2. IsFiniteSet(sources)
  BY BankAssumption, FS_Subset
<1> DEFINE F == [s \in sources |-> [source |-> s, expense |-> f[s].expense,
                                    amount |-> f[s].amount]]
<1>3. rows = {F[s] : s \in sources}
  BY <1>1
<1>4. IsFiniteSet(rows)
  <2> HIDE DEF F
  <2> QED
    BY <1>2, <1>3, ImageIsFinite
<1>5. rows \subseteq Row
  BY <1>1 DEF Row
<1> QED
  BY <1>4, <1>5

\* A step that only changes what one request holds.
LEMMA RequestKeeps ==
    ASSUME BookInv, NEW r \in Requests, NEW me \in Request, GoodRequest(me),
           Go(r, me), UNCHANGED <<sms, bookings, expenseVars>>
    PROVE  BookInv'
<1>1. TypeOK'
  BY DEF BookInv, TypeOK, Go, expenseVars, traces
<1>2. Requested'
  <2>1. \A q \in Requests : requests'[q] = IF q = r THEN me ELSE requests[q]
    BY DEF BookInv, TypeOK, Go
  <2> QED
    BY <2>1 DEF BookInv, Requested, GoodRequest
<1>3. ExpenseAddsUp' /\ NotOverpaid'
  BY DEF BookInv, ExpenseAddsUp, PaidIsSpent, StatusSaysPaid, NotOverpaid, expenseVars,
    traces
<1> QED
  BY <1>1, <1>2, <1>3 DEF BookInv

\* The checks of confirmBankSms and of an import.
LEMMA CheckKeeps ==
    ASSUME BookInv, NEW r \in Requests, NEW sources,
           sources \subseteq Sms \/ sources \subseteq Lines,
           NEW rows \in Batches(sources), Committable(rows),
           NEW at \in {"confirming", "importing"}, Check(r, at, rows)
    PROVE  BookInv'
<1> DEFINE me == [Idle EXCEPT !.at = at, !.rows = rows, !.seen = paid]
<1>1. rows \in SUBSET Row /\ IsFiniteSet(rows)
  BY BatchTypes
<1>2. me.at = at /\ me.rows = rows /\ me.seen = paid /\ me \in Request
  BY <1>1, IdleRequest DEF Idle, Request, BookInv, TypeOK
<1>3. GoodRequest(me)
  <2> HIDE DEF me
  <2> QED
    BY <1>1, <1>2 DEF GoodRequest, Committable
<1>4. Go(r, me) /\ UNCHANGED <<sms, bookings, expenseVars>>
  BY DEF Check
<1> HIDE DEF me
<1> QED
  BY <1>2, <1>3, <1>4, RequestKeeps

LEMMA PayReadKeeps ==
    ASSUME BookInv, NEW r \in Requests, NEW e \in Expenses, NEW amount \in Amounts,
           payRead(r, e, amount)
    PROVE  BookInv'
<1> DEFINE rows == {[source |-> None, expense |-> e, amount |-> amount]}
           me == [Idle EXCEPT !.at = "storing", !.seen = paid, !.read = paid,
                              !.rows = rows]
<1>1. rows \in SUBSET Row
  BY DEF Row
<1>2. IsFiniteSet(rows)
  BY FS_Singleton
<1>3. paid \in [Expenses -> Nat] /\ amount \in Nat
  BY BankAssumption DEF BookInv, TypeOK
<1>4. \A x \in rows : x.amount <= Total - paid[x.expense]
  <2>1. paid[e] \in Nat /\ Total \in Nat /\ paid[e] + amount <= Total
    BY <1>3, BankAssumption DEF payRead
  <2> QED
    BY <1>3, <2>1
<1> HIDE DEF rows
<1>5. me.at = "storing" /\ me.rows = rows /\ me.seen = paid /\ me \in Request
  BY <1>1, <1>3, IdleRequest DEF Idle, Request
<1>6. Go(r, me) /\ UNCHANGED <<sms, bookings, expenseVars>>
  BY DEF payRead, rows
<1> HIDE DEF me
<1>7. GoodRequest(me)
  BY <1>2, <1>4, <1>5 DEF GoodRequest
<1> QED
  BY <1>5, <1>6, <1>7, RequestKeeps

LEMMA StoreReadKeeps ==
    ASSUME BookInv, NEW r \in Requests, storeRead(r)
    PROVE  BookInv'
<1> DEFINE me == [requests[r] EXCEPT !.at = "storing", !.read = paid]
<1>1. requests[r] \in Request /\ GoodRequest(requests[r])
      /\ paid \in [Expenses -> Nat]
  BY DEF BookInv, TypeOK, Requested
<1>2. /\ me \in Request /\ me.at = "storing"
      /\ me.rows = requests[r].rows /\ me.seen = requests[r].seen
  BY <1>1 DEF Request
<1>3. Go(r, me) /\ UNCHANGED <<sms, bookings, expenseVars>>
  BY DEF storeRead
<1> HIDE DEF me
<1>4. GoodRequest(me)
  BY <1>1, <1>2 DEF GoodRequest
<1> QED
  BY <1>2, <1>3, <1>4, RequestKeeps

LEMMA CancelReadKeeps ==
    ASSUME BookInv, NEW r \in Requests, NEW e \in Expenses, cancelRead(r, e)
    PROVE  BookInv'
<1> DEFINE me == [Idle EXCEPT !.at = "cancelling", !.expense = e]
<1>1. me \in Request /\ me.rows = {} /\ me.expense = e
  BY IdleRequest DEF Idle, Request
<1>2. Go(r, me) /\ UNCHANGED <<sms, bookings, expenseVars>>
  BY DEF cancelRead
<1> HIDE DEF me
<1>3. GoodRequest(me)
  BY <1>1, FS_EmptySet DEF GoodRequest
<1> QED
  BY <1>1, <1>2, <1>3, RequestKeeps

LEMMA AbortKeeps ==
    ASSUME BookInv, NEW r \in Requests, abort(r)
    PROVE  BookInv'
BY IdleRequest, RequestKeeps DEF abort

\* The requests after one of them has ended.
LEMMA EndsOne ==
    ASSUME BookInv, NEW r \in Requests, Go(r, Idle)
    PROVE  requests' \in [Requests -> Request] /\ Requested'
<1>1. requests' \in [Requests -> Request]
  BY IdleRequest DEF BookInv, TypeOK, Go
<1>2. \A q \in Requests : requests'[q] = IF q = r THEN Idle ELSE requests[q]
  BY DEF BookInv, TypeOK, Go
<1> QED
  BY <1>1, <1>2, IdleRequest DEF BookInv, Requested, GoodRequest

\* cancelExpense: either nothing was paid, or a payment was written over.
LEMMA CancelCommitKeeps ==
    ASSUME BookInv, NEW r \in Requests, cancelCommit(r)
    PROVE  BookInv'
<1>1. PICK e \in Expenses : e = requests[r].expense
  BY DEF BookInv, Requested, GoodRequest, cancelCommit
<1>2. /\ status' = [status EXCEPT ![e] = "CANCELLED"]
      /\ lost' = lost \cup {x \in {e} : paid[x] # 0}
      /\ UNCHANGED <<sms, bookings, paid, spent, late, paired>>
      /\ Go(r, Idle)
  BY <1>1 DEF cancelCommit
<1>3. TypeOK' /\ Requested'
  BY <1>2, EndsOne DEF BookInv, TypeOK
<1>4. PaidIsSpent'
  BY <1>2 DEF BookInv, ExpenseAddsUp, PaidIsSpent
<1>5. StatusSaysPaid'
  BY <1>2 DEF BookInv, TypeOK, ExpenseAddsUp, StatusSaysPaid
<1>6. NotOverpaid'
  BY <1>2 DEF BookInv, NotOverpaid
<1> QED
  BY <1>3, <1>4, <1>5, <1>6 DEF BookInv, ExpenseAddsUp

\* The writes: each expense of the batch that was read as it is gets what
\* the rows add, and a status that says so; one that was also checked as it
\* is, for a single row, stays within its amount.
LEMMA StoreCommitKeeps ==
    ASSUME BookInv, NEW r \in Requests, storeCommit(r)
    PROVE  BookInv'
<1> DEFINE rows == requests[r].rows
           seen == requests[r].seen
           read == requests[r].read
           pays == {e \in Expenses : For(e, rows) # {}}
           new(e) == read[e] + Added(e, rows)
<1>1. requests[r] \in Request /\ GoodRequest(requests[r])
  BY DEF BookInv, TypeOK, Requested
<1>2. /\ rows \in SUBSET Row /\ IsFiniteSet(rows)
      /\ seen \in [Expenses -> Nat] /\ read \in [Expenses -> Nat]
      /\ \A x \in rows : x.expense # None => x.amount <= Total - seen[x.expense]
  BY <1>1 DEF Request, GoodRequest
<1>3. /\ sms' = [s \in Sms |-> IF s \in SmsOf(rows) THEN "CONFIRMED" ELSE sms[s]]
      /\ bookings' = [s \in Sms |-> IF s \in SmsOf(rows) THEN bookings[s] + 1
                                    ELSE bookings[s]]
      /\ paid' = [e \in Expenses |-> IF e \in pays THEN new(e) ELSE paid[e]]
      /\ status' = [e \in Expenses |->
             IF e \notin pays THEN status[e]
             ELSE IF new(e) >= Total THEN "PAID" ELSE "PARTIALLY_PAID"]
      /\ spent' = [e \in Expenses |->
             IF e \in pays THEN spent[e] + Added(e, rows) ELSE spent[e]]
      /\ lost' = lost \cup {e \in pays : read[e] # paid[e]}
      /\ late' = late \cup {e \in pays : seen[e] # paid[e]}
      /\ paired' = paired \cup {e \in pays : Cardinality(For(e, rows)) > 1}
      /\ Go(r, Idle)
  BY DEF storeCommit, NewPaid
<1>4. \A e \in pays : e \in Expenses /\ For(e, rows) # {}
  OBVIOUS
<1>5. pays \subseteq Expenses
  OBVIOUS
<1>6. \A e \in Expenses : For(e, rows) \subseteq rows
  BY DEF For
<1>7. \A e \in Expenses : \A x \in For(e, rows) : x.amount <= Total - seen[e]
  BY <1>2, BankAssumption DEF For
<1>8. TypeOK
  BY DEF BookInv
<1>9. \A e : Added(e, rows) \in Nat
  BY <1>2, AddedIs
<1> HIDE DEF rows, seen, read, pays
<1>10. TypeOK' /\ Requested'
  <2>1. \A e \in pays : new(e) \in Nat /\ spent[e] + Added(e, rows) \in Nat
    BY <1>2, <1>5, <1>8, <1>9 DEF TypeOK
  <2> HIDE DEF new
  <2>2. sms' \in [Sms -> {"NONE", "PENDING", "REJECTED", "CONFIRMED", "DISMISSED"}]
        /\ bookings' \in [Sms -> Nat]
    BY <1>3, <1>8 DEF TypeOK
  <2>3. /\ paid' \in [Expenses -> Nat] /\ spent' \in [Expenses -> Nat]
        /\ status' \in [Expenses -> {"UNPAID", "PARTIALLY_PAID", "PAID", "CANCELLED"}]
    BY <1>3, <1>8, <2>1 DEF TypeOK
  <2>4. lost' \subseteq Expenses /\ late' \subseteq Expenses /\ paired' \subseteq Expenses
    BY <1>3, <1>5, <1>8 DEF TypeOK
  <2>5. requests' \in [Requests -> Request] /\ Requested'
    BY <1>3, EndsOne
  <2> QED
    BY <2>2, <2>3, <2>4, <2>5 DEF TypeOK
<1>11. ASSUME NEW e \in Expenses, e \notin pays
       PROVE  /\ paid'[e] = paid[e] /\ spent'[e] = spent[e] /\ status'[e] = status[e]
              /\ e \in lost <=> e \in lost'
              /\ e \in late <=> e \in late'
              /\ e \in paired <=> e \in paired'
  BY <1>3, <1>11
<1>12. ASSUME NEW e \in pays
       PROVE  /\ e \in Expenses /\ Added(e, rows) \in Nat /\ Added(e, rows) > 0
              /\ paid'[e] = new(e) /\ spent'[e] = spent[e] + Added(e, rows)
              /\ status'[e] = IF new(e) >= Total THEN "PAID" ELSE "PARTIALLY_PAID"
              /\ e \notin lost' => e \notin lost /\ read[e] = paid[e]
              /\ paid[e] \in Nat /\ spent[e] \in Nat /\ read[e] \in Nat
  <2>1. e \in Expenses /\ For(e, rows) # {}
    BY <1>4
  <2>2. Added(e, rows) > 0
    BY <1>2, <2>1, AddedIs
  <2>3. paid[e] \in Nat /\ spent[e] \in Nat /\ read[e] \in Nat
    BY <1>2, <1>8, <2>1 DEF TypeOK
  <2> HIDE DEF new
  <2> QED
    BY <1>3, <1>9, <2>1, <2>2, <2>3
<1>13. PaidIsSpent'
  <2>1. ASSUME NEW e \in Expenses, e \notin lost' PROVE paid'[e] = spent'[e]
    <3>1. paid[e] = spent[e]
      BY <2>1, <1>3 DEF BookInv, ExpenseAddsUp, PaidIsSpent
    <3> QED
      BY <2>1, <3>1, <1>11, <1>12
  <2> QED
    BY <2>1 DEF PaidIsSpent
<1>14. StatusSaysPaid'
  <2>1. ASSUME NEW e \in Expenses, e \notin lost'
        PROVE  Says(status'[e], paid'[e])
    <3>1. CASE e \notin pays
      <4>1. Says(status[e], paid[e])
        BY <2>1, <3>1, <1>11 DEF BookInv, ExpenseAddsUp, StatusSaysPaid, Says
      <4> QED
        BY <3>1, <4>1, <1>11
    <3>2. CASE e \in pays
      <4>1. /\ paid'[e] \in Nat /\ paid'[e] > 0
            /\ status'[e] = IF paid'[e] >= Total THEN "PAID" ELSE "PARTIALLY_PAID"
        BY <3>2, <1>12
      <4>2. CASE paid'[e] >= Total
        BY <4>1, <4>2 DEF Says
      <4>3. CASE ~(paid'[e] >= Total)
        BY <4>1, <4>3, BankAssumption DEF Says
      <4> QED
        BY <4>2, <4>3
    <3> QED
      BY <3>1, <3>2
  <2> QED
    BY <2>1 DEF StatusSaysPaid, Says
<1>15. NotOverpaid'
  <2>1. ASSUME NEW e \in Expenses, e \notin lost', e \notin late', e \notin paired'
        PROVE  spent'[e] <= Total
    <3>1. CASE e \notin pays
      BY <2>1, <3>1, <1>11 DEF BookInv, NotOverpaid
    <3>2. CASE e \in pays
      <4>1. seen[e] = paid[e] /\ ~(Cardinality(For(e, rows)) > 1)
        BY <2>1, <3>2, <1>3
      <4>2. For(e, rows) # {} /\ IsFiniteSet(For(e, rows))
        BY <1>2, <1>4, <1>6, <3>2, FS_Subset
      <4>3. Cardinality(For(e, rows)) <= 1
        BY <4>1, <4>2, FS_CardinalityType
      <4>4. PICK x \in For(e, rows) : Added(e, rows) = x.amount
        BY <1>2, <4>2, <4>3, AddedIs
      <4>5. Added(e, rows) <= Total - seen[e]
        BY <1>7, <4>4
      <4>6. spent[e] = paid[e]
        BY <2>1, <3>2, <1>12 DEF BookInv, ExpenseAddsUp, PaidIsSpent
      <4> QED
        BY <4>1, <4>5, <4>6, <3>2, <1>12, BankAssumption
    <3> QED
      BY <3>1, <3>2
  <2> QED
    BY <2>1 DEF NotOverpaid
<1> QED
  BY <1>10, <1>13, <1>14, <1>15 DEF BookInv, ExpenseAddsUp

LEMMA BookInit == Init => BookInv
<1> SUFFICES ASSUME Init PROVE BookInv
  OBVIOUS
<1>1. TypeOK
  BY IdleRequest DEF Init, TypeOK
<1>2. Requested
  BY IdleRequest DEF Init, Requested
<1>3. ExpenseAddsUp
  BY DEF Init, ExpenseAddsUp, PaidIsSpent, StatusSaysPaid
<1>4. NotOverpaid
  BY BankAssumption DEF Init, NotOverpaid
<1> QED
  BY <1>1, <1>2, <1>3, <1>4 DEF BookInv

LEMMA BookNext == BookInv /\ [Next]_vars => BookInv'
<1> SUFFICES ASSUME BookInv, [Next]_vars PROVE BookInv'
  OBVIOUS
<1>1. ASSUME NEW s \in Sms, receiveBankSms(s) \/ dismissBankSms(s) PROVE BookInv'
  <2>1. sms' \in [Sms -> {"NONE", "PENDING", "REJECTED", "CONFIRMED", "DISMISSED"}]
    BY <1>1 DEF BookInv, TypeOK, receiveBankSms, dismissBankSms
  <2>2. UNCHANGED <<bookings, paid, status, spent, requests, lost, late, paired>>
    BY <1>1 DEF receiveBankSms, dismissBankSms, expenseVars, traces
  <2> QED
    BY <2>1, <2>2 DEF BookInv, TypeOK, Requested, ExpenseAddsUp, PaidIsSpent,
      StatusSaysPaid, NotOverpaid
<1>2. ASSUME NEW r \in Requests, NEW sources \in SUBSET Sms \ {{}},
             NEW rows \in Batches(sources), confirmRead(r, rows)
      PROVE  BookInv'
  <2>1. sources \subseteq Sms
    OBVIOUS
  <2>2. Committable(rows) /\ Check(r, "confirming", rows)
    BY <1>2 DEF confirmRead
  <2> QED
    BY <2>1, <2>2, CheckKeeps
<1>3. ASSUME NEW r \in Requests, NEW sources \in SUBSET Lines \ {{}},
             NEW rows \in Batches(sources), importRead(r, rows)
      PROVE  BookInv'
  <2>1. sources \subseteq Lines
    OBVIOUS
  <2>2. Committable(rows) /\ Check(r, "importing", rows)
    BY <1>3 DEF importRead
  <2> QED
    BY <2>1, <2>2, CheckKeeps
<1>4. ASSUME NEW r \in Requests, NEW e \in Expenses, NEW amount \in Amounts,
             payRead(r, e, amount)
      PROVE  BookInv'
  BY <1>4, PayReadKeeps
<1>5. ASSUME NEW r \in Requests, NEW e \in Expenses, cancelRead(r, e) PROVE BookInv'
  BY <1>5, CancelReadKeeps
<1>6. ASSUME NEW r \in Requests, storeRead(r) PROVE BookInv'
  BY <1>6, StoreReadKeeps
<1>7. ASSUME NEW r \in Requests, storeCommit(r) PROVE BookInv'
  BY <1>7, StoreCommitKeeps
<1>8. ASSUME NEW r \in Requests, cancelCommit(r) PROVE BookInv'
  BY <1>8, CancelCommitKeeps
<1>9. ASSUME NEW r \in Requests, abort(r) PROVE BookInv'
  BY <1>9, AbortKeeps
<1>10. CASE UNCHANGED vars
  BY <1>10 DEF vars, expenseVars, traces, BookInv, TypeOK, Requested, GoodRequest,
    ExpenseAddsUp, PaidIsSpent, StatusSaysPaid, NotOverpaid
<1> QED
  BY <1>1, <1>2, <1>3, <1>4, <1>5, <1>6, <1>7, <1>8, <1>9, <1>10 DEF Next

LEMMA BookAlways == Spec => []BookInv
<1>1. Init => BookInv
  BY BookInit
<1>2. BookInv /\ [Next]_vars => BookInv'
  BY BookNext
<1> QED
  BY <1>1, <1>2, PTL DEF Spec

(* Queue, books, expenses and requests have the types the model gives      *)
(* them; what is paid for an expense never becomes negative                *)
(* (commitStatementRowsInTx).                                              *)
THEOREM TypeCorrect == Spec => []TypeOK
<1>1. BookInv => TypeOK
  BY DEF BookInv
<1> QED
  BY <1>1, BookAlways, PTL

(* What an expense shows as paid is the sum of its transactions, and its   *)
(* status says how much that is, for any batches of rows and any requests  *)
(* that do not overlap on it (commitStatementRowsInTx, payExpense,         *)
(* cancelExpense).                                                         *)
THEOREM ExpensesAddUp == Spec => []ExpenseAddsUp
<1>1. BookInv => ExpenseAddsUp
  BY DEF BookInv
<1> QED
  BY <1>1, BookAlways, PTL

(* No expense is overpaid that was booked as it was checked, by one row of *)
(* a batch (assertStatementRowsCommittable, payExpense).                   *)
THEOREM NothingOverpaid == Spec => []NotOverpaid
<1>1. BookInv => NotOverpaid
  BY DEF BookInv
<1> QED
  BY <1>1, BookAlways, PTL
=============================================================================
