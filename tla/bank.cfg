SPECIFICATION Spec
CONSTANTS
    Requests = {r1, r2}
    Sms = {s1, s2}
    Lines = {l1}
    Expenses = {e1, e2}
    Amounts = {1, 2}
    None = None
    Total = 2
    MaxSpent = 3
SYMMETRY Symmetry
INVARIANTS
    OneBookingPerSms
    ExpenseAddsUp
    NotOverpaid
CHECK_DEADLOCK FALSE
