---------------------------- MODULE MCBankQueue ----------------------------
EXTENDS BankQueue, TLC

Symmetry == Permutations(Requests) \cup Permutations(Sms) \cup Permutations(Expenses)
=============================================================================
