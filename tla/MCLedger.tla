------------------------------ MODULE MCLedger ------------------------------
(* Small instances of module Ledger for TLC. *)
EXTENDS Ledger, TLC

\* Bound of run ledger_table: rows of all invoices together.
FewRows == Cardinality(allocs) <= 4

\* Bound of run ledger_serial: rows of all invoices beside a second batch.
FewRowsBesideBatches ==
    (\A b \in Batches : bstatus[b] # "NONE") => Cardinality(allocs) <= 1

Symmetry ==
    Permutations(Requests) \cup Permutations(Payments) \cup Permutations(Batches)
=============================================================================
