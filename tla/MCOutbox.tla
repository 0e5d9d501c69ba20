------------------------------ MODULE MCOutbox ------------------------------
(* Small instances of module Outbox for TLC. *)
EXTENDS Outbox

\* Two invoices of one batch and a message that is sent when it is written.
BatchAndDirect == <<"INVOICE", "INVOICE", "DIRECT">>
Batch == {{1, 2}}

\* One ballot e-mail of a meeting.
Ballot == <<"MEETING">>
Meeting == {{1}}
=============================================================================
