------------------------------- MODULE MCCoE -------------------------------
(* Constants of CoE for TLC, with the mailbox of options.tmp: 112 octets of an *)
(* upload, 119 of a segment and 57 entries of the list in one message.        *)
EXTENDS CoE

MCObjects == {"small", "name", "record", "table"}
MCSize == [small |-> 4, name |-> 112, record |-> 231, table |-> 400]
MCAccess == [small |-> "RW", name |-> "RO", record |-> "RWpre", table |-> "RO"]
\* Lists of one fragment, two and three, full and not.
MCCounts == {1, 57, 58, 114, 115, 160}
MCValues == {1, 2}
=============================================================================
