----------------------------- MODULE MCMailbox -----------------------------
(* Constants of Mailbox for TLC. *)
EXTENDS Mailbox

MCAllKinds == AllKinds
MCOrdered == AllKinds \ {"empty"}
MCSingle == {"sdo", "info", "other"}
=============================================================================
