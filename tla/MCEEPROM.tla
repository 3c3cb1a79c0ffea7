------------------------------ MODULE MCEEPROM ------------------------------
(* Constants of EEPROM for TLC: registers from 0, process data RAM from 24. *)
EXTENDS EEPROM

MCOctets == 0 .. 255
MCUnset == -1
MCWords == {[i \in 0 .. 1 |-> 200 + i]}
\* Each rest of an address, with lengths that make every size of chunk; process data
\* RAM within a word and over several, in the middle of the first and of the last.
MCAccesses ==
  {[op |-> op, start |-> 16 + a[1], len |-> a[2]] :
     op \in Ops, a \in {<<0, 3>>, <<1, 4>>, <<2, 4>>, <<8, 2>>, <<10, 9>>}}
MCOne == {[op |-> "read", start |-> 16, len |-> 4]}
=============================================================================
