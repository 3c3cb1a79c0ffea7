------------------------------- MODULE MCFoE -------------------------------
(* Constants of FoE for TLC. *)
EXTENDS FoE

MCAllOpcodes == AllOpcodes
MCWriting == {"WRQ", "DATA", "ERR", "other"}
MCOrdered == AllOpcodes \ {"BUSY"}
MCReading == {"RRQ", "ACK", "BUSY"}
=============================================================================
