----------------------------- MODULE MCEoESend -----------------------------
(* Constants of EoESend for TLC: frames of one, two and three fragments, two *)
(* of them not in whole blocks.                                              *)
EXTENDS EoESend

MCSizes == {3, 4, 7, 9}
=============================================================================
