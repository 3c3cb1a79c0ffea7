--------------------------- MODULE MCEoEService ---------------------------
(* Constants of EoEService for TLC.  Those of EoEReceive are real values: a    *)
(* mailbox of 128 octets carries three blocks of a frame.  Frames of one to    *)
(* sixteen fragments that end within a block, on one, and within the last      *)
(* octets of one.                                                              *)
EXTENDS EoEService

MCSizes == <<60, 96, 97, 192, 500, 1000, 1024, 1514>>
MCStamped == {2, 4, 6, 7}
MCParams == <<"mac", "ip">>
=============================================================================
