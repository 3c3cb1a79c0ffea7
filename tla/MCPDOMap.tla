------------------------------ MODULE MCPDOMap ------------------------------
(* Constants of PDOMap for TLC: one mapping object for the outputs, two for the *)
(* inputs, of two and one subindexes.  The offsets have their real width, a     *)
(* uint8_t has the four values 0 to 3, and counts one beyond the lists are      *)
(* written only where a run says so.                                            *)
EXTENDS PDOMap

CONSTANTS bit, byte, string, rx, tx, ty, ghost

MCPDOs == {rx, tx, ty}
MCObjects == {bit, byte, string}
MCBitLength == [o \in MCObjects |-> CASE o = bit -> 1 [] o = byte -> 8 [] o = string -> 72]

Real(o) == [obj |-> o, bits |-> MCBitLength[o]]
Gap(n)  == [obj |-> Pad, bits |-> n]
Lost    == [obj |-> Missing, bits |-> 8]

MCEntries ==
  [p \in MCPDOs |-> CASE p = rx -> {Real(bit), Real(byte), Gap(7), Lost}
                      [] p = tx -> {Real(byte), Real(string)}
                      [] p = ty -> {Real(byte), Lost}]
MCUnaligned == [MCEntries EXCEPT ![rx] = @ \union {Real(string)}]
MCMismatch == [MCEntries EXCEPT ![rx] = @ \union {[obj |-> byte, bits |-> 1]}]

List(n, s) == [count |-> n, slot |-> s]
MCDefaults ==
  [l \in {2, 3} \union MCPDOs |->
     CASE l = 2  -> List(1, <<rx>>)
       [] l = 3  -> List(2, <<tx, ty>>)
       [] l = rx -> List(2, <<Real(bit), Real(byte)>>)
       [] l = tx -> List(2, <<Real(byte), Real(string)>>)
       [] l = ty -> List(1, <<Real(byte)>>)]
MCCounts == [l \in {2, 3} \union MCPDOs |-> 0 .. Len(MCDefaults[l].slot)]
MCCountsPast == [l \in {2, 3} \union MCPDOs |-> 0 .. 3]
MCEditable == {2, 3} \union MCPDOs
MCMax == [s \in {2, 3} |-> IF s = 2 THEN 2 ELSE 3]
MCNone == [s \in {2, 3} |-> 0]
MCPreop == {"preop"}
MCAnyState == {"preop", "safeop", "op"}
=============================================================================
