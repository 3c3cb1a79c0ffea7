---------------------------- MODULE EoEReceive ----------------------------
(***************************************************************************)
(* Ethernet over EtherCAT, the receiving side (src/templates/esc_eoe.c):   *)
(* EOE_receive_fragment puts frames together from the fragments of the     *)
(* master and hands them to the application's handle_recv_buffer.          *)
(*                                                                         *)
(* Every fragment is a proper piece of one of the master's frames, but the *)
(* master sends them in any order: it repeats and leaves out fragments,    *)
(* gives a frame up and comes back to it.                                  *)
(*                                                                         *)
(* An operator named X_Y is operator X with a plausible mistake, Y, that   *)
(* breaks one of the properties.                                           *)
(***************************************************************************)
EXTENDS Integers, Sequences

CONSTANTS
  Block,         \* the unit of offsets in a fragment's header, 32 octets
  PartSize,      \* octets in every fragment of the master but the last
  Sizes,         \* Sizes[f]: octets of frame f of the master
  Stamped,       \* the frames with a time stamp behind their last fragment
  StampSize,     \* octets of a time stamp, 4
  FrameNumbers,  \* frame numbers, 16 in a header of 4 bits
  Pool           \* FALSE: get_buffer may have no buffer to give

Frames == DOMAIN Sizes

\* The number of a frame names it: no two of the frames at hand share one.
ASSUME ConstAssumption ==
  /\ Block \in Nat /\ Block > 0 /\ PartSize \in Nat /\ PartSize > 0
  /\ PartSize % Block = 0
  /\ FrameNumbers \in Nat
  /\ Sizes \in Seq(Nat \ {0}) /\ Len(Sizes) <= FrameNumbers
  /\ Stamped \subseteq Frames /\ StampSize \in Nat
  /\ Pool \in BOOLEAN

VARIABLES
  rxebuf,         \* EOEvar.rxebuf.payload # NULL
  stored,         \* the octets in it: pieces [frame, from, len], one behind another
  rxfragmentno,   \* EOEvar.rxfragmentno
  rxframesize,    \* EOEvar.rxframesize
  rxframeoffset,  \* EOEvar.rxframeoffset
  rxframeno,      \* EOEvar.rxframeno
  handed,         \* the frame handed to the application by the last fragment, or None
  run             \* history: [frame, frag] while the master sends the fragments of
                  \* one frame from its first, one after another

receive == <<rxebuf, stored, rxfragmentno, rxframesize, rxframeoffset, rxframeno,
             handed, run>>

---------------------------------------------------------------------------
(***************************************************************************)
(* The master's frames.                                                    *)
(***************************************************************************)
Parts(f) == (Sizes[f] + PartSize - 1) \div PartSize
PartLen(f, k) == IF k = Parts(f) - 1 THEN Sizes[f] - k * PartSize ELSE PartSize
Stamp(f) == IF f \in Stamped THEN StampSize ELSE 0

\* field is the frame's size in blocks, its stamp included, in the first fragment
\* and the fragment's place in the others; len counts the stamp.
Fragment(f, k) ==
  LET last == k = Parts(f) - 1
  IN  [frag  |-> k,
       frame |-> f % FrameNumbers,
       field |-> IF k = 0 THEN (Sizes[f] + Stamp(f) + Block - 1) \div Block
                          ELSE (k * PartSize) \div Block,
       len   |-> PartLen(f, k) + (IF last THEN Stamp(f) ELSE 0),
       last  |-> last,
       stamp |-> last /\ f \in Stamped]

Piece(f, k) == [frame |-> f, from |-> k * PartSize, len |-> PartLen(f, k)]
Whole(f) == [k \in 1 .. Parts(f) |-> Piece(f, k - 1)]

NoFrame == [frame |-> <<>>, len |-> 0, buffer |-> FALSE]

---------------------------------------------------------------------------
(***************************************************************************)
(* EOE_receive_fragment, one operator per path to a return.                *)
(***************************************************************************)
\* EOE_init_rx, and get_buffer when there is no buffer.
EOE_init_rx(buffer) ==
  /\ rxfragmentno' = 0 /\ rxframesize' = 0 /\ rxframeoffset' = 0 /\ rxframeno' = 0
  /\ rxebuf' \in IF buffer \/ Pool THEN {TRUE} ELSE BOOLEAN
  /\ stored' = <<>>

Discard == EOE_init_rx(rxebuf) /\ handed' = NoFrame

\* A fragment that is neither the next of its frame nor the first of one.
Unexpected(m) ==
  /\ m.frag # rxfragmentno /\ m.frag > 0
  /\ IF rxfragmentno # 0 THEN Discard
     ELSE /\ handed' = NoFrame
          /\ UNCHANGED <<rxebuf, stored, rxfragmentno, rxframesize, rxframeoffset, rxframeno>>

\* memcpy of the fragment behind the octets so far, when it fits the announced
\* size; the last fragment hands the frame over.  Without a buffer the copy goes
\* to address 0, which stores nothing.
Hand(frame, len, buffer) == handed' = [frame |-> frame, len |-> len, buffer |-> buffer]

Take(f, k, m, number, size, offset, pieces, buffer) ==
  LET octets == IF buffer THEN Append(pieces, Piece(f, k)) ELSE pieces
      stamp  == IF m.stamp THEN StampSize ELSE 0
  IN  IF offset + m.len > size
      THEN EOE_init_rx(buffer) /\ handed' = NoFrame
      ELSE IF m.last
      THEN Hand(octets, offset + m.len - stamp, buffer) /\ EOE_init_rx(FALSE)
      ELSE /\ stored' = octets /\ rxebuf' = buffer /\ handed' = NoFrame
           /\ rxframeoffset' = offset + m.len /\ rxfragmentno' = m.frag + 1
           /\ rxframesize' = size /\ rxframeno' = number

\* The first fragment of a frame, which cuts short any frame before it.  The
\* number is kept only with a buffer.  get_buffer is asked again when a frame is
\* cut short.
First_NotMidFrame(f, k, m) ==
  /\ m.frag = 0
  /\ IF rxfragmentno = 0 THEN Take(f, k, m, m.frame, m.field * Block, 0, <<>>, rxebuf)
     ELSE Discard

First(f, k, m) ==
  /\ m.frag = 0
  /\ \E buffer \in IF rxebuf \/ rxfragmentno = 0 THEN {rxebuf}
                   ELSE IF Pool THEN {TRUE} ELSE BOOLEAN :
       Take(f, k, m, IF buffer THEN m.frame ELSE 0, m.field * Block, 0, <<>>, buffer)

Matches_AnyFrame(m) == rxframeoffset = m.field * Block
Matches(m) == rxframeno = m.frame /\ rxframeoffset = m.field * Block

\* The next fragment of the frame, or of another one.
Later(f, k, m) ==
  /\ m.frag = rxfragmentno /\ m.frag > 0
  /\ IF Matches(m)
     THEN Take(f, k, m, rxframeno, rxframesize, rxframeoffset, stored, rxebuf)
     ELSE Discard

EOE_receive_fragment ==
  \E f \in Frames : \E k \in 0 .. Parts(f) - 1 :
    /\ Unexpected(Fragment(f, k)) \/ First(f, k, Fragment(f, k)) \/ Later(f, k, Fragment(f, k))
    /\ run' = IF k = 0 THEN [frame |-> f, frag |-> 0]
              ELSE IF run = [frame |-> f, frag |-> k - 1] THEN [frame |-> f, frag |-> k]
              ELSE [frame |-> 0, frag |-> 0]

\* EOE_init, in ecat_slv_init
ReceiveInit ==
  /\ rxebuf \in IF Pool THEN {TRUE} ELSE BOOLEAN
  /\ stored = <<>>
  /\ rxfragmentno = 0 /\ rxframesize = 0 /\ rxframeoffset = 0 /\ rxframeno = 0
  /\ handed = NoFrame
  /\ run = [frame |-> 0, frag |-> 0]

ReceiveSpec == ReceiveInit /\ [][EOE_receive_fragment]_receive

---------------------------------------------------------------------------
ReceiveTypeOK ==
  /\ rxebuf \in BOOLEAN
  /\ \A i \in 1 .. Len(stored) : stored[i].frame \in Frames
  /\ rxfragmentno \in Nat /\ rxframesize \in Nat
  /\ rxframeoffset \in 0 .. rxframesize
  /\ rxframeno \in 0 .. FrameNumbers - 1

\* Only whole frames reach the application, with all their octets in place and none
\* of another frame or of a time stamp, whatever the master leaves out, repeats or
\* gives up.
HandedWhole ==
  handed # NoFrame =>
    \E f \in Frames : handed.frame = Whole(f) /\ handed.len = Sizes[f]

\* A frame that arrives from its first fragment to its last, with nothing between
\* them, is handed over, whatever came before it.
NoWholeFrameLost ==
  run.frame # 0 /\ run.frag = Parts(run.frame) - 1 => handed.frame = Whole(run.frame)

\* "Check so allocated buffer is sufficient": a frame handed over is in a buffer.
HandedInBuffer == handed # NoFrame => handed.buffer
=============================================================================
