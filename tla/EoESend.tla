------------------------------ MODULE EoESend ------------------------------
(***************************************************************************)
(* Ethernet over EtherCAT, the sending side (src/templates/esc_eoe.c):     *)
(* ESC_eoeprocess_tx runs once per turn of the loop, after ESC_mbxprocess, *)
(* and cuts the frames of the application into the fragments that fit a    *)
(* mailbox.  It shares the outbox buffers with the answers to requests.    *)
(*                                                                         *)
(* ESC_mbxprocess is here what it is without repeat requests, which are    *)
(* the subject of Mailbox: the outbox is free exactly while mbxoutpost is  *)
(* 0, and one request at a time is read and answered in the same turn.     *)
(*                                                                         *)
(* An operator named X_Y is operator X with a plausible mistake, Y, that   *)
(* breaks one of the properties.                                           *)
(***************************************************************************)
EXTENDS Integers

CONSTANTS
  N,             \* MBXBUFFERS
  Block,         \* the unit of offsets in a fragment's header, 32 octets
  Room,          \* ESC_MBXSIZE - ESC_EOEHSIZE - ESC_MBXHSIZE
  Sizes,         \* sizes of the frames the application sends
  FrameNumbers,  \* frame numbers, 16 in a header of 4 bits
  FreeSupplied   \* eoe_cfg->free_buffer # NULL

ASSUME ConstAssumption ==
  /\ N \in Nat /\ N >= 2
  /\ Block \in Nat /\ Block > 0
  /\ Room \in Nat /\ Room >= Block
  /\ Sizes \subseteq Nat \ {0}
  /\ FrameNumbers \in Nat /\ FrameNumbers >= 2
  /\ FreeSupplied \in BOOLEAN

VARIABLES
  pc,             \* "mbx" or "tx": the next call of the loop
  MBXrun,         \* ESCvar.MBXrun
  state,          \* MBXcontrol[n].state of the outbox buffers
  MBX,            \* the message in buffer n
  mbxoutpost,     \* ESCvar.mbxoutpost
  mbxbackup,      \* ESCvar.mbxbackup
  inbox,          \* the inbox holds a request
  outbox,         \* the message in the outbox
  evSM1,          \* ESCREG_ALEVENT_SM1: the outbox was read
  txebuf,         \* EOEvar.txebuf.payload # NULL
  txframesize,    \* EOEvar.txframesize
  txframeoffset,  \* EOEvar.txframeoffset
  txfragmentno,   \* EOEvar.txfragmentno
  frameno,        \* static frameno of EOE_send_fragment
  queued,         \* the application has a frame for fetch_send_buffer
  got             \* history: the last fragment the master read since the start

slots == <<state, MBX, mbxoutpost, mbxbackup>>
tx    == <<txebuf, txframesize, txframeoffset, txfragmentno, frameno>>
vars  == <<pc, MBXrun, slots, inbox, outbox, evSM1, tx, queued, got>>

OutBuffers == 1 .. N - 1

NoMsg  == [kind |-> "none"]
Answer == [kind |-> "answer"]
\* from and size are not in the message: the place of its octets in the frame, and
\* the size of the frame.
Fragment(frame, frag, field, last, from, len, size) ==
  [kind |-> "fragment", frame |-> frame, frag |-> frag, field |-> field,
   last |-> last, from |-> from, len |-> len, size |-> size]

---------------------------------------------------------------------------
Highest(S) == CHOOSE n \in S : \A m \in S : m <= n
IdleOut == {n \in OutBuffers : state[n] = "idle"}
OutReq  == {n \in OutBuffers : state[n] = "outreq"}

\* ESC_claimbuffer, and the message in it marked outreq
Queue(msg) ==
  /\ state' = [state EXCEPT ![Highest(IdleOut)] = "outreq"]
  /\ MBX' = [MBX EXCEPT ![Highest(IdleOut)] = msg]

---------------------------------------------------------------------------
(***************************************************************************)
(* ESC_mbxprocess, and the handlers of what it reads.                      *)
(***************************************************************************)
OutboxRead == mbxoutpost # 0 /\ evSM1
CanPost == mbxoutpost = 0 /\ OutReq # {}
CanRead == mbxoutpost = 0 /\ OutReq = {} /\ inbox

MbxOutboxRead_LeaksBackup ==
  /\ OutboxRead /\ evSM1' = FALSE
  /\ state' = [state EXCEPT ![mbxoutpost] = "backup"]
  /\ mbxbackup' = mbxoutpost /\ mbxoutpost' = 0
  /\ UNCHANGED <<MBX, inbox, outbox>>

MbxOutboxRead ==
  /\ OutboxRead /\ evSM1' = FALSE
  /\ state' = [n \in OutBuffers |-> IF n = mbxoutpost THEN "backup"
                                    ELSE IF n = mbxbackup THEN "idle" ELSE state[n]]
  /\ mbxbackup' = mbxoutpost /\ mbxoutpost' = 0
  /\ UNCHANGED <<MBX, inbox, outbox>>

MbxPost ==
  /\ CanPost
  /\ LET n == Highest(OutReq)
     IN  /\ outbox' = MBX[n]
         /\ state' = [state EXCEPT ![n] = "outpost"]
         /\ mbxoutpost' = n
  /\ UNCHANGED <<MBX, mbxbackup, inbox, evSM1>>

\* A request is answered at once, or has no answer, or finds no buffer for it.
MbxRead ==
  /\ CanRead /\ inbox' = FALSE
  /\ \/ IdleOut # {} /\ Queue(Answer)
     \/ UNCHANGED <<state, MBX>>
  /\ UNCHANGED <<mbxoutpost, mbxbackup, outbox, evSM1>>

MbxIdle ==
  /\ ~OutboxRead /\ ~CanPost /\ ~CanRead
  /\ UNCHANGED <<slots, inbox, outbox, evSM1>>

ESC_mbxprocess ==
  /\ pc = "mbx" /\ pc' = "tx"
  /\ IF MBXrun
     THEN MbxOutboxRead \/ MbxPost \/ MbxRead \/ MbxIdle
     ELSE UNCHANGED <<slots, inbox, outbox, evSM1>>
  /\ UNCHANGED <<MBXrun, tx, queued, got>>

---------------------------------------------------------------------------
(***************************************************************************)
(* EOE_send_fragment.                                                      *)
(***************************************************************************)
\* What is left of the frame, or as many whole blocks as fit.
Chunk_AnyLength(left) == IF left > Room THEN Room ELSE left
Chunk(left) == IF left > Room THEN (Room \div Block) * Block ELSE left

Blocks(size) == (size + Block - 1) \div Block

\* EOE_init_tx: without a free_buffer the payload stays set.
EOE_init_tx_KeepsFrame ==
  /\ txfragmentno' = 0 /\ txframesize' = 0 /\ txframeoffset' = 0
  /\ txebuf' = TRUE

EOE_init_tx ==
  /\ txfragmentno' = 0 /\ txframesize' = 0 /\ txframeoffset' = 0
  /\ txebuf' = ~FreeSupplied

\* The next fragment of a frame of size octets, when a buffer is free.
SendPart(size) ==
  LET len  == Chunk(size - txframeoffset)
      last == len = size - txframeoffset
      field == IF txfragmentno > 0 THEN txframeoffset \div Block ELSE Blocks(size)
  IN  /\ frameno' = IF txfragmentno = 0 THEN (frameno + 1) % FrameNumbers ELSE frameno
      /\ Queue(Fragment(frameno', txfragmentno, field, last, txframeoffset, len, size))
      /\ IF last
         THEN EOE_init_tx
         ELSE /\ txebuf' = TRUE /\ txframesize' = size
              /\ txframeoffset' = txframeoffset + len
              /\ txfragmentno' = txfragmentno + 1

\* A frame that was fetched and finds no buffer waits for the next turn.
Send(size) ==
  IF IdleOut # {}
  THEN SendPart(size)
  ELSE /\ txebuf' = TRUE /\ txframesize' = size
       /\ UNCHANGED <<state, MBX, txframeoffset, txfragmentno, frameno>>

SendFrame == txebuf /\ Send(txframesize) /\ UNCHANGED queued

\* fetch_send_buffer hands out a frame of the application, which may have more.
FetchFrame ==
  /\ ~txebuf /\ queued
  /\ queued' \in BOOLEAN
  /\ \E size \in Sizes : Send(size)

NothingToSend == ~txebuf /\ ~queued /\ UNCHANGED <<state, MBX, tx, queued>>

ESC_eoeprocess_tx ==
  /\ pc = "tx" /\ pc' = "mbx"
  /\ IF MBXrun
     THEN SendFrame \/ FetchFrame \/ NothingToSend
     ELSE UNCHANGED <<state, MBX, tx, queued>>
  /\ UNCHANGED <<MBXrun, mbxoutpost, mbxbackup, inbox, outbox, evSM1, got>>

---------------------------------------------------------------------------
(***************************************************************************)
(* ESC_state starts and stops the mailboxes before ESC_mbxprocess; nothing *)
(* tells EoE.                                                              *)
(***************************************************************************)
ESC_startmbx ==
  /\ pc = "mbx" /\ ~MBXrun /\ MBXrun' = TRUE
  /\ UNCHANGED <<pc, slots, inbox, outbox, evSM1, tx, queued, got>>

ESC_stopmbx ==
  /\ pc = "mbx" /\ MBXrun /\ MBXrun' = FALSE
  /\ state' = [n \in OutBuffers |-> "idle"]
  /\ mbxoutpost' = 0 /\ mbxbackup' = 0
  /\ inbox' = FALSE /\ outbox' = NoMsg /\ evSM1' = FALSE /\ got' = NoMsg
  /\ UNCHANGED <<pc, MBX, tx, queued>>

Loop == ESC_mbxprocess \/ ESC_eoeprocess_tx

\* The master and the application, at any moment.
WriteInbox ==
  /\ MBXrun /\ ~inbox /\ inbox' = TRUE
  /\ UNCHANGED <<pc, MBXrun, slots, outbox, evSM1, tx, queued, got>>

ReadOutbox ==
  /\ outbox # NoMsg /\ outbox' = NoMsg /\ evSM1' = TRUE
  /\ got' = IF outbox.kind = "fragment" THEN outbox ELSE got
  /\ UNCHANGED <<pc, MBXrun, slots, inbox, tx, queued>>

QueueFrame ==
  /\ ~queued /\ queued' = TRUE
  /\ UNCHANGED <<pc, MBXrun, slots, inbox, outbox, evSM1, tx, got>>

Init ==
  /\ pc = "mbx"
  /\ MBXrun = FALSE
  /\ state = [n \in OutBuffers |-> "idle"]
  /\ MBX = [n \in OutBuffers |-> NoMsg]
  /\ mbxoutpost = 0 /\ mbxbackup = 0
  /\ inbox = FALSE /\ outbox = NoMsg /\ evSM1 = FALSE
  /\ txebuf = FALSE
  /\ txframesize = 0 /\ txframeoffset = 0 /\ txfragmentno = 0 /\ frameno = 0
  /\ queued = FALSE
  /\ got = NoMsg

Next == \/ Loop \/ ESC_startmbx \/ ESC_stopmbx
        \/ WriteInbox \/ ReadOutbox \/ QueueFrame

Spec == Init /\ [][Next]_vars

\* The loop never blocks; the master keeps reading its outbox.
FairSpec == Spec /\ WF_vars(Loop) /\ WF_vars(ReadOutbox)

---------------------------------------------------------------------------
TypeOK ==
  /\ pc \in {"mbx", "tx"}
  /\ state \in [OutBuffers -> {"idle", "outreq", "outpost", "backup"}]
  /\ \A n \in OutBuffers : MBX[n].kind \in {"none", "answer", "fragment"}
  /\ mbxoutpost \in 0 .. N - 1 /\ mbxbackup \in 0 .. N - 1
  /\ txframesize \in Sizes \union {0}
  /\ txframeoffset \in Nat /\ txfragmentno \in Nat
  /\ txframeoffset <= txframesize
  /\ frameno \in 0 .. FrameNumbers - 1
  /\ {MBXrun, inbox, evSM1, txebuf, queued} \subseteq BOOLEAN

\* The fragments the master reads put the frames together again, whatever answers
\* travel between them and however the buffers are reused: numbers, offsets and
\* octets follow on, a frame begins only where the one before it has ended, and the
\* last fragment ends the size the first one announced.  After a restart the first
\* fragment read may be any.
Follows(old, new) ==
  /\ new.frag = 0 =>
       /\ old.last /\ new.frame = (old.frame + 1) % FrameNumbers
       /\ new.from = 0
       /\ new.field * Block >= new.size /\ (new.field - 1) * Block < new.size
  /\ new.frag # 0 =>
       /\ ~old.last /\ new.frame = old.frame /\ new.size = old.size
       /\ new.frag = old.frag + 1
       /\ new.from = old.from + old.len /\ new.field * Block = new.from
  /\ new.last <=> new.from + new.len = new.size

StreamInOrder ==
  [][got' # got /\ got # NoMsg /\ got' # NoMsg => Follows(got, got')]_vars

\* A transfer is on-going only while it has something to send: no fragment is empty.
NoEmptyFragment ==
  \A n \in OutBuffers : MBX[n].kind = "fragment" => MBX[n].len > 0

\* A frame the slave began is sent to its end, unless the mailboxes stop.
FrameCompletes == txebuf ~> ~txebuf \/ ~MBXrun

\* The inbox is served once the application has nothing more to send.
QuietServesInbox == <>[]~queued => (inbox ~> ~inbox)

\* "read mailbox if full and no xoe in progress": the inbox is served, whatever the
\* application sends.
InboxServed == inbox ~> ~inbox
=============================================================================
