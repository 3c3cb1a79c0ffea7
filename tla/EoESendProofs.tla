--------------------------- MODULE EoESendProofs ---------------------------
(***************************************************************************)
(* Proofs about EoESend, for frames and fragments of any size.  The order  *)
(* of the stream is a theorem for three buffers, which is what the shipped *)
(* configuration has; with four it does not hold.                          *)
(***************************************************************************)
EXTENDS EoESend, WellFoundedInduction, TLAPS

USE ConstAssumption DEF ConstAssumption

---------------------------------------------------------------------------
(***************************************************************************)
(* The frame in progress.                                                  *)
(***************************************************************************)
Boxes == MBX = [n \in OutBuffers |-> MBX[n]]

\* Between two fragments of a frame some of it is left, and the next begins where a
\* block does.  Without a free_buffer a frame that was sent stays, with a size of 0.
FrameInv ==
  /\ txfragmentno = 0 => txframeoffset = 0
  /\ txfragmentno # 0 => txebuf /\ \E k \in Nat : txframeoffset = k * Block
  /\ FreeSupplied => IF txebuf THEN txframeoffset < txframesize ELSE txfragmentno = 0
  /\ ~txebuf => txframeoffset = 0

(***************************************************************************)
(* Three buffers: 0 has the requests, 1 and 2 carry what is sent.          *)
(***************************************************************************)
\* Buffer 2 is claimed and posted before buffer 1, so 1 is in use only behind 2.
RolesInv ==
  /\ \A n \in OutBuffers : state[n] = "outreq" => MBX[n].kind \in {"answer", "fragment"}
  /\ mbxoutpost \in 0 .. 2 /\ mbxbackup \in 0 .. 2
  /\ \A n \in 1 .. 2 : /\ state[n] = "outpost" <=> mbxoutpost = n
                       /\ state[n] = "backup" <=> mbxbackup = n
  /\ state[1] = "outreq" => state[2] # "idle"
  /\ state[1] = "outpost" => state[2] = "backup"

\* The outbox holds the message posted until the slave can see that it was read, and
\* what was read last is a fragment.
OutboxInv ==
  /\ outbox # NoMsg => mbxoutpost # 0 /\ outbox.kind \in {"answer", "fragment"}
  /\ mbxoutpost # 0 => (outbox = NoMsg) = evSM1
  /\ mbxoutpost = 0 => ~evSM1
  /\ got # NoMsg => got.kind = "fragment"

\* The messages in the order they were produced: the last one read, the one in the
\* outbox, and those that wait.
At(place) ==
  CASE place = 0 -> got
    [] place = 1 -> outbox
    [] place = 2 -> IF state[2] = "outreq" THEN MBX[2] ELSE NoMsg
    [] place = 3 -> IF state[1] = "outreq" THEN MBX[1] ELSE NoMsg
Stream == [place \in 0 .. 3 |-> At(place)]

Sent(s, place) == s[place].kind = "fragment"
LastSent(s, place) ==
  place \in 0 .. 3 /\ Sent(s, place) /\ \A r \in 0 .. 3 : place < r => ~Sent(s, r)

\* What EOE_send_fragment sends next follows on message m.
Continues(m) ==
  /\ frameno = m.frame
  /\ IF m.last
     THEN txfragmentno = 0
     ELSE /\ txfragmentno = m.frag + 1 /\ m.frag \in Nat
          /\ txframesize = m.size /\ txframeoffset = m.from + m.len

InOrder(s) ==
  \A p, q \in 0 .. 3 :
    p < q /\ Sent(s, p) /\ Sent(s, q) /\ (\A r \in 0 .. 3 : p < r /\ r < q => ~Sent(s, r))
    => Follows(s[p], s[q])
Ended(s) == \A p \in 0 .. 3 : LastSent(s, p) => Continues(s[p])

StreamInv == InOrder(Stream) /\ Ended(Stream)
IInv == TypeOK /\ Boxes /\ FrameInv
OrderInv == RolesInv /\ OutboxInv /\ StreamInv

---------------------------------------------------------------------------
(***************************************************************************)
(* Blocks and buffers.                                                     *)
(***************************************************************************)
LEMMA DivBounds ==
  ASSUME NEW a \in Nat, NEW b \in Nat, b > 0
  PROVE  /\ a \div b \in Nat
         /\ b * (a \div b) <= a
         /\ a < b * (a \div b) + b
  <1>1. a \div b \in Nat
    BY SMT
  <1>2. b * (a \div b) <= a
    BY SMT
  <1>3. a < b * (a \div b) + b
    BY SMT
  <1> QED
    BY <1>1, <1>2, <1>3

\* A fragment takes what is left or less, in whole blocks then.
LEMMA ChunkFits ==
  ASSUME NEW left \in Nat
  PROVE  /\ Chunk(left) \in Nat /\ Chunk(left) <= left
         /\ left > 0 => Chunk(left) > 0
         /\ Chunk(left) # left => \E k \in Nat : Chunk(left) = k * Block
  <1> DEFINE k == Room \div Block
  <1>1. k \in Nat /\ Block * k <= Room /\ Room < Block * k + Block
    <2>1. Room \in Nat
      OBVIOUS
    <2> QED
      BY <2>1, DivBounds
  <1> HIDE DEF k
  <1>2. k > 0
    BY <1>1, SMT
  <1>3. k * Block = Block * k /\ k * Block \in Nat /\ k * Block > 0
    BY <1>1, <1>2, SMT
  <1>4. Chunk(left) = IF left > Room THEN k * Block ELSE left
    BY DEF Chunk, k
  <1>5. CASE left > Room
    BY <1>1, <1>3, <1>4, <1>5
  <1>6. CASE ~(left > Room)
    BY <1>4, <1>6
  <1> QED
    BY <1>5, <1>6

\* The size announced is that of the frame, rounded up to whole blocks.
LEMMA BlocksCover ==
  ASSUME NEW size \in Nat
  PROVE  Blocks(size) * Block >= size /\ (Blocks(size) - 1) * Block < size
  <1> DEFINE a == size + Block - 1
             q == a \div Block
  <1>1. a \in Nat
    BY SMT
  <1>2. q \in Nat /\ Block * q <= a /\ a < Block * q + Block
    BY <1>1, DivBounds
  <1>3. Blocks(size) = q
    BY DEF Blocks
  <1> HIDE DEF q
  <1>4. q * Block = Block * q /\ (q - 1) * Block = Block * q - Block
    BY <1>2, SMT
  <1> QED
    BY <1>2, <1>3, <1>4, SMT

\* The field of a later fragment gives its offset back.
LEMMA OffsetField ==
  ASSUME NEW k \in Nat
  PROVE  ((k * Block) \div Block) * Block = k * Block
  <1> DEFINE a == k * Block
             q == a \div Block
  <1>1. a \in Nat /\ Block * k = a
    BY SMT
  <1>2. q \in Nat /\ Block * q <= a /\ a < Block * q + Block
    BY <1>1, DivBounds
  <1> HIDE DEF q, a
  <1>3. Block * q <= Block * k /\ Block * k < Block * (q + 1)
    BY <1>1, <1>2, SMT
  <1>4. q = k
    BY <1>2, <1>3, SMT
  <1> QED
    BY <1>4 DEF q, a

\* A search that begins with the last buffer finds a buffer of the set it searches.
LEMMA HighestIn ==
  ASSUME NEW S \in SUBSET OutBuffers, S # {}
  PROVE  Highest(S) \in S
  <1> DEFINE less == OpToRel(<, Nat)
             gaps == {N - n : n \in S}
  <1>1. gaps \subseteq Nat /\ gaps # {}
    <2>1. \A n \in S : N - n \in Nat
      BY DEF OutBuffers
    <2>2. PICK n \in S : TRUE
      OBVIOUS
    <2> QED
      BY <2>1, <2>2
  <1>2. IsWellFoundedOn(less, Nat)
    BY NatLessThanWellFounded
  <1>3. \A x, y \in Nat : x < y => <<x, y>> \in less
    BY DEF OpToRel
  <1> HIDE DEF less
  <1>4. PICK g \in gaps : \A h \in gaps : ~(<<h, g>> \in less)
    BY <1>1, <1>2, WFMin
  <1>5. PICK n \in S : g = N - n
    BY <1>4
  <1>6. \A m \in S : m <= n
    <2> SUFFICES ASSUME NEW m \in S, m > n PROVE FALSE
      BY DEF OutBuffers
    <2>1. N - m \in gaps /\ N - m < g
      BY <1>5 DEF OutBuffers
    <2> QED
      BY <1>1, <1>3, <1>4, <2>1
  <1> QED
    BY <1>6 DEF Highest

\* With three buffers, buffer 2 before buffer 1.
LEMMA HighestOfTwo ==
  ASSUME N = 3, NEW S \in SUBSET OutBuffers, S # {}
  PROVE  Highest(S) = IF 2 \in S THEN 2 ELSE 1
  <1>1. Highest(S) \in S /\ OutBuffers = {1, 2}
    BY HighestIn DEF OutBuffers
  <1>2. CASE 2 \in S
    <2>1. \A n \in S : (\A m \in S : m <= n) <=> n = 2
      BY <1>1, <1>2
    <2> QED
      BY <1>2, <2>1 DEF Highest
  <1> QED
    BY <1>1, <1>2

---------------------------------------------------------------------------
(***************************************************************************)
(* The frame in progress.                                                  *)
(***************************************************************************)
\* A message queued leaves the buffers what they are.
LEMMA QueueTypes ==
  ASSUME TypeOK, Boxes, NEW msg, msg.kind \in {"answer", "fragment"}, IdleOut # {}, Queue(msg)
  PROVE  /\ Boxes'
         /\ state' \in [OutBuffers -> {"idle", "outreq", "outpost", "backup"}]
         /\ \A n \in OutBuffers : MBX'[n].kind \in {"none", "answer", "fragment"}
  <1> DEFINE h == Highest(IdleOut)
  <1>1. h \in OutBuffers
    BY HighestIn DEF IdleOut
  <1>2. state' = [state EXCEPT ![h] = "outreq"] /\ MBX' = [MBX EXCEPT ![h] = msg]
    BY DEF Queue
  <1> HIDE DEF h
  <1>3. \A n \in OutBuffers : MBX'[n] = MBX[n] \/ MBX'[n] = msg
    BY <1>1, <1>2 DEF Boxes
  <1> QED
    BY <1>1, <1>2, <1>3 DEF TypeOK, Boxes

\* The part sent is of the frame, and what is left of it begins where a block does.
LEMMA PartKeeps ==
  ASSUME IInv, NEW size \in Sizes \union {0}, IdleOut # {}, SendPart(size),
         txframeoffset <= size, FreeSupplied => txframeoffset < size
  PROVE  /\ Boxes' /\ FrameInv'
         /\ state' \in [OutBuffers -> {"idle", "outreq", "outpost", "backup"}]
         /\ \A n \in OutBuffers : MBX'[n].kind \in {"none", "answer", "fragment"}
         /\ txframesize' \in Sizes \union {0}
         /\ txframeoffset' \in Nat /\ txfragmentno' \in Nat /\ txframeoffset' <= txframesize'
         /\ frameno' \in 0 .. FrameNumbers - 1 /\ txebuf' \in BOOLEAN
  <1> DEFINE left == size - txframeoffset
             len  == Chunk(left)
             last == len = left
             field == IF txfragmentno > 0 THEN txframeoffset \div Block ELSE Blocks(size)
             msg == Fragment(frameno', txfragmentno, field, last, txframeoffset, len, size)
  <1>1. size \in Nat /\ left \in Nat /\ (FreeSupplied => left > 0)
        /\ txframeoffset \in Nat /\ txfragmentno \in Nat
    BY DEF IInv, TypeOK
  <1>2. /\ len \in Nat /\ len <= left /\ (left > 0 => len > 0)
        /\ ~last => \E k \in Nat : len = k * Block
    BY <1>1, ChunkFits
  <1>3. /\ frameno' = IF txfragmentno = 0 THEN (frameno + 1) % FrameNumbers ELSE frameno
        /\ Queue(msg)
        /\ last => EOE_init_tx
        /\ ~last => /\ txebuf' = TRUE /\ txframesize' = size
                    /\ txframeoffset' = txframeoffset + len
                    /\ txfragmentno' = txfragmentno + 1
    BY DEF SendPart
  <1>4. msg.kind = "fragment"
    BY DEF Fragment
  <1> HIDE DEF msg
  <1>5. /\ Boxes'
        /\ state' \in [OutBuffers -> {"idle", "outreq", "outpost", "backup"}]
        /\ \A n \in OutBuffers : MBX'[n].kind \in {"none", "answer", "fragment"}
    BY <1>3, <1>4, QueueTypes DEF IInv
  <1>6. frameno' \in 0 .. FrameNumbers - 1
    BY <1>3 DEF IInv, TypeOK
  <1> HIDE DEF len
  <1>7. CASE last
    <2>1. txfragmentno' = 0 /\ txframesize' = 0 /\ txframeoffset' = 0 /\ txebuf' = ~FreeSupplied
      BY <1>3, <1>7 DEF EOE_init_tx
    <2>2. txebuf' \in BOOLEAN /\ (FreeSupplied => txebuf' = FALSE)
      <3>1. FreeSupplied \in BOOLEAN
        OBVIOUS
      <3> QED
        BY ONLY <2>1, <3>1, Zenon
    <2>3. FrameInv'
      BY <2>1, <2>2 DEF FrameInv
    <2> QED
      BY <1>5, <1>6, <2>1, <2>2, <2>3
  <1>8. CASE ~last
    <2>1. txebuf' = TRUE /\ txframesize' = size /\ txfragmentno' = txfragmentno + 1
          /\ txframeoffset' = txframeoffset + len /\ len < left
      BY <1>1, <1>2, <1>3, <1>8
    <2>2. PICK j \in Nat : txframeoffset = j * Block
      <3>1. 0 = 0 * Block
        BY SMT
      <3> QED
        BY <1>1, <3>1 DEF IInv, FrameInv
    <2>3. PICK k \in Nat : len = k * Block
      BY <1>2, <1>8
    <2>4. txframeoffset' = (j + k) * Block
      BY <2>1, <2>2, <2>3, SMT
    <2>5. txframeoffset' < size
      BY <1>1, <1>2, <2>1
    <2>6. /\ txframeoffset' \in Nat /\ txfragmentno' \in Nat /\ txfragmentno' # 0
          /\ txframeoffset' <= txframesize'
      BY <1>1, <1>2, <2>1, <2>5
    <2>7. \E i \in Nat : txframeoffset' = i * Block
      BY <2>4
    <2>8. FrameInv'
      BY ONLY <2>1, <2>5, <2>6, <2>7, FreeSupplied \in BOOLEAN DEF FrameInv
    <2> QED
      BY <1>5, <1>6, <2>1, <2>6, <2>8
  <1> QED
    BY <1>7, <1>8

\* Flags together and one by one.
LEMMA Flags ==
  \A a, b, c, d, e :
    {a, b, c, d, e} \subseteq BOOLEAN
    <=> a \in BOOLEAN /\ b \in BOOLEAN /\ c \in BOOLEAN /\ d \in BOOLEAN /\ e \in BOOLEAN
  BY Zenon

LEMMA TxKeeps == IInv /\ ESC_eoeprocess_tx => IInv'
  <1> SUFFICES ASSUME IInv, ESC_eoeprocess_tx PROVE IInv'
    OBVIOUS
  <1>1. /\ pc' = "mbx" /\ MBXrun' = MBXrun /\ mbxoutpost' = mbxoutpost /\ mbxbackup' = mbxbackup
        /\ inbox' = inbox /\ outbox' = outbox /\ evSM1' = evSM1
    BY DEF ESC_eoeprocess_tx
  <1>2. ASSUME NEW size \in Sizes \union {0}, Send(size), queued' \in BOOLEAN,
               txframeoffset <= size, FreeSupplied => txframeoffset < size,
               txframesize = size \/ ~txebuf
        PROVE  IInv'
    <2>1. CASE IdleOut # {}
      <3>1. SendPart(size)
        BY <1>2, <2>1 DEF Send
      <3> QED
        BY <1>1, <1>2, <2>1, <3>1, PartKeeps DEF IInv, TypeOK
    <2>2. CASE IdleOut = {}
      <3>1. txebuf' = TRUE /\ txframesize' = size /\ state' = state /\ MBX' = MBX
            /\ txframeoffset' = txframeoffset /\ txfragmentno' = txfragmentno /\ frameno' = frameno
        BY <1>2, <2>2 DEF Send
      <3>2. TypeOK'
        BY <1>1, <1>2, <3>1 DEF IInv, TypeOK
      <3>3. Boxes' /\ FrameInv'
        BY <1>2, <3>1 DEF IInv, Boxes, FrameInv
      <3> QED
        BY <3>2, <3>3 DEF IInv
    <2> QED
      BY <2>1, <2>2
  <1>3. CASE MBXrun /\ SendFrame
    <2>1. txframesize \in Sizes \union {0} /\ txframeoffset <= txframesize
          /\ (FreeSupplied => txframeoffset < txframesize)
      BY <1>3 DEF IInv, TypeOK, FrameInv, SendFrame
    <2> QED
      BY <1>2, <1>3, <2>1 DEF SendFrame, IInv, TypeOK
  <1>4. CASE MBXrun /\ FetchFrame
    <2>1. PICK size \in Sizes : Send(size)
      BY <1>4 DEF FetchFrame
    <2>2. txframeoffset = 0 /\ size > 0 /\ ~txebuf /\ queued' \in BOOLEAN
      BY <1>4 DEF FetchFrame, IInv, FrameInv
    <2> QED
      BY <1>2, <2>1, <2>2
  <1>5. CASE UNCHANGED <<state, MBX, tx, queued>>
    BY <1>1, <1>5 DEF IInv, TypeOK, Boxes, FrameInv, tx
  <1> QED
    BY <1>3, <1>4, <1>5 DEF ESC_eoeprocess_tx, NothingToSend

LEMMA MbxKeeps == IInv /\ ESC_mbxprocess => IInv'
  <1> SUFFICES ASSUME IInv, ESC_mbxprocess PROVE IInv'
    OBVIOUS
  <1>1. pc' = "tx" /\ UNCHANGED <<MBXrun, tx, queued>>
    BY DEF ESC_mbxprocess
  <1>2. FrameInv'
    BY <1>1 DEF IInv, FrameInv, tx
  <1>3. SUFFICES /\ Boxes' /\ state' \in [OutBuffers -> {"idle", "outreq", "outpost", "backup"}]
                 /\ \A n \in OutBuffers : MBX'[n].kind \in {"none", "answer", "fragment"}
                 /\ mbxoutpost' \in 0 .. N - 1 /\ mbxbackup' \in 0 .. N - 1
                 /\ {inbox', evSM1'} \subseteq BOOLEAN
    BY <1>1, <1>2 DEF IInv, TypeOK, tx
  <1>4. CASE MbxOutboxRead
    <2>1. /\ evSM1' = FALSE /\ mbxbackup' = mbxoutpost /\ mbxoutpost' = 0
          /\ MBX' = MBX /\ inbox' = inbox
          /\ state' = [n \in OutBuffers |-> IF n = mbxoutpost THEN "backup"
                                            ELSE IF n = mbxbackup THEN "idle" ELSE state[n]]
      BY <1>4 DEF MbxOutboxRead
    <2>2. state' \in [OutBuffers -> {"idle", "outreq", "outpost", "backup"}]
      BY <2>1 DEF IInv, TypeOK
    <2>3. {inbox', evSM1'} \subseteq BOOLEAN
      <3>1. inbox \in BOOLEAN
        BY Flags DEF IInv, TypeOK
      <3> QED
        BY <2>1, <3>1
    <2> QED
      BY <2>1, <2>2, <2>3 DEF IInv, TypeOK, Boxes
  <1>5. CASE MbxPost
    <2>1. Highest(OutReq) \in OutBuffers
      BY <1>5, HighestIn DEF MbxPost, CanPost, OutReq
    <2> QED
      BY <1>5, <2>1 DEF MbxPost, IInv, TypeOK, Boxes, OutBuffers
  <1>6. CASE MbxRead
    <2>1. Answer.kind = "answer"
      BY DEF Answer
    <2>2. CASE IdleOut # {} /\ Queue(Answer)
      <3>1. /\ Boxes'
            /\ state' \in [OutBuffers -> {"idle", "outreq", "outpost", "backup"}]
            /\ \A n \in OutBuffers : MBX'[n].kind \in {"none", "answer", "fragment"}
        BY <2>1, <2>2, QueueTypes DEF IInv
      <3> QED
        BY <1>6, <3>1 DEF MbxRead, IInv, TypeOK
    <2>3. CASE UNCHANGED <<state, MBX>>
      BY <1>6, <2>3 DEF MbxRead, IInv, TypeOK, Boxes
    <2> QED
      BY <1>6, <2>2, <2>3 DEF MbxRead
  <1>7. CASE UNCHANGED <<slots, inbox, outbox, evSM1>>
    BY <1>7 DEF IInv, TypeOK, Boxes, slots
  <1> QED
    BY <1>4, <1>5, <1>6, <1>7 DEF ESC_mbxprocess, MbxIdle

LEMMA InitInv == Init => IInv
  <1> SUFFICES ASSUME Init PROVE IInv
    OBVIOUS
  <1>1. TypeOK
    <2>1. NoMsg.kind = "none"
      BY DEF NoMsg
    <2>2. {MBXrun, inbox, evSM1, txebuf, queued} \subseteq BOOLEAN
      BY Flags DEF Init
    <2>3. /\ state \in [OutBuffers -> {"idle", "outreq", "outpost", "backup"}]
          /\ \A n \in OutBuffers : MBX[n].kind \in {"none", "answer", "fragment"}
      BY <2>1 DEF Init
    <2> QED
      BY <2>2, <2>3 DEF Init, TypeOK
  <1> QED
    BY <1>1 DEF Init, IInv, Boxes, FrameInv

LEMMA StepInv == IInv /\ [Next]_vars => IInv'
  <1> SUFFICES ASSUME IInv, [Next]_vars PROVE IInv'
    OBVIOUS
  <1>1. CASE ESC_startmbx
    BY <1>1, Flags DEF ESC_startmbx, IInv, TypeOK, Boxes, FrameInv, slots, tx
  <1>2. CASE ESC_stopmbx
    <2>1. /\ pc' = pc /\ MBX' = MBX /\ UNCHANGED <<txebuf, txframesize, txframeoffset>>
          /\ UNCHANGED <<txfragmentno, frameno, queued>>
          /\ MBXrun' = FALSE /\ inbox' = FALSE /\ evSM1' = FALSE
          /\ mbxoutpost' = 0 /\ mbxbackup' = 0
          /\ state' \in [OutBuffers -> {"idle", "outreq", "outpost", "backup"}]
      BY <1>2 DEF ESC_stopmbx, tx
    <2>2. ({MBXrun, inbox, evSM1, txebuf, queued} \subseteq BOOLEAN)'
      BY <2>1, Flags DEF IInv, TypeOK
    <2> QED
      BY <2>1, <2>2 DEF IInv, TypeOK, Boxes, FrameInv
  <1>3. CASE WriteInbox \/ ReadOutbox \/ QueueFrame
    <2>1. /\ pc' = pc /\ UNCHANGED <<MBXrun, slots, tx>>
          /\ inbox' \in BOOLEAN /\ evSM1' \in BOOLEAN /\ queued' \in BOOLEAN
      <3>1. inbox \in BOOLEAN /\ evSM1 \in BOOLEAN /\ queued \in BOOLEAN
        BY Flags DEF IInv, TypeOK
      <3> QED
        BY <1>3, <3>1 DEF WriteInbox, ReadOutbox, QueueFrame
    <2>2. ({MBXrun, inbox, evSM1, txebuf, queued} \subseteq BOOLEAN)'
      BY <2>1, Flags DEF IInv, TypeOK, tx
    <2> QED
      BY <2>1, <2>2 DEF IInv, TypeOK, Boxes, FrameInv, slots, tx
  <1>4. CASE UNCHANGED vars
    BY <1>4 DEF vars, slots, tx, IInv, TypeOK, Boxes, FrameInv
  <1> QED
    BY <1>1, <1>2, <1>3, <1>4, TxKeeps, MbxKeeps DEF Next, Loop

LEMMA Inductive == Spec => []IInv
  BY InitInv, StepInv, PTL DEF Spec

\* Every variable stays in its type; what has been sent of a frame is not more than it.
THEOREM TypeCorrect == Spec => []TypeOK
  <1>1. IInv => TypeOK
    BY DEF IInv
  <1> QED
    BY <1>1, Inductive, PTL

---------------------------------------------------------------------------
(***************************************************************************)
(* No fragment is empty.                                                   *)
(***************************************************************************)
LEMMA StepFull == FreeSupplied /\ IInv /\ NoEmptyFragment /\ [Next]_vars => NoEmptyFragment'
  <1> SUFFICES ASSUME FreeSupplied, IInv, NoEmptyFragment, [Next]_vars PROVE NoEmptyFragment'
    OBVIOUS
  <1>1. ASSUME NEW msg, Queue(msg), IdleOut # {}, msg.kind = "fragment" => msg.len > 0
        PROVE  NoEmptyFragment'
    <2> DEFINE h == Highest(IdleOut)
    <2>1. h \in OutBuffers /\ MBX' = [MBX EXCEPT ![h] = msg]
      BY <1>1, HighestIn DEF IdleOut, Queue
    <2> HIDE DEF h
    <2>2. \A n \in OutBuffers : MBX'[n] = MBX[n] \/ MBX'[n] = msg
      BY <2>1 DEF IInv, Boxes
    <2> QED
      BY <1>1, <2>2 DEF NoEmptyFragment
  <1>2. ASSUME NEW size \in Nat, Send(size), txframeoffset < size
        PROVE  NoEmptyFragment'
    <2>1. CASE IdleOut # {}
      <3> DEFINE left == size - txframeoffset
                 len  == Chunk(left)
                 field == IF txfragmentno > 0 THEN txframeoffset \div Block ELSE Blocks(size)
                 msg == Fragment(frameno', txfragmentno, field, len = left, txframeoffset, len, size)
      <3>1. Queue(msg)
        BY <1>2, <2>1 DEF Send, SendPart
      <3>2. msg.len = len
        BY DEF Fragment
      <3>3. len > 0
        BY <1>2, ChunkFits DEF IInv, TypeOK
      <3> HIDE DEF msg
      <3> QED
        BY <1>1, <2>1, <3>1, <3>2, <3>3
    <2>2. CASE IdleOut = {}
      BY <1>2, <2>2 DEF Send, NoEmptyFragment
    <2> QED
      BY <2>1, <2>2
  <1>3. CASE ESC_eoeprocess_tx
    <2>1. CASE SendFrame
      <3>1. txframesize \in Nat /\ txframeoffset < txframesize
        BY <2>1 DEF SendFrame, IInv, TypeOK, FrameInv
      <3> QED
        BY <1>2, <2>1, <3>1 DEF SendFrame
    <2>2. CASE FetchFrame
      <3>1. PICK size \in Sizes : Send(size)
        BY <2>2 DEF FetchFrame
      <3>2. size \in Nat /\ txframeoffset < size
        BY <2>2 DEF FetchFrame, IInv, FrameInv
      <3> QED
        BY <1>2, <3>1, <3>2
    <2> QED
      BY <1>3, <2>1, <2>2 DEF ESC_eoeprocess_tx, NothingToSend, NoEmptyFragment
  <1>4. CASE ESC_mbxprocess
    <2>1. CASE IdleOut # {} /\ Queue(Answer)
      BY <1>1, <2>1 DEF Answer
    <2>2. CASE MBX' = MBX
      BY <2>2 DEF NoEmptyFragment
    <2> QED
      BY <1>4, <2>1, <2>2
      DEF ESC_mbxprocess, MbxOutboxRead, MbxPost, MbxRead, MbxIdle, slots
  <1>5. CASE MBX' = MBX
    BY <1>5 DEF NoEmptyFragment
  <1> QED
    BY <1>3, <1>4, <1>5
    DEF Next, Loop, ESC_startmbx, ESC_stopmbx, WriteInbox, ReadOutbox, QueueFrame, vars, slots

\* EOE_send_fragment sends no fragment without octets: once the last one is sent the
\* frame is given back and the next one fetched.  It rests on free_buffer.
THEOREM PartsCorrect == FreeSupplied => (Spec => []NoEmptyFragment)
  <1> SUFFICES ASSUME FreeSupplied PROVE Spec => []NoEmptyFragment
    OBVIOUS
  <1>1. Init => NoEmptyFragment
    BY DEF Init, NoEmptyFragment, NoMsg
  <1>2. IInv /\ NoEmptyFragment /\ [Next]_vars => NoEmptyFragment'
    BY StepFull
  <1> QED
    BY <1>1, <1>2, Inductive, PTL DEF Spec

---------------------------------------------------------------------------
(***************************************************************************)
(* The stream, as a function from places to messages.                      *)
(***************************************************************************)
\* A message moves forward over places without fragments, onto one without a fragment
\* or onto the one the master read before.
LEMMA Moved ==
  ASSUME NEW s, NEW t, NEW p \in 0 .. 3, NEW q \in 0 .. 3, p < q,
         \A r \in 0 .. 3 : p < r /\ r < q => ~Sent(s, r),
         (p = 0 /\ Sent(s, q)) \/ ~Sent(s, p),
         t[p] = s[q],
         \A r \in 0 .. 3 : p < r /\ r <= q => ~Sent(t, r),
         \A r \in 0 .. 3 : r < p \/ r > q => t[r] = s[r],
         InOrder(s)
  PROVE  InOrder(t) /\ \A r \in 0 .. 3 : LastSent(t, r) => \E o \in 0 .. 3 : LastSent(s, o) /\ t[r] = s[o]
  BY DEF InOrder, Sent, LastSent

\* A message that is none or no fragment makes no difference.
LEMMA Same ==
  ASSUME NEW s, NEW t,
         \A r \in 0 .. 3 : t[r] = s[r] \/ (~Sent(s, r) /\ ~Sent(t, r)),
         InOrder(s)
  PROVE  InOrder(t) /\ \A r \in 0 .. 3 : LastSent(t, r) => LastSent(s, r) /\ t[r] = s[r]
  BY DEF InOrder, Sent, LastSent

\* A fragment that follows on the last one is put behind it.
LEMMA Added ==
  ASSUME NEW s, NEW t, NEW p \in 0 .. 3,
         \A r \in 0 .. 3 : r >= p => ~Sent(s, r),
         \A r \in 0 .. 3 : r # p => t[r] = s[r],
         Sent(t, p), \A r \in 0 .. 3 : LastSent(s, r) => Follows(s[r], t[p]),
         InOrder(s)
  PROVE  InOrder(t) /\ \A r \in 0 .. 3 : LastSent(t, r) => r = p
  <1>1. ASSUME NEW i \in 0 .. 3, NEW j \in 0 .. 3, i < j, Sent(t, i), Sent(t, j),
               \A r \in 0 .. 3 : i < r /\ r < j => ~Sent(t, r)
        PROVE  Follows(t[i], t[j])
    <2>1. CASE j < p
      <3>1. \A r \in 0 .. 3 : r <= j => t[r] = s[r]
        BY <1>1, <2>1
      <3> QED
        BY <1>1, <2>1, <3>1 DEF InOrder, Sent
    <2>2. CASE j = p
      <3>1. t[i] = s[i] /\ LastSent(s, i)
        BY <1>1, <2>2 DEF LastSent, Sent
      <3> QED
        BY <2>2, <3>1
    <2>3. CASE j > p
      <3>1. t[j] = s[j] /\ ~Sent(s, j)
        BY <2>3
      <3> QED
        BY <1>1, <3>1 DEF Sent
    <2> QED
      BY <2>1, <2>2, <2>3
  <1>2. InOrder(t)
    BY <1>1 DEF InOrder
  <1>3. ASSUME NEW r \in 0 .. 3, LastSent(t, r), r # p
        PROVE  FALSE
    BY <1>3 DEF LastSent, Sent
  <1> QED
    BY <1>2, <1>3

\* The places now and in the next state.
LEMMA Places ==
  /\ Stream[0] = got /\ Stream[1] = outbox
  /\ Stream[2] = IF state[2] = "outreq" THEN MBX[2] ELSE NoMsg
  /\ Stream[3] = IF state[1] = "outreq" THEN MBX[1] ELSE NoMsg
  /\ Stream'[0] = got' /\ Stream'[1] = outbox'
  /\ Stream'[2] = IF state'[2] = "outreq" THEN MBX'[2] ELSE NoMsg
  /\ Stream'[3] = IF state'[1] = "outreq" THEN MBX'[1] ELSE NoMsg
  <1>1. /\ Stream[0] = got /\ Stream[1] = outbox
        /\ Stream[2] = IF state[2] = "outreq" THEN MBX[2] ELSE NoMsg
        /\ Stream[3] = IF state[1] = "outreq" THEN MBX[1] ELSE NoMsg
    BY DEF Stream, At
  <1>2. /\ Stream'[0] = got' /\ Stream'[1] = outbox'
        /\ Stream'[2] = IF state'[2] = "outreq" THEN MBX'[2] ELSE NoMsg
        /\ Stream'[3] = IF state'[1] = "outreq" THEN MBX'[1] ELSE NoMsg
    BY DEF Stream, At
  <1> QED
    BY <1>1, <1>2

\* While nothing is sent, the last message only has to stay the last.
LEMMA StillEnded ==
  ASSUME Ended(Stream), UNCHANGED tx, InOrder(Stream'),
         \A r \in 0 .. 3 : LastSent(Stream', r)
                         => \E o \in 0 .. 3 : LastSent(Stream, o) /\ Stream'[r] = Stream[o]
  PROVE  StreamInv'
  <1>1. ASSUME NEW r \in 0 .. 3, LastSent(Stream', r)
        PROVE  Continues(Stream[r])'
    <2>1. PICK o \in 0 .. 3 : LastSent(Stream, o) /\ Stream'[r] = Stream[o]
      BY <1>1
    <2>2. Continues(Stream[o])
      BY <2>1 DEF Ended
    <2> QED
      BY <2>1, <2>2 DEF Continues, tx
  <1>2. Ended(Stream)'
    BY <1>1 DEF Ended, LastSent, Sent
  <1>3. InOrder(Stream)'
    BY DEF InOrder, Sent, Follows
  <1> QED
    BY <1>2, <1>3 DEF StreamInv

\* ReadOutbox: the message in the outbox becomes the last one read.
LEMMA ReadOrder == OrderInv /\ ReadOutbox => OrderInv'
  <1> SUFFICES ASSUME OrderInv, ReadOutbox PROVE OrderInv'
    OBVIOUS
  <1>1. /\ outbox # NoMsg /\ outbox' = NoMsg /\ evSM1' = TRUE
        /\ got' = IF outbox.kind = "fragment" THEN outbox ELSE got
        /\ state' = state /\ MBX' = MBX /\ mbxoutpost' = mbxoutpost /\ mbxbackup' = mbxbackup
        /\ UNCHANGED tx
    BY DEF ReadOutbox, slots
  <1>2. RolesInv'
    BY <1>1 DEF OrderInv, RolesInv
  <1>3. OutboxInv'
    BY <1>1 DEF OrderInv, OutboxInv
  <1>4. NoMsg.kind = "none"
    BY DEF NoMsg
  <1> DEFINE s == Stream
             t == Stream'
  <1>5. InOrder(s) /\ Ended(Stream)
    BY DEF OrderInv, StreamInv
  <1>6. t[1] = NoMsg /\ t[2] = s[2] /\ t[3] = s[3] /\ s[0] = got /\ s[1] = outbox /\ t[0] = got'
    BY <1>1, Places
  <1> HIDE DEF s, t
  <1>7. InOrder(t) /\ \A r \in 0 .. 3 : LastSent(t, r)
                                   => \E o \in 0 .. 3 : LastSent(s, o) /\ t[r] = s[o]
    <2>1. CASE outbox.kind = "fragment"
      BY <1>1, <1>4, <1>5, <1>6, <2>1, Moved DEF Sent
    <2>2. CASE outbox.kind # "fragment"
      <3>1. \A r \in 0 .. 3 : t[r] = s[r] \/ (~Sent(s, r) /\ ~Sent(t, r))
        BY <1>1, <1>4, <1>6, <2>2 DEF Sent
      <3> QED
        BY <1>5, <3>1, Same
    <2> QED
      BY <2>1, <2>2
  <1>8. StreamInv'
    BY <1>1, <1>5, <1>7, StillEnded DEF s, t
  <1> QED
    BY <1>2, <1>3, <1>8 DEF OrderInv

\* MbxPost: buffer 2 goes before buffer 1, into an outbox that is empty.
LEMMA PostOrder ==
  ASSUME N = 3, IInv, OrderInv, MbxPost, UNCHANGED <<tx, got>>
  PROVE  OrderInv'
  <1> DEFINE n == Highest(OutReq)
             s == Stream
             t == Stream'
  <1>1. /\ mbxoutpost = 0 /\ OutReq # {} /\ outbox' = MBX[n]
        /\ state' = [state EXCEPT ![n] = "outpost"] /\ mbxoutpost' = n
        /\ MBX' = MBX /\ mbxbackup' = mbxbackup /\ evSM1' = evSM1
    BY DEF MbxPost, CanPost
  <1>2. OutBuffers = {1, 2} /\ OutReq \subseteq OutBuffers
    BY DEF OutBuffers, OutReq
  <1>3. n = IF state[2] = "outreq" THEN 2 ELSE 1
    BY <1>1, <1>2, HighestOfTwo DEF OutReq
  <1>4. state[n] = "outreq" /\ n \in 1 .. 2
    BY <1>1, <1>2, <1>3 DEF OutReq
  <1> HIDE DEF n, s, t
  <1>5. DOMAIN state = {1, 2} /\ \A m \in 1 .. 2 : state'[m] = IF m = n THEN "outpost" ELSE state[m]
    BY <1>1, <1>2 DEF IInv, TypeOK
  <1>6. /\ MBX[n].kind \in {"answer", "fragment"} /\ NoMsg.kind = "none"
        /\ outbox = NoMsg /\ evSM1 = FALSE
    <2>1. outbox = NoMsg /\ ~evSM1
      BY <1>1 DEF OrderInv, OutboxInv
    <2>2. evSM1 \in BOOLEAN
      BY Flags DEF IInv, TypeOK
    <2>3. MBX[n].kind \in {"answer", "fragment"}
      BY <1>2, <1>4 DEF OrderInv, RolesInv
    <2> QED
      BY <2>1, <2>2, <2>3 DEF NoMsg
  <1>7. RolesInv'
    <2>1. \A m \in OutBuffers : state'[m] = "outreq" => MBX'[m].kind \in {"answer", "fragment"}
      BY <1>1, <1>2, <1>5 DEF OrderInv, RolesInv
    <2>2. \A m \in 1 .. 2 : /\ state'[m] = "outpost" <=> mbxoutpost' = m
                            /\ state'[m] = "backup" <=> mbxbackup' = m
      BY <1>1, <1>4, <1>5 DEF OrderInv, RolesInv
    <2>3. state'[1] = "outreq" => state'[2] # "idle"
      BY <1>3, <1>4, <1>5 DEF OrderInv, RolesInv
    <2>4. state'[1] = "outpost" => state'[2] = "backup"
      <3> SUFFICES ASSUME n = 1 PROVE state[2] = "backup"
        BY <1>1, <1>4, <1>5 DEF OrderInv, RolesInv
      <3>1. state[2] # "idle" /\ state[2] # "outreq" /\ state[2] # "outpost"
        BY <1>1, <1>3, <1>4 DEF OrderInv, RolesInv
      <3> QED
        BY <1>2, <3>1 DEF IInv, TypeOK
    <2> QED
      <3>1. mbxoutpost' \in 0 .. 2 /\ mbxbackup' \in 0 .. 2
        BY <1>1, <1>4 DEF OrderInv, RolesInv
      <3> QED
        BY ONLY <2>1, <2>2, <2>3, <2>4, <3>1, Zenon DEF RolesInv
  <1>8. OutboxInv'
    <2>1. outbox'.kind \in {"answer", "fragment"} /\ outbox' # NoMsg /\ mbxoutpost' # 0
          /\ evSM1' = FALSE
      BY <1>1, <1>4, <1>6
    <2>2. got' # NoMsg => got'.kind = "fragment"
      BY DEF OrderInv, OutboxInv
    <2> QED
      BY <2>1, <2>2 DEF OutboxInv
  <1>9. InOrder(s) /\ Ended(Stream)
    BY DEF OrderInv, StreamInv, s
  <1>10. /\ t[0] = s[0] /\ s[1] = NoMsg /\ t[1] = MBX[n]
         /\ n = 2 => s[2] = MBX[2] /\ t[2] = NoMsg /\ t[3] = s[3]
         /\ n = 1 => s[2] = NoMsg /\ t[2] = NoMsg /\ s[3] = MBX[1] /\ t[3] = NoMsg
    BY <1>1, <1>3, <1>4, <1>5, <1>6, Places DEF s, t
  <1>11. InOrder(t) /\ \A r \in 0 .. 3 : LastSent(t, r)
                                    => \E o \in 0 .. 3 : LastSent(s, o) /\ t[r] = s[o]
    <2>1. CASE n = 2
      BY <1>6, <1>9, <1>10, <2>1, Moved DEF Sent
    <2>2. CASE n = 1
      BY <1>6, <1>9, <1>10, <2>2, Moved DEF Sent
    <2> QED
      BY <1>4, <2>1, <2>2
  <1>12. StreamInv'
    BY <1>9, <1>11, StillEnded DEF s, t
  <1> QED
    BY <1>7, <1>8, <1>12 DEF OrderInv

\* MbxOutboxRead: the buffer read becomes the backup; no message moves.
LEMMA OutboxReadOrder ==
  ASSUME N = 3, IInv, OrderInv, MbxOutboxRead, UNCHANGED <<tx, got>>
  PROVE  OrderInv'
  <1>1. /\ mbxoutpost # 0 /\ evSM1' = FALSE /\ mbxbackup' = mbxoutpost /\ mbxoutpost' = 0
        /\ MBX' = MBX /\ outbox' = outbox /\ evSM1
        /\ state' = [n \in OutBuffers |-> IF n = mbxoutpost THEN "backup"
                                          ELSE IF n = mbxbackup THEN "idle" ELSE state[n]]
    BY DEF MbxOutboxRead, OutboxRead
  <1>2. OutBuffers = {1, 2} /\ \A n \in 1 .. 2 : state[n] \in {"idle", "outreq", "outpost", "backup"}
    BY DEF OutBuffers, IInv, TypeOK
  <1>3. \A n \in 1 .. 2 : state'[n] = IF n = mbxoutpost THEN "backup"
                                     ELSE IF n = mbxbackup THEN "idle" ELSE state[n]
    BY <1>1, <1>2
  <1>4. /\ mbxoutpost \in 1 .. 2 /\ mbxbackup \in 0 .. 2
        /\ \A n \in 1 .. 2 : /\ state[n] = "outpost" <=> mbxoutpost = n
                             /\ state[n] = "backup" <=> mbxbackup = n
        /\ state[1] = "outreq" => state[2] # "idle"
        /\ state[1] = "outpost" => state[2] = "backup"
    BY <1>1 DEF OrderInv, RolesInv
  <1>5. \A n \in 1 .. 2 : state'[n] = "outreq" <=> state[n] = "outreq"
    BY <1>3, <1>4
  <1>6. RolesInv'
    <2>1. \A n \in OutBuffers : state'[n] = "outreq" => MBX'[n].kind \in {"answer", "fragment"}
      BY <1>1, <1>2, <1>5 DEF OrderInv, RolesInv
    <2>2. mbxoutpost' \in 0 .. 2 /\ mbxbackup' \in 0 .. 2
      BY <1>1, <1>4
    <2>3. \A n \in 1 .. 2 : /\ state'[n] = "outpost" <=> mbxoutpost' = n
                            /\ state'[n] = "backup" <=> mbxbackup' = n
      BY <1>1, <1>3, <1>4
    <2>4. /\ state'[1] = "outreq" => state'[2] # "idle"
          /\ state'[1] = "outpost" => state'[2] = "backup"
      BY <1>3, <1>4
    <2> QED
      BY ONLY <2>1, <2>2, <2>3, <2>4, Zenon DEF RolesInv
  <1>7. OutboxInv'
    <2>1. outbox = NoMsg /\ ~evSM1'
      BY <1>1 DEF OrderInv, OutboxInv
    <2>2. got' # NoMsg => got'.kind = "fragment"
      BY DEF OrderInv, OutboxInv
    <2> QED
      BY <1>1, <2>1, <2>2 DEF OutboxInv
  <1>8. \A r \in 0 .. 3 : Stream'[r] = Stream[r]
    BY <1>1, <1>5, Places
  <1>9. StreamInv'
    <2>1. InOrder(Stream) /\ Ended(Stream)
      BY DEF OrderInv, StreamInv
    <2> DEFINE s == Stream
               t == Stream'
    <2>2. InOrder(s) /\ \A r \in 0 .. 3 : t[r] = s[r]
      BY <1>8, <2>1
    <2> HIDE DEF s, t
    <2>3. InOrder(t) /\ \A r \in 0 .. 3 : LastSent(t, r) => LastSent(s, r) /\ t[r] = s[r]
      BY <2>2, Same
    <2> QED
      BY <2>1, <2>3, StillEnded DEF s, t
  <1> QED
    BY <1>6, <1>7, <1>9 DEF OrderInv

\* ESC_claimbuffer: the message queued is behind all others.
LEMMA QueueOrder ==
  ASSUME N = 3, IInv, OrderInv, IdleOut # {}, NEW msg, Queue(msg),
         msg.kind \in {"answer", "fragment"},
         UNCHANGED <<mbxoutpost, mbxbackup, outbox, evSM1, got>>
  PROVE  /\ RolesInv' /\ OutboxInv'
         /\ \E p \in 0 .. 3 : /\ Stream'[p] = msg
                              /\ \A r \in 0 .. 3 : r >= p => ~Sent(Stream, r)
                              /\ \A r \in 0 .. 3 : r # p => Stream'[r] = Stream[r]
  <1> DEFINE h == Highest(IdleOut)
  <1>1. OutBuffers = {1, 2} /\ IdleOut \subseteq OutBuffers
    BY DEF OutBuffers, IdleOut
  <1>2. h = IF state[2] = "idle" THEN 2 ELSE 1
    BY <1>1, HighestOfTwo DEF IdleOut
  <1>3. h \in 1 .. 2 /\ state[h] = "idle"
    BY <1>1, <1>2 DEF IdleOut
  <1>4. state' = [state EXCEPT ![h] = "outreq"] /\ MBX' = [MBX EXCEPT ![h] = msg]
    BY DEF Queue
  <1> HIDE DEF h
  <1>5. \A n \in 1 .. 2 : /\ state'[n] = IF n = h THEN "outreq" ELSE state[n]
                          /\ MBX'[n] = IF n = h THEN msg ELSE MBX[n]
    BY <1>1, <1>3, <1>4 DEF IInv, TypeOK, Boxes
  <1>6. /\ mbxoutpost \in 0 .. 2 /\ mbxbackup \in 0 .. 2
        /\ \A n \in OutBuffers : state[n] = "outreq" => MBX[n].kind \in {"answer", "fragment"}
        /\ \A n \in 1 .. 2 : /\ state[n] = "outpost" <=> mbxoutpost = n
                             /\ state[n] = "backup" <=> mbxbackup = n
        /\ state[1] = "outreq" => state[2] # "idle"
        /\ state[1] = "outpost" => state[2] = "backup"
    BY DEF OrderInv, RolesInv
  <1>7. RolesInv'
    <2>1. \A n \in OutBuffers : state'[n] = "outreq" => MBX'[n].kind \in {"answer", "fragment"}
      BY <1>1, <1>5, <1>6
    <2>2. mbxoutpost' \in 0 .. 2 /\ mbxbackup' \in 0 .. 2
      BY <1>6
    <2>3. \A n \in 1 .. 2 : /\ state'[n] = "outpost" <=> mbxoutpost' = n
                            /\ state'[n] = "backup" <=> mbxbackup' = n
      BY <1>3, <1>5, <1>6
    <2>4. /\ state'[1] = "outreq" => state'[2] # "idle"
          /\ state'[1] = "outpost" => state'[2] = "backup"
      BY <1>2, <1>3, <1>5, <1>6
    <2> QED
      BY ONLY <2>1, <2>2, <2>3, <2>4, Zenon DEF RolesInv
  <1>8. OutboxInv'
    BY DEF OrderInv, OutboxInv
  <1>9. \E p \in 0 .. 3 : /\ Stream'[p] = msg
                          /\ \A r \in 0 .. 3 : r >= p => ~Sent(Stream, r)
                          /\ \A r \in 0 .. 3 : r # p => Stream'[r] = Stream[r]
    <2> DEFINE s == Stream
               t == Stream'
    <2>1. /\ t[0] = s[0] /\ t[1] = s[1] /\ NoMsg.kind = "none"
          /\ h = 2 => t[2] = msg /\ s[2] = NoMsg /\ s[3] = NoMsg /\ t[3] = NoMsg
          /\ h = 1 => t[3] = msg /\ s[3] = NoMsg /\ t[2] = s[2]
      BY <1>2, <1>3, <1>5, <1>6, Places DEF NoMsg
    <2> HIDE DEF s, t
    <2>2. CASE h = 2
      BY <2>1, <2>2 DEF Sent, s, t
    <2>3. CASE h = 1
      BY <2>1, <2>3 DEF Sent, s, t
    <2> QED
      BY <1>3, <2>2, <2>3
  <1> QED
    BY <1>7, <1>8, <1>9

LEMMA SameOrder ==
  ASSUME OrderInv, UNCHANGED tx, \A r \in 0 .. 3 : Stream'[r] = Stream[r]
                                   \/ (~Sent(Stream, r) /\ ~Sent(Stream', r))
  PROVE  StreamInv'
  <1>1. InOrder(Stream) /\ Ended(Stream)
    BY DEF OrderInv, StreamInv
  <1> DEFINE s == Stream
             t == Stream'
  <1>2. InOrder(s) /\ \A r \in 0 .. 3 : t[r] = s[r] \/ (~Sent(s, r) /\ ~Sent(t, r))
    BY <1>1
  <1> HIDE DEF s, t
  <1>3. InOrder(t) /\ \A r \in 0 .. 3 : LastSent(t, r) => LastSent(s, r) /\ t[r] = s[r]
    BY <1>2, Same
  <1> QED
    BY <1>1, <1>3, StillEnded DEF s, t

\* A step that moves nothing.
LEMMA StayOrder ==
  ASSUME OrderInv, UNCHANGED <<slots, outbox, evSM1, tx, got>>
  PROVE  OrderInv'
  <1>1. \A r \in 0 .. 3 : Stream'[r] = Stream[r]
    BY Places DEF slots
  <1>2. StreamInv'
    BY <1>1, SameOrder
  <1>3. RolesInv' /\ OutboxInv'
    BY DEF OrderInv, RolesInv, OutboxInv, slots
  <1> QED
    BY <1>2, <1>3 DEF OrderInv

LEMMA MbxOrder == N = 3 /\ IInv /\ OrderInv /\ ESC_mbxprocess => OrderInv'
  <1> SUFFICES ASSUME N = 3, IInv, OrderInv, ESC_mbxprocess PROVE OrderInv'
    OBVIOUS
  <1>1. UNCHANGED <<tx, got>>
    BY DEF ESC_mbxprocess
  <1>2. CASE MbxOutboxRead
    BY <1>1, <1>2, OutboxReadOrder
  <1>3. CASE MbxPost
    BY <1>1, <1>3, PostOrder
  <1>4. CASE MbxRead
    <2>1. UNCHANGED <<mbxoutpost, mbxbackup, outbox, evSM1>>
      BY <1>4 DEF MbxRead
    <2>2. CASE IdleOut # {} /\ Queue(Answer)
      <3>1. Answer.kind = "answer"
        BY DEF Answer
      <3>2. RolesInv' /\ OutboxInv'
        BY <1>1, <2>1, <2>2, <3>1, QueueOrder
      <3>3. PICK p \in 0 .. 3 : /\ Stream'[p] = Answer
                                /\ \A r \in 0 .. 3 : r >= p => ~Sent(Stream, r)
                                /\ \A r \in 0 .. 3 : r # p => Stream'[r] = Stream[r]
        BY <1>1, <2>1, <2>2, <3>1, QueueOrder
      <3>4. \A r \in 0 .. 3 : Stream'[r] = Stream[r] \/ (~Sent(Stream, r) /\ ~Sent(Stream', r))
        BY <3>1, <3>3 DEF Sent
      <3> QED
        BY <1>1, <3>2, <3>4, SameOrder DEF OrderInv
    <2>3. CASE UNCHANGED <<state, MBX>>
      BY <1>1, <2>1, <2>3, StayOrder DEF slots
    <2> QED
      BY <1>4, <2>2, <2>3 DEF MbxRead
  <1>5. CASE UNCHANGED <<slots, outbox, evSM1>>
    BY <1>1, <1>5, StayOrder
  <1> QED
    BY <1>2, <1>3, <1>4, <1>5 DEF ESC_mbxprocess, MbxIdle

\* EOE_send_fragment: the next fragment follows on the last one produced.
LEMMA PartOrder ==
  ASSUME N = 3, IInv, OrderInv, NEW size \in Sizes \union {0}, SendPart(size), IdleOut # {},
         txframeoffset <= size, txfragmentno = 0 \/ size = txframesize,
         UNCHANGED <<mbxoutpost, mbxbackup, outbox, evSM1, got>>
  PROVE  OrderInv'
  <1> DEFINE left == size - txframeoffset
             len  == Chunk(left)
             field == IF txfragmentno > 0 THEN txframeoffset \div Block ELSE Blocks(size)
             msg == Fragment(frameno', txfragmentno, field, len = left, txframeoffset, len, size)
  <1>1. /\ frameno' = IF txfragmentno = 0 THEN (frameno + 1) % FrameNumbers ELSE frameno
        /\ Queue(msg)
        /\ len = left => txfragmentno' = 0
        /\ len # left => /\ txframesize' = size
                        /\ txframeoffset' = txframeoffset + len
                        /\ txfragmentno' = txfragmentno + 1
    BY DEF SendPart, EOE_init_tx
  <1>2. size \in Nat /\ left \in Nat /\ txframeoffset \in Nat /\ txfragmentno \in Nat
    BY DEF IInv, TypeOK
  <1>3. len \in Nat
    BY <1>2, ChunkFits
  <1>4. /\ txfragmentno = 0 => txframeoffset = 0
        /\ txfragmentno = 0 => field * Block >= size /\ (field - 1) * Block < size
        /\ txfragmentno # 0 => field * Block = txframeoffset
    <2>1. CASE txfragmentno = 0
      BY <1>2, <2>1, BlocksCover DEF IInv, FrameInv
    <2>2. CASE txfragmentno # 0
      <3>1. PICK k \in Nat : txframeoffset = k * Block
        BY <2>2 DEF IInv, FrameInv
      <3>2. (txframeoffset \div Block) * Block = txframeoffset
        BY <3>1, OffsetField
      <3> QED
        BY <1>2, <2>2, <3>2
    <2> QED
      BY <2>1, <2>2
  <1> HIDE DEF len, field, left
  <1>5. /\ msg.kind = "fragment" /\ msg.frame = frameno' /\ msg.frag = txfragmentno
        /\ msg.field = field /\ msg.last = (len = left) /\ msg.from = txframeoffset
        /\ msg.len = len /\ msg.size = size
    BY DEF Fragment
  <1> HIDE DEF msg
  <1>6. msg.last <=> msg.from + msg.len = msg.size
    <2>1. len = left <=> txframeoffset + len = size
      BY <1>2, <1>3 DEF left
    <2> QED
      BY <1>5, <2>1
  <1>7. ASSUME NEW old, Continues(old)
        PROVE  Follows(old, msg)
    BY <1>1, <1>4, <1>5, <1>6, <1>7 DEF Continues, Follows
  <1>8. /\ frameno' = msg.frame
        /\ IF msg.last
           THEN txfragmentno' = 0
           ELSE /\ txfragmentno' = msg.frag + 1 /\ msg.frag \in Nat
                /\ txframesize' = msg.size /\ txframeoffset' = msg.from + msg.len
    BY <1>1, <1>2, <1>5
  <1>9. RolesInv' /\ OutboxInv'
    BY <1>1, <1>5, QueueOrder
  <1>10. PICK p \in 0 .. 3 : /\ Stream'[p] = msg
                             /\ \A r \in 0 .. 3 : r >= p => ~Sent(Stream, r)
                             /\ \A r \in 0 .. 3 : r # p => Stream'[r] = Stream[r]
    BY <1>1, <1>5, QueueOrder
  <1> DEFINE s == Stream
             t == Stream'
  <1>11. InOrder(t) /\ \A r \in 0 .. 3 : LastSent(t, r) => r = p
    <2>1. /\ InOrder(s) /\ \A r \in 0 .. 3 : LastSent(s, r) => Continues(s[r])
          /\ t[p] = msg /\ \A r \in 0 .. 3 : r >= p => ~Sent(s, r)
          /\ \A r \in 0 .. 3 : r # p => t[r] = s[r]
      BY <1>10 DEF OrderInv, StreamInv, Ended
    <2> HIDE DEF s, t
    <2>2. Sent(t, p) /\ \A r \in 0 .. 3 : LastSent(s, r) => Follows(s[r], t[p])
      BY <1>5, <1>7, <2>1 DEF Sent
    <2> QED
      BY <2>1, <2>2, Added
  <1>12. StreamInv'
    <2>1. InOrder(Stream)'
      BY <1>11 DEF InOrder, Sent, Follows
    <2>2. ASSUME NEW r \in 0 .. 3, LastSent(Stream', r)
          PROVE  Continues(Stream[r])'
      <3>1. r = p
        BY <1>11, <2>2
      <3>2. Stream'[r] = msg
        BY <1>10, <3>1
      <3> QED
        BY <1>8, <3>2 DEF Continues
    <2>3. Ended(Stream)'
      BY <2>2 DEF Ended, LastSent, Sent
    <2> QED
      BY <2>1, <2>3 DEF StreamInv
  <1> QED
    BY <1>9, <1>12 DEF OrderInv

LEMMA TxOrder == N = 3 /\ IInv /\ OrderInv /\ ESC_eoeprocess_tx => OrderInv'
  <1> SUFFICES ASSUME N = 3, IInv, OrderInv, ESC_eoeprocess_tx PROVE OrderInv'
    OBVIOUS
  <1>1. UNCHANGED <<mbxoutpost, mbxbackup, outbox, evSM1, got>>
    BY DEF ESC_eoeprocess_tx
  <1>2. ASSUME NEW size \in Sizes \union {0}, Send(size), txframeoffset <= size,
               txfragmentno = 0 \/ size = txframesize
        PROVE  OrderInv'
    <2>1. CASE IdleOut # {}
      BY <1>1, <1>2, <2>1, PartOrder DEF Send
    <2>2. CASE IdleOut = {}
      <3>1. /\ txframesize' = size /\ state' = state /\ MBX' = MBX
            /\ UNCHANGED <<txframeoffset, txfragmentno, frameno>>
        BY <1>2, <2>2 DEF Send
      <3>2. \A r \in 0 .. 3 : Stream'[r] = Stream[r]
        BY <1>1, <3>1, Places
      <3>3. RolesInv' /\ OutboxInv'
        BY <1>1, <3>1 DEF OrderInv, RolesInv, OutboxInv
      <3>4. InOrder(Stream) /\ Ended(Stream)
        BY DEF OrderInv, StreamInv
      <3> DEFINE s == Stream
                 t == Stream'
      <3>5. InOrder(t) /\ \A r \in 0 .. 3 : LastSent(t, r) => LastSent(s, r) /\ t[r] = s[r]
        <4>1. InOrder(s) /\ \A r \in 0 .. 3 : t[r] = s[r]
          BY <3>2, <3>4
        <4> HIDE DEF s, t
        <4> QED
          BY <4>1, Same
      <3>6. ASSUME NEW r \in 0 .. 3, LastSent(Stream', r)
            PROVE  Continues(Stream[r])'
        <4>1. Continues(Stream[r]) /\ Stream'[r] = Stream[r]
          BY <3>4, <3>5, <3>6 DEF Ended
        <4>2. txfragmentno # 0 => txframesize' = txframesize
          BY <1>2, <3>1
        <4> QED
          BY <3>1, <4>1, <4>2 DEF Continues
      <3>7. Ended(Stream)'
        BY <3>6 DEF Ended, LastSent, Sent
      <3>8. InOrder(Stream)'
        BY <3>5 DEF InOrder, Sent, Follows
      <3> QED
        BY <3>3, <3>7, <3>8 DEF OrderInv, StreamInv
    <2> QED
      BY <2>1, <2>2
  <1>3. CASE SendFrame
    BY <1>2, <1>3 DEF SendFrame, IInv, TypeOK
  <1>4. CASE FetchFrame
    <2>1. PICK size \in Sizes : Send(size)
      BY <1>4 DEF FetchFrame
    <2>2. txfragmentno = 0 /\ txframeoffset = 0 /\ txframeoffset <= size
      BY <1>4 DEF FetchFrame, IInv, FrameInv
    <2> QED
      BY <1>2, <2>1, <2>2
  <1>5. CASE UNCHANGED <<state, MBX, tx, queued>>
    BY <1>1, <1>5, StayOrder DEF slots
  <1> QED
    BY <1>3, <1>4, <1>5 DEF ESC_eoeprocess_tx, NothingToSend

\* ESC_stopmbx drops every message; what follows may begin anywhere.
LEMMA StopOrder == N = 3 /\ ESC_stopmbx => OrderInv'
  <1> SUFFICES ASSUME N = 3, ESC_stopmbx PROVE OrderInv'
    OBVIOUS
  <1>1. /\ \A n \in OutBuffers : state'[n] = "idle"
        /\ mbxoutpost' = 0 /\ mbxbackup' = 0 /\ outbox' = NoMsg /\ evSM1' = FALSE /\ got' = NoMsg
        /\ OutBuffers = {1, 2} /\ NoMsg.kind = "none"
    BY DEF ESC_stopmbx, OutBuffers, NoMsg
  <1>2. RolesInv'
    BY <1>1 DEF RolesInv
  <1>3. OutboxInv'
    BY <1>1 DEF OutboxInv
  <1>4. \A r \in 0 .. 3 : ~Sent(Stream', r)
    BY <1>1, Places DEF Sent
  <1>5. StreamInv'
    BY <1>4 DEF StreamInv, InOrder, Ended, LastSent, Sent
  <1> QED
    BY <1>2, <1>3, <1>5 DEF OrderInv

LEMMA InitOrder == N = 3 /\ Init => OrderInv
  <1> SUFFICES ASSUME N = 3, Init PROVE OrderInv
    OBVIOUS
  <1>1. OutBuffers = {1, 2} /\ NoMsg.kind = "none"
    BY DEF OutBuffers, NoMsg
  <1>2. RolesInv /\ OutboxInv
    BY <1>1 DEF Init, RolesInv, OutboxInv
  <1>3. \A r \in 0 .. 3 : ~Sent(Stream, r)
    BY <1>1, Places DEF Init, Sent
  <1>4. StreamInv
    BY <1>3 DEF StreamInv, InOrder, Ended, LastSent
  <1> QED
    BY <1>2, <1>4 DEF OrderInv

LEMMA StepOrder == N = 3 /\ IInv /\ OrderInv /\ [Next]_vars => OrderInv'
  <1> SUFFICES ASSUME N = 3, IInv, OrderInv, [Next]_vars PROVE OrderInv'
    OBVIOUS
  <1>1. CASE ESC_startmbx \/ WriteInbox \/ QueueFrame \/ UNCHANGED vars
    BY <1>1, StayOrder DEF ESC_startmbx, WriteInbox, QueueFrame, vars
  <1> QED
    BY <1>1, MbxOrder, TxOrder, StopOrder, ReadOrder DEF Next, Loop

\* The master puts the frames together again: each fragment it reads follows on the one
\* it read before, whatever answers travel between them, for the shipped MBXBUFFERS.
THEOREM StreamCorrect == N = 3 => (Spec => StreamInOrder)
  <1> SUFFICES ASSUME N = 3 PROVE Spec => StreamInOrder
    OBVIOUS
  <1>1. Init => OrderInv
    BY InitOrder
  <1>2. IInv /\ OrderInv /\ [Next]_vars => OrderInv'
    BY StepOrder
  <1>3. OrderInv /\ [Next]_vars
        => [got' # got /\ got # NoMsg /\ got' # NoMsg => Follows(got, got')]_vars
    <2> SUFFICES ASSUME OrderInv, [Next]_vars, got' # got, got # NoMsg, got' # NoMsg
                 PROVE  Follows(got, got')
      OBVIOUS
    <2>1. ReadOutbox
      BY DEF Next, Loop, ESC_mbxprocess, ESC_eoeprocess_tx, ESC_startmbx, ESC_stopmbx,
             WriteInbox, QueueFrame, vars
    <2>2. got' = outbox /\ outbox.kind = "fragment"
      BY <2>1 DEF ReadOutbox
    <2>3. got.kind = "fragment"
      BY DEF OrderInv, OutboxInv
    <2>4. Sent(Stream, 0) /\ Sent(Stream, 1)
      BY <2>2, <2>3, Places DEF Sent
    <2>5. Follows(Stream[0], Stream[1])
      BY <2>4 DEF OrderInv, StreamInv, InOrder
    <2> QED
      BY <2>2, <2>5, Places
  <1> QED
    BY <1>1, <1>2, <1>3, Inductive, PTL DEF Spec, StreamInOrder
=============================================================================
