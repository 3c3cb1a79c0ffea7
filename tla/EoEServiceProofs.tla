-------------------------- MODULE EoEServiceProofs --------------------------
(***************************************************************************)
(* Proofs about EoEService and the frames EoEReceive puts together, for    *)
(* any frames and sizes of fragments, any parameters, values and number of *)
(* mailbox buffers.                                                        *)
(***************************************************************************)
EXTENDS EoEService, TLAPS

USE DEF history

---------------------------------------------------------------------------
(***************************************************************************)
(* The master's fragments.                                                 *)
(***************************************************************************)
LEMMA Units ==
  /\ Block \in Nat /\ Block > 0 /\ PartSize \in Nat /\ PartSize > 0
  /\ PartSize % Block = 0 /\ StampSize \in Nat
  /\ FrameNumbers \in Nat /\ Pool \in BOOLEAN
  BY ConstAssumption DEF ConstAssumption

LEMMA FrameSizes ==
  /\ Frames = 1 .. Len(Sizes) /\ Len(Sizes) \in Nat /\ Len(Sizes) <= FrameNumbers
  /\ \A f \in Frames : Sizes[f] \in Nat /\ Sizes[f] > 0
  <1>1. Sizes \in Seq(Nat \ {0}) /\ Len(Sizes) <= FrameNumbers
    BY ConstAssumption DEF ConstAssumption
  <1> QED
    BY <1>1 DEF Frames

LEMMA DivBounds ==
  ASSUME NEW a \in Nat, NEW b \in Nat, b > 0
  PROVE  /\ a \div b \in Int
         /\ b * (a \div b) <= a
         /\ a < b * (a \div b) + b
  <1>1. a \div b \in Int
    BY SMT
  <1>2. b * (a \div b) <= a
    BY SMT
  <1>3. a < b * (a \div b) + b
    BY SMT
  <1> QED
    BY <1>1, <1>2, <1>3

LEMMA NoRest ==
  ASSUME NEW a \in Nat, NEW b \in Nat, b > 0, a % b = 0
  PROVE  \E q \in Int : a = b * q
  BY SMT

\* A multiple of the block is its own number of blocks.
LEMMA WholeBlocks ==
  ASSUME NEW q \in Int, NEW b \in Nat, b > 0, b * q \in Nat
  PROVE  ((b * q) \div b) * b = b * q
  <1> DEFINE p == (b * q) \div b
  <1>1. p \in Int /\ b * p <= b * q /\ b * q < b * p + b
    BY DivBounds
  <1> HIDE DEF p
  <1>2. b * q < b * (p + 1)
    BY <1>1, SMT
  <1>3. q < p + 1
    BY <1>1, <1>2, SMT
  <1>4. q >= p
    BY <1>1, SMT
  <1>5. p = q
    BY <1>1, <1>3, <1>4, SMT
  <1>6. p * b = b * q
    BY <1>1, <1>5, SMT
  <1> QED
    BY <1>6 DEF p

\* Two frames at hand have two numbers.
LEMMA NumbersDiffer ==
  ASSUME NEW f \in Frames, NEW g \in Frames, f % FrameNumbers = g % FrameNumbers
  PROVE  f = g
  <1>1. f \in 1 .. FrameNumbers /\ g \in 1 .. FrameNumbers /\ FrameNumbers \in Nat
    BY FrameSizes, Units, SMT
  <1>2. \A x \in 1 .. FrameNumbers :
          x % FrameNumbers = IF x = FrameNumbers THEN 0 ELSE x
    BY <1>1, SMT
  <1> QED
    BY <1>1, <1>2, SMT

\* The parts of a frame: all are full but the last, which is not empty.
LEMMA PartBounds ==
  ASSUME NEW f \in Frames
  PROVE  /\ Parts(f) \in Nat /\ Parts(f) > 0
         /\ \A k \in 0 .. Parts(f) - 1 :
              /\ k * PartSize \in Nat /\ k * PartSize < Sizes[f]
              /\ k < Parts(f) - 1 => (k + 1) * PartSize < Sizes[f]
                                     /\ (k + 1) * PartSize = k * PartSize + PartSize
  <1> DEFINE P == Parts(f)
  <1>1. Sizes[f] \in Nat /\ Sizes[f] > 0 /\ PartSize \in Nat /\ PartSize > 0
    BY FrameSizes, Units
  <1>2. P \in Int /\ PartSize * P <= Sizes[f] + PartSize - 1
        /\ Sizes[f] + PartSize - 1 < PartSize * P + PartSize
    <2>1. Sizes[f] + PartSize - 1 \in Nat
      BY <1>1, SMT
    <2> QED
      BY <1>1, <2>1, DivBounds DEF Parts
  <1> HIDE DEF P
  <1>3. P > 0
    BY <1>1, <1>2, SMT
  <1>4. ASSUME NEW k \in Int, k >= 0, k <= P - 1
        PROVE  k * PartSize \in Nat /\ k * PartSize < Sizes[f]
    <2>1. k * PartSize <= (P - 1) * PartSize
      BY <1>1, <1>2, <1>4, SMT
    <2>2. (P - 1) * PartSize = PartSize * P - PartSize
      BY <1>1, <1>2, SMT
    <2>3. k * PartSize >= 0 /\ k * PartSize \in Int
      BY <1>1, <1>4, SMT
    <2> QED
      BY <1>1, <1>2, <2>1, <2>2, <2>3, SMT
  <1>5. ASSUME NEW k \in 0 .. P - 1
        PROVE  /\ k * PartSize \in Nat /\ k * PartSize < Sizes[f]
               /\ k < P - 1 => (k + 1) * PartSize < Sizes[f]
                               /\ (k + 1) * PartSize = k * PartSize + PartSize
    <2>1. k \in Int /\ k >= 0 /\ k <= P - 1
      BY <1>2, SMT
    <2>2. k < P - 1 => (k + 1) * PartSize < Sizes[f]
      BY <1>2, <1>4, <2>1, SMT
    <2>3. (k + 1) * PartSize = k * PartSize + PartSize
      BY <1>1, <2>1, SMT
    <2> QED
      BY <1>4, <2>1, <2>2, <2>3
  <1>6. P \in Nat
    BY <1>2, <1>3, SMT
  <1> QED
    BY <1>3, <1>5, <1>6 DEF P

Announced(f) == Fragment(f, 0).field * Block

\* Every fragment fits behind those before it, and its header says where it belongs.
LEMMA FragmentFits ==
  ASSUME NEW f \in Frames, NEW k \in 0 .. Parts(f) - 1
  PROVE  /\ Announced(f) \in Nat
         /\ k * PartSize + Fragment(f, k).len <= Announced(f)
         /\ k > 0 => Fragment(f, k).field * Block = k * PartSize
  <1> DEFINE S == Sizes[f] + Stamp(f)
  <1>1. /\ Sizes[f] \in Nat /\ Sizes[f] > 0 /\ Stamp(f) \in Nat
        /\ Block \in Nat /\ Block > 0 /\ PartSize \in Nat /\ PartSize > 0
    BY FrameSizes, Units DEF Stamp
  <1>2. /\ Parts(f) \in Nat /\ k * PartSize \in Nat /\ k * PartSize < Sizes[f]
        /\ k < Parts(f) - 1 => k * PartSize + PartSize < Sizes[f]
    BY PartBounds
  <1>3. S \in Nat /\ S + Block - 1 \in Nat
    BY <1>1, SMT
  <1>4. k * PartSize + Fragment(f, k).len <= S
    <2>1. CASE k = Parts(f) - 1
      <3>1. Fragment(f, k).len = (Sizes[f] - k * PartSize) + Stamp(f)
        BY <2>1 DEF Fragment, PartLen
      <3> QED
        BY <1>1, <1>2, <3>1, SMT
    <2>2. CASE k # Parts(f) - 1
      <3>1. Fragment(f, k).len = PartSize + 0
        BY <2>2 DEF Fragment, PartLen
      <3>2. k < Parts(f) - 1
        BY <1>2, <2>2, SMT
      <3> QED
        BY <1>1, <1>2, <3>1, <3>2, SMT
    <2> QED
      BY <2>1, <2>2
  <1>5. Announced(f) = ((S + Block - 1) \div Block) * Block
    BY DEF Announced, Fragment
  <1>6. Announced(f) \in Int /\ S + Block - 1 < Announced(f) + Block
    <2> DEFINE d == (S + Block - 1) \div Block
    <2>1. d \in Int /\ S + Block - 1 < Block * d + Block
      BY <1>1, <1>3, DivBounds
    <2> HIDE DEF d
    <2>2. d * Block \in Int /\ Block * d = d * Block
      BY <1>1, <2>1, SMT
    <2> QED
      BY <1>5, <2>1, <2>2 DEF d
  <1>7. Announced(f) >= S /\ Announced(f) \in Nat
    <2> HIDE DEF S
    <2> QED
      BY <1>1, <1>3, <1>6, SMT
  <1>8. k > 0 => Fragment(f, k).field * Block = k * PartSize
    <2> SUFFICES ASSUME k > 0 PROVE Fragment(f, k).field * Block = k * PartSize
      OBVIOUS
    <2>1. k # 0
      BY <1>2, SMT
    <2>2. Fragment(f, k).field = (k * PartSize) \div Block
      BY <2>1 DEF Fragment
    <2>3. PICK q \in Int : PartSize = Block * q
      <3>1. PartSize % Block = 0
        BY Units
      <3> QED
        BY <1>1, <3>1, NoRest
    <2>4. k * PartSize = Block * (k * q) /\ k * q \in Int
      <3>1. k \in Int
        BY <1>2, SMT
      <3>2. k * (Block * q) = Block * (k * q) /\ k * q \in Int
        BY <1>1, <3>1, SMT
      <3> QED
        BY <2>3, <3>2
    <2>5. ((Block * (k * q)) \div Block) * Block = Block * (k * q)
      BY <1>1, <1>2, <2>4, WholeBlocks
    <2> QED
      BY <2>2, <2>4, <2>5
  <1> HIDE DEF S
  <1>9. k * PartSize + Fragment(f, k).len <= Announced(f)
    <2>1. Fragment(f, k).len \in Int
      <3>1. Fragment(f, k).len =
              PartLen(f, k) + (IF k = Parts(f) - 1 THEN Stamp(f) ELSE 0)
        BY DEF Fragment
      <3>2. PartLen(f, k) \in Int
        BY <1>1, <1>2, SMT DEF PartLen
      <3> QED
        BY <1>1, <3>1, <3>2, SMT
    <2> QED
      BY <1>1, <1>2, <1>3, <1>4, <1>7, <2>1, SMT
  <1> QED
    BY <1>7, <1>8, <1>9

---------------------------------------------------------------------------
(***************************************************************************)
(* Frames.  The invariant: what is stored is the beginning of one frame,   *)
(* and while the master sends a frame from its first fragment it is that   *)
(* one, or it has been handed over.                                        *)
(***************************************************************************)
Begun(f, n) ==
  /\ n < Parts(f)
  /\ rxfragmentno = n /\ rxframeno = f % FrameNumbers
  /\ rxframeoffset = n * PartSize /\ rxframesize = Announced(f)
  /\ stored = [j \in 1 .. n |-> Piece(f, j - 1)]

FrameInv ==
  /\ rxebuf = TRUE /\ rxfragmentno \in Nat
  /\ rxfragmentno > 0 => \E f \in Frames : Begun(f, rxfragmentno)

RunInv ==
  run.frame # 0 =>
    /\ run.frame \in Frames /\ run.frag \in 0 .. Parts(run.frame) - 1
    /\ IF run.frag = Parts(run.frame) - 1 THEN handed.frame = Whole(run.frame)
       ELSE Begun(run.frame, run.frag + 1)

Complete(h) ==
  h # NoFrame => \E f \in Frames : h.frame = Whole(f) /\ h.len = Sizes[f]

\* What a fragment leaves that continues the k fragments of its frame before it.
Continued(f, k) ==
  IF k = Parts(f) - 1
  THEN handed'.frame = Whole(f) /\ handed'.len = Sizes[f] /\ rxfragmentno' = 0
  ELSE handed' = NoFrame /\ Begun(f, k + 1)'

LEMMA PiecesAppend ==
  ASSUME NEW f, NEW k \in Nat
  PROVE  Append([j \in 1 .. k |-> Piece(f, j - 1)], Piece(f, k))
           = [j \in 1 .. k + 1 |-> Piece(f, j - 1)]
  <1> DEFINE s == [j \in 1 .. k |-> Piece(f, j - 1)]
             r == [j \in 1 .. k + 1 |-> Piece(f, j - 1)]
  <1> DEFINE S == {Piece(f, j - 1) : j \in 1 .. k}
  <1>1. s \in Seq(S) /\ Len(s) = k
    <2>1. \A j \in 1 .. k : s[j] \in S
      OBVIOUS
    <2> HIDE DEF S
    <2> QED
      BY <2>1, SMT
  <1> HIDE DEF S
  <1>2. DOMAIN Append(s, Piece(f, k)) = 1 .. k + 1
    BY <1>1, SMT
  <1>3. \A j \in 1 .. k + 1 : Append(s, Piece(f, k))[j] = r[j]
    BY <1>1, SMT
  <1> QED
    BY <1>1, <1>2, <1>3, SMT

LEMMA TakeNext ==
  ASSUME Pool, NEW f \in Frames, NEW k \in 0 .. Parts(f) - 1,
         Take(f, k, Fragment(f, k), f % FrameNumbers, Announced(f), k * PartSize,
              [j \in 1 .. k |-> Piece(f, j - 1)], TRUE)
  PROVE  Continued(f, k) /\ rxebuf' = TRUE /\ rxfragmentno' \in Nat
  <1> DEFINE m == Fragment(f, k)
             pieces == [j \in 1 .. k |-> Piece(f, j - 1)]
  <1>1. k \in Nat /\ Parts(f) \in Nat /\ k * PartSize \in Nat /\ k < Parts(f)
    BY PartBounds, SMT
  <1>2. Append(pieces, Piece(f, k)) = [j \in 1 .. k + 1 |-> Piece(f, j - 1)]
    BY <1>1, PiecesAppend
  <1>3. ~(k * PartSize + m.len > Announced(f))
    <2>1. k * PartSize + m.len <= Announced(f)
      BY FragmentFits
    <2>2. m.len \in Int
      <3>1. m.len = PartLen(f, k) + (IF k = Parts(f) - 1 THEN Stamp(f) ELSE 0)
        BY DEF Fragment
      <3>2. Stamp(f) \in Nat /\ Sizes[f] \in Nat /\ PartSize \in Nat
        BY Units, FrameSizes DEF Stamp
      <3>3. PartLen(f, k) \in Int
        BY <1>1, <3>2, SMT DEF PartLen
      <3> QED
        BY <3>1, <3>2, <3>3, SMT
    <2>3. Announced(f) \in Nat
      BY FragmentFits
    <2> HIDE DEF m
    <2> QED
      BY <1>1, <2>1, <2>2, <2>3, SMT
  <1>4. m.frag = k /\ m.last = (k = Parts(f) - 1) /\ m.stamp = (m.last /\ f \in Stamped)
    BY DEF Fragment
  <1>5. CASE k = Parts(f) - 1
    <2>1. /\ Hand([j \in 1 .. k + 1 |-> Piece(f, j - 1)],
                  k * PartSize + m.len - (IF m.stamp THEN StampSize ELSE 0), TRUE)
          /\ EOE_init_rx(FALSE)
      BY <1>2, <1>3, <1>4, <1>5 DEF Take
    <2>2. k * PartSize + m.len - (IF m.stamp THEN StampSize ELSE 0) = Sizes[f]
      <3>1. m.len = (Sizes[f] - k * PartSize) + Stamp(f)
        BY <1>5 DEF Fragment, PartLen
      <3>2. (IF m.stamp THEN StampSize ELSE 0) = Stamp(f) /\ Stamp(f) \in Nat
        BY <1>4, <1>5, Units DEF Stamp
      <3>3. Sizes[f] \in Nat
        BY FrameSizes
      <3> QED
        BY <1>1, <3>1, <3>2, <3>3, SMT
    <2>3. k + 1 = Parts(f)
      BY <1>1, <1>5, SMT
    <2>4. handed' = [frame |-> Whole(f), len |-> Sizes[f], buffer |-> TRUE]
      BY <2>1, <2>2, <2>3 DEF Hand, Whole
    <2>5. rxebuf' = TRUE /\ rxfragmentno' = 0
      BY <2>1 DEF EOE_init_rx
    <2> QED
      BY <1>5, <2>4, <2>5 DEF Continued
  <1>6. CASE k # Parts(f) - 1
    <2>1. /\ stored' = [j \in 1 .. k + 1 |-> Piece(f, j - 1)] /\ rxebuf' = TRUE
          /\ handed' = NoFrame
          /\ rxframeoffset' = k * PartSize + m.len /\ rxfragmentno' = k + 1
          /\ rxframesize' = Announced(f) /\ rxframeno' = f % FrameNumbers
      BY <1>2, <1>3, <1>4, <1>6 DEF Take
    <2>2. m.len = PartSize
      BY <1>6, Units, SMT DEF Fragment, PartLen
    <2>3. k < Parts(f) - 1
      BY <1>1, <1>6, SMT
    <2>4. k * PartSize + m.len = (k + 1) * PartSize
      BY <2>2, <2>3, PartBounds
    <2>5. k + 1 < Parts(f) /\ k + 1 \in Nat
      BY <1>1, <2>3, SMT
    <2> QED
      BY <1>6, <2>1, <2>4, <2>5 DEF Continued, Begun
  <1> QED
    BY <1>5, <1>6

LEMMA DiscardLeaves ==
  ASSUME Pool, Discard
  PROVE  handed' = NoFrame /\ rxebuf' = TRUE /\ rxfragmentno' = 0
  BY DEF Discard, EOE_init_rx

\* A fragment of f: a frame handed over is f, and the first or the next one of the
\* frame begun is taken.
LEMMA ReceiveOne ==
  ASSUME Pool, FrameInv, NEW f \in Frames, NEW k \in 0 .. Parts(f) - 1,
         \/ Unexpected(Fragment(f, k))
         \/ First(f, k, Fragment(f, k))
         \/ Later(f, k, Fragment(f, k))
  PROVE  /\ FrameInv' /\ Complete(handed')
         /\ k = 0 \/ Begun(f, k) => Continued(f, k)
  <1> DEFINE m == Fragment(f, k)
  <1>1. /\ m.frag = k /\ k \in Nat /\ m.frame = f % FrameNumbers
        /\ Parts(f) \in Nat /\ k < Parts(f)
    BY PartBounds, SMT DEF Fragment
  <1>2. ASSUME Continued(f, k), rxebuf' = TRUE, rxfragmentno' \in Nat
        PROVE  FrameInv' /\ Complete(handed')
    <2>1. CASE k = Parts(f) - 1
      BY <1>2, <2>1, SMT DEF Continued, FrameInv, Complete
    <2>2. CASE k # Parts(f) - 1
      <3>1. handed' = NoFrame /\ Begun(f, k + 1)'
        BY <1>2, <2>2 DEF Continued
      <3>2. rxfragmentno' = k + 1
        BY <3>1 DEF Begun
      <3> QED
        BY <1>2, <3>1, <3>2 DEF FrameInv, Complete
    <2> QED
      BY <2>1, <2>2
  <1>3. ASSUME Discard PROVE FrameInv' /\ Complete(handed')
    BY <1>3, DiscardLeaves, SMT DEF FrameInv, Complete
  <1>4. CASE Unexpected(m)
    <2>1. k # rxfragmentno /\ k > 0
      BY <1>1, <1>4 DEF Unexpected
    <2>2. ~Begun(f, k)
      BY <2>1 DEF Begun
    <2>3. ~(k = 0)
      BY <1>1, <2>1, SMT
    <2>4. CASE rxfragmentno # 0
      BY <1>3, <1>4, <2>2, <2>3, <2>4 DEF Unexpected
    <2>5. CASE rxfragmentno = 0
      <3>1. handed' = NoFrame /\ rxebuf' = rxebuf /\ rxfragmentno' = 0
        BY <1>4, <2>5 DEF Unexpected
      <3> QED
        BY <2>2, <2>3, <3>1, SMT DEF FrameInv, Complete
    <2> QED
      BY <2>4, <2>5
  <1>5. CASE First(f, k, m)
    <2>1. k = 0
      BY <1>1, <1>5 DEF First
    <2>2. Take(f, k, m, m.frame, m.field * Block, 0, <<>>, TRUE)
      BY <1>5 DEF First, FrameInv
    <2>3. k * PartSize = 0 /\ [j \in 1 .. k |-> Piece(f, j - 1)] = <<>>
      BY <2>1, Units, SMT
    <2>4. m.field * Block = Announced(f)
      BY <2>1 DEF Announced
    <2>5. Take(f, k, m, f % FrameNumbers, Announced(f), k * PartSize,
               [j \in 1 .. k |-> Piece(f, j - 1)], TRUE)
      BY <1>1, <2>2, <2>3, <2>4
    <2> QED
      BY <1>2, <2>5, TakeNext
  <1>6. CASE Later(f, k, m)
    <2>1. k = rxfragmentno /\ k > 0
      BY <1>1, <1>6 DEF Later
    <2>2. PICK g \in Frames : Begun(g, k)
      BY <2>1 DEF FrameInv
    <2>3. CASE Matches(m)
      <3>1. f = g
        BY <1>1, <2>2, <2>3, NumbersDiffer DEF Matches, Begun
      <3>2. Take(f, k, m, f % FrameNumbers, Announced(f), k * PartSize,
                 [j \in 1 .. k |-> Piece(f, j - 1)], TRUE)
        BY <1>6, <2>2, <2>3, <3>1 DEF Later, Begun, FrameInv
      <3> QED
        BY <1>2, <3>2, TakeNext
    <2>4. CASE ~Matches(m)
      <3>1. ~Begun(f, k)
        <4>1. m.field * Block = k * PartSize
          BY <2>1, FragmentFits
        <4> QED
          BY <1>1, <2>4, <4>1 DEF Matches, Begun
      <3>2. ~(k = 0)
        BY <1>1, <2>1, SMT
      <3> QED
        BY <1>3, <1>6, <2>4, <3>1, <3>2 DEF Later
    <2> QED
      BY <2>3, <2>4
  <1> QED
    BY <1>4, <1>5, <1>6

LEMMA ReceiveStep ==
  ASSUME Pool, FrameInv, RunInv, EOE_receive_fragment
  PROVE  FrameInv' /\ RunInv' /\ Complete(handed')
  <1> DEFINE Received(f, k) ==
        /\ \/ Unexpected(Fragment(f, k))
           \/ First(f, k, Fragment(f, k))
           \/ Later(f, k, Fragment(f, k))
        /\ run' = IF k = 0 THEN [frame |-> f, frag |-> 0]
                  ELSE IF run = [frame |-> f, frag |-> k - 1]
                  THEN [frame |-> f, frag |-> k]
                  ELSE [frame |-> 0, frag |-> 0]
  <1>0. PICK f \in Frames : \E k \in 0 .. Parts(f) - 1 : Received(f, k)
    BY DEF EOE_receive_fragment
  <1>1. PICK k \in 0 .. Parts(f) - 1 : Received(f, k)
    BY <1>0
  <1>2. /\ FrameInv' /\ Complete(handed')
        /\ k = 0 \/ Begun(f, k) => Continued(f, k)
    BY <1>1, ReceiveOne
  <1>3. f # 0 /\ k \in Nat /\ k < Parts(f)
    BY FrameSizes, PartBounds, SMT
  <1>4. ASSUME Continued(f, k), run' = [frame |-> f, frag |-> k] PROVE RunInv'
    BY <1>4 DEF Continued, RunInv
  <1>5. CASE k = 0
    <2>1. run' = [frame |-> f, frag |-> k]
      BY <1>1, <1>5
    <2>2. Continued(f, k)
      BY <1>2, <1>5
    <2>3. RunInv'
      BY <1>4, <2>1, <2>2
    <2> QED
      BY <1>2, <2>3
  <1>6. CASE k # 0 /\ run = [frame |-> f, frag |-> k - 1]
    <2>1. k - 1 # Parts(f) - 1 /\ (k - 1) + 1 = k
      BY <1>3, PartBounds, SMT
    <2>2. Begun(f, (k - 1) + 1)
      BY <1>3, <1>6, <2>1 DEF RunInv
    <2>3. Continued(f, k)
      BY <1>2, <2>1, <2>2
    <2>4. run' = [frame |-> f, frag |-> k]
      BY <1>1, <1>6
    <2>5. RunInv'
      BY <1>4, <2>3, <2>4
    <2> QED
      BY <1>2, <2>5
  <1>7. CASE k # 0 /\ run # [frame |-> f, frag |-> k - 1]
    <2>1. run' = [frame |-> 0, frag |-> 0]
      BY <1>1, <1>7
    <2> QED
      BY <1>2, <2>1 DEF RunInv
  <1> QED
    BY <1>2, <1>5, <1>6, <1>7

LEMMA FrameStep ==
  ASSUME Pool, FrameInv, RunInv, Complete(handed), [Next]_vars
  PROVE  FrameInv' /\ RunInv' /\ Complete(handed')
  <1>1. CASE EOE_receive_fragment
    BY <1>1, ReceiveStep
  <1>2. CASE UNCHANGED receive
    BY <1>2 DEF receive, FrameInv, RunInv, Begun, Complete
  <1>3. EOE_receive_fragment \/ UNCHANGED receive
    BY DEF Next, ESC_eoeprocess, Application, OtherSends, MasterReads, vars
  <1> QED
    BY <1>1, <1>2, <1>3

LEMMA FrameInit == Pool /\ Init => FrameInv /\ RunInv /\ Complete(handed)
  BY DEF Init, ReceiveInit, FrameInv, RunInv, Complete

\* With a buffer for every frame: what reaches the network stack is a whole frame of
\* the master, all of its octets in place, whatever the master leaves out, repeats or
\* gives up (EOE_receive_fragment).
THEOREM HandedCorrect == Pool => (Spec => []HandedWhole)
  <1> SUFFICES ASSUME Pool PROVE Spec => []HandedWhole
    OBVIOUS
  <1> DEFINE IInv == FrameInv /\ RunInv /\ Complete(handed)
  <1>1. Init => IInv
    BY FrameInit
  <1>2. IInv /\ [Next]_vars => IInv'
    BY FrameStep
  <1>3. IInv => HandedWhole
    BY DEF HandedWhole, Complete
  <1> QED
    BY <1>1, <1>2, <1>3, PTL DEF Spec

\* With a buffer for every frame: a frame whose fragments arrive one after another is
\* handed over, whatever came before it.
THEOREM NoneLost == Pool => (Spec => []NoWholeFrameLost)
  <1> SUFFICES ASSUME Pool PROVE Spec => []NoWholeFrameLost
    OBVIOUS
  <1> DEFINE IInv == FrameInv /\ RunInv /\ Complete(handed)
  <1>1. Init => IInv
    BY FrameInit
  <1>2. IInv /\ [Next]_vars => IInv'
    BY FrameStep
  <1>3. IInv => NoWholeFrameLost
    BY DEF RunInv, NoWholeFrameLost
  <1> QED
    BY <1>1, <1>2, <1>3, PTL DEF Spec

---------------------------------------------------------------------------
(***************************************************************************)
(* Parameters.  A parameter holds the value it was given last.  It counts  *)
(* as set from the first one on, but for the MAC address, which the master *)
(* must have named.                                                        *)
(***************************************************************************)
NicInv ==
  /\ DOMAIN nic_ports = ParamSet /\ DOMAIN given = ParamSet /\ named \subseteq ParamSet
  /\ \A p \in ParamSet :
       /\ nic_ports[p] = [set |-> nic_ports[p].set, value |-> nic_ports[p].value]
       /\ nic_ports[p].set \in BOOLEAN
       /\ nic_ports[p].set => given[p] # "never"
       /\ p \in named => nic_ports[p].set
       /\ p # Mac /\ given[p] # "never" => nic_ports[p].set
       /\ given[p] \in Values => nic_ports[p].value = given[p]

LEMMA Marks == "never" \notin Values /\ "unsure" \notin Values
  BY ServiceAssumption DEF ServiceAssumption

LEMMA ParamsSeq == Params \in Seq(ParamSet)
  BY ServiceAssumption DEF ServiceAssumption

LEMMA AccessStep ==
  ASSUME NicInv, NEW p \in ParamSet, NEW v \in Values, Access(p, v)
  PROVE  NicInv'
  <1>1. /\ nic_ports' = [nic_ports EXCEPT ![p] = [set |-> @.set \/ p # Mac, value |-> v]]
        /\ given' = [given EXCEPT ![p] = v] /\ named' = named
    BY DEF Access
  <1> SUFFICES ASSUME NEW q \in ParamSet
               PROVE  /\ nic_ports'[q] = [set |-> nic_ports'[q].set,
                                          value |-> nic_ports'[q].value]
                      /\ nic_ports'[q].set \in BOOLEAN
                      /\ nic_ports'[q].set => given'[q] # "never"
                      /\ q \in named => nic_ports'[q].set
                      /\ q # Mac /\ given'[q] # "never" => nic_ports'[q].set
                      /\ given'[q] \in Values => nic_ports'[q].value = given'[q]
    BY <1>1 DEF NicInv
  <1>2. CASE q # p
    <2>1. nic_ports'[q] = nic_ports[q] /\ given'[q] = given[q]
      BY <1>1, <1>2 DEF NicInv
    <2> QED
      BY <2>1 DEF NicInv
  <1>3. CASE q = p
    <2>1. /\ nic_ports'[q].set = (nic_ports[q].set \/ q # Mac)
          /\ nic_ports'[q].value = v
          /\ nic_ports'[q] = [set |-> nic_ports'[q].set, value |-> nic_ports'[q].value]
          /\ given'[q] = v
      BY <1>1, <1>3 DEF NicInv
    <2>2. (nic_ports[q].set \/ q # Mac) \in BOOLEAN
      OBVIOUS
    <2>3. v # "never"
      BY Marks
    <2>4. q \in named => nic_ports[q].set
      BY DEF NicInv
    <2> QED
      BY <2>1, <2>2, <2>3, <2>4
  <1> QED
    BY <1>2, <1>3

LEMMA SetStep ==
  ASSUME NicInv, EOE_set_ip
  PROVE  /\ NicInv'
         /\ SuccessMeansSet' /\ answer'.request.type = "SET_IP"
  <1>1. PICK port \in Ports, flags \in SUBSET ParamSet, n \in 0 .. Len(Params),
             v \in Values :
          LET request == [type |-> "SET_IP", flags |-> flags, value |-> v]
          IN  IF port > EOE_NUMBER_OF_PORTS
              THEN /\ EOE_no_data_response(request, "INIT_RESP", port, "UNSPECIFIED_ERROR")
                   /\ UNCHANGED <<nic_ports, history>>
              ELSE /\ nic_ports' = Stored(flags, n, v)
                   /\ given' = [p \in ParamSet |-> IF p \notin flags THEN given[p]
                                                   ELSE IF p \in Held(n) THEN v
                                                   ELSE "unsure"]
                   /\ named' = named \union flags
                   /\ \E result \in StoreResult(n) :
                        EOE_no_data_response(request, "INIT_RESP", port, result)
    BY DEF EOE_set_ip
  <1> DEFINE request == [type |-> "SET_IP", flags |-> flags, value |-> v]
  <1>2. CASE port > EOE_NUMBER_OF_PORTS
    <2>1. EOE_no_data_response(request, "INIT_RESP", port, "UNSPECIFIED_ERROR")
          /\ UNCHANGED <<nic_ports, history>>
      BY <1>1, <1>2
    <2>2. NicInv'
      BY <2>1 DEF NicInv
    <2>3. /\ answer'.request = request
          /\ "response" \in DOMAIN answer' => answer'.response.result = "UNSPECIFIED_ERROR"
      BY <2>1 DEF EOE_no_data_response, Respond
    <2>4. SuccessMeansSet'
      BY <2>3 DEF SuccessMeansSet, Answers
    <2> QED
      BY <2>2, <2>3, <2>4
  <1>3. CASE ~(port > EOE_NUMBER_OF_PORTS)
    <2>1. PICK result \in StoreResult(n) :
            EOE_no_data_response(request, "INIT_RESP", port, result)
      BY <1>1, <1>3
    <2>2. /\ nic_ports' = Stored(flags, n, v)
          /\ given' = [p \in ParamSet |-> IF p \notin flags THEN given[p]
                                          ELSE IF p \in Held(n) THEN v ELSE "unsure"]
          /\ named' = named \union flags
      BY <1>1, <1>3
    <2>3. NicInv'
      BY <2>2, Marks DEF NicInv, Stored
    <2>4. /\ answer'.request = request
          /\ "response" \in DOMAIN answer' => answer'.response.result = result
      BY <2>1 DEF EOE_no_data_response, Respond
    <2>5. result = "SUCCESS" => Held(n) = ParamSet
      <3> SUFFICES ASSUME result = "SUCCESS" PROVE Held(n) = ParamSet
        OBVIOUS
      <3>1. ~(n < Len(Params))
        BY DEF StoreResult
      <3>2. n = Len(Params)
        BY <3>1, ParamsSeq, SMT
      <3> QED
        BY <3>2, ParamsSeq DEF Held, ParamSet
    <2>6. SuccessMeansSet'
      <3> SUFFICES ASSUME "response" \in DOMAIN answer',
                          answer'.response.result = "SUCCESS",
                          NEW p \in answer'.request.flags
                   PROVE  nic_ports'[p] = [set |-> TRUE, value |-> answer'.request.value]
        BY DEF SuccessMeansSet, Answers
      <3>1. result = "SUCCESS" /\ p \in flags /\ answer'.request.value = v
        BY <2>4
      <3>2. p \in ParamSet /\ p \in Held(n)
        BY <2>5, <3>1
      <3> QED
        BY <2>2, <3>1, <3>2 DEF Stored
    <2> QED
      BY <2>3, <2>4, <2>6
  <1> QED
    BY <1>2, <1>3

LEMMA GetStep ==
  ASSUME NicInv, EOE_get_ip
  PROVE  /\ NicInv'
         /\ ReadBack' /\ answer'.request.type = "GET_IP"
  <1>1. PICK port \in Ports :
          LET request == [type |-> "GET_IP"]
          IN  IF port > EOE_NUMBER_OF_PORTS
              THEN /\ EOE_no_data_response(request, "INIT_RESP", port, "UNSPECIFIED_ERROR")
                   /\ UNCHANGED <<nic_ports, history>>
              ELSE /\ \/ UNCHANGED <<nic_ports, history>>
                      \/ Loads /\ \E p \in ParamSet, v \in Values : Access(p, v)
                   /\ Respond(request, [type |-> "GET_IP_PARAM_RESP", port |-> port,
                                        params |-> Current(nic_ports')])
    BY DEF EOE_get_ip
  <1>2. NicInv'
    <2>1. CASE UNCHANGED <<nic_ports, history>>
      BY <2>1 DEF NicInv
    <2>2. CASE \E p \in ParamSet, v \in Values : Access(p, v)
      BY <2>2, AccessStep
    <2> QED
      BY <1>1, <2>1, <2>2
  <1>3. CASE port > EOE_NUMBER_OF_PORTS
    <2>1. /\ answer'.request.type = "GET_IP"
          /\ "response" \in DOMAIN answer' => answer'.response.type = "INIT_RESP"
      BY <1>1, <1>3 DEF EOE_no_data_response, Respond
    <2> QED
      BY <1>2, <2>1 DEF ReadBack, ReportsGiven, Answers
  <1>4. CASE ~(port > EOE_NUMBER_OF_PORTS)
    <2>1. /\ answer'.request.type = "GET_IP"
          /\ "response" \in DOMAIN answer' => answer'.response.params = Current(nic_ports')
      BY <1>1, <1>4 DEF Respond
    <2>2. \A p \in DOMAIN Current(nic_ports') : given'[p] # "never"
      BY <1>2 DEF NicInv, Current
    <2>3. ASSUME NEW p \in (ParamSet \ {Mac}) \union named', given'[p] \in Values
          PROVE  p \in DOMAIN Current(nic_ports') /\ Current(nic_ports')[p] = given'[p]
      <3>1. p \in ParamSet /\ nic_ports'[p].set /\ nic_ports'[p].value = given'[p]
        BY <1>2, <2>3, Marks DEF NicInv
      <3> QED
        BY <3>1 DEF Current
    <2> QED
      BY <1>2, <2>1, <2>2, <2>3 DEF ReadBack, ReportsGiven, Answers
  <1> QED
    BY <1>3, <1>4

\* Every other step leaves no answer to a request that sets or gets parameters.
LEMMA OtherAnswer ==
  ASSUME answer'.request.type \notin {"SET_IP", "GET_IP"}
  PROVE  ReadBack' /\ SuccessMeansSet'
  BY DEF ReadBack, ReportsGiven, SuccessMeansSet, Answers

ParamInv == NicInv /\ ReadBack /\ SuccessMeansSet

LEMMA ParamStep == ParamInv /\ [Next]_vars => ParamInv'
  <1> SUFFICES ASSUME ParamInv, [Next]_vars PROVE ParamInv'
    OBVIOUS
  <1>1. CASE EOE_set_ip
    <2>1. ReadBack'
      BY <1>1, SetStep DEF ParamInv, ReadBack, ReportsGiven, Answers
    <2> QED
      BY <1>1, <2>1, SetStep DEF ParamInv
  <1>2. CASE EOE_get_ip
    <2>1. SuccessMeansSet'
      BY <1>2, GetStep DEF ParamInv, SuccessMeansSet, Answers
    <2> QED
      BY <1>2, <2>1, GetStep DEF ParamInv
  <1>3. CASE Unsupported
    <2>1. answer'.request.type = "unknown" /\ NicInv'
      BY <1>3 DEF Unsupported, EOE_no_data_response, Respond, ParamInv, NicInv
    <2> QED
      BY <2>1, OtherAnswer DEF ParamInv
  <1>4. CASE TooShort
    <2>1. answer'.request.type = "short" /\ NicInv'
      BY <1>4 DEF TooShort, EOE_no_data_response, Respond, ParamInv, NicInv
    <2> QED
      BY <2>1, OtherAnswer DEF ParamInv
  <1>5. CASE Application
    <2>1. NicInv'
      BY <1>5, AccessStep DEF Application, ParamInv
    <2>2. answer'.request.type = "none"
      BY <1>5 DEF Application, None
    <2> QED
      BY <2>1, <2>2, OtherAnswer DEF ParamInv
  <1>6. CASE answer' = None /\ UNCHANGED <<nic_ports, history>>
    <2>1. answer'.request.type = "none" /\ NicInv'
      BY <1>6 DEF None, ParamInv, NicInv
    <2> QED
      BY <2>1, OtherAnswer DEF ParamInv
  <1>7. CASE UNCHANGED vars
    BY <1>7 DEF vars, ParamInv, NicInv, ReadBack, ReportsGiven, SuccessMeansSet, Answers
  <1> QED
    BY <1>1, <1>2, <1>3, <1>4, <1>5, <1>6, <1>7
       DEF Next, ESC_eoeprocess, OtherSends, MasterReads

LEMMA ParamInit == Init => ParamInv
  <1> SUFFICES ASSUME Init PROVE ParamInv
    OBVIOUS
  <1>1. NicInv
    BY Marks DEF Init, NicInv
  <1>2. answer.request.type = "none"
    BY DEF Init, None
  <1> QED
    BY <1>1, <1>2 DEF ParamInv, ReadBack, ReportsGiven, SuccessMeansSet, Answers

\* EOE_get_ip answers with the value every parameter was given last, by EOE_set_ip or
\* the application, and with none that was never given; of a MAC address this is only
\* true once EOE_set_ip has named it, as EOE_ecat_set_mac does not mark it as set.
THEOREM ReadBackCorrect == Spec => []ReadBack
  <1>1. ParamInv => ReadBack
    BY DEF ParamInv
  <1> QED
    BY <1>1, ParamInit, ParamStep, PTL DEF Spec

\* EOE_set_ip answers with success only when every parameter the request names is set
\* to the value in it.
THEOREM SuccessCorrect == Spec => []SuccessMeansSet
  <1>1. ParamInv => SuccessMeansSet
    BY DEF ParamInv
  <1> QED
    BY <1>1, ParamInit, ParamStep, PTL DEF Spec
=============================================================================
