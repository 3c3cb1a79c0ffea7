------------------------------ MODULE FoEProofs ------------------------------
(***************************************************************************)
(* Proofs about FoE, for every size of the packets, of the buffer and of   *)
(* the file, every number of mailbox buffers and every order of requests.  *)
(***************************************************************************)
EXTENDS FoE, SequenceTheorems, TLAPS

USE ConstAssumption DEF ConstAssumption, AllOpcodes

---------------------------------------------------------------------------
(***************************************************************************)
(* What is said of a file, and of the buffer beside it.                    *)
(***************************************************************************)
Files == [address_offset : 0 .. MaxData, total_size : 0 .. MaxData,
          flash : [Addresses -> Addresses \union {Unwritten}], failed : BOOLEAN]

InPlace(f) == \A a \in Addresses : f.flash[a] \in {a, Unwritten}

\* What the writes so far covered is stored, if none of them failed.
Whole(f) == ~f.failed => \A a \in 0 .. f.address_offset - 1 : f.flash[a] = a

\* The octets of data are those of the file from a given place.
Run(data, from) == \A i \in 1 .. Len(data) : data[i] = from + i - 1

---------------------------------------------------------------------------
\* A call of write_function with octets of the right place keeps a file in place and
\* whole, up to the address it advances to.
LEMMA WrittenFile ==
  ASSUME NEW f \in Files, NEW data \in Seq(Addresses), NEW ok \in BOOLEAN,
         Run(data, f.address_offset), f.address_offset + Len(data) <= MaxData,
         InPlace(f), Whole(f)
  PROVE  /\ Written(f, data, ok) \in Files
         /\ Written(f, data, ok).address_offset = f.address_offset + Len(data)
         /\ Written(f, data, ok).total_size = f.total_size
         /\ InPlace(Written(f, data, ok)) /\ Whole(Written(f, data, ok))
  <1> DEFINE w == Written(f, data, ok)
             from == f.address_offset
  <1>1. from \in 0 .. MaxData /\ Len(data) \in Nat /\ from + Len(data) \in 0 .. MaxData
    BY DEF Files
  <1>2. /\ w.address_offset = from + Len(data) /\ w.total_size = f.total_size
        /\ w.failed = (f.failed \/ ~ok)
        /\ w.flash = [a \in Addresses |-> IF ok /\ a - from \in 0 .. Len(data) - 1
                                          THEN data[a - from + 1] ELSE f.flash[a]]
        /\ DOMAIN w = {"address_offset", "total_size", "flash", "failed"}
    BY DEF Written, Files
  <1>3. ASSUME NEW a \in Addresses, a - from \in 0 .. Len(data) - 1
        PROVE  data[a - from + 1] = a
    <2> DEFINE i == a - from + 1
    <2>1. i \in 1 .. Len(data) /\ from + i - 1 = a
      BY <1>1, <1>3 DEF Addresses
    <2>2. data[i] = from + i - 1
      BY <2>1 DEF Run
    <2> QED
      BY <2>1, <2>2
  <1>4. \A a \in Addresses : w.flash[a] = IF ok /\ a - from \in 0 .. Len(data) - 1
                                          THEN a ELSE f.flash[a]
    BY <1>2, <1>3
  <1>5. w.flash \in [Addresses -> Addresses \union {Unwritten}]
    BY <1>2, <1>3 DEF Files
  <1>6. w \in Files
    BY <1>1, <1>2, <1>5 DEF Files, Written
  <1>7. InPlace(w)
    BY <1>4 DEF InPlace
  <1>8. Whole(w)
    <2> SUFFICES ASSUME ~w.failed, NEW a \in 0 .. w.address_offset - 1
                 PROVE  w.flash[a] = a
      BY DEF Whole
    <2>1. a \in Addresses /\ a \in 0 .. from + Len(data) - 1
      BY <1>1, <1>2 DEF Addresses
    <2>2. ok /\ ~f.failed
      BY <1>2 DEF Files
    <2>3. a \in 0 .. from - 1 \/ a - from \in 0 .. Len(data) - 1
      BY <1>1, <2>1
    <2> QED
      BY <1>4, <2>1, <2>2, <2>3 DEF Whole
  <1> QED
    BY <1>2, <1>6, <1>7, <1>8

\* What FOE_fwrite hands over is a multiple of the buffer's size, and what stays in the
\* buffer is less than that.
LEMMA Blocks ==
  ASSUME NEW n \in Nat
  PROVE  LET upto == (n \div BufferSize) * BufferSize
         IN  /\ upto \in 0 .. n /\ n - upto < BufferSize
             /\ upto # 0 => upto >= BufferSize
  <1> DEFINE q == n \div BufferSize
             r == n % BufferSize
  <1>1. q \in Nat /\ r \in 0 .. BufferSize - 1 /\ n = BufferSize * q + r
    OBVIOUS
  <1>2. BufferSize * q = q * BufferSize /\ BufferSize * q \in Nat
    BY <1>1
  <1>3. q # 0 => q * BufferSize >= BufferSize
    <2> SUFFICES ASSUME q >= 1 PROVE q * BufferSize >= BufferSize
      BY <1>1
    <2>1. (q - 1) * BufferSize >= 0
      BY <1>1
    <2> QED
      BY <1>1, <2>1
  <1>4. q = 0 => q * BufferSize = 0
    OBVIOUS
  <1> HIDE DEF q
  <1> QED
    BY <1>1, <1>2, <1>3, <1>4

\* A piece of a run is a run.
LEMMA RunPiece ==
  ASSUME NEW data \in Seq(Addresses), NEW from \in Int, Run(data, from),
         NEW i \in Nat, NEW j \in Nat, 1 <= i, i <= j + 1, j <= Len(data)
  PROVE  /\ SubSeq(data, i, j) \in Seq(Addresses)
         /\ Len(SubSeq(data, i, j)) = j - i + 1
         /\ Run(SubSeq(data, i, j), from + i - 1)
  <1> DEFINE piece == SubSeq(data, i, j)
  <1>1. \A k \in i .. j : data[k] \in Addresses
    OBVIOUS
  <1>2. /\ piece \in Seq(Addresses) /\ Len(piece) = j - i + 1
        /\ \A k \in 1 .. j - i + 1 : piece[k] = data[i + k - 1]
    BY <1>1, SubSeqProperties
  <1> HIDE DEF piece
  <1>3. ASSUME NEW k \in 1 .. Len(piece)
        PROVE  piece[k] = from + i - 1 + k - 1
    <2>1. i + k - 1 \in 1 .. Len(data)
      BY <1>2
    <2> QED
      BY <1>2, <2>1 DEF Run
  <1>4. Run(piece, from + i - 1)
    BY <1>3 DEF Run
  <1> QED
    BY <1>2, <1>4 DEF piece

---------------------------------------------------------------------------
(***************************************************************************)
(* The inductive invariant: what each state of FOEvar means for the file,  *)
(* the buffer and the answers.                                             *)
(***************************************************************************)
\* While a file is received, what was handed over is stored, the buffer goes on where
\* it ends, and the packet number is that of the position.
Receiving ==
  foestate = "data" =>
    /\ foepacket >= 1 /\ ~accepted
    /\ PositionsAgree
    /\ Whole(file)

\* While a file is read, the last answer ends at the position, and the position to
\* step back to is the start.
Reading ==
  foestate = "ack" =>
    /\ foepacket >= 2 /\ fprevposition = 0
    /\ out # <<>> => /\ out[Len(out)].op = "DATA"
                     /\ out[Len(out)].packet = foepacket - 1
                     /\ out[Len(out)].from + out[Len(out)].len = fposition

\* The answers in a queue: packets of a read are numbered from 1, start at the first
\* octet, and follow one another.
InOrder(queue) ==
  /\ queue \in Seq(Answers) /\ Len(queue) <= OutBuffers
  /\ \A i \in 1 .. Len(queue) : queue[i].op = "DATA" =>
       /\ queue[i].packet >= 1
       /\ queue[i].packet = 1 => queue[i].from = 0
       /\ i > 1 /\ queue[i - 1].op = "DATA" /\ queue[i].packet = queue[i - 1].packet + 1
            => queue[i].from = queue[i - 1].from + queue[i - 1].len

FoeTypes ==
  /\ foestate \in {"ready", "data", "ack", "final"}
  /\ foepacket \in Nat
  /\ fposition \in 0 .. MaxData /\ fprevposition \in 0 .. MaxData
  /\ fbuffer \in Seq(Addresses) /\ Len(fbuffer) < BufferSize

FileInv == file \in Files /\ InPlace(file) /\ accepted \in BOOLEAN /\ AcceptedIsStored

IInv == FoeTypes /\ FileInv /\ InOrder(out) /\ Receiving /\ Reading

LEMMA Implied == IInv => TypeOK /\ StoredInPlace /\ AcceptedIsStored /\ ReadInOrder
  BY DEF IInv, FoeTypes, FileInv, InOrder, TypeOK, Files, InPlace, StoredInPlace, ReadInOrder

LEMMA FileType == TypeOK => file \in Files /\ (StoredInPlace <=> InPlace(file))
  BY DEF TypeOK, Files, StoredInPlace, InPlace

\* The buffer and the octets of a packet that follow it.
LEMMA CollectedRun ==
  ASSUME TypeOK, Receiving, foestate = "data",
         NEW n \in 0 .. DataSize, fposition + n <= MaxData
  PROVE  /\ Collected(foepacket, n) \in Seq(Addresses)
         /\ Len(Collected(foepacket, n)) = Len(fbuffer) + n
         /\ Run(Collected(foepacket, n), file.address_offset)
  <1> DEFINE new == [i \in 1 .. n |-> (foepacket - 1) * DataSize + i - 1]
             from == file.address_offset
  <1>1. fposition = (foepacket - 1) * DataSize
    BY DEF Receiving, PositionsAgree
  <1>2. new = [i \in 1 .. n |-> fposition + i - 1]
    BY <1>1
  <1>3. fposition \in 0 .. MaxData /\ fbuffer \in Seq(Addresses) /\ from \in 0 .. MaxData
    BY DEF TypeOK
  <1>4. \A i \in 1 .. n : fposition + i - 1 \in Addresses
    BY <1>3 DEF Addresses
  <1> HIDE DEF new
  <1>5. new \in Seq(Addresses) /\ Len(new) = n
    BY <1>2, <1>4
  <1>6. fposition = from + Len(fbuffer) /\ Run(fbuffer, from)
    BY DEF Receiving, PositionsAgree, Run
  <1>7. Collected(foepacket, n) = fbuffer \o new
    BY DEF Collected, new
  <1>8. Len(fbuffer \o new) = Len(fbuffer) + n /\ fbuffer \o new \in Seq(Addresses)
    BY <1>3, <1>5
  <1>9. ASSUME NEW i \in 1 .. Len(fbuffer) + n
        PROVE  (fbuffer \o new)[i] = from + i - 1
    <2>1. CASE i <= Len(fbuffer)
      BY <1>3, <1>5, <1>6, <2>1 DEF Run
    <2>2. CASE i > Len(fbuffer)
      <3> DEFINE k == i - Len(fbuffer)
      <3>1. k \in 1 .. n /\ (fbuffer \o new)[i] = new[k]
        BY <1>3, <1>5, <2>2
      <3>2. new[k] = fposition + k - 1
        BY <1>2, <3>1
      <3>3. fposition + k - 1 = from + i - 1
        BY <1>3, <1>6
      <3> HIDE DEF k
      <3> QED
        BY <3>1, <3>2, <3>3
    <2>3. Len(fbuffer) \in Nat /\ i \in Int
      BY <1>3
    <2>4. i <= Len(fbuffer) \/ i > Len(fbuffer)
      BY <2>3
    <2> QED
      BY <2>1, <2>2, <2>4
  <1>10. Run(fbuffer \o new, from)
    BY <1>8, <1>9 DEF Run
  <1> QED
    BY <1>7, <1>8, <1>10

\* FOE_fwrite of n octets keeps the file, and leaves in the buffer a run that goes on
\* where the file ends.
LEMMA FwriteFile ==
  ASSUME TypeOK, Receiving, StoredInPlace, foestate = "data", NEW ok \in BOOLEAN,
         NEW n \in 1 .. DataSize, fposition + n <= MaxData
  PROVE  LET w == FOE_fwrite(foepacket, n, ok)
             rest == Rest(foepacket, n)
         IN  /\ w \in Files /\ InPlace(w) /\ Whole(w)
             /\ w.total_size = fposition + n
             /\ w.address_offset + Len(rest) = fposition + n
             /\ rest \in Seq(Addresses) /\ Len(rest) < BufferSize
             /\ Run(rest, w.address_offset)
  <1> DEFINE w == FOE_fwrite(foepacket, n, ok)
             rest == Rest(foepacket, n)
             all == Collected(foepacket, n)
             upto == Flushed(foepacket, n)
             from == file.address_offset
             sized == [file EXCEPT !.total_size = @ + n]
             whole == SubSeq(all, 1, upto - BufferSize)
             last == SubSeq(all, upto - BufferSize + 1, upto)
  <1>1. file \in Files /\ InPlace(file) /\ Whole(file)
    BY FileType DEF Receiving
  <1>2. fposition = file.total_size /\ fposition = from + Len(fbuffer)
    BY DEF Receiving, PositionsAgree
  <1>3. all \in Seq(Addresses) /\ Len(all) = Len(fbuffer) + n /\ Run(all, from)
    BY CollectedRun
  <1>4. /\ upto \in 0 .. Len(all) /\ Len(all) - upto < BufferSize
        /\ upto # 0 => upto >= BufferSize
    <2>1. Len(all) \in Nat
      BY <1>3
    <2> HIDE DEF all
    <2>2. (Len(all) \div BufferSize) * BufferSize = upto
      BY DEF Flushed, all
    <2> QED
      BY <2>1, <2>2, Blocks
  <1>5. from \in 0 .. MaxData /\ Len(fbuffer) \in Nat /\ fposition \in 0 .. MaxData
        /\ from + Len(all) = fposition + n
    BY <1>1, <1>2, <1>3 DEF Files, TypeOK
  <1>6. /\ sized \in Files /\ InPlace(sized) /\ Whole(sized)
        /\ sized.address_offset = from /\ sized.total_size = fposition + n
    BY <1>1, <1>2, <1>5 DEF Files, InPlace, Whole
  <1>7. rest = SubSeq(all, upto + 1, Len(all))
    BY DEF Rest
  <1>8. w = IF upto = 0 THEN sized ELSE Written(Written(sized, whole, TRUE), last, ok)
    BY DEF FOE_fwrite
  <1> HIDE DEF all, upto, sized, w, rest
  <1>9. rest \in Seq(Addresses) /\ Len(rest) = Len(all) - upto /\ Run(rest, from + upto)
    <2> DEFINE i == upto + 1
               j == Len(all)
    <2>1. /\ i \in Nat /\ j \in Nat /\ 1 <= i /\ i <= j + 1
          /\ from \in Int /\ j - i + 1 = Len(all) - upto /\ from + i - 1 = from + upto
      BY <1>3, <1>4, <1>5
    <2>2. j <= Len(all) /\ rest = SubSeq(all, i, j)
      BY <1>3, <1>7
    <2> HIDE DEF i, j
    <2> QED
      BY <1>3, <2>1, <2>2, RunPiece
  <1>10. /\ w \in Files /\ InPlace(w) /\ Whole(w)
         /\ w.total_size = fposition + n /\ w.address_offset = from + upto
    <2>1. CASE upto = 0
      BY <1>5, <1>6, <1>8, <2>1
    <2>2. CASE upto # 0
      <3>1. upto \in BufferSize .. Len(all)
        BY <1>4, <2>2
      <3>2. /\ whole \in Seq(Addresses) /\ Len(whole) = upto - BufferSize
            /\ Run(whole, from)
        <4> DEFINE j == upto - BufferSize
        <4>1. /\ j \in Nat /\ 1 <= j + 1 /\ j <= Len(all) /\ from \in Int
              /\ j - 1 + 1 = j /\ from + 1 - 1 = from
          BY <1>3, <1>5, <3>1
        <4> HIDE DEF j
        <4>2. /\ SubSeq(all, 1, j) \in Seq(Addresses)
              /\ Len(SubSeq(all, 1, j)) = j - 1 + 1
              /\ Run(SubSeq(all, 1, j), from + 1 - 1)
          BY <1>3, <4>1, RunPiece
        <4> QED
          BY <4>1, <4>2 DEF j
      <3>3. /\ last \in Seq(Addresses) /\ Len(last) = BufferSize
            /\ Run(last, from + (upto - BufferSize))
        <4> DEFINE i == upto - BufferSize + 1
        <4>1. /\ i \in Nat /\ upto \in Nat /\ 1 <= i /\ i <= upto + 1 /\ upto <= Len(all)
              /\ from \in Int /\ upto - i + 1 = BufferSize /\ from + i - 1 = from + (upto - BufferSize)
          BY <1>3, <1>5, <3>1
        <4> HIDE DEF i
        <4>2. /\ SubSeq(all, i, upto) \in Seq(Addresses)
              /\ Len(SubSeq(all, i, upto)) = upto - i + 1
              /\ Run(SubSeq(all, i, upto), from + i - 1)
          BY <1>3, <4>1, RunPiece
        <4> QED
          BY <4>1, <4>2 DEF i
      <3> DEFINE first == Written(sized, whole, TRUE)
      <3> HIDE DEF whole, last
      <3>4. /\ first \in Files /\ InPlace(first) /\ Whole(first)
            /\ first.address_offset = from + (upto - BufferSize)
            /\ first.total_size = fposition + n
        <4>1. /\ Run(whole, sized.address_offset) /\ TRUE \in BOOLEAN
              /\ sized.address_offset + Len(whole) = from + (upto - BufferSize)
              /\ from + (upto - BufferSize) <= MaxData
          BY <1>5, <1>6, <3>1, <3>2
        <4> QED
          BY <1>6, <3>2, <4>1, WrittenFile DEF first
      <3> HIDE DEF first
      <3>5. w = Written(first, last, ok)
        BY <1>8, <2>2 DEF first
      <3> QED
        BY <1>4, <1>5, <3>1, <3>3, <3>4, <3>5, WrittenFile
    <2> QED
      BY <2>1, <2>2
  <1> QED
    BY <1>4, <1>5, <1>9, <1>10 DEF w, rest

---------------------------------------------------------------------------
(***************************************************************************)
(* The queue of answers.                                                   *)
(***************************************************************************)
LEMMA AckAnswer == \A packet \in Nat : Ack(packet) \in Answers /\ Ack(packet).op = "ACK"
  BY DEF Ack, Answers

LEMMA ErrAnswer ==
  \A code \in {"illegal", "notfound", "progerror", "packetno", "diskfull", "notdefined"} :
    Err(code) \in Answers /\ Err(code).op = "ERR"
  BY DEF Err, Answers

\* An answer that is no packet leaves those before it in order.
LEMMA AnswerQueued ==
  ASSUME NEW queue, InOrder(queue), NEW msg \in Answers, msg.op # "DATA"
  PROVE  InOrder(Push(queue, msg))
  <1>1. CASE Len(queue) < OutBuffers
    <2> DEFINE q == Append(queue, msg)
    <2>1. /\ q \in Seq(Answers) /\ Len(q) = Len(queue) + 1 /\ Len(queue) \in Nat
          /\ \A i \in 1 .. Len(queue) : q[i] = queue[i]
          /\ q[Len(queue) + 1] = msg
      BY DEF InOrder
    <2> HIDE DEF q
    <2>2. \A i \in 1 .. Len(q) : i # Len(queue) + 1 => i \in 1 .. Len(queue)
      BY <2>1
    <2>3. \A i \in 1 .. Len(queue) : i > 1 => i - 1 \in 1 .. Len(queue)
      BY <2>1
    <2>4. Len(q) <= OutBuffers
      BY <1>1, <2>1
    <2>5. InOrder(q)
      BY <2>1, <2>2, <2>3, <2>4 DEF InOrder
    <2> QED
      BY <1>1, <2>5 DEF Push, q
  <1>2. CASE ~(Len(queue) < OutBuffers)
    BY <1>2 DEF Push
  <1> QED
    BY <1>1, <1>2

LEMMA LastAnswer ==
  ASSUME NEW queue, InOrder(queue), queue # <<>>, queue[Len(queue)].op = "DATA"
  PROVE  queue[Len(queue)].packet \in Nat /\ queue[Len(queue)].packet >= 1
  <1>1. Len(queue) \in 1 .. Len(queue) /\ queue[Len(queue)] \in Answers
    BY DEF InOrder
  <1> QED
    BY <1>1 DEF InOrder, Answers

LEMMA ChunkType ==
  ASSUME NEW from \in 0 .. MaxData
  PROVE  Chunk(from) \in 0 .. DataSize /\ from + Chunk(from) \in 0 .. MaxData
  BY DEF Chunk

\* A packet that goes on where the one before it in the queue ended.
LEMMA PacketQueued ==
  ASSUME NEW queue, InOrder(queue), Len(queue) < OutBuffers,
         NEW packet \in Nat, packet >= 1, NEW from \in 0 .. MaxData,
         packet = 1 => from = 0,
         queue # <<>> /\ queue[Len(queue)].op = "DATA"
                      /\ packet = queue[Len(queue)].packet + 1
           => from = queue[Len(queue)].from + queue[Len(queue)].len
  PROVE  /\ InOrder(Append(queue, Data(packet, from, Chunk(from))))
         /\ Len(Append(queue, Data(packet, from, Chunk(from)))) = Len(queue) + 1
         /\ Append(queue, Data(packet, from, Chunk(from)))[Len(queue) + 1]
              = Data(packet, from, Chunk(from))
  <1> DEFINE msg == Data(packet, from, Chunk(from))
             q == Append(queue, msg)
  <1>1. /\ msg \in Answers /\ msg.op = "DATA" /\ msg.packet = packet
        /\ msg.from = from /\ msg.len = Chunk(from)
    BY ChunkType DEF Data, Answers
  <1> HIDE DEF msg
  <1>2. /\ q \in Seq(Answers) /\ Len(q) = Len(queue) + 1 /\ Len(queue) \in Nat
        /\ \A i \in 1 .. Len(queue) : q[i] = queue[i]
        /\ q[Len(queue) + 1] = msg
    BY <1>1 DEF InOrder
  <1> HIDE DEF q
  <1>3. \A i \in 1 .. Len(q) : i # Len(queue) + 1 => i \in 1 .. Len(queue)
    BY <1>2
  <1>4. \A i \in 1 .. Len(queue) : i > 1 => i - 1 \in 1 .. Len(queue)
    BY <1>2
  <1>5. Len(queue) + 1 > 1 => queue # <<>> /\ Len(queue) \in 1 .. Len(queue)
    BY <1>2
  <1>6. Len(q) <= OutBuffers
    BY <1>2
  <1>7. ASSUME NEW i \in 1 .. Len(q), q[i].op = "DATA"
        PROVE  /\ q[i].packet >= 1
               /\ q[i].packet = 1 => q[i].from = 0
               /\ i > 1 /\ q[i - 1].op = "DATA" /\ q[i].packet = q[i - 1].packet + 1
                    => q[i].from = q[i - 1].from + q[i - 1].len
    <2>1. CASE i = Len(queue) + 1
      BY <1>1, <1>2, <1>5, <2>1
    <2>2. CASE i # Len(queue) + 1
      BY <1>2, <1>3, <1>4, <1>7, <2>2 DEF InOrder
    <2> QED
      BY <2>1, <2>2
  <1>8. InOrder(q)
    BY <1>2, <1>6, <1>7 DEF InOrder
  <1> QED
    BY <1>2, <1>8 DEF q, msg

\* Reading an answer takes the oldest one.
LEMMA AnswerRead ==
  ASSUME NEW queue, InOrder(queue), queue # <<>>
  PROVE  /\ InOrder(Tail(queue))
         /\ Tail(queue) # <<>> => Tail(queue)[Len(Tail(queue))] = queue[Len(queue)]
  <1> DEFINE q == Tail(queue)
  <1>1. /\ q \in Seq(Answers) /\ Len(q) = Len(queue) - 1 /\ Len(queue) \in Nat
        /\ \A i \in 1 .. Len(q) : q[i] = queue[i + 1]
    BY HeadTailProperties DEF InOrder
  <1> HIDE DEF q
  <1>2. \A i \in 1 .. Len(q) : i + 1 \in 1 .. Len(queue) /\ (i > 1 => i - 1 \in 1 .. Len(q))
    BY <1>1
  <1>3. ASSUME NEW i \in 1 .. Len(q), q[i].op = "DATA"
        PROVE  /\ q[i].packet >= 1
               /\ q[i].packet = 1 => q[i].from = 0
               /\ i > 1 /\ q[i - 1].op = "DATA" /\ q[i].packet = q[i - 1].packet + 1
                    => q[i].from = q[i - 1].from + q[i - 1].len
    <2>1. q[i] = queue[i + 1] /\ (i > 1 => q[i - 1] = queue[(i + 1) - 1])
      BY <1>1, <1>2
    <2>2. i + 1 \in 1 .. Len(queue) /\ (i > 1 => i + 1 > 1)
      BY <1>2
    <2> QED
      BY <1>3, <2>1, <2>2 DEF InOrder
  <1>4. InOrder(q)
    BY <1>1, <1>3 DEF InOrder
  <1>5. q # <<>> => q[Len(q)] = queue[Len(queue)]
    BY <1>1
  <1> QED
    BY <1>4, <1>5 DEF q

---------------------------------------------------------------------------
(***************************************************************************)
(* One lemma per handler: each keeps the invariant.                        *)
(***************************************************************************)
\* Whatever went before, a handler that ends in "ready" leaves nothing to agree on but
\* the file and the answers.
LEMMA ReadyKeeps ==
  ASSUME foestate' = "ready", foepacket' \in Nat,
         fposition' = 0, fprevposition' = 0, fbuffer' = <<>>,
         FileInv', InOrder(out')
  PROVE  IInv'
  BY DEF IInv, FoeTypes, Receiving, Reading

LEMMA FileKept == FileInv /\ UNCHANGED <<file, accepted>> => FileInv'
  BY DEF FileInv, AcceptedIsStored

\* FOE_abort, with one of its codes, when the file stays as it is.
LEMMA AbortKeeps ==
  ASSUME IInv, FileInv',
         NEW code \in {"illegal", "notfound", "progerror", "packetno", "diskfull",
                       "notdefined"},
         FOE_abort(code)
  PROVE  IInv'
  <1>1. InOrder(out')
    BY ErrAnswer, AnswerQueued DEF FOE_abort, IInv
  <1> QED
    BY <1>1, ReadyKeeps DEF FOE_abort, FOE_init

\* A file just opened has nothing to be in place.
LEMMA OpenedKeeps ==
  ASSUME file' = Opened, accepted' = FALSE
  PROVE  FileInv' /\ Whole(file') /\ file'.address_offset = 0 /\ file'.total_size = 0
  <1>1. /\ file'.address_offset = 0 /\ file'.total_size = 0 /\ file'.failed = FALSE
        /\ file'.flash = [a \in Addresses |-> Unwritten]
    BY DEF Opened
  <1>2. file' \in Files
    BY DEF Opened, Files
  <1>3. InPlace(file')
    BY <1>1 DEF InPlace
  <1>4. Whole(file')
    BY <1>1 DEF Whole
  <1> QED
    BY <1>1, <1>2, <1>3, <1>4 DEF FileInv, AcceptedIsStored

LEMMA WriteKeeps ==
  ASSUME IInv, NEW found \in BOOLEAN, FOE_write(found)
  PROVE  IInv'
  <1>1. CASE foestate # "ready" /\ FOE_abort("illegal") /\ UNCHANGED <<file, accepted>>
    BY <1>1, AbortKeeps, FileKept DEF IInv
  <1>2. CASE foestate = "ready" /\ ~found /\ FOE_abort("notfound") /\ UNCHANGED <<file, accepted>>
    BY <1>2, AbortKeeps, FileKept DEF IInv
  <1>3. CASE /\ file' = Opened /\ accepted' = FALSE
             /\ Free /\ out' = Append(out, Ack(0))
             /\ foestate' = "data" /\ foepacket' = 1
             /\ fposition' = 0 /\ fprevposition' = 0 /\ fbuffer' = <<>>
    <2>1. FileInv' /\ Whole(file') /\ file'.address_offset = 0 /\ file'.total_size = 0
      BY <1>3, OpenedKeeps
    <2>2. InOrder(Push(out, Ack(0)))
      BY AckAnswer, AnswerQueued DEF IInv
    <2>3. InOrder(out')
      BY <1>3, <2>2 DEF Free, Push
    <2>4. FoeTypes'
      BY <1>3 DEF FoeTypes
    <2>5. (foepacket' - 1) * DataSize = 0
      BY <1>3
    <2>6. Receiving'
      BY <1>3, <2>1, <2>5 DEF Receiving, PositionsAgree
    <2> QED
      BY <1>3, <2>1, <2>3, <2>4, <2>6 DEF IInv, Reading
  <1>4. CASE file' = Opened /\ accepted' = FALSE /\ FOE_abort("progerror")
    BY <1>4, OpenedKeeps, AbortKeeps
  <1> QED
    BY <1>1, <1>2, <1>3, <1>4 DEF FOE_write

\* What the handlers of a packet may rely on.
LEMMA TakenFacts ==
  ASSUME IInv, NEW packet \in Packets, NEW len \in 0 .. DataSize, DataTaken(packet, len)
  PROVE  /\ TypeOK /\ StoredInPlace /\ Receiving /\ foestate = "data" /\ packet = foepacket
         /\ file \in Files /\ InPlace(file) /\ Whole(file) /\ accepted = FALSE
         /\ fposition + len \in 0 .. MaxData
  <1>1. TypeOK /\ StoredInPlace
    BY Implied
  <1>2. foestate = "data" /\ packet = foepacket /\ (len > 0 => fposition + len <= MaxData)
    BY DEF DataTaken
  <1>3. Receiving /\ file \in Files /\ InPlace(file) /\ accepted \in BOOLEAN
    BY DEF IInv, FileInv
  <1>4. fposition \in 0 .. MaxData
    BY <1>1 DEF TypeOK
  <1> QED
    BY <1>1, <1>2, <1>3, <1>4 DEF Receiving

\* The last octets of a file are stored, and its end acknowledged or not.
LEMMA EndKeeps ==
  ASSUME IInv, file' \in Files, InPlace(file'), Whole(file'),
         file'.address_offset = file'.total_size, accepted' \in BOOLEAN
  PROVE  FileInv'
  BY DEF FileInv, AcceptedIsStored, Whole

LEMMA DataEndKeeps ==
  ASSUME IInv, NEW packet \in Packets, NEW len \in 0 .. DataSize, DataEnd(packet, len)
  PROVE  IInv'
  <1>1. DataTaken(packet, len) /\ len = 0
    BY DEF DataEnd
  <1>2. PICK ok \in BOOLEAN : file' = Written(file, fbuffer, ok)
    BY DEF DataEnd
  <1>3. /\ TypeOK /\ foestate = "data" /\ Receiving
        /\ file \in Files /\ InPlace(file) /\ Whole(file)
    BY <1>1, TakenFacts
  <1>4. /\ fbuffer \in Seq(Addresses) /\ Run(fbuffer, file.address_offset)
        /\ file.address_offset + Len(fbuffer) = file.total_size
        /\ file.address_offset + Len(fbuffer) <= MaxData
    BY <1>3 DEF Receiving, PositionsAgree, Run, TypeOK
  <1>5. /\ file' \in Files /\ InPlace(file') /\ Whole(file')
        /\ file'.address_offset = file'.total_size
    BY <1>2, <1>3, <1>4, WrittenFile
  <1>6. accepted' \in BOOLEAN /\ FOE_init /\ out' = Push(out, Ack(foepacket))
    BY DEF DataEnd, Free
  <1>7. InOrder(out')
    BY <1>3, <1>6, AckAnswer, AnswerQueued DEF IInv, TypeOK
  <1>8. FileInv'
    BY <1>5, <1>6, EndKeeps
  <1> QED
    BY <1>6, <1>7, <1>8, ReadyKeeps DEF FOE_init

\* After a packet that was taken whole or cut the end is not acknowledged.
LEMMA UnacceptedKeeps ==
  ASSUME file' \in Files, InPlace(file'), accepted' = FALSE
  PROVE  FileInv'
  BY DEF FileInv, AcceptedIsStored

LEMMA NextPacket ==
  ASSUME NEW p \in Nat, NEW q \in Nat, q = p + 1
  PROVE  (q - 1) * DataSize = (p - 1) * DataSize + DataSize
  OBVIOUS

LEMMA DataFullKeeps ==
  ASSUME IInv, NEW packet \in Packets, NEW len \in 0 .. DataSize, DataFull(packet, len)
  PROVE  IInv'
  <1> DEFINE rest == Rest(foepacket, len)
  <1>1. DataTaken(packet, len) /\ len = DataSize /\ UNCHANGED accepted
    BY DEF DataFull
  <1>2. /\ TypeOK /\ StoredInPlace /\ Receiving /\ foestate = "data" /\ packet = foepacket
        /\ accepted = FALSE /\ fposition + len \in 0 .. MaxData
    BY <1>1, TakenFacts
  <1>3. PICK ok \in BOOLEAN : file' = FOE_fwrite(foepacket, len, ok)
    BY <1>2 DEF DataFull
  <1>4. /\ file' \in Files /\ InPlace(file') /\ Whole(file')
        /\ file'.total_size = fposition + len
        /\ file'.address_offset + Len(rest) = fposition + len
        /\ rest \in Seq(Addresses) /\ Len(rest) < BufferSize
        /\ Run(rest, file'.address_offset)
    BY <1>1, <1>2, <1>3, FwriteFile
  <1>5. FileInv'
    BY <1>1, <1>2, <1>4, UnacceptedKeeps
  <1> HIDE DEF rest
  <1>6. CASE /\ Free /\ out' = Append(out, Ack(foepacket))
             /\ foepacket' = foepacket + 1
             /\ fprevposition' = fposition /\ fposition' = fposition + len
             /\ fbuffer' = rest
             /\ UNCHANGED foestate
    <2>1. foepacket \in Nat /\ fposition \in 0 .. MaxData
      BY <1>2 DEF TypeOK
    <2>2. InOrder(Push(out, Ack(foepacket)))
      BY <2>1, AckAnswer, AnswerQueued DEF IInv
    <2>3. InOrder(out')
      BY <1>6, <2>2 DEF Free, Push
    <2>4. FoeTypes'
      BY <1>2, <1>4, <1>6, <2>1 DEF FoeTypes
    <2>5. fposition' = (foepacket' - 1) * DataSize
      <3>1. fposition = (foepacket - 1) * DataSize
        BY <1>2 DEF Receiving, PositionsAgree
      <3>2. foepacket' \in Nat /\ foepacket' = foepacket + 1
        BY <1>6, <2>1
      <3>3. (foepacket' - 1) * DataSize = (foepacket - 1) * DataSize + DataSize
        BY <2>1, <3>2, NextPacket
      <3>4. fposition' = (foepacket - 1) * DataSize + DataSize
        BY <1>1, <1>6, <3>1
      <3> QED
        BY <3>3, <3>4
    <2>6. PositionsAgree'
      BY <1>4, <1>6, <2>5 DEF PositionsAgree, Run
    <2>7. Receiving'
      BY <1>1, <1>2, <1>4, <1>6, <2>1, <2>6 DEF Receiving
    <2> QED
      BY <1>2, <1>5, <1>6, <2>3, <2>4, <2>7 DEF IInv, Reading
  <1>7. CASE FOE_abort("progerror")
    BY <1>5, <1>7, AbortKeeps
  <1> QED
    BY <1>2, <1>6, <1>7 DEF DataFull, rest

LEMMA DataFullCutKeeps ==
  ASSUME IInv, NEW packet \in Packets, NEW len \in 0 .. DataSize, DataFullCut(packet, len)
  PROVE  IInv'
  <1>1. DataTaken(packet, len) /\ len = DataSize /\ UNCHANGED accepted
    BY DEF DataFullCut
  <1>2. /\ TypeOK /\ StoredInPlace /\ Receiving /\ foestate = "data" /\ packet = foepacket
        /\ accepted = FALSE /\ fposition + len \in 0 .. MaxData
    BY <1>1, TakenFacts
  <1>3. PICK n \in FlushPoints(packet, len) \ {len} : file' = FOE_fwrite(packet, n, FALSE)
    BY DEF DataFullCut
  <1>4. n \in 1 .. DataSize /\ fposition + n <= MaxData
    BY <1>1, <1>2 DEF FlushPoints, TypeOK
  <1>5. file' \in Files /\ InPlace(file')
    BY <1>2, <1>3, <1>4, FwriteFile
  <1>6. FileInv'
    BY <1>1, <1>2, <1>5, UnacceptedKeeps
  <1>7. /\ out' = Push(Push(out, Err("progerror")), Ack(0)) /\ foepacket' \in Nat
        /\ foestate' = "ready" /\ fposition' = 0 /\ fprevposition' = 0 /\ fbuffer' = <<>>
    BY DEF DataFullCut
  <1>8. InOrder(Push(out, Err("progerror")))
    BY ErrAnswer, AnswerQueued DEF IInv
  <1>9. InOrder(out')
    BY <1>7, <1>8, AckAnswer, AnswerQueued
  <1> QED
    BY <1>6, <1>7, <1>9, ReadyKeeps

LEMMA DataShortKeeps ==
  ASSUME IInv, NEW packet \in Packets, NEW len \in 0 .. DataSize, DataShort(packet, len)
  PROVE  IInv'
  <1>1. DataTaken(packet, len) /\ len \in 1 .. DataSize - 1
    BY DEF DataShort
  <1>2. /\ TypeOK /\ StoredInPlace /\ Receiving /\ foestate = "data" /\ packet = foepacket
        /\ accepted = FALSE /\ fposition + len \in 0 .. MaxData
    BY <1>1, TakenFacts
  <1>3. CASE /\ \E n \in FlushPoints(packet, len) \ {len} : file' = FOE_fwrite(packet, n, FALSE)
             /\ UNCHANGED accepted /\ FOE_abort("progerror")
    <2>1. PICK n \in FlushPoints(packet, len) \ {len} : file' = FOE_fwrite(packet, n, FALSE)
      BY <1>3
    <2>2. n \in 1 .. DataSize /\ fposition + n <= MaxData
      BY <1>1, <1>2 DEF FlushPoints, TypeOK
    <2>3. file' \in Files /\ InPlace(file')
      BY <1>2, <2>1, <2>2, FwriteFile
    <2> QED
      BY <1>2, <1>3, <2>3, UnacceptedKeeps, AbortKeeps
  <1>4. ASSUME NEW ok \in BOOLEAN, NEW closed \in BOOLEAN,
               file' = Written(FOE_fwrite(packet, len, ok), Rest(packet, len), closed),
               \/ closed /\ FOE_init /\ out' = Push(out, Ack(foepacket)) /\ accepted' = Free
               \/ ~closed /\ FOE_abort("progerror") /\ UNCHANGED accepted
        PROVE  IInv'
    <2> DEFINE w == FOE_fwrite(packet, len, ok)
               rest == Rest(packet, len)
    <2>1. /\ w \in Files /\ InPlace(w) /\ Whole(w)
          /\ w.total_size = fposition + len
          /\ w.address_offset + Len(rest) = fposition + len
          /\ rest \in Seq(Addresses) /\ Run(rest, w.address_offset)
      BY <1>1, <1>2, FwriteFile
    <2> HIDE DEF w, rest
    <2>2. file' = Written(w, rest, closed)
      BY <1>4 DEF w, rest
    <2>3. /\ file' \in Files /\ InPlace(file') /\ Whole(file')
          /\ file'.address_offset = file'.total_size
      <3>1. w.address_offset + Len(rest) <= MaxData /\ closed \in BOOLEAN
        BY <1>2, <2>1
      <3>2. /\ file' \in Files /\ InPlace(file') /\ Whole(file')
            /\ file'.address_offset = w.address_offset + Len(rest)
            /\ file'.total_size = w.total_size
        BY <2>1, <2>2, <3>1, WrittenFile
      <3> QED
        BY <2>1, <3>2
    <2>4. accepted' \in BOOLEAN
      <3>1. Free \in BOOLEAN
        BY DEF Free
      <3> QED
        BY <1>2, <1>4, <3>1, Zenon
    <2>5. FileInv'
      BY <2>3, <2>4, EndKeeps
    <2>6. CASE FOE_init /\ out' = Push(out, Ack(foepacket))
      <3>1. InOrder(out')
        BY <1>2, <2>6, AckAnswer, AnswerQueued DEF IInv, TypeOK
      <3> QED
        BY <2>5, <2>6, <3>1, ReadyKeeps DEF FOE_init
    <2>7. CASE FOE_abort("progerror")
      BY <2>5, <2>7, AbortKeeps
    <2> QED
      BY <1>4, <2>6, <2>7
  <1> QED
    BY <1>3, <1>4 DEF DataShort

LEMMA DataKeeps ==
  ASSUME IInv, NEW packet \in Packets, NEW len \in 0 .. DataSize, FOE_data(packet, len)
  PROVE  IInv'
  <1>1. CASE DataRefused(packet, len)
    BY <1>1, FileKept, AbortKeeps DEF DataRefused, IInv
  <1> QED
    BY <1>1, DataEndKeeps, DataFullKeeps, DataFullCutKeeps, DataShortKeeps DEF FOE_data

---------------------------------------------------------------------------
\* FOE_send_data_packet while a file is read: the packet goes on where the last answer
\* ended, or it is a part sent again under its own number.
LEMMA SendKeeps ==
  ASSUME IInv, FileInv', Free, NEW packet \in Nat, packet >= 1, NEW from \in 0 .. MaxData,
         packet = 1 => from = 0,
         out # <<>> /\ out[Len(out)].op = "DATA" /\ packet = out[Len(out)].packet + 1
           => from = out[Len(out)].from + out[Len(out)].len,
         Send(packet, from), foestate' \in {"ack", "final"},
         fprevposition' = 0, fbuffer' \in Seq(Addresses), Len(fbuffer') < BufferSize
  PROVE  IInv'
  <1>1. /\ InOrder(out') /\ Len(out') = Len(out) + 1
        /\ out'[Len(out) + 1] = Data(packet, from, Chunk(from))
    BY PacketQueued DEF IInv, Free, Send
  <1>2. out'[Len(out')].op = "DATA" /\ out'[Len(out')].packet = packet
        /\ out'[Len(out')].from + out'[Len(out')].len = from + Chunk(from)
    BY <1>1 DEF Data
  <1>3. foepacket' = packet + 1 /\ fposition' = from + Chunk(from)
    BY DEF Send
  <1>4. FoeTypes'
    BY <1>3, ChunkType DEF FoeTypes
  <1>5. Receiving'
    BY DEF Receiving
  <1>6. Reading'
    BY <1>2, <1>3 DEF Reading
  <1> QED
    BY <1>1, <1>4, <1>5, <1>6 DEF IInv

LEMMA ReadKeeps ==
  ASSUME IInv, NEW found \in BOOLEAN, FOE_read(found)
  PROVE  IInv'
  <1>1. CASE foestate # "ready" /\ FOE_abort("illegal") /\ UNCHANGED <<file, accepted>>
    BY <1>1, AbortKeeps, FileKept DEF IInv
  <1>2. CASE foestate = "ready" /\ ~found /\ FOE_abort("notfound") /\ UNCHANGED <<file, accepted>>
    BY <1>2, AbortKeeps, FileKept DEF IInv
  <1>3. CASE /\ file' = Opened /\ accepted' = FALSE /\ Free /\ Send(1, 0)
             /\ foestate' = "ack" /\ fprevposition' = 0 /\ fbuffer' = <<>>
    <2>1. FileInv'
      BY <1>3, OpenedKeeps
    <2>2. out # <<>> /\ out[Len(out)].op = "DATA" => 1 # out[Len(out)].packet + 1
      BY LastAnswer DEF IInv
    <2> QED
      BY <1>3, <2>1, <2>2, SendKeeps
  <1>4. CASE file' = Opened /\ accepted' = FALSE /\ FOE_abort("progerror")
    BY <1>4, OpenedKeeps, AbortKeeps
  <1> QED
    BY <1>1, <1>2, <1>3, <1>4 DEF FOE_read

LEMMA AckKeeps ==
  ASSUME IInv, FOE_ack
  PROVE  IInv'
  <1>1. FileInv' /\ FoeTypes /\ InOrder(out) /\ Reading
    BY FileKept DEF FOE_ack, IInv
  <1>2. CASE foestate = "final" /\ FOE_init /\ UNCHANGED out
    BY <1>1, <1>2, ReadyKeeps DEF FOE_init, InOrder
  <1>3. CASE foestate = "ack" /\ Continue(foepacket, fposition)
    <2>1. CASE ~Free /\ FOE_abort("progerror")
      BY <1>1, <2>1, AbortKeeps
    <2>2. CASE /\ Free /\ Send(foepacket, fposition)
               /\ foestate' = IF Chunk(fposition) < DataSize THEN "final" ELSE "ack"
               /\ UNCHANGED <<fprevposition, fbuffer>>
      <3>1. foestate' \in {"ack", "final"}
        BY <2>2
      <3>2. /\ foepacket >= 1 /\ foepacket # 1 /\ fprevposition' = 0 /\ foepacket \in Nat
            /\ fposition \in 0 .. MaxData /\ fbuffer' \in Seq(Addresses)
            /\ Len(fbuffer') < BufferSize
            /\ out # <<>> => fposition = out[Len(out)].from + out[Len(out)].len
        BY <1>1, <1>3, <2>2 DEF Reading, FoeTypes
      <3> QED
        BY <1>1, <2>2, <3>1, <3>2, SendKeeps
    <2> QED
      BY <1>3, <2>1, <2>2 DEF Continue
  <1>4. CASE FOE_abort("illegal")
    BY <1>1, <1>4, AbortKeeps
  <1> QED
    BY <1>2, <1>3, <1>4 DEF FOE_ack

LEMMA BusyKeeps ==
  ASSUME IInv, FOE_busy
  PROVE  IInv'
  <1>1. FileInv' /\ FoeTypes /\ Reading
    BY FileKept DEF FOE_busy, IInv
  <1>2. CASE foestate = "ack" /\ Continue(foepacket - 1, fprevposition)
    <2>1. CASE ~Free /\ FOE_abort("progerror")
      BY <1>1, <2>1, AbortKeeps
    <2>2. CASE /\ Free /\ Send(foepacket - 1, fprevposition)
               /\ foestate' = IF Chunk(fprevposition) < DataSize THEN "final" ELSE "ack"
               /\ UNCHANGED <<fprevposition, fbuffer>>
      <3>1. foestate' \in {"ack", "final"}
        BY <2>2
      <3>2. /\ foepacket - 1 \in Nat /\ foepacket - 1 >= 1 /\ fprevposition = 0
            /\ fprevposition' = 0 /\ fprevposition \in 0 .. MaxData
            /\ fbuffer' \in Seq(Addresses) /\ Len(fbuffer') < BufferSize
            /\ out # <<>> => foepacket - 1 # out[Len(out)].packet + 1
        BY <1>1, <1>2, <2>2 DEF Reading, FoeTypes
      <3> QED
        BY <1>1, <2>2, <3>1, <3>2, SendKeeps
    <2> QED
      BY <1>2, <2>1, <2>2 DEF Continue
  <1>3. CASE FOE_abort("illegal")
    BY <1>1, <1>3, AbortKeeps
  <1> QED
    BY <1>2, <1>3 DEF FOE_busy

\* The master reads an answer, or the mailboxes are stopped.
LEMMA QueueKeeps ==
  ASSUME IInv, ReadAnswer \/ StopMailbox
  PROVE  IInv'
  <1>1. FileInv' /\ FoeTypes' /\ UNCHANGED <<foestate, foepacket, fposition, fprevposition>>
    BY FileKept DEF ReadAnswer, StopMailbox, foe, IInv, FoeTypes
  <1>2. Receiving'
    BY DEF ReadAnswer, StopMailbox, foe, IInv, Receiving, PositionsAgree, Whole
  <1>3. CASE ReadAnswer
    <2>1. /\ InOrder(out') /\ out # <<>>
          /\ out' # <<>> => out'[Len(out')] = out[Len(out)]
      BY <1>3, AnswerRead DEF ReadAnswer, IInv
    <2>2. Reading'
      BY <1>1, <2>1 DEF Reading, IInv
    <2> QED
      BY <1>1, <1>2, <2>1, <2>2 DEF IInv
  <1>4. CASE StopMailbox
    <2>1. out' = <<>>
      BY <1>4 DEF StopMailbox
    <2>2. InOrder(out')
      BY <2>1 DEF InOrder
    <2>3. Reading'
      BY <1>1, <2>1 DEF Reading, IInv
    <2> QED
      BY <1>1, <1>2, <2>2, <2>3 DEF IInv
  <1> QED
    BY <1>3, <1>4

---------------------------------------------------------------------------
LEMMA Initially == Init => IInv
  <1> SUFFICES ASSUME Init PROVE IInv
    OBVIOUS
  <1>1. file \in Files /\ InPlace(file)
    BY DEF Init, Opened, Files, InPlace
  <1>2. FileInv
    BY <1>1 DEF Init, FileInv, AcceptedIsStored
  <1>3. FoeTypes /\ InOrder(out)
    BY DEF Init, FoeTypes, InOrder
  <1> QED
    BY <1>2, <1>3 DEF Init, IInv, Receiving, Reading

LEMMA Preserved == IInv /\ [Next]_vars => IInv'
  <1> SUFFICES ASSUME IInv, [Next]_vars PROVE IInv'
    OBVIOUS
  <1>1. ASSUME NEW op \in Opcodes, ESC_foeprocess(op) PROVE IInv'
    <2>1. CASE op = "WRQ"
      BY <1>1, <2>1, WriteKeeps DEF ESC_foeprocess
    <2>2. CASE op = "DATA"
      BY <1>1, <2>2, DataKeeps DEF ESC_foeprocess
    <2>3. CASE op = "RRQ"
      BY <1>1, <2>3, ReadKeeps DEF ESC_foeprocess
    <2>4. CASE op = "ACK"
      BY <1>1, <2>4, AckKeeps DEF ESC_foeprocess
    <2>5. CASE op = "BUSY"
      BY <1>1, <2>5, BusyKeeps DEF ESC_foeprocess
    <2>6. CASE op = "ERR"
      <3>1. FOE_init /\ UNCHANGED <<out, file, accepted>>
        BY <1>1, <2>6 DEF ESC_foeprocess, FOE_error
      <3> QED
        BY <3>1, FileKept, ReadyKeeps DEF FOE_init, IInv, InOrder
    <2>7. CASE op = "other"
      BY <1>1, <2>7, FileKept, AbortKeeps DEF ESC_foeprocess, IInv
    <2> QED
      BY <2>1, <2>2, <2>3, <2>4, <2>5, <2>6, <2>7
  <1>2. CASE Process
    BY <1>1, <1>2 DEF Process
  <1>3. CASE ReadAnswer \/ StopMailbox
    BY <1>3, QueueKeeps
  <1>4. CASE UNCHANGED vars
    BY <1>4, FileKept DEF vars, foe, IInv, FoeTypes, InOrder, Receiving, PositionsAgree,
                          Whole, Reading
  <1> QED
    BY <1>2, <1>3, <1>4 DEF Next

\* The invariant holds throughout.
THEOREM InvCorrect == Spec => []IInv
  BY Initially, Preserved, PTL DEF Spec

---------------------------------------------------------------------------
(***************************************************************************)
(* The theorems.                                                           *)
(***************************************************************************)
\* The states of FOEvar, the buffer, the file and the answers are what their types say:
\* the buffer never reaches its size, and no position or address passes the file's end.
THEOREM TypeCorrect == Spec => []TypeOK
  BY InvCorrect, Implied, PTL

\* Whatever the master sends, a byte is only ever stored at its place in the file.
THEOREM StoredCorrect == Spec => []StoredInPlace
  BY InvCorrect, Implied, PTL

\* A file whose end was acknowledged is stored whole, if no write failed.
THEOREM AcceptedCorrect == Spec => []AcceptedIsStored
  BY InvCorrect, Implied, PTL

\* While a file is received packet number, position, size, address and buffer agree.
THEOREM PositionsCorrect == Spec => []PositionsAgree
  <1>1. IInv => PositionsAgree
    BY DEF IInv, Receiving, PositionsAgree
  <1> QED
    BY <1>1, InvCorrect, PTL

\* The data packets of a read carry the file in order.
THEOREM ReadCorrect == Spec => []ReadInOrder
  BY InvCorrect, Implied, PTL

LEMMA PushGrows ==
  ASSUME NEW queue \in Seq(Answers), Len(queue) < OutBuffers, NEW msg \in Answers
  PROVE  Push(queue, msg) \in Seq(Answers) /\ Len(Push(queue, msg)) = Len(queue) + 1
  BY DEF Push

\* No request but an error, or the acknowledgement that ends a read, goes without an
\* answer while there is a buffer for it.
THEOREM AnsweredCorrect == Spec => EveryRequestAnswered
  <1>1. ASSUME TypeOK, Free, NEW op \in Opcodes \ {"ERR"}, ESC_foeprocess(op)
        PROVE  Len(out') > Len(out) \/ foestate = "final"
    <2>1. out \in Seq(Answers) /\ Len(out) \in Nat /\ Len(out) < OutBuffers /\ foepacket \in Nat
      BY <1>1 DEF TypeOK, Free
    <2>2. \A msg \in Answers : Len(Append(out, msg)) = Len(out) + 1
      BY <2>1
    <2>3. ASSUME NEW code \in {"illegal", "notfound", "progerror", "packetno", "diskfull",
                               "notdefined"}, FOE_abort(code)
          PROVE  Len(out') > Len(out)
      BY <2>1, <2>3, ErrAnswer, PushGrows DEF FOE_abort
    <2>4. ASSUME NEW packet \in Nat, out' = Push(out, Ack(packet)) \/ out' = Append(out, Ack(packet))
          PROVE  Len(out') > Len(out)
      BY <2>1, <2>2, <2>4, AckAnswer, PushGrows
    <2>5. ASSUME NEW packet, NEW from, Send(packet, from)
          PROVE  Len(out') > Len(out)
      BY <2>1, <2>5 DEF Send
    <2>6. CASE op = "WRQ"
      BY <1>1, <2>3, <2>4, <2>6 DEF ESC_foeprocess, FOE_write
    <2>7. CASE op = "DATA"
      <3>1. PICK packet \in Packets, len \in 0 .. DataSize : FOE_data(packet, len)
        BY <1>1, <2>7 DEF ESC_foeprocess
      <3>2. CASE DataRefused(packet, len)
        BY <2>3, <3>2 DEF DataRefused
      <3>3. CASE DataEnd(packet, len)
        BY <2>1, <2>4, <3>3 DEF DataEnd
      <3>4. CASE DataFull(packet, len)
        BY <2>1, <2>3, <2>4, <3>4 DEF DataFull
      <3>5. CASE DataFullCut(packet, len)
        <4> DEFINE aborted == Push(out, Err("progerror"))
        <4>1. aborted \in Seq(Answers) /\ Len(aborted) = Len(out) + 1
          BY <2>1, ErrAnswer, PushGrows
        <4>2. out' = Push(aborted, Ack(0))
          BY <3>5 DEF DataFullCut
        <4> HIDE DEF aborted
        <4>3. Len(out') >= Len(aborted)
          BY <2>1, <4>1, <4>2, AckAnswer DEF Push
        <4> QED
          BY <2>1, <4>1, <4>3
      <3>6. CASE DataShort(packet, len)
        BY <2>1, <2>3, <2>4, <3>6 DEF DataShort
      <3> QED
        BY <3>1, <3>2, <3>3, <3>4, <3>5, <3>6 DEF FOE_data
    <2>8. CASE op = "RRQ"
      BY <1>1, <2>3, <2>5, <2>8 DEF ESC_foeprocess, FOE_read
    <2>9. CASE op = "ACK"
      BY <1>1, <2>3, <2>5, <2>9 DEF ESC_foeprocess, FOE_ack, Continue
    <2>10. CASE op = "BUSY"
      BY <1>1, <2>3, <2>5, <2>10 DEF ESC_foeprocess, FOE_busy, Continue
    <2>11. CASE op = "other"
      BY <1>1, <2>3, <2>11 DEF ESC_foeprocess
    <2> QED
      BY <2>6, <2>7, <2>8, <2>9, <2>10, <2>11
  <1>2. TypeOK =>
          [\A op \in Opcodes \ {"ERR"} :
             ESC_foeprocess(op) /\ Free => Len(out') > Len(out) \/ foestate = "final"]_vars
    BY <1>1
  <1> QED
    BY <1>2, TypeCorrect, PTL DEF EveryRequestAnswered
=============================================================================
