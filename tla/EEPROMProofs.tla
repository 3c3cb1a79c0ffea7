----------------------------- MODULE EEPROMProofs -----------------------------
(***************************************************************************)
(* Proofs about EEPROM and the accesses of ESCAccess it makes.             *)
(*                                                                         *)
(* The first part is about accesses: for every address and length of an    *)
(* access, every depth of the FIFOs and every octet the chip gives, for    *)
(* any callers.                                                            *)
(*                                                                         *)
(* The second is about the emulation: every access EEP_process and the     *)
(* rest of the main loop make is one ESCAccess allows, so what is proved   *)
(* of accesses holds of them; and the master finds its commands carried    *)
(* out, for every memory, every command and every place of the registers.  *)
(***************************************************************************)
EXTENDS EEPROM, SequenceTheorems, TLAPS

USE AccessAssumption DEF AccessAssumption, Ops, Callers, Lanes

---------------------------------------------------------------------------
(***************************************************************************)
(* Types, and what every caller's access keeps to, with or without         *)
(* interrupts.                                                             *)
(***************************************************************************)
PCs == {"idle", "csr", "command", "poll", "fetch", "abort", "setup", "start", "avail", "word"}
RegisterPCs == {"csr", "command", "poll", "fetch"}
RAMPCs == {"abort", "setup", "start", "avail", "word"}
Cells == Octets \union {Unset}

AccRecords == [pc : PCs, op : Ops, start : 0 .. Top, len : 0 .. MaxLen, done : 0 .. MaxLen,
               buf : Buffer, event : BOOLEAN]
CsrRecords == [busy : BOOLEAN, op : Ops, address : Nat, size : {1, 2, 4}, data : Register,
               by : Callers]
FifoRecords == [state : {"idle", "abort", "run"}, next : Nat, end : Nat, words : Seq(Register),
                by : Callers]
Entries == [at : Nat, octet : Cells]

\* An access is at a point of the code its octets allow: among the registers or at the
\* event while there is no more to do, in RAM while octets are left.
PlaceOK(a) ==
  /\ a.done <= a.len
  /\ a.pc = "idle" => ~a.event
  /\ a.pc # "idle" => InSpace(a.start, a.len)
  /\ a.pc \in RegisterPCs =>
       IF a.event THEN a.done = a.len ELSE a.start < PRAM /\ a.done < a.len
  /\ a.pc \in RAMPCs => ~a.event /\ a.start >= PRAM /\ a.done < a.len
  /\ a.pc = "command" => Chunk(a).op = "write"
  /\ a.pc = "fetch" => Chunk(a).op = "read"

Types ==
  /\ acc \in [Callers -> AccRecords]
  /\ ALevent \in [0 .. 1 -> Cells]
  /\ csr \in CsrRecords
  /\ fifo \in [Ops -> FifoRecords]
  /\ \A op \in Ops : Len(fifo[op].words) <= Depth /\ fifo[op].next <= fifo[op].end
  /\ moved \in [Callers -> Seq(Entries)]

PlacesOK == \A x \in Callers : PlaceOK(acc[x])

AInv == Types /\ PlacesOK /\ CommandsLegal

LEMMA Typed == AInv => AccessTypeOK
  <1> SUFFICES ASSUME AInv PROVE AccessTypeOK
    OBVIOUS
  <1>1. ASSUME NEW x \in Callers
        PROVE  /\ acc[x].pc \in PCs /\ acc[x].op \in Ops /\ acc[x].event \in BOOLEAN
               /\ acc[x].len \in 0 .. MaxLen /\ acc[x].done \in 0 .. acc[x].len
               /\ acc[x].start \in 0 .. Top /\ acc[x].buf \in Buffer
    <2>1. acc[x] \in AccRecords
      BY <1>1 DEF AInv, Types
    <2>2. acc[x].done <= acc[x].len
      BY <1>1 DEF AInv, PlacesOK, PlaceOK
    <2> QED
      BY <2>1, <2>2 DEF AccRecords
  <1>2. DOMAIN acc = Callers /\ ALevent \in [0 .. 1 -> Octets \union {Unset}]
    BY DEF AInv, Types, Cells
  <1>3. /\ csr.busy \in BOOLEAN /\ csr.op \in Ops /\ csr.address \in Nat
        /\ csr.by \in Callers /\ csr.size \in {1, 2, 4} /\ csr.data \in Register
    BY DEF AInv, Types, CsrRecords
  <1>4. \A op \in Ops : /\ fifo[op].state \in {"idle", "abort", "run"}
                        /\ fifo[op].words \in Seq(Register) /\ Len(fifo[op].words) <= Depth
    BY DEF AInv, Types, FifoRecords
  <1> QED
    BY <1>1, <1>2, <1>3, <1>4 DEF AccessTypeOK, PCs

LEMMA SizeLegal ==
  ASSUME NEW address \in Nat, NEW len \in Nat, len > 0
  PROVE  /\ Size(address, len) \in {1, 2, 4} /\ Size(address, len) <= len
         /\ address % Size(address, len) = 0
  BY DEF Size, Least

\* A chunk is one the chip takes, and within the access or the event register.
LEMMA ChunkLegal ==
  ASSUME NEW a \in AccRecords, PlaceOK(a), a.pc \in RegisterPCs
  PROVE  /\ Chunk(a).op \in Ops /\ Chunk(a).address \in Nat /\ Chunk(a).size \in {1, 2, 4}
         /\ Chunk(a).address % Chunk(a).size = 0
         /\ Chunk(a).address + Chunk(a).size <= PRAM
         /\ ~a.event => Chunk(a).op = a.op /\ Chunk(a).address = a.start + a.done
                        /\ Chunk(a).size <= a.len - a.done
                        /\ Chunk(a).size = Size(a.start + a.done, a.len - a.done)
         /\ a.event => Chunk(a).op = "read"
  <1>1. CASE a.event
    BY <1>1 DEF Chunk, AccRecords
  <1>2. CASE ~a.event
    <2>1. /\ a.start \in Nat /\ a.done \in Nat /\ a.len \in Nat /\ a.op \in Ops
          /\ a.start < PRAM /\ a.done < a.len /\ a.start + a.len <= PRAM
      BY <1>2 DEF AccRecords, PlaceOK, InSpace, RegisterPCs
    <2>2. /\ Size(a.start + a.done, a.len - a.done) \in {1, 2, 4}
          /\ Size(a.start + a.done, a.len - a.done) <= a.len - a.done
          /\ (a.start + a.done) % Size(a.start + a.done, a.len - a.done) = 0
      BY <2>1, SizeLegal
    <2>3. Chunk(a) = [op |-> a.op, address |-> a.start + a.done,
                      size |-> Size(a.start + a.done, a.len - a.done)]
      BY <1>2 DEF Chunk
    <2> QED
      BY <1>2, <2>1, <2>2, <2>3
  <1> QED
    BY <1>1, <1>2

\* Advance ends the octets of an access, or goes on with them.
LEMMA AdvanceForms ==
  ASSUME NEW a \in AccRecords, NEW n \in Nat
  PROVE  /\ a.done + n = a.len =>
              Advance(a, n) = [a EXCEPT !.done = a.len, !.event = TRUE, !.pc = "csr"]
         /\ a.done + n # a.len =>
              Advance(a, n) = [a EXCEPT !.done = a.done + n, !.event = FALSE,
                                        !.pc = IF a.start < PRAM THEN "csr" ELSE "word"]
  <1>1. ASSUME a.done + n = a.len
        PROVE  Advance(a, n) = [a EXCEPT !.done = a.len, !.event = TRUE, !.pc = "csr"]
    <2>1. (a.done + n = a.len) = TRUE
      BY <1>1
    <2>2. (IF a.start < PRAM \/ a.done + n = a.len THEN "csr" ELSE "word") = "csr"
      BY <1>1
    <2> QED
      BY <1>1, <2>1, <2>2, Zenon DEF Advance
  <1>2. ASSUME a.done + n # a.len
        PROVE  Advance(a, n) = [a EXCEPT !.done = a.done + n, !.event = FALSE,
                                         !.pc = IF a.start < PRAM THEN "csr" ELSE "word"]
    <2>1. (a.done + n = a.len) = FALSE
      BY <1>2
    <2>2. (IF a.start < PRAM \/ a.done + n = a.len THEN "csr" ELSE "word")
            = IF a.start < PRAM THEN "csr" ELSE "word"
      BY <1>2
    <2> QED
      BY <2>1, <2>2, Zenon DEF Advance
  <1> QED
    BY <1>1, <1>2

\* n octets further an access is again at a point its octets allow.
LEMMA Advanced ==
  ASSUME NEW a \in AccRecords, PlaceOK(a), a.pc # "idle", NEW n \in Nat,
         a.done + n <= a.len
  PROVE  Advance(a, n) \in AccRecords /\ PlaceOK(Advance(a, n))
  <1>1. a.start \in Nat /\ a.len \in Nat /\ a.done \in Nat /\ InSpace(a.start, a.len)
    BY DEF PlaceOK, AccRecords
  <1>2. CASE a.done + n = a.len
    <2> DEFINE b == [a EXCEPT !.done = a.len, !.event = TRUE, !.pc = "csr"]
    <2>1. b \in AccRecords
      BY DEF AccRecords, PCs
    <2>2. b.pc = "csr" /\ b.event /\ b.done = b.len /\ b.start = a.start /\ b.len = a.len
      BY DEF AccRecords
    <2> HIDE DEF b
    <2>3. PlaceOK(b)
      BY <1>1, <2>2 DEF PlaceOK, RAMPCs
    <2>4. Advance(a, n) = b
      BY <1>2, AdvanceForms DEF b
    <2> QED
      BY <2>1, <2>3, <2>4
  <1>3. CASE a.done + n # a.len
    <2> DEFINE pc == IF a.start < PRAM THEN "csr" ELSE "word"
               b == [a EXCEPT !.done = a.done + n, !.event = FALSE, !.pc = pc]
    <2> HIDE DEF pc
    <2>1. a.done + n \in 0 .. MaxLen /\ a.done + n < a.len /\ pc \in PCs
      BY <1>1, <1>3 DEF AccRecords, PCs, pc
    <2>2. b \in AccRecords
      BY <2>1 DEF AccRecords
    <2>3. ~b.event /\ b.done \in Nat /\ b.done < b.len /\ b.start = a.start /\ b.len = a.len /\ b.pc = pc
      BY <2>1 DEF AccRecords
    <2>4. (pc = "csr" /\ a.start < PRAM) \/ (pc = "word" /\ a.start >= PRAM)
      BY <1>1 DEF pc
    <2>5. Advance(a, n) = b
      BY <1>3, AdvanceForms DEF b, pc
    <2> HIDE DEF b
    <2>6. PlaceOK(b)
      <3>1. CASE b.pc = "csr" /\ b.start < PRAM
        BY <1>1, <2>3, <3>1 DEF PlaceOK, RAMPCs, RegisterPCs
      <3>2. CASE b.pc = "word" /\ b.start >= PRAM
        BY <1>1, <2>3, <3>2 DEF PlaceOK, RAMPCs, RegisterPCs
      <3> QED
        BY <2>3, <2>4, <3>1, <3>2
    <2> QED
      BY <2>2, <2>5, <2>6
  <1> QED
    BY <1>2, <1>3

---------------------------------------------------------------------------
(***************************************************************************)
(* Each step keeps the types, the places and the commands.                 *)
(***************************************************************************)
\* A step of caller x that leaves the chip alone.
LEMMA CallerKeeps ==
  ASSUME AInv, NEW x \in Callers, NEW b \in AccRecords, PlaceOK(b),
         acc' = [acc EXCEPT ![x] = b], ALevent' \in [0 .. 1 -> Cells],
         fifo' \in [Ops -> FifoRecords],
         \A op \in Ops : Len(fifo'[op].words) <= Depth /\ fifo'[op].next <= fifo'[op].end,
         csr' \in CsrRecords, CommandsLegal', moved' \in [Callers -> Seq(Entries)]
  PROVE  AInv'
  <1>1. acc' \in [Callers -> AccRecords]
    BY DEF AInv, Types
  <1>2. PlacesOK'
    BY DEF AInv, Types, PlacesOK
  <1> QED
    BY <1>1, <1>2 DEF AInv, Types

LEMMA CommandsKept == CommandsLegal /\ UNCHANGED csr => CommandsLegal'
  BY DEF CommandsLegal

LEMMA FifosTyped ==
  AInv => /\ fifo \in [Ops -> FifoRecords] /\ csr \in CsrRecords
          /\ \A op \in Ops : Len(fifo[op].words) <= Depth /\ fifo[op].next <= fifo[op].end
          /\ moved \in [Callers -> Seq(Entries)] /\ ALevent \in [0 .. 1 -> Cells]
          /\ CommandsLegal
          /\ \A x \in Callers : acc[x] \in AccRecords /\ PlaceOK(acc[x])
  BY DEF AInv, Types, PlacesOK

LEMMA CallKeeps ==
  ASSUME AInv, NEW x \in Callers, AnyCall(x)
  PROVE  AInv'
  <1>1. PICK op \in Ops, start \in 0 .. Top, len \in 0 .. MaxLen, buf \in Buffer :
          InSpace(start, len) /\ Call(x, op, start, len, buf)
    BY DEF AnyCall
  <1> DEFINE b == Enter(op, start, len, buf)
  <1>2. /\ acc' = [acc EXCEPT ![x] = b] /\ moved' = [moved EXCEPT ![x] = <<>>]
        /\ UNCHANGED <<ALevent, csr, fifo>>
    BY <1>1 DEF Call
  <1>3. b \in AccRecords /\ PlaceOK(b)
    <2> DEFINE made(pc, event) == [pc |-> pc, op |-> op, start |-> start, len |-> len,
                                   done |-> 0, buf |-> buf, event |-> event]
    <2>1. CASE start >= PRAM
      <3>1. (start >= PRAM) = TRUE /\ (start < PRAM /\ len = 0) = FALSE
        BY <2>1
      <3>2. b = made("abort", FALSE)
        BY <3>1, Zenon DEF Enter
      <3>3. made("abort", FALSE) \in AccRecords
        BY DEF AccRecords, PCs
      <3> QED
        BY <1>1, <2>1, <3>2, <3>3 DEF PlaceOK, RegisterPCs, RAMPCs, InSpace
    <2>2. CASE start < PRAM /\ len = 0
      <3>1. (start >= PRAM) = FALSE /\ (start < PRAM /\ len = 0) = TRUE
        BY <2>2
      <3>2. b = made("csr", TRUE)
        BY <3>1, Zenon DEF Enter
      <3>3. made("csr", TRUE) \in AccRecords
        BY DEF AccRecords, PCs
      <3>4. /\ b.pc = "csr" /\ b.start = start /\ b.len = len /\ b.done = len
            /\ b.event = TRUE
        BY <2>2, <3>2
      <3> HIDE DEF b
      <3> QED
        BY <1>1, <2>2, <3>2, <3>3, <3>4 DEF PlaceOK, RegisterPCs, RAMPCs
    <2>3. CASE start < PRAM /\ len # 0
      <3>1. (start >= PRAM) = FALSE /\ (start < PRAM /\ len = 0) = FALSE
        BY <2>3
      <3>2. b = made("csr", FALSE)
        BY <3>1, Zenon DEF Enter
      <3>3. made("csr", FALSE) \in AccRecords
        BY DEF AccRecords, PCs
      <3> QED
        BY <1>1, <2>3, <3>2, <3>3 DEF PlaceOK, RegisterPCs, RAMPCs
    <2> QED
      BY <2>1, <2>2, <2>3
  <1> HIDE DEF b
  <1>4. moved' \in [Callers -> Seq(Entries)]
    BY <1>2, FifosTyped
  <1> QED
    BY <1>2, <1>3, <1>4, CallerKeeps, FifosTyped, CommandsKept

\* Going on to another point of the code.
LEMMA Moves ==
  ASSUME NEW a \in AccRecords, PlaceOK(a), NEW pc \in PCs,
         \/ a.pc \in RegisterPCs /\ pc \in RegisterPCs
         \/ a.pc \in RAMPCs /\ pc \in RAMPCs,
         pc = "command" => Chunk(a).op = "write",
         pc = "fetch" => Chunk(a).op = "read"
  PROVE  /\ [a EXCEPT !.pc = pc] \in AccRecords /\ PlaceOK([a EXCEPT !.pc = pc])
         /\ Chunk([a EXCEPT !.pc = pc]) = Chunk(a)
  <1> DEFINE b == [a EXCEPT !.pc = pc]
  <1>1. b \in AccRecords
    BY DEF AccRecords
  <1>2. /\ b.pc = pc /\ b.op = a.op /\ b.start = a.start /\ b.len = a.len
        /\ b.done = a.done /\ b.event = a.event
    BY DEF AccRecords
  <1> HIDE DEF b
  <1>3. Chunk(b) = Chunk(a)
    BY <1>2, Zenon DEF Chunk
  <1>4. PlaceOK(b)
    BY <1>2, <1>3 DEF PlaceOK, RegisterPCs, RAMPCs
  <1> QED
    BY <1>1, <1>3, <1>4 DEF b

LEMMA LoadDataKeeps ==
  ASSUME AInv, NEW x \in Callers, LoadData(x)
  PROVE  AInv'
  <1> DEFINE a == acc[x]
             b == [a EXCEPT !.pc = "command"]
             data == [i \in Lanes |-> IF i < Chunk(a).size THEN a.buf[a.done + i] ELSE Unset]
  <1>1. a \in AccRecords /\ PlaceOK(a) /\ a.pc = "csr" /\ Chunk(a).op = "write"
    BY FifosTyped DEF LoadData, At
  <1>2. b \in AccRecords /\ PlaceOK(b)
    BY <1>1, Moves DEF PCs, RegisterPCs
  <1>3. acc' = [acc EXCEPT ![x] = b] /\ csr' = [csr EXCEPT !.data = data]
        /\ UNCHANGED <<ALevent, fifo, moved>>
    BY DEF LoadData
  <1>4. data \in Register
    <2>1. ~a.event
      BY <1>1, ChunkLegal DEF RegisterPCs
    <2>2. Chunk(a).size \in {1, 2, 4} /\ Chunk(a).size <= a.len - a.done
      BY <1>1, <2>1, ChunkLegal DEF RegisterPCs
    <2>3. a.buf \in Buffer /\ a.len \in 0 .. MaxLen /\ a.done \in 0 .. MaxLen
      BY <1>1 DEF AccRecords
    <2>4. \A i \in Lanes : i < Chunk(a).size => a.done + i \in 0 .. MaxLen + 2
      BY <2>2, <2>3
    <2> HIDE DEF a
    <2> QED
      BY <2>3, <2>4 DEF Register, Buffer
  <1> HIDE DEF data, b
  <1>5. csr' \in CsrRecords /\ CommandsLegal'
    <2>1. csr' \in CsrRecords /\ csr'.busy = csr.busy /\ csr'.size = csr.size
          /\ csr'.address = csr.address
      BY <1>3, <1>4, FifosTyped DEF CsrRecords
    <2> QED
      BY <2>1, FifosTyped DEF CommandsLegal
  <1> QED
    BY <1>2, <1>3, <1>5, CallerKeeps, FifosTyped

\* Every command is one the chip can carry out, whoever makes it.
LEMMA CommandKeeps ==
  ASSUME AInv, NEW x \in Callers, Command(x)
  PROVE  AInv'
  <1> DEFINE a == acc[x]
             b == [a EXCEPT !.pc = "poll"]
             k == Chunk(a)
  <1>1. /\ a \in AccRecords /\ PlaceOK(a) /\ a.pc \in RegisterPCs
        /\ acc' = [acc EXCEPT ![x] = b] /\ UNCHANGED <<ALevent, fifo, moved>>
        /\ csr' = [csr EXCEPT !.busy = TRUE, !.op = k.op, !.address = k.address,
                              !.size = k.size, !.by = x]
    BY FifosTyped DEF Command, At, RegisterPCs
  <1>2. b \in AccRecords /\ PlaceOK(b)
    BY <1>1, Moves DEF PCs, RegisterPCs
  <1>3. /\ k.op \in Ops /\ k.address \in Nat /\ k.size \in {1, 2, 4}
        /\ k.address % k.size = 0 /\ k.address + k.size <= PRAM
    BY <1>1, ChunkLegal
  <1> HIDE DEF b, k
  <1>4. csr' \in CsrRecords /\ csr'.size = k.size /\ csr'.address = k.address
    BY <1>1, <1>3, FifosTyped DEF CsrRecords
  <1>5. CommandsLegal'
    BY <1>3, <1>4 DEF CommandsLegal
  <1> QED
    BY <1>1, <1>2, <1>4, <1>5, CallerKeeps, FifosTyped

LEMMA PollCSRKeeps ==
  ASSUME AInv, NEW x \in Callers, PollCSR(x)
  PROVE  AInv'
  <1> DEFINE a == acc[x]
  <1>1. /\ a \in AccRecords /\ PlaceOK(a) /\ a.pc = "poll"
        /\ UNCHANGED <<ALevent, csr, fifo, moved>>
    BY FifosTyped DEF PollCSR, At
  <1>2. CASE Chunk(a).op = "read"
    <2> DEFINE b == [a EXCEPT !.pc = "fetch"]
    <2>1. b \in AccRecords /\ PlaceOK(b)
      BY <1>1, <1>2, Moves DEF PCs, RegisterPCs
    <2>2. acc' = [acc EXCEPT ![x] = b]
      BY <1>2 DEF PollCSR
    <2> HIDE DEF b
    <2> QED
      BY <1>1, <2>1, <2>2, CallerKeeps, FifosTyped, CommandsKept
  <1>3. CASE Chunk(a).op # "read"
    <2> DEFINE b == Advance(a, Chunk(a).size)
    <2>1. Chunk(a).size \in {1, 2, 4} /\ Chunk(a).size <= a.len - a.done
      BY <1>1, <1>3, ChunkLegal DEF RegisterPCs
    <2>2. Chunk(a).size \in Nat /\ a.done + Chunk(a).size <= a.len
      BY <1>1, <2>1 DEF AccRecords
    <2>3. b \in AccRecords /\ PlaceOK(b)
      BY <1>1, <2>2, Advanced
    <2>4. acc' = [acc EXCEPT ![x] = b]
      BY <1>3 DEF PollCSR
    <2> HIDE DEF b
    <2> QED
      BY <1>1, <2>3, <2>4, CallerKeeps, FifosTyped, CommandsKept
  <1> QED
    BY <1>2, <1>3

\* An access with other octets in its buffer.
LEMMA Stored ==
  ASSUME NEW a \in AccRecords, PlaceOK(a), NEW buf \in Buffer
  PROVE  /\ [a EXCEPT !.buf = buf] \in AccRecords /\ PlaceOK([a EXCEPT !.buf = buf])
         /\ Chunk([a EXCEPT !.buf = buf]) = Chunk(a)
         /\ [a EXCEPT !.buf = buf].buf = buf
         /\ \A f \in {"pc", "op", "start", "len", "done", "event"} :
              [a EXCEPT !.buf = buf][f] = a[f]
  <1> DEFINE b == [a EXCEPT !.buf = buf]
  <1>1. b \in AccRecords
    BY DEF AccRecords
  <1>2. /\ b.pc = a.pc /\ b.op = a.op /\ b.start = a.start /\ b.len = a.len
        /\ b.done = a.done /\ b.event = a.event /\ b.buf = buf
    BY DEF AccRecords
  <1> HIDE DEF b
  <1>3. Chunk(b) = Chunk(a)
    BY <1>2, Zenon DEF Chunk
  <1>4. PlaceOK(b)
    BY <1>2, <1>3 DEF PlaceOK
  <1> QED
    BY <1>1, <1>2, <1>3, <1>4 DEF b

LEMMA FetchDataKeeps ==
  ASSUME AInv, NEW x \in Callers, FetchData(x)
  PROVE  AInv'
  <1> DEFINE a == acc[x]
             size == Chunk(a).size
             buf == [i \in DOMAIN a.buf |->
                       IF i \in a.done .. a.done + size - 1 THEN csr.data[i - a.done]
                       ELSE a.buf[i]]
             c == [a EXCEPT !.buf = buf]
             b == Advance(c, size)
  <1>1. /\ a \in AccRecords /\ PlaceOK(a) /\ a.pc = "fetch" /\ ~a.event
        /\ UNCHANGED <<ALevent, csr, fifo, moved>>
    BY FifosTyped DEF FetchData, At
  <1>2. acc' = [acc EXCEPT ![x] = b]
    BY DEF FetchData
  <1>3. size \in {1, 2, 4} /\ size <= a.len - a.done
    BY <1>1, ChunkLegal DEF RegisterPCs
  <1>4. a.done \in Nat /\ a.len \in Nat /\ a.buf \in Buffer
    BY <1>1 DEF AccRecords
  <1>5. csr.data \in [Lanes -> Cells]
    BY FifosTyped DEF CsrRecords, Register, Cells
  <1>6. buf \in Buffer
    <2> HIDE DEF a, size
    <2>1. \A i \in a.done .. a.done + size - 1 : csr.data[i - a.done] \in Cells
      BY <1>3, <1>4, <1>5
    <2> QED
      BY <1>4, <2>1 DEF Buffer, Cells
  <1> HIDE DEF buf
  <1>7. c \in AccRecords /\ PlaceOK(c) /\ c.pc = a.pc /\ c.done = a.done /\ c.len = a.len
    BY <1>1, <1>6, Stored
  <1>8. size \in Nat /\ c.done + size <= c.len
    BY <1>3, <1>4, <1>7
  <1> HIDE DEF c, size
  <1>9. b \in AccRecords /\ PlaceOK(b)
    BY <1>1, <1>7, <1>8, Advanced
  <1> HIDE DEF b
  <1> QED
    BY <1>1, <1>2, <1>9, CallerKeeps, FifosTyped, CommandsKept

LEMMA FetchEventKeeps ==
  ASSUME AInv, NEW x \in Callers, FetchEvent(x)
  PROVE  AInv'
  <1> DEFINE a == acc[x]
             b == [a EXCEPT !.pc = "idle", !.event = FALSE]
  <1>1. /\ a \in AccRecords /\ PlaceOK(a) /\ a.pc = "fetch" /\ a.event
        /\ UNCHANGED <<csr, fifo, moved>>
        /\ ALevent' = [i \in 0 .. 1 |-> csr.data[i]]
    BY FifosTyped DEF FetchEvent, At
  <1>2. acc' = [acc EXCEPT ![x] = b]
    BY FifosTyped DEF FetchEvent
  <1>3. b \in AccRecords
    BY <1>1 DEF AccRecords, PCs
  <1>4. b.pc = "idle" /\ b.event = FALSE /\ b.done = a.done /\ b.len = a.len
    BY <1>1 DEF AccRecords
  <1> HIDE DEF b
  <1>5. PlaceOK(b)
    BY <1>1, <1>4 DEF PlaceOK, RegisterPCs, RAMPCs
  <1>6. ALevent' \in [0 .. 1 -> Cells]
    BY <1>1, FifosTyped DEF CsrRecords, Register, Cells
  <1> QED
    BY <1>1, <1>2, <1>3, <1>5, <1>6, CallerKeeps, FifosTyped, CommandsKept

\* A step of the driver in RAM: it goes on to pc, and sets up one of the FIFOs.
LEMMA RAMKeeps ==
  ASSUME AInv, NEW x \in Callers, acc[x].pc \in RAMPCs, NEW pc \in RAMPCs,
         acc' = [acc EXCEPT ![x].pc = pc],
         NEW op \in Ops, NEW f \in FifoRecords, Len(f.words) <= Depth, f.next <= f.end,
         fifo' = [fifo EXCEPT ![op] = f], UNCHANGED <<ALevent, csr, moved>>
  PROVE  AInv'
  <1> DEFINE b == [acc[x] EXCEPT !.pc = pc]
  <1>1. acc[x] \in AccRecords /\ PlaceOK(acc[x]) /\ pc \in PCs
    BY FifosTyped DEF RAMPCs, PCs
  <1>2. pc \notin {"command", "fetch"}
    BY DEF RAMPCs
  <1>3. b \in AccRecords /\ PlaceOK(b)
    BY <1>1, <1>2, Moves
  <1>4. acc' = [acc EXCEPT ![x] = b]
    OBVIOUS
  <1>5. /\ fifo' \in [Ops -> FifoRecords]
        /\ \A o \in Ops : Len(fifo'[o].words) <= Depth /\ fifo'[o].next <= fifo'[o].end
    BY FifosTyped
  <1> HIDE DEF b
  <1> QED
    BY <1>3, <1>4, <1>5, CallerKeeps, FifosTyped, CommandsKept

LEMMA FifoFields ==
  ASSUME NEW f \in FifoRecords
  PROVE  /\ f.next \in Nat /\ f.end \in Nat /\ f.words \in Seq(Register) /\ f.by \in Callers
         /\ f.state \in {"idle", "abort", "run"}
  BY DEF FifoRecords

LEMMA AbortKeeps ==
  ASSUME AInv, NEW x \in Callers, Abort(x)
  PROVE  AInv'
  <1> DEFINE op == acc[x].op
             f == [fifo[op] EXCEPT !.state = "abort"]
  <1>1. acc[x] \in AccRecords /\ acc[x].pc \in RAMPCs /\ op \in Ops
    BY FifosTyped DEF Abort, At, AccRecords, RAMPCs
  <1>2. f \in FifoRecords /\ Len(f.words) <= Depth /\ f.next <= f.end
    BY <1>1, FifosTyped DEF FifoRecords
  <1>3. /\ fifo' = [fifo EXCEPT ![op] = f] /\ acc' = [acc EXCEPT ![x].pc = "setup"]
        /\ UNCHANGED <<ALevent, csr, moved>>
    BY DEF Abort
  <1>4. "setup" \in RAMPCs
    BY DEF RAMPCs
  <1> HIDE DEF f
  <1> QED
    BY <1>1, <1>2, <1>3, <1>4, RAMKeeps

LEMMA SetUpKeeps ==
  ASSUME AInv, NEW x \in Callers, SetUp(x)
  PROVE  AInv'
  <1> DEFINE op == acc[x].op
             g == fifo[op]
             start == acc[x].start
             end == acc[x].start + acc[x].len
             f == [g EXCEPT !.next = start, !.end = end]
  <1>1. acc[x] \in AccRecords /\ acc[x].pc \in RAMPCs /\ op \in Ops
    BY FifosTyped DEF SetUp, At, AccRecords, RAMPCs
  <1>2. start \in Nat /\ end \in Nat /\ start <= end
    BY <1>1 DEF AccRecords
  <1>3. g \in FifoRecords /\ Len(g.words) <= Depth
    BY <1>1, FifosTyped
  <1>4. /\ fifo' = [fifo EXCEPT ![op] = f] /\ acc' = [acc EXCEPT ![x].pc = "start"]
        /\ UNCHANGED <<ALevent, csr, moved>>
    BY <1>1, FifosTyped DEF SetUp, FifoRecords
  <1>5. f \in FifoRecords /\ Len(f.words) <= Depth /\ f.next <= f.end
    <2> HIDE DEF g, start, end
    <2> QED
      BY <1>2, <1>3 DEF FifoRecords
  <1>6. "start" \in RAMPCs
    BY DEF RAMPCs
  <1> HIDE DEF f
  <1> QED
    BY <1>1, <1>4, <1>5, <1>6, RAMKeeps

LEMMA StartKeeps ==
  ASSUME AInv, NEW x \in Callers, Start(x)
  PROVE  AInv'
  <1> DEFINE op == acc[x].op
             f == [fifo[op] EXCEPT !.state = "run", !.by = x]
  <1>1. acc[x] \in AccRecords /\ acc[x].pc \in RAMPCs /\ op \in Ops
    BY FifosTyped DEF Start, At, AccRecords, RAMPCs
  <1>2. f \in FifoRecords /\ Len(f.words) <= Depth /\ f.next <= f.end
    BY <1>1, FifosTyped DEF FifoRecords
  <1>3. /\ fifo' = [fifo EXCEPT ![op] = f] /\ acc' = [acc EXCEPT ![x].pc = "avail"]
        /\ UNCHANGED <<ALevent, csr, moved>>
    BY <1>1, FifosTyped DEF Start, FifoRecords
  <1>4. "avail" \in RAMPCs
    BY DEF RAMPCs
  <1> HIDE DEF f
  <1> QED
    BY <1>1, <1>2, <1>3, <1>4, RAMKeeps

LEMMA PollAvailKeeps ==
  ASSUME AInv, NEW x \in Callers, PollAvail(x)
  PROVE  AInv'
  <1> DEFINE op == acc[x].op
  <1>1. acc[x] \in AccRecords /\ acc[x].pc \in RAMPCs /\ op \in Ops
    BY FifosTyped DEF PollAvail, At, AccRecords, RAMPCs
  <1>2. fifo[op] \in FifoRecords /\ Len(fifo[op].words) <= Depth /\ fifo[op].next <= fifo[op].end
    BY <1>1, FifosTyped
  <1>3. /\ fifo' = [fifo EXCEPT ![op] = fifo[op]] /\ acc' = [acc EXCEPT ![x].pc = "word"]
        /\ UNCHANGED <<ALevent, csr, moved>>
    BY <1>1, FifosTyped DEF PollAvail
  <1>4. "word" \in RAMPCs
    BY DEF RAMPCs
  <1> QED
    BY <1>1, <1>2, <1>3, <1>4, RAMKeeps

\* The part of a word that belongs to an access.
LEMMA PartType ==
  ASSUME NEW a \in AccRecords, a.done < a.len
  PROVE  /\ Lane(a) \in Lanes /\ Part(a) \in 1 .. 4 /\ a.done + Part(a) <= a.len
         /\ Lane(a) + Part(a) <= 4 /\ a.done + Part(a) \in Nat
  <1>1. a.start \in Nat /\ a.done \in Nat /\ a.len \in Nat
    BY DEF AccRecords
  <1>2. Lane(a) \in Lanes
    BY <1>1 DEF Lane
  <1>3. Part(a) = IF 4 - Lane(a) < a.len - a.done THEN 4 - Lane(a) ELSE a.len - a.done
    BY DEF Part, Least
  <1> QED
    BY <1>1, <1>2, <1>3

LEMMA ReadWordKeeps ==
  ASSUME AInv, NEW x \in Callers, ReadWord(x)
  PROVE  AInv'
  <1> DEFINE a == acc[x]
             q == fifo.read.words
             w == IF q = <<>> THEN [i \in Lanes |-> Unset] ELSE Head(q)
             n == IF a.done = 0 THEN Part(a) ELSE 4
             buf == [i \in DOMAIN a.buf |->
                       IF i \in a.done .. a.done + n - 1 THEN w[Lane(a) + i - a.done]
                       ELSE a.buf[i]]
             c == [a EXCEPT !.buf = buf]
             b == Advance(c, Part(a))
             rest == IF q = <<>> THEN q ELSE Tail(q)
             f == [fifo.read EXCEPT !.words = rest]
  <1>1. /\ a \in AccRecords /\ PlaceOK(a) /\ a.pc = "word" /\ a.op = "read"
        /\ UNCHANGED <<ALevent, csr, moved>>
    BY FifosTyped DEF ReadWord, At
  <1>2. acc' = [acc EXCEPT ![x] = b]
    BY DEF ReadWord
  <1>3. a.done < a.len /\ a.done \in Nat /\ a.len \in 0 .. MaxLen /\ a.buf \in Buffer
    BY <1>1 DEF PlaceOK, RAMPCs, AccRecords
  <1>4. /\ Lane(a) \in Lanes /\ Part(a) \in 1 .. 4 /\ a.done + Part(a) <= a.len
        /\ Lane(a) + Part(a) <= 4 /\ (a.done # 0 => Lane(a) = 0)
    BY <1>1, <1>3, PartType DEF Lane
  <1>5. fifo["read"] \in FifoRecords /\ q \in Seq(Register)
    BY FifosTyped, FifoFields
  <1>6. w \in [Lanes -> Cells]
    <2>1. CASE q = <<>>
      BY <2>1 DEF Cells
    <2>2. CASE q # <<>>
      BY <1>5, <2>2, HeadTailProperties DEF Register, Cells
    <2> QED
      BY <2>1, <2>2
  <1>7. buf \in Buffer
    <2> HIDE DEF a, w
    <2>3. n \in 1 .. 4 /\ Lane(a) + n <= 4
      BY <1>3, <1>4
    <2>1. \A i \in a.done .. a.done + n - 1 : Lane(a) + i - a.done \in Lanes
      <3> HIDE DEF n
      <3> QED
        BY <1>3, <1>4, <2>3
    <2>2. \A i \in a.done .. a.done + n - 1 : w[Lane(a) + i - a.done] \in Cells
      BY <1>6, <2>1
    <2> HIDE DEF n
    <2> QED
      BY <1>3, <2>2 DEF Buffer, Cells
  <1>8. /\ rest \in Seq(Register) /\ Len(rest) <= Len(q)
    <2>1. CASE q = <<>>
      BY <1>5, <2>1
    <2>2. CASE q # <<>>
      BY <1>5, <2>2, HeadTailProperties
    <2> QED
      BY <2>1, <2>2
  <1> HIDE DEF buf
  <1>9. c \in AccRecords /\ PlaceOK(c) /\ c.pc = a.pc /\ c.done = a.done /\ c.len = a.len
    BY <1>1, <1>7, Stored
  <1> HIDE DEF c
  <1>10. b \in AccRecords /\ PlaceOK(b)
    BY <1>1, <1>4, <1>9, Advanced
  <1> HIDE DEF rest
  <1>11. f \in FifoRecords /\ f.words = rest /\ f.next = fifo["read"].next
         /\ f.end = fifo["read"].end
    BY <1>5, <1>8 DEF FifoRecords
  <1>12. fifo' = [fifo EXCEPT !["read"] = f]
    BY DEF ReadWord, rest
  <1> HIDE DEF b, f
  <1>13. /\ fifo' \in [Ops -> FifoRecords]
         /\ \A o \in Ops : Len(fifo'[o].words) <= Depth /\ fifo'[o].next <= fifo'[o].end
    BY <1>5, <1>8, <1>11, <1>12, FifosTyped
  <1> QED
    BY <1>1, <1>2, <1>10, <1>13, CallerKeeps, FifosTyped, CommandsKept

LEMMA WriteWordKeeps ==
  ASSUME AInv, NEW x \in Callers, WriteWord(x)
  PROVE  AInv'
  <1> DEFINE a == acc[x]
             q == fifo.write.words
             w == [i \in Lanes |-> IF i \in Lane(a) .. Lane(a) + Part(a) - 1
                                   THEN a.buf[a.done + i - Lane(a)] ELSE Unset]
             b == Advance(a, Part(a))
             more == IF Len(q) < Depth THEN Append(q, w) ELSE q
             f == [fifo.write EXCEPT !.words = more]
  <1>1. /\ a \in AccRecords /\ PlaceOK(a) /\ a.pc = "word" /\ a.op = "write"
        /\ UNCHANGED <<ALevent, csr, moved>>
    BY FifosTyped DEF WriteWord, At
  <1>2. acc' = [acc EXCEPT ![x] = b]
    BY DEF WriteWord
  <1>3. a.done < a.len /\ a.done \in Nat /\ a.len \in 0 .. MaxLen /\ a.buf \in Buffer
    BY <1>1 DEF PlaceOK, RAMPCs, AccRecords
  <1>4. /\ Lane(a) \in Lanes /\ Part(a) \in 1 .. 4 /\ a.done + Part(a) <= a.len
    BY <1>1, <1>3, PartType
  <1>5. fifo["write"] \in FifoRecords /\ q \in Seq(Register) /\ Len(q) <= Depth
    BY FifosTyped, FifoFields
  <1>6. w \in Register
    <2> HIDE DEF a
    <2>1. \A i \in Lane(a) .. Lane(a) + Part(a) - 1 : a.done + i - Lane(a) \in 0 .. MaxLen + 2
      BY <1>3, <1>4
    <2>2. \A i \in Lane(a) .. Lane(a) + Part(a) - 1 : a.buf[a.done + i - Lane(a)] \in Cells
      BY <1>3, <2>1 DEF Buffer, Cells
    <2> QED
      BY <2>2 DEF Register, Cells
  <1>7. b \in AccRecords /\ PlaceOK(b)
    BY <1>1, <1>4, Advanced
  <1> HIDE DEF w
  <1>8. more \in Seq(Register) /\ Len(more) <= Depth
    BY <1>5, <1>6
  <1> HIDE DEF more
  <1>9. f \in FifoRecords /\ f.words = more /\ f.next = fifo["write"].next
         /\ f.end = fifo["write"].end
    BY <1>5, <1>8 DEF FifoRecords
  <1>10. fifo' = [fifo EXCEPT !["write"] = f]
    BY DEF WriteWord, more, w
  <1> HIDE DEF b, f
  <1>11. /\ fifo' \in [Ops -> FifoRecords]
         /\ \A o \in Ops : Len(fifo'[o].words) <= Depth /\ fifo'[o].next <= fifo'[o].end
    BY <1>5, <1>8, <1>9, <1>10, FifosTyped
  <1> QED
    BY <1>1, <1>2, <1>7, <1>11, CallerKeeps, FifosTyped, CommandsKept

---------------------------------------------------------------------------
(***************************************************************************)
(* The steps of the chip.                                                  *)
(***************************************************************************)
LEMMA ChipKeeps ==
  ASSUME AInv, UNCHANGED <<acc, ALevent>>, csr' \in CsrRecords, CommandsLegal',
         fifo' \in [Ops -> FifoRecords],
         \A op \in Ops : Len(fifo'[op].words) <= Depth /\ fifo'[op].next <= fifo'[op].end,
         moved' \in [Callers -> Seq(Entries)]
  PROVE  AInv'
  BY DEF AInv, Types, PlacesOK, PlaceOK, Chunk, InSpace

LEMMA Shift ==
  ASSUME NEW a \in Int, NEW i \in Int
  PROVE  a + (i + 1) = a + 1 + i /\ a + (i + 1) - 1 = a + i
  OBVIOUS

\* A history, and the same one with count octets from address on behind it.
Extended(old, new, address, octets, from, count) ==
  /\ Len(old) \in Nat /\ Len(new) = Len(old) + count
  /\ \A i \in 1 .. Len(old) : new[i] = old[i]
  /\ \A i \in 0 .. count - 1 :
       new[Len(old) + 1 + i] = [at |-> address + i, octet |-> octets[from + i]]

\* What Log adds to the history of an access.
LEMMA LogExtends ==
  ASSUME moved \in [Callers -> Seq(Entries)], NEW x \in Callers, NEW address \in Nat,
         NEW octets \in [Lanes -> Cells], NEW from \in Lanes, NEW to \in Int,
         NEW count \in 0 .. 4, from + count <= 4, to = from + count - 1,
         Log(x, address, octets, from, to)
  PROVE  /\ moved' \in [Callers -> Seq(Entries)]
         /\ Extended(moved[x], moved'[x], address, octets, from, count)
  <1> DEFINE add == [i \in 1 .. to - from + 1 |->
                       [at |-> address + i - 1, octet |-> octets[from + i - 1]]]
             old == moved[x]
  <1>1. to - from + 1 = count
    OBVIOUS
  <1>2. add \in [1 .. count -> Entries]
    <2>1. \A i \in 1 .. count : address + i - 1 \in Nat /\ octets[from + i - 1] \in Cells
      OBVIOUS
    <2> QED
      BY <1>1, <2>1 DEF Entries
  <1>3. add \in Seq(Entries) /\ Len(add) = count
    <2> HIDE DEF add
    <2> QED
      BY <1>2
  <1>4. moved' = [moved EXCEPT ![x] = moved[x] \o add]
    BY DEF Log
  <1>5. ASSUME NEW i \in 0 .. count - 1
        PROVE  add[i + 1] = [at |-> address + i, octet |-> octets[from + i]]
    <2>1. i + 1 \in 1 .. to - from + 1
      OBVIOUS
    <2>2. add[i + 1] = [at |-> address + (i + 1) - 1, octet |-> octets[from + (i + 1) - 1]]
      BY <2>1
    <2>3. address + (i + 1) - 1 = address + i /\ from + (i + 1) - 1 = from + i
      BY Shift
    <2> QED
      BY <2>2, <2>3
  <1>6. old \in Seq(Entries)
    OBVIOUS
  <1> HIDE DEF add
  <1>7. moved[x] \o add \in Seq(Entries)
    BY <1>3, <1>6
  <1>8. moved' \in [Callers -> Seq(Entries)] /\ moved'[x] = old \o add
    BY <1>4, <1>7
  <1> HIDE DEF old
  <1>9. Len(old) \in Nat /\ Len(old \o add) = Len(old) + count
    BY <1>3, <1>6, ConcatProperties
  <1>10. \A i \in 1 .. Len(old) : (old \o add)[i] = old[i]
    BY <1>3, <1>6, ConcatProperties
  <1>11. ASSUME NEW i \in 0 .. count - 1
         PROVE  (old \o add)[Len(old) + 1 + i] = [at |-> address + i, octet |-> octets[from + i]]
    <2>1. i + 1 \in 1 .. count /\ Len(old) + (i + 1) = Len(old) + 1 + i
      BY <1>9
    <2>2. (old \o add)[Len(old) + (i + 1)] = add[i + 1]
      BY <1>3, <1>6, <2>1, ConcatProperties
    <2> QED
      BY <1>5, <2>1, <2>2
  <1> QED
    BY <1>8, <1>9, <1>10, <1>11 DEF old, Extended

LEMMA GiveRegisterKeeps ==
  ASSUME AInv, NEW octets \in [Lanes -> Octets], GiveRegister(octets)
  PROVE  AInv'
  <1> DEFINE data == [i \in Lanes |-> IF i < csr.size THEN octets[i] ELSE Unset]
             size == csr.size
  <1>1. data \in Register
    BY DEF Register
  <1>2. csr' = [csr EXCEPT !.busy = FALSE, !.data = data] /\ UNCHANGED <<acc, ALevent, fifo>>
    BY DEF GiveRegister
  <1>3. csr \in CsrRecords
    BY FifosTyped
  <1> HIDE DEF data
  <1>4. csr' \in CsrRecords /\ CommandsLegal'
    BY <1>1, <1>2, <1>3 DEF CsrRecords, CommandsLegal
  <1>5. moved' \in [Callers -> Seq(Entries)]
    <2>1. CASE UNCHANGED moved
      BY <2>1, FifosTyped
    <2>2. CASE Log(csr.by, csr.address, octets, 0, size - 1)
      <3>1. /\ csr.by \in Callers /\ csr.address \in Nat /\ size \in {1, 2, 4}
            /\ moved \in [Callers -> Seq(Entries)] /\ octets \in [Lanes -> Cells]
        BY <1>3, FifosTyped DEF CsrRecords, Cells
      <3>2. size \in 0 .. 4 /\ 0 \in Lanes /\ 0 + size <= 4 /\ size - 1 = 0 + size - 1
        BY <3>1
      <3>3. size - 1 \in Int
        BY <3>1
      <3> HIDE DEF size
      <3> QED
        BY <2>2, <3>1, <3>2, <3>3, LogExtends
    <2> QED
      BY <2>1, <2>2 DEF GiveRegister
  <1> QED
    BY <1>2, <1>4, <1>5, ChipKeeps, FifosTyped

LEMMA TakeRegisterKeeps ==
  ASSUME AInv, TakeRegister
  PROVE  AInv'
  <1> DEFINE size == csr.size
  <1>1. csr' = [csr EXCEPT !.busy = FALSE] /\ UNCHANGED <<acc, ALevent, fifo>>
    BY DEF TakeRegister
  <1>2. csr \in CsrRecords
    BY FifosTyped
  <1>3. csr' \in CsrRecords /\ CommandsLegal'
    BY <1>1, <1>2 DEF CsrRecords, CommandsLegal
  <1>4. moved' \in [Callers -> Seq(Entries)]
    <2>1. /\ csr.by \in Callers /\ csr.address \in Nat /\ size \in {1, 2, 4}
          /\ moved \in [Callers -> Seq(Entries)] /\ csr.data \in [Lanes -> Cells]
      BY <1>2, FifosTyped DEF CsrRecords, Cells, Register
    <2>2. /\ size \in 0 .. 4 /\ 0 \in Lanes /\ 0 + size <= 4 /\ size - 1 = 0 + size - 1
          /\ size - 1 \in Int
      BY <2>1
    <2>3. Log(csr.by, csr.address, csr.data, 0, size - 1)
      BY DEF TakeRegister
    <2> HIDE DEF size
    <2> QED
      BY <2>1, <2>2, <2>3, LogExtends
  <1> QED
    BY <1>1, <1>3, <1>4, ChipKeeps, FifosTyped

LEMMA AbortedKeeps ==
  ASSUME AInv, NEW op \in Ops, Aborted(op)
  PROVE  AInv'
  <1> DEFINE g == fifo[op]
             f == [g EXCEPT !.state = "idle", !.words = <<>>]
  <1>1. fifo' = [fifo EXCEPT ![op] = f] /\ UNCHANGED <<acc, ALevent, csr, moved>>
    BY DEF Aborted
  <1>2. g \in FifoRecords /\ g.next <= g.end
    BY FifosTyped
  <1>3. f \in FifoRecords /\ f.words = <<>> /\ f.next <= f.end
    <2> HIDE DEF g
    <2>1. <<>> \in Seq(Register)
      OBVIOUS
    <2> QED
      BY <1>2, <2>1 DEF FifoRecords
  <1> HIDE DEF f
  <1>4. /\ fifo' \in [Ops -> FifoRecords]
        /\ \A o \in Ops : Len(fifo'[o].words) <= Depth /\ fifo'[o].next <= fifo'[o].end
    BY <1>1, <1>3, FifosTyped
  <1> QED
    BY <1>1, <1>4, ChipKeeps, FifosTyped, CommandsKept

\* The octets of the next word: as many as are left, from the lane of the next address.
LEMMA WordOctets ==
  ASSUME NEW f \in FifoRecords, f.next <= f.end
  PROVE  /\ From(f) \in Lanes /\ To(f) \in Int /\ To(f) <= 3 /\ From(f) <= To(f) + 1
         /\ f.next + To(f) - From(f) + 1 \in Nat
         /\ f.next + To(f) - From(f) + 1 <= f.end
         /\ To(f) # 3 => f.next + To(f) - From(f) + 1 = f.end
         /\ f.next < f.end => From(f) <= To(f)
  <1>1. f.next \in Nat /\ f.end \in Nat
    BY FifoFields
  <1>2. From(f) \in Lanes
    BY <1>1 DEF From
  <1>3. To(f) = IF 3 < f.end - f.next + From(f) - 1 THEN 3 ELSE f.end - f.next + From(f) - 1
    BY DEF To, Least
  <1> QED
    BY <1>1, <1>2, <1>3

\* The transfer one word further.
LEMMA MovedForm ==
  ASSUME NEW f \in FifoRecords, f.next <= f.end, NEW words \in Seq(Register)
  PROVE  LET g == [Moved(f) EXCEPT !.words = words]
         IN  /\ g \in FifoRecords /\ g.words = words /\ g.end = f.end /\ g.by = f.by
             /\ g.next = f.next + To(f) - From(f) + 1 /\ g.next <= g.end
             /\ g.state = IF g.next = f.end THEN "idle" ELSE f.state
  <1> DEFINE next == f.next + To(f) - From(f) + 1
             state == IF next = f.end THEN "idle" ELSE f.state
             g == [Moved(f) EXCEPT !.words = words]
  <1>1. next \in Nat /\ next <= f.end
    BY WordOctets
  <1>2. f.next + (To(f) - From(f)) + 1 = next
    BY WordOctets, FifoFields
  <1>3. state \in {"idle", "abort", "run"}
    BY FifoFields
  <1>4. Moved(f) = [f EXCEPT !.next = next, !.state = state]
    BY Zenon DEF Moved
  <1> HIDE DEF next, state
  <1>5. g = [[f EXCEPT !.next = next, !.state = state] EXCEPT !.words = words]
    BY <1>4, Zenon
  <1>6. /\ g \in FifoRecords /\ g.words = words /\ g.end = f.end /\ g.by = f.by
        /\ g.next = next /\ g.state = state
    BY <1>1, <1>3, <1>5 DEF FifoRecords
  <1> HIDE DEF g
  <1>7. /\ g \in FifoRecords /\ g.words = words /\ g.end = f.end /\ g.by = f.by
        /\ g.next = f.next + To(f) - From(f) + 1 /\ g.next <= g.end
        /\ g.state = IF g.next = f.end THEN "idle" ELSE f.state
    BY <1>1, <1>6 DEF next, state
  <1> QED
    BY <1>7, Zenon DEF g

\* A word of RAM on its way: the FIFO, and what is written down.
LEMMA WordKeeps ==
  ASSUME AInv, NEW op \in Ops, NEW words \in Seq(Register), Len(words) <= Depth,
         NEW octets \in [Lanes -> Cells],
         fifo' = [fifo EXCEPT ![op] = [Moved(fifo[op]) EXCEPT !.words = words]],
         Log(fifo[op].by, fifo[op].next, octets, From(fifo[op]), To(fifo[op])),
         UNCHANGED <<acc, ALevent, csr>>
  PROVE  AInv'
  <1> DEFINE f == fifo[op]
             g == [Moved(f) EXCEPT !.words = words]
  <1>1. f \in FifoRecords /\ f.next <= f.end
    BY FifosTyped
  <1>2. g \in FifoRecords /\ g.words = words /\ g.next <= g.end
    BY <1>1, MovedForm, Zenon
  <1>3. moved' \in [Callers -> Seq(Entries)]
    <2>1. f.by \in Callers /\ f.next \in Nat
      BY <1>1, FifoFields
    <2>2. From(f) \in Lanes /\ To(f) \in Int /\ To(f) <= 3 /\ From(f) <= To(f) + 1
      BY <1>1, WordOctets
    <2>3. Log(f.by, f.next, octets, From(f), To(f))
      OBVIOUS
    <2> DEFINE count == To(f) - From(f) + 1
    <2>4. count \in 0 .. 4 /\ From(f) + count <= 4 /\ To(f) = From(f) + count - 1
      BY <2>2
    <2> HIDE DEF f, count
    <2> QED
      BY <2>1, <2>2, <2>3, <2>4, LogExtends, FifosTyped
  <1>4. fifo' = [fifo EXCEPT ![op] = g]
    OBVIOUS
  <1> HIDE DEF f, g
  <1>5. /\ fifo' \in [Ops -> FifoRecords]
        /\ \A o \in Ops : Len(fifo'[o].words) <= Depth /\ fifo'[o].next <= fifo'[o].end
    BY <1>2, <1>4, FifosTyped
  <1> QED
    BY <1>3, <1>5, ChipKeeps, FifosTyped, CommandsKept

LEMMA FillKeeps ==
  ASSUME AInv, NEW octets \in [Lanes -> Octets], Fill(octets)
  PROVE  AInv'
  <1> DEFINE f == fifo["read"]
             words == Append(f.words, octets)
  <1>1. f \in FifoRecords /\ f.words \in Seq(Register) /\ Len(f.words) < Depth
    BY FifosTyped, FifoFields DEF Fill
  <1>2. octets \in Register /\ octets \in [Lanes -> Cells]
    BY DEF Register, Cells
  <1>3. words \in Seq(Register) /\ Len(words) <= Depth
    BY <1>1, <1>2
  <1>4. Moved(f).words = f.words
    BY <1>1 DEF Moved, FifoRecords
  <1>5. /\ fifo' = [fifo EXCEPT !["read"] = [Moved(f) EXCEPT !.words = words]]
        /\ Log(f.by, f.next, octets, From(f), To(f)) /\ UNCHANGED <<acc, ALevent, csr>>
    BY <1>4, Zenon DEF Fill
  <1> HIDE DEF words
  <1> QED
    BY <1>2, <1>3, <1>5, WordKeeps

LEMMA DrainKeeps ==
  ASSUME AInv, Drain
  PROVE  AInv'
  <1> DEFINE f == fifo["write"]
             words == Tail(f.words)
             octets == Head(f.words)
  <1>1. f \in FifoRecords /\ f.words \in Seq(Register) /\ f.words # <<>> /\ Len(f.words) <= Depth
    BY FifosTyped, FifoFields DEF Drain
  <1>2. words \in Seq(Register) /\ Len(words) <= Depth /\ octets \in Register
    BY <1>1, HeadTailProperties
  <1>3. octets \in [Lanes -> Cells]
    BY <1>2 DEF Register, Cells
  <1>4. Moved(f).words = f.words
    BY <1>1 DEF Moved, FifoRecords
  <1>5. /\ fifo' = [fifo EXCEPT !["write"] = [Moved(f) EXCEPT !.words = words]]
        /\ Log(f.by, f.next, octets, From(f), To(f)) /\ UNCHANGED <<acc, ALevent, csr>>
    BY <1>4, Zenon DEF Drain
  <1> HIDE DEF words, octets
  <1> QED
    BY <1>2, <1>3, <1>5, WordKeeps

---------------------------------------------------------------------------
LEMMA InitHolds == AccessInit => AInv
  <1> SUFFICES ASSUME AccessInit PROVE AInv
    OBVIOUS
  <1>1. Unread \in Buffer
    BY DEF Unread, Buffer
  <1>2. Idle \in AccRecords
    BY <1>1 DEF Idle, AccRecords, PCs
  <1>3. acc \in [Callers -> AccRecords] /\ \A x \in Callers : acc[x] = Idle
    BY <1>2 DEF AccessInit
  <1>4. PlaceOK(Idle)
    BY DEF Idle, PlaceOK, RegisterPCs, RAMPCs
  <1>5. PlacesOK
    BY <1>3, <1>4 DEF PlacesOK
  <1>6. ALevent \in [0 .. 1 -> Cells]
    BY DEF AccessInit, Cells
  <1>7. [i \in Lanes |-> Unset] \in Register
    BY DEF Register
  <1>8. csr \in CsrRecords /\ csr.busy = FALSE
    BY <1>7 DEF AccessInit, CsrRecords
  <1> DEFINE f == [state |-> "idle", next |-> 0, end |-> 0, words |-> <<>>, by |-> "main"]
  <1>9. f \in FifoRecords /\ f.words = <<>> /\ f.next = 0 /\ f.end = 0
    BY DEF FifoRecords
  <1>10. fifo = [op \in Ops |-> f]
    BY DEF AccessInit
  <1> HIDE DEF f
  <1>11. fifo \in [Ops -> FifoRecords] /\ \A op \in Ops : fifo[op] = f
    BY <1>9, <1>10
  <1>12. \A op \in Ops : Len(fifo[op].words) <= Depth /\ fifo[op].next <= fifo[op].end
    BY <1>9, <1>11
  <1>13. moved \in [Callers -> Seq(Entries)]
    BY DEF AccessInit
  <1> QED
    BY <1>3, <1>5, <1>6, <1>8, <1>11, <1>12, <1>13 DEF AInv, Types, CommandsLegal

LEMMA AccessKeeps ==
  ASSUME AInv, NEW x \in Callers, Access(x)
  PROVE  AInv'
  <1>1. CASE LoadData(x)
    BY <1>1, LoadDataKeeps
  <1>2. CASE Command(x)
    BY <1>2, CommandKeeps
  <1>3. CASE PollCSR(x)
    BY <1>3, PollCSRKeeps
  <1>4. CASE FetchData(x)
    BY <1>4, FetchDataKeeps
  <1>5. CASE FetchEvent(x)
    BY <1>5, FetchEventKeeps
  <1>6. CASE Abort(x)
    BY <1>6, AbortKeeps
  <1>7. CASE SetUp(x)
    BY <1>7, SetUpKeeps
  <1>8. CASE Start(x)
    BY <1>8, StartKeeps
  <1>9. CASE PollAvail(x)
    BY <1>9, PollAvailKeeps
  <1>10. CASE ReadWord(x)
    BY <1>10, ReadWordKeeps
  <1>11. CASE WriteWord(x)
    BY <1>11, WriteWordKeeps
  <1> QED
    BY <1>1, <1>2, <1>3, <1>4, <1>5, <1>6, <1>7, <1>8, <1>9, <1>10, <1>11 DEF Access

LEMMA Preserved == AInv /\ [AccessNext]_accessVars => AInv'
  <1> SUFFICES ASSUME AInv, [AccessNext]_accessVars PROVE AInv'
    OBVIOUS
  <1>1. ASSUME NEW octets \in [Lanes -> Octets], GiveRegister(octets) PROVE AInv'
    BY <1>1, GiveRegisterKeeps
  <1>2. ASSUME NEW octets \in [Lanes -> Octets], Fill(octets) PROVE AInv'
    BY <1>2, FillKeeps
  <1>3. CASE TakeRegister
    BY <1>3, TakeRegisterKeeps
  <1>4. CASE Drain
    BY <1>4, DrainKeeps
  <1>5. ASSUME NEW op \in Ops, Aborted(op) PROVE AInv'
    BY <1>5, AbortedKeeps
  <1>6. ASSUME NEW x \in Callers, AnyCall(x) PROVE AInv'
    BY <1>6, CallKeeps
  <1>7. ASSUME NEW x \in Callers, Access(x) PROVE AInv'
    BY <1>7, AccessKeeps
  <1>8. CASE UNCHANGED accessVars
    BY <1>8, ChipKeeps, FifosTyped, CommandsKept DEF accessVars
  <1> QED
    BY <1>1, <1>2, <1>3, <1>4, <1>5, <1>6, <1>7, <1>8 DEF AccessNext, Chip

\* The invariant of every access, by the main loop and in an interrupt handler.
THEOREM InvCorrect == AccessSpec => []AInv
  BY InitHolds, Preserved, PTL DEF AccessSpec

\* The variables have their types in every state, whoever makes accesses
\* (ESC_read, ESC_write, in the main loop and in an interrupt handler).
THEOREM TypeCorrect == AccessSpec => []AccessTypeOK
  BY InvCorrect, Typed, PTL

\* Every command ESC_read_csr and ESC_write_csr give is one the chip carries out,
\* whatever address and length is asked for, also when a handler makes an access
\* between two SPI transfers of the main loop.
THEOREM CommandsCorrect == AccessSpec => []CommandsLegal
  <1>1. AInv => CommandsLegal
    BY DEF AInv
  <1> QED
    BY InvCorrect, <1>1, PTL

---------------------------------------------------------------------------
(***************************************************************************)
(* What an access of the main loop transfers, when no handler makes one    *)
(* and the chip keeps up with the driver.                                  *)
(***************************************************************************)
Quiet(g) == g.state = "idle" /\ g.words = <<>>
Calm(f) == Quiet(f["read"]) /\ Quiet(f["write"])

\* The octet of an access at place i, and the one with that octet from another place.
Place(a, i, octet) == [at |-> a.start + i - 1, octet |-> octet]

\* The first n octets have been transferred, and no other: those of the buffer.
Match(a, m, n) == \A i \in 1 .. n : m[i] = Place(a, i, a.buf[i - 1])
Copied(a, m, n) == Len(m) = n /\ Match(a, m, n)

\* The data register holds the octets of a write; or, of a read, those the chip gave.
Loaded(a, c) == \A i \in 0 .. Chunk(a).size - 1 : c.data[i] = a.buf[a.done + i]
Fetched(a, c, m) ==
  /\ Len(m) = a.done + Chunk(a).size /\ Match(a, m, a.done)
  /\ \A i \in a.done + 1 .. a.done + Chunk(a).size : m[i] = Place(a, i, c.data[i - 1 - a.done])

\* A transfer in RAM, in use or at its end.
Extent(a, g) ==
  /\ g.end = a.start + a.len /\ g.next >= a.start
  /\ g.state = IF g.next < g.end THEN "run" ELSE "idle"
Aligned(a) == a.done = 0 \/ (a.start + a.done) % 4 = 0

\* The words in the FIFO are those from the address of the next octet on, up to the
\* last one the chip gave.
Reading(a, g, m) ==
  LET q == (a.start + a.done) \div 4
      n == Len(g.words)
  IN  /\ Extent(a, g) /\ Len(m) = g.next - a.start /\ Match(a, m, a.done)
      /\ n = 0 => g.next = a.start + a.done
      /\ n > 0 => /\ a.start + a.done < g.next
                  /\ 4 * (q + n - 1) < g.next /\ g.next <= 4 * (q + n)
                  /\ g.next # g.end => g.next = 4 * (q + n)
      /\ \A i \in a.done + 1 .. g.next - a.start :
           m[i] = Place(a, i, g.words[(a.start + i - 1) \div 4 - q + 1][(a.start + i - 1) % 4])

\* A word the driver has written is taken before it writes another.
Held(a, g, m) ==
  /\ Len(g.words) = 1 /\ g.next < a.start + a.done
  /\ a.start + a.done = Least(4 * (g.next \div 4) + 4, g.end)
  /\ Copied(a, m, g.next - a.start)
  /\ \A i \in g.next - a.start + 1 .. a.done :
       g.words[1][(a.start + i - 1) % 4] = a.buf[i - 1]
Writing(a, g, m) ==
  /\ Extent(a, g)
  /\ \/ g.words = <<>> /\ g.next = a.start + a.done /\ Copied(a, m, a.done)
     \/ Held(a, g, m)

Other(op) == IF op = "read" THEN "write" ELSE "read"

RegisterShape(a, c, f, m) ==
  /\ c.busy => a.pc = "poll"
  /\ a.pc = "idle" => Calm(f) /\ Copied(a, m, a.len)
  /\ a.pc = "csr" =>
       \/ Calm(f) /\ Copied(a, m, a.done)
       \/ /\ a.event /\ a.op = "write" /\ a.start >= PRAM /\ Quiet(f["read"])
          /\ Extent(a, f["write"]) /\ Held(a, f["write"], m)
  /\ a.pc = "command" => Calm(f) /\ Copied(a, m, a.done) /\ Loaded(a, c)
  /\ a.pc = "poll" =>
       /\ Calm(f) /\ c.by = "main"
       /\ c.op = Chunk(a).op /\ c.address = Chunk(a).address /\ c.size = Chunk(a).size
       /\ c.op = "write" => Loaded(a, c)
       /\ a.event \/ c.busy => Copied(a, m, a.done)
       /\ ~a.event /\ ~c.busy => IF c.op = "write" THEN Copied(a, m, a.done + c.size)
                                 ELSE Fetched(a, c, m)
  /\ a.pc = "fetch" => Calm(f) /\ IF a.event THEN Copied(a, m, a.done) ELSE Fetched(a, c, m)

RAMShape(a, f, m) ==
  a.pc \in RAMPCs =>
    /\ Quiet(f[Other(a.op)]) /\ Aligned(a)
    /\ a.pc \in {"abort", "setup", "start"} => f[a.op].words = <<>> /\ a.done = 0 /\ m = <<>>
    /\ a.pc = "abort" => f[a.op].state = "idle"
    /\ a.pc = "setup" => f[a.op].state # "run"
    /\ a.pc = "start" => /\ f[a.op].state = "idle" /\ f[a.op].next = a.start
                         /\ f[a.op].end = a.start + a.len
    /\ a.pc \in {"avail", "word"} =>
         /\ f[a.op].by = "main"
         /\ IF a.op = "read" THEN Reading(a, f["read"], m) ELSE Writing(a, f["write"], m)

Shape == LET a == acc["main"]
             m == moved["main"]
         IN  RegisterShape(a, csr, fifo, m) /\ RAMShape(a, fifo, m)

\* One caller, and a chip that fills and drains its FIFOs between two SPI transfers.
Alone == ~UseInterrupt /\ KeepsUp

LEMMA OneCaller == Alone => Callers = {"main"}
  BY DEF Alone

\* The facts of an access, its records typed.
LEMMA ShapeFacts ==
  ASSUME AInv, Shape
  PROVE  LET a == acc["main"]
             m == moved["main"]
         IN  /\ a \in AccRecords /\ PlaceOK(a) /\ csr \in CsrRecords
             /\ fifo["read"] \in FifoRecords /\ fifo["write"] \in FifoRecords
             /\ m \in Seq(Entries)
             /\ RegisterShape(a, csr, fifo, m) /\ RAMShape(a, fifo, m)
  BY FifosTyped DEF Shape

LEMMA ShapeFrom ==
  ASSUME NEW b, NEW m, acc'["main"] = b, moved'["main"] = m,
         RegisterShape(b, csr', fifo', m), RAMShape(b, fifo', m)
  PROVE  Shape'
  BY Zenon DEF Shape

\* Another place in the code, the same octets.
LEMMA SameOctets ==
  ASSUME NEW a, NEW b, b.start = a.start, b.buf = a.buf, NEW m, NEW n, Copied(a, m, n)
  PROVE  Copied(b, m, n)
  BY Zenon DEF Copied, Match, Place

LEMMA SameChunk ==
  ASSUME NEW a, NEW b, b.start = a.start, b.buf = a.buf, b.done = a.done,
         Chunk(b) = Chunk(a), NEW c, NEW m
  PROVE  /\ Loaded(a, c) => Loaded(b, c)
         /\ Fetched(a, c, m) => Fetched(b, c, m)
  BY Zenon DEF Loaded, Fetched, Match, Place

LEMMA CallShapes ==
  ASSUME Alone, AInv, Shape, AnyCall("main")
  PROVE  Shape'
  <1>1. PICK op \in Ops, start \in 0 .. Top, len \in 0 .. MaxLen, buf \in Buffer :
          InSpace(start, len) /\ Call("main", op, start, len, buf)
    BY DEF AnyCall
  <1> DEFINE b == Enter(op, start, len, buf)
  <1>2. /\ acc'["main"] = b /\ moved'["main"] = <<>> /\ UNCHANGED <<csr, fifo>>
        /\ acc["main"].pc = "idle"
    BY <1>1, ShapeFacts, FifosTyped DEF Call, At, AInv, Types
  <1>3. Calm(fifo) /\ ~csr.busy
    BY <1>2, ShapeFacts DEF RegisterShape
  <1>4. /\ b.done = 0 /\ b.op = op /\ b.pc \in {"csr", "abort"}
    BY DEF Enter
  <1> HIDE DEF b
  <1>5. Copied(b, <<>>, b.done)
    BY <1>4 DEF Copied, Match
  <1>6. RegisterShape(b, csr', fifo', <<>>)
    BY <1>2, <1>3, <1>4, <1>5 DEF RegisterShape
  <1>7. RAMShape(b, fifo', <<>>)
    BY <1>2, <1>3, <1>4 DEF RAMShape, RAMPCs, Calm, Quiet, Aligned, Other
  <1> QED
    BY <1>2, <1>6, <1>7, ShapeFrom

LEMMA LoadDataShapes ==
  ASSUME Alone, AInv, Shape, LoadData("main")
  PROVE  Shape'
  <1> DEFINE a == acc["main"]
             m == moved["main"]
             b == [a EXCEPT !.pc = "command"]
             k == Chunk(a)
  <1>1. /\ a \in AccRecords /\ PlaceOK(a) /\ a.pc = "csr" /\ k.op = "write"
        /\ csr \in CsrRecords /\ RegisterShape(a, csr, fifo, m)
    BY ShapeFacts DEF LoadData, At
  <1>2. ~a.event /\ k.size \in {1, 2, 4}
    BY <1>1, ChunkLegal DEF RegisterPCs
  <1>3. Calm(fifo) /\ Copied(a, m, a.done) /\ ~csr.busy
    BY <1>1, <1>2 DEF RegisterShape
  <1>4. /\ b \in AccRecords /\ Chunk(b) = k /\ b.pc = "command" /\ b.start = a.start
        /\ b.buf = a.buf /\ b.done = a.done
    <2>1. b \in AccRecords /\ Chunk(b) = k
      BY <1>1, Moves DEF PCs, RegisterPCs
    <2> QED
      BY <1>1, <2>1 DEF AccRecords
  <1>5. /\ acc'["main"] = b /\ moved'["main"] = m /\ fifo' = fifo
        /\ csr' = [csr EXCEPT !.data = [i \in Lanes |-> IF i < k.size THEN a.buf[a.done + i]
                                                        ELSE Unset]]
    BY FifosTyped DEF LoadData, AInv, Types
  <1>6. Loaded(b, csr') /\ ~csr'.busy
    <2>1. /\ csr'.data = [i \in Lanes |-> IF i < k.size THEN a.buf[a.done + i] ELSE Unset]
          /\ csr'.busy = csr.busy
      BY <1>1, <1>5 DEF CsrRecords
    <2> HIDE DEF b, k, a
    <2>2. \A i \in 0 .. k.size - 1 : csr'.data[i] = a.buf[a.done + i]
      BY <1>2, <2>1
    <2> QED
      BY <1>3, <1>4, <2>1, <2>2 DEF Loaded
  <1> HIDE DEF b
  <1>7. Copied(b, m, b.done)
    BY <1>3, <1>4, SameOctets
  <1>8. RegisterShape(b, csr', fifo', m)
    BY <1>3, <1>4, <1>5, <1>6, <1>7 DEF RegisterShape
  <1>9. RAMShape(b, fifo', m)
    BY <1>4 DEF RAMShape, RAMPCs
  <1> QED
    BY <1>5, <1>8, <1>9, ShapeFrom

\* While the last word of a write is in its FIFO the driver waits.
LEMMA HeldPends ==
  ASSUME NEW a \in AccRecords, a.done = a.len, fifo["write"] \in FifoRecords,
         NEW m, Extent(a, fifo["write"]), Held(a, fifo["write"], m)
  PROVE  Pending
  <1> DEFINE g == fifo["write"]
  <1>1. g.next < g.end /\ Len(g.words) = 1
    BY DEF Extent, Held, AccRecords
  <1>2. g.state = "run"
    BY <1>1 DEF Extent
  <1>3. g.words # <<>>
    <2>1. Len(<<>>) # 1
      OBVIOUS
    <2> HIDE DEF g
    <2> QED
      BY <1>1, <2>1, Zenon
  <1> QED
    BY <1>2, <1>3 DEF Pending

\* A driver at a register has no word left in a FIFO when it goes on.
LEMMA AtRegister ==
  ASSUME AInv, Shape, ~Pending, acc["main"].pc = "csr"
  PROVE  Calm(fifo) /\ Copied(acc["main"], moved["main"], acc["main"].done) /\ ~csr.busy
  <1> DEFINE a == acc["main"]
             m == moved["main"]
  <1>1. /\ a \in AccRecords /\ PlaceOK(a) /\ RegisterShape(a, csr, fifo, m)
        /\ fifo["write"] \in FifoRecords
    BY ShapeFacts
  <1>2. a.event => a.done = a.len
    BY <1>1 DEF PlaceOK, RegisterPCs
  <1>3. ~(a.event /\ Extent(a, fifo["write"]) /\ Held(a, fifo["write"], m))
    BY <1>1, <1>2, HeldPends
  <1> QED
    BY <1>1, <1>3 DEF RegisterShape

LEMMA CommandShapes ==
  ASSUME Alone, AInv, Shape, ~Pending, Command("main")
  PROVE  Shape'
  <1> DEFINE a == acc["main"]
             m == moved["main"]
             b == [a EXCEPT !.pc = "poll"]
             k == Chunk(a)
  <1>1. /\ a \in AccRecords /\ PlaceOK(a) /\ a.pc \in {"csr", "command"}
        /\ a.pc = "csr" => k.op = "read"
        /\ csr \in CsrRecords /\ RegisterShape(a, csr, fifo, m)
    BY ShapeFacts DEF Command, At
  <1>2. Calm(fifo) /\ Copied(a, m, a.done)
    BY <1>1, AtRegister DEF RegisterShape
  <1>3. k.op = "write" => Loaded(a, csr)
    BY <1>1 DEF RegisterShape
  <1>4. /\ b \in AccRecords /\ Chunk(b) = k /\ b.pc = "poll" /\ b.start = a.start
        /\ b.buf = a.buf /\ b.done = a.done
    <2>1. b \in AccRecords /\ Chunk(b) = k
      BY <1>1, Moves DEF PCs, RegisterPCs
    <2> QED
      BY <1>1, <2>1 DEF AccRecords
  <1>5. /\ acc'["main"] = b /\ moved'["main"] = m /\ fifo' = fifo
        /\ csr' = [csr EXCEPT !.busy = TRUE, !.op = k.op, !.address = k.address,
                              !.size = k.size, !.by = "main"]
    BY FifosTyped DEF Command, AInv, Types
  <1> HIDE DEF b, k
  <1>6. /\ csr'.busy = TRUE /\ csr'.op = k.op /\ csr'.address = k.address
        /\ csr'.size = k.size /\ csr'.by = "main" /\ csr'.data = csr.data
    BY <1>1, <1>5 DEF CsrRecords
  <1>7. k.op = "write" => Loaded(b, csr')
    <2>1. Loaded(a, csr) => Loaded(a, csr')
      BY <1>6 DEF Loaded
    <2> QED
      BY <1>3, <1>4, <2>1, SameChunk DEF k
  <1>8. Copied(b, m, b.done)
    BY <1>2, <1>4, SameOctets
  <1>9. RegisterShape(b, csr', fifo', m)
    BY <1>2, <1>4, <1>5, <1>6, <1>7, <1>8 DEF RegisterShape
  <1>10. RAMShape(b, fifo', m)
    BY <1>4 DEF RAMShape, RAMPCs
  <1> QED
    BY <1>5, <1>9, <1>10, ShapeFrom

\* The fields of an access n octets further.
LEMMA AdvanceFields ==
  ASSUME NEW a \in AccRecords, NEW n \in Nat, a.done + n <= a.len
  PROVE  LET b == Advance(a, n)
         IN  /\ b.start = a.start /\ b.buf = a.buf /\ b.len = a.len /\ b.op = a.op
             /\ b.done = a.done + n
             /\ b.pc = IF a.start < PRAM \/ a.done + n = a.len THEN "csr" ELSE "word"
             /\ b.event <=> a.done + n = a.len
  <1>1. CASE a.done + n = a.len
    <2>1. Advance(a, n) = [a EXCEPT !.done = a.len, !.event = TRUE, !.pc = "csr"]
      BY <1>1, AdvanceForms
    <2> QED
      BY <1>1, <2>1 DEF AccRecords
  <1>2. CASE a.done + n # a.len
    <2>1. Advance(a, n) = [a EXCEPT !.done = a.done + n, !.event = FALSE,
                                    !.pc = IF a.start < PRAM THEN "csr" ELSE "word"]
      BY <1>2, AdvanceForms
    <2> QED
      BY <1>2, <2>1 DEF AccRecords
  <1> QED
    BY <1>1, <1>2

LEMMA PollCSRShapes ==
  ASSUME Alone, AInv, Shape, PollCSR("main")
  PROVE  Shape'
  <1> DEFINE a == acc["main"]
             m == moved["main"]
             k == Chunk(a)
  <1>1. /\ a \in AccRecords /\ PlaceOK(a) /\ a.pc = "poll" /\ ~csr.busy
        /\ csr \in CsrRecords /\ RegisterShape(a, csr, fifo, m)
    BY ShapeFacts DEF PollCSR, At
  <1>2. moved'["main"] = m /\ fifo' = fifo /\ csr' = csr
    BY DEF PollCSR
  <1>3. CASE k.op = "read"
    <2> DEFINE b == [a EXCEPT !.pc = "fetch"]
    <2>1. /\ b \in AccRecords /\ Chunk(b) = k /\ b.pc = "fetch" /\ b.start = a.start
          /\ b.buf = a.buf /\ b.done = a.done /\ b.event = a.event
      <3>1. b \in AccRecords /\ Chunk(b) = k
        BY <1>1, <1>3, Moves DEF PCs, RegisterPCs
      <3> QED
        BY <1>1, <3>1 DEF AccRecords
    <2>2. acc'["main"] = b
      BY <1>3, FifosTyped DEF PollCSR, AInv, Types
    <2> HIDE DEF b
    <2>3. Calm(fifo) /\ IF a.event THEN Copied(a, m, a.done) ELSE Fetched(a, csr, m)
      BY <1>1, <1>3 DEF RegisterShape
    <2>4. IF b.event THEN Copied(b, m, b.done) ELSE Fetched(b, csr, m)
      BY <2>1, <2>3, SameOctets, SameChunk
    <2>5. RegisterShape(b, csr', fifo', m)
      BY <1>1, <1>2, <2>1, <2>3, <2>4 DEF RegisterShape
    <2>6. RAMShape(b, fifo', m)
      BY <2>1 DEF RAMShape, RAMPCs
    <2> QED
      BY <1>2, <2>2, <2>5, <2>6, ShapeFrom
  <1>4. CASE k.op # "read"
    <2> DEFINE b == Advance(a, k.size)
    <2>1. /\ ~a.event /\ k.size \in {1, 2, 4} /\ k.size <= a.len - a.done /\ k.op = "write"
      BY <1>1, <1>4, ChunkLegal DEF RegisterPCs
    <2>2. a.start < PRAM
      BY <1>1, <2>1 DEF PlaceOK, RegisterPCs
    <2>3. k.size \in Nat /\ a.done + k.size <= a.len
      BY <1>1, <2>1 DEF AccRecords
    <2>4. acc'["main"] = b
      BY <1>4, FifosTyped DEF PollCSR, AInv, Types
    <2>5. /\ b.start = a.start /\ b.buf = a.buf /\ b.done = a.done + k.size /\ b.pc = "csr"
      BY <1>1, <2>2, <2>3, AdvanceFields
    <2> HIDE DEF b
    <2>6. Calm(fifo) /\ Copied(a, m, a.done + k.size)
      BY <1>1, <2>1 DEF RegisterShape
    <2>7. Copied(b, m, b.done)
      BY <2>5, <2>6, SameOctets
    <2>8. RegisterShape(b, csr', fifo', m)
      BY <1>1, <1>2, <2>5, <2>6, <2>7 DEF RegisterShape
    <2>9. RAMShape(b, fifo', m)
      BY <2>5 DEF RAMShape, RAMPCs
    <2> QED
      BY <1>2, <2>4, <2>8, <2>9, ShapeFrom
  <1> QED
    BY <1>3, <1>4

LEMMA FetchDataShapes ==
  ASSUME Alone, AInv, Shape, FetchData("main")
  PROVE  Shape'
  <1> DEFINE a == acc["main"]
             m == moved["main"]
             size == Chunk(a).size
             buf == [i \in DOMAIN a.buf |->
                       IF i \in a.done .. a.done + size - 1 THEN csr.data[i - a.done]
                       ELSE a.buf[i]]
             c == [a EXCEPT !.buf = buf]
             b == Advance(c, size)
  <1>1. /\ a \in AccRecords /\ PlaceOK(a) /\ a.pc = "fetch" /\ ~a.event
        /\ csr \in CsrRecords /\ RegisterShape(a, csr, fifo, m)
    BY ShapeFacts DEF FetchData, At
  <1>2. moved'["main"] = m /\ fifo' = fifo /\ csr' = csr
    BY DEF FetchData
  <1>3. acc'["main"] = b
    BY FifosTyped DEF FetchData, AInv, Types
  <1>4. Calm(fifo) /\ Fetched(a, csr, m) /\ ~csr.busy
    BY <1>1 DEF RegisterShape
  <1>5. size \in {1, 2, 4} /\ size <= a.len - a.done
    BY <1>1, ChunkLegal DEF RegisterPCs
  <1>6. /\ a.done \in Nat /\ a.len \in 0 .. MaxLen /\ a.buf \in Buffer /\ a.start < PRAM
    BY <1>1 DEF AccRecords, PlaceOK, RegisterPCs
  <1>7. csr.data \in [Lanes -> Cells]
    BY <1>1 DEF CsrRecords, Register, Cells
  <1>8. /\ buf \in Buffer
        /\ \A i \in 0 .. a.done - 1 : buf[i] = a.buf[i]
        /\ \A i \in a.done .. a.done + size - 1 : buf[i] = csr.data[i - a.done]
    <2> HIDE DEF a, size
    <2>1. \A i \in a.done .. a.done + size - 1 :
            csr.data[i - a.done] \in Cells /\ i \in 0 .. MaxLen + 2
      BY <1>5, <1>6, <1>7
    <2>2. \A i \in 0 .. a.done - 1 : i \in 0 .. MaxLen + 2
      BY <1>5, <1>6
    <2>3. DOMAIN a.buf = 0 .. MaxLen + 2
      BY <1>6 DEF Buffer
    <2>4. buf \in Buffer
      BY <1>6, <2>1 DEF Buffer, Cells
    <2>5. \A i \in 0 .. a.done - 1 : buf[i] = a.buf[i]
      BY <1>6, <2>2, <2>3
    <2>6. \A i \in a.done .. a.done + size - 1 : buf[i] = csr.data[i - a.done]
      BY <2>1, <2>3
    <2> QED
      BY <2>4, <2>5, <2>6
  <1> HIDE DEF buf
  <1>9. c \in AccRecords /\ c.start = a.start /\ c.done = a.done /\ c.len = a.len /\ c.buf = buf
    BY <1>1, <1>8 DEF AccRecords
  <1>10. size \in Nat /\ c.done + size <= c.len
    BY <1>5, <1>6, <1>9
  <1> HIDE DEF c, size
  <1>11. b.start = a.start /\ b.buf = buf /\ b.done = a.done + size /\ b.pc = "csr"
    BY <1>6, <1>9, <1>10, AdvanceFields
  <1> HIDE DEF b
  <1>12. Copied(b, m, b.done)
    <2>1. Len(m) = a.done + size /\ Match(a, m, a.done)
      BY <1>4 DEF Fetched, size
    <2>2. \A i \in a.done + 1 .. a.done + size : m[i] = Place(a, i, csr.data[i - 1 - a.done])
      BY <1>4 DEF Fetched, size
    <2> HIDE DEF a, m
    <2>3. \A i \in 1 .. a.done : m[i] = Place(a, i, buf[i - 1])
      <3>1. \A i \in 1 .. a.done : i - 1 \in 0 .. a.done - 1
        BY <1>6
      <3> QED
        BY <1>8, <2>1, <3>1 DEF Match
    <2>4. \A i \in a.done + 1 .. a.done + size : m[i] = Place(a, i, buf[i - 1])
      <3>1. \A i \in a.done + 1 .. a.done + size : i - 1 \in a.done .. a.done + size - 1
        BY <1>6, <1>10
      <3> QED
        BY <1>8, <2>2, <3>1
    <2>5. \A i \in 1 .. b.done : i \in 1 .. a.done \/ i \in a.done + 1 .. a.done + size
      BY <1>6, <1>10, <1>11
    <2>6. \A i \in 1 .. b.done : m[i] = Place(b, i, b.buf[i - 1])
      BY <1>11, <2>3, <2>4, <2>5 DEF Place
    <2> QED
      BY <1>11, <2>1, <2>6 DEF Copied, Match
  <1>13. RegisterShape(b, csr', fifo', m)
    BY <1>2, <1>4, <1>11, <1>12 DEF RegisterShape
  <1>14. RAMShape(b, fifo', m)
    BY <1>11 DEF RAMShape, RAMPCs
  <1> QED
    BY <1>2, <1>3, <1>13, <1>14, ShapeFrom

LEMMA FetchEventShapes ==
  ASSUME Alone, AInv, Shape, FetchEvent("main")
  PROVE  Shape'
  <1> DEFINE a == acc["main"]
             m == moved["main"]
             b == [a EXCEPT !.pc = "idle", !.event = FALSE]
  <1>1. /\ a \in AccRecords /\ PlaceOK(a) /\ a.pc = "fetch" /\ a.event
        /\ RegisterShape(a, csr, fifo, m)
    BY ShapeFacts DEF FetchEvent, At
  <1>2. moved'["main"] = m /\ fifo' = fifo /\ csr' = csr /\ acc'["main"] = b
    BY FifosTyped DEF FetchEvent, AInv, Types
  <1>3. b.pc = "idle" /\ b.start = a.start /\ b.buf = a.buf /\ b.len = a.len
    BY <1>1 DEF AccRecords
  <1>4. Calm(fifo) /\ Copied(a, m, a.len) /\ ~csr.busy
    BY <1>1 DEF RegisterShape, PlaceOK, RegisterPCs
  <1> HIDE DEF b
  <1>5. Copied(b, m, b.len)
    BY <1>3, <1>4, SameOctets
  <1>6. RegisterShape(b, csr', fifo', m)
    BY <1>2, <1>3, <1>4, <1>5 DEF RegisterShape
  <1>7. RAMShape(b, fifo', m)
    BY <1>3 DEF RAMShape, RAMPCs
  <1> QED
    BY <1>2, <1>6, <1>7, ShapeFrom

\* A command is being carried out only for a driver that polls.
LEMMA AtPoll ==
  ASSUME AInv, Shape, csr.busy
  PROVE  LET a == acc["main"]
             m == moved["main"]
         IN  /\ a.pc = "poll" /\ Calm(fifo) /\ csr.by = "main"
             /\ csr.op = Chunk(a).op /\ csr.address = Chunk(a).address
             /\ csr.size = Chunk(a).size /\ Copied(a, m, a.done)
             /\ csr.op = "write" => ~a.event /\ Loaded(a, csr)
             /\ ~a.event => /\ csr.address = a.start + a.done
                            /\ a.start < PRAM
  <1> DEFINE a == acc["main"]
             m == moved["main"]
  <1>1. a \in AccRecords /\ PlaceOK(a) /\ RegisterShape(a, csr, fifo, m)
    BY ShapeFacts
  <1>2. /\ a.pc = "poll" /\ Calm(fifo) /\ csr.by = "main"
        /\ csr.op = Chunk(a).op /\ csr.address = Chunk(a).address
        /\ csr.size = Chunk(a).size /\ Copied(a, m, a.done)
        /\ csr.op = "write" => Loaded(a, csr)
    BY <1>1 DEF RegisterShape
  <1>3. /\ a.event => Chunk(a).op = "read"
        /\ ~a.event => Chunk(a).address = a.start + a.done
    BY <1>1, <1>2, ChunkLegal DEF RegisterPCs
  <1>4. ~a.event => a.start < PRAM
    BY <1>1, <1>2 DEF PlaceOK, RegisterPCs
  <1> QED
    BY <1>2, <1>3, <1>4

\* The octets of a chunk are written down behind those of the chunks before it.
LEMMA ChunkLogged ==
  ASSUME AInv, Shape, csr.busy, ~acc["main"].event, NEW octets \in [Lanes -> Cells],
         Log(csr.by, csr.address, octets, 0, csr.size - 1)
  PROVE  LET a == acc["main"]
             n == moved'["main"]
         IN  /\ Len(n) = a.done + csr.size /\ Match(a, n, a.done)
             /\ \A i \in 0 .. csr.size - 1 : n[a.done + i + 1] = Place(a, a.done + i + 1, octets[i])
  <1> DEFINE a == acc["main"]
             m == moved["main"]
             n == moved'["main"]
             size == csr.size
  <1>1. /\ a \in AccRecords /\ csr \in CsrRecords /\ csr.by = "main"
        /\ csr.address = a.start + a.done /\ Copied(a, m, a.done)
    BY ShapeFacts, AtPoll
  <1>2. a.start \in Nat /\ a.done \in Nat /\ size \in {1, 2, 4} /\ csr.address \in Nat
    BY <1>1 DEF AccRecords, CsrRecords
  <1>3. moved \in [Callers -> Seq(Entries)] /\ "main" \in Callers
    BY FifosTyped
  <1> DEFINE last == size - 1
             from == 0
  <1>4. Log("main", csr.address, octets, from, last)
    BY <1>1
  <1>5. /\ from \in Lanes /\ size \in 0 .. 4 /\ from + size <= 4 /\ last = from + size - 1
        /\ last \in Int
    BY <1>2
  <1> HIDE DEF size, last, from, m, n
  <1>6. /\ Len(m) \in Nat /\ Len(n) = Len(m) + size
        /\ \A i \in 1 .. Len(m) : n[i] = m[i]
        /\ \A i \in 0 .. size - 1 :
             n[Len(m) + 1 + i] = [at |-> csr.address + i, octet |-> octets[from + i]]
    <2>1. Extended(m, n, csr.address, octets, from, size)
      BY <1>2, <1>3, <1>4, <1>5, LogExtends, Zenon DEF m, n
    <2> QED
      BY <2>1 DEF Extended
  <1>7. \A i \in 0 .. size - 1 :
             n[Len(m) + 1 + i] = [at |-> csr.address + i, octet |-> octets[i]]
    BY <1>6 DEF from
  <1> HIDE DEF a
  <1>8. Len(n) = a.done + size
    BY <1>1, <1>2, <1>6 DEF Copied
  <1>9. Match(a, n, a.done)
    BY <1>1, <1>6 DEF Copied, Match
  <1>10. ASSUME NEW i \in 0 .. size - 1
         PROVE  n[a.done + i + 1] = Place(a, a.done + i + 1, octets[i])
    <2>1. n[Len(m) + 1 + i] = [at |-> csr.address + i, octet |-> octets[i]]
      BY <1>7
    <2>2. /\ Len(m) + 1 + i = a.done + i + 1
          /\ csr.address + i = a.start + (a.done + i + 1) - 1
      BY <1>1, <1>2 DEF Copied
    <2> QED
      BY <2>1, <2>2 DEF Place
  <1> QED
    BY <1>8, <1>9, <1>10 DEF n, a, size

LEMMA GiveRegisterShapes ==
  ASSUME Alone, AInv, Shape, NEW octets \in [Lanes -> Octets], GiveRegister(octets)
  PROVE  Shape'
  <1> DEFINE a == acc["main"]
             m == moved["main"]
             n == moved'["main"]
             data == [i \in Lanes |-> IF i < csr.size THEN octets[i] ELSE Unset]
  <1>1. /\ csr.busy /\ csr.op = "read" /\ acc' = acc /\ fifo' = fifo
        /\ csr' = [csr EXCEPT !.busy = FALSE, !.data = data]
    BY DEF GiveRegister
  <1>2. /\ a.pc = "poll" /\ Calm(fifo) /\ csr.by = "main" /\ csr.op = Chunk(a).op
        /\ csr.address = Chunk(a).address /\ csr.size = Chunk(a).size
        /\ Copied(a, m, a.done) /\ csr \in CsrRecords
    BY <1>1, AtPoll, ShapeFacts
  <1>3. csr.size \in {1, 2, 4} /\ octets \in [Lanes -> Cells]
    BY <1>2 DEF CsrRecords, Cells
  <1>4. \A i \in 0 .. csr.size - 1 : data[i] = octets[i]
    BY <1>3
  <1> HIDE DEF data
  <1>5. /\ csr'.busy = FALSE /\ csr'.op = csr.op /\ csr'.address = csr.address
        /\ csr'.size = csr.size /\ csr'.by = csr.by /\ csr'.data = data
    BY <1>1, <1>2 DEF CsrRecords
  <1>6. a.event => n = m
    BY <1>1, <1>2 DEF GiveRegister
  <1>7. ~a.event => Fetched(a, csr', n)
    <2> SUFFICES ASSUME ~a.event PROVE Fetched(a, csr', n)
      OBVIOUS
    <2>1. Log(csr.by, csr.address, octets, 0, csr.size - 1)
      BY <1>2 DEF GiveRegister
    <2>2. /\ Len(n) = a.done + csr.size /\ Match(a, n, a.done)
          /\ \A i \in 0 .. csr.size - 1 : n[a.done + i + 1] = Place(a, a.done + i + 1, octets[i])
      BY <1>1, <1>3, <2>1, ChunkLogged
    <2>3. a.done \in Nat
      BY ShapeFacts DEF AccRecords
    <2> HIDE DEF a, n
    <2>4. ASSUME NEW i \in a.done + 1 .. a.done + csr.size
          PROVE  n[i] = Place(a, i, csr'.data[i - 1 - a.done])
      <3>1. i - 1 - a.done \in 0 .. csr.size - 1 /\ a.done + (i - 1 - a.done) + 1 = i
        BY <1>3, <2>3
      <3> QED
        BY <1>4, <1>5, <2>2, <3>1
    <2> QED
      BY <1>2, <2>2, <2>4 DEF Fetched
  <1>8. RegisterShape(a, csr', fifo', n)
    BY <1>1, <1>2, <1>5, <1>6, <1>7 DEF RegisterShape
  <1>9. RAMShape(a, fifo', n)
    BY <1>2 DEF RAMShape, RAMPCs
  <1> QED
    BY <1>1, <1>8, <1>9, ShapeFrom

LEMMA TakeRegisterShapes ==
  ASSUME Alone, AInv, Shape, TakeRegister
  PROVE  Shape'
  <1> DEFINE a == acc["main"]
             n == moved'["main"]
  <1>1. /\ csr.busy /\ csr.op = "write" /\ acc' = acc /\ fifo' = fifo
        /\ csr' = [csr EXCEPT !.busy = FALSE]
        /\ Log(csr.by, csr.address, csr.data, 0, csr.size - 1)
    BY DEF TakeRegister
  <1>2. /\ a.pc = "poll" /\ Calm(fifo) /\ csr.by = "main" /\ csr.op = Chunk(a).op
        /\ csr.address = Chunk(a).address /\ csr.size = Chunk(a).size
        /\ csr \in CsrRecords /\ ~a.event /\ Loaded(a, csr)
    BY <1>1, AtPoll, ShapeFacts
  <1>3. csr.size \in {1, 2, 4} /\ csr.data \in [Lanes -> Cells]
    BY <1>2 DEF CsrRecords, Cells, Register
  <1>5. /\ csr'.busy = FALSE /\ csr'.op = csr.op /\ csr'.address = csr.address
        /\ csr'.size = csr.size /\ csr'.by = csr.by /\ csr'.data = csr.data
    BY <1>1, <1>2 DEF CsrRecords
  <1>6. Copied(a, n, a.done + csr.size)
    <2>1. /\ Len(n) = a.done + csr.size /\ Match(a, n, a.done)
          /\ \A i \in 0 .. csr.size - 1 : n[a.done + i + 1] = Place(a, a.done + i + 1, csr.data[i])
      BY <1>1, <1>2, <1>3, ChunkLogged
    <2>2. \A i \in 0 .. csr.size - 1 : csr.data[i] = a.buf[a.done + i]
      BY <1>2 DEF Loaded
    <2>3. a.done \in Nat
      BY ShapeFacts DEF AccRecords
    <2> HIDE DEF a, n
    <2>4. ASSUME NEW i \in 1 .. a.done + csr.size
          PROVE  n[i] = Place(a, i, a.buf[i - 1])
      <3>1. CASE i <= a.done
        BY <2>1, <3>1 DEF Match
      <3>2. CASE i > a.done
        <4>1. /\ i - 1 - a.done \in 0 .. csr.size - 1 /\ a.done + (i - 1 - a.done) + 1 = i
              /\ a.done + (i - 1 - a.done) = i - 1
          BY <1>3, <2>3, <3>2
        <4> QED
          BY <2>1, <2>2, <4>1
      <3> QED
        BY <2>3, <3>1, <3>2
    <2> QED
      BY <2>1, <2>4 DEF Copied, Match
  <1>7. Loaded(a, csr')
    BY <1>2, <1>5 DEF Loaded
  <1>8. RegisterShape(a, csr', fifo', n)
    BY <1>1, <1>2, <1>5, <1>6, <1>7 DEF RegisterShape
  <1>9. RAMShape(a, fifo', n)
    BY <1>2 DEF RAMShape, RAMPCs
  <1> QED
    BY <1>1, <1>8, <1>9, ShapeFrom

---------------------------------------------------------------------------
\* A step of the driver in RAM: what it goes on with.
LEMMA RAMFacts ==
  ASSUME AInv, Shape, acc["main"].pc \in RAMPCs
  PROVE  LET a == acc["main"]
             m == moved["main"]
         IN  /\ a \in AccRecords /\ a.op \in Ops /\ a.start \in Nat /\ a.len \in Nat
             /\ a.done \in Nat /\ a.done < a.len /\ ~a.event /\ ~csr.busy
             /\ fifo[a.op] \in FifoRecords /\ fifo[Other(a.op)] \in FifoRecords
             /\ fifo \in [Ops -> FifoRecords] /\ Other(a.op) \in Ops /\ Other(a.op) # a.op
             /\ Quiet(fifo[Other(a.op)]) /\ Aligned(a) /\ RAMShape(a, fifo, m)
             /\ a.start >= PRAM
  <1> DEFINE a == acc["main"]
             m == moved["main"]
  <1>1. a \in AccRecords /\ PlaceOK(a) /\ RAMShape(a, fifo, m) /\ RegisterShape(a, csr, fifo, m)
    BY ShapeFacts
  <1>2. /\ a.op \in Ops /\ a.start \in Nat /\ a.len \in Nat /\ a.done \in Nat
        /\ a.done < a.len /\ ~a.event /\ a.start >= PRAM
    BY <1>1 DEF AccRecords, PlaceOK
  <1>3. ~csr.busy
    BY <1>1 DEF RegisterShape, RAMPCs
  <1>4. Other(a.op) \in Ops /\ Other(a.op) # a.op
    BY <1>2 DEF Other
  <1>5. Quiet(fifo[Other(a.op)]) /\ Aligned(a)
    BY <1>1 DEF RAMShape
  <1> QED
    BY <1>1, <1>2, <1>3, <1>4, <1>5, FifosTyped

\* An access that goes on in RAM, its octets unchanged.
LEMMA RAMGoesOn ==
  ASSUME NEW a \in AccRecords, NEW pc \in RAMPCs
  PROVE  LET b == [a EXCEPT !.pc = pc]
         IN  /\ b.pc = pc /\ b.op = a.op /\ b.start = a.start /\ b.len = a.len
             /\ b.done = a.done /\ b.buf = a.buf /\ b.event = a.event
             /\ Aligned(a) => Aligned(b)
  <1> DEFINE b == [a EXCEPT !.pc = pc]
  <1>1. /\ b.pc = pc /\ b.op = a.op /\ b.start = a.start /\ b.len = a.len
        /\ b.done = a.done /\ b.buf = a.buf /\ b.event = a.event
    BY DEF AccRecords
  <1> HIDE DEF b
  <1>2. Aligned(a) => Aligned(b)
    BY <1>1 DEF Aligned
  <1> QED
    BY <1>1, <1>2 DEF b

\* A driver in RAM has no command at the registers.
LEMMA NotAtRegister ==
  ASSUME NEW b, b.pc \in RAMPCs, NEW c, ~c.busy, NEW f, NEW m
  PROVE  RegisterShape(b, c, f, m)
  BY DEF RegisterShape, RAMPCs

LEMMA AbortShapes ==
  ASSUME Alone, AInv, Shape, Abort("main")
  PROVE  Shape'
  <1> DEFINE a == acc["main"]
             m == moved["main"]
             op == a.op
             b == [a EXCEPT !.pc = "setup"]
             f == [fifo[op] EXCEPT !.state = "abort"]
  <1>1. a.pc = "abort" /\ a.pc \in RAMPCs /\ "setup" \in RAMPCs
    BY DEF Abort, At, RAMPCs
  <1>2. /\ a \in AccRecords /\ op \in Ops /\ ~csr.busy /\ fifo[op] \in FifoRecords
        /\ fifo \in [Ops -> FifoRecords] /\ Other(op) \in Ops /\ Other(op) # op
        /\ Quiet(fifo[Other(op)]) /\ Aligned(a) /\ RAMShape(a, fifo, m)
    BY <1>1, RAMFacts
  <1>3. fifo[op].words = <<>> /\ a.done = 0 /\ m = <<>>
    BY <1>1, <1>2 DEF RAMShape
  <1>4. /\ acc'["main"] = b /\ moved'["main"] = m /\ csr' = csr
        /\ fifo' = [fifo EXCEPT ![op] = f]
    BY FifosTyped DEF Abort, AInv, Types
  <1>5. b.pc = "setup" /\ b.op = op /\ b.done = 0 /\ Aligned(b)
    BY <1>1, <1>2, <1>3, RAMGoesOn
  <1>6. f.state = "abort" /\ f.words = <<>>
    BY <1>2, <1>3 DEF FifoRecords
  <1> HIDE DEF b, f
  <1>7. fifo'[op] = f /\ fifo'[Other(op)] = fifo[Other(op)]
    BY <1>2, <1>4
  <1>8. RegisterShape(b, csr', fifo', m)
    BY <1>1, <1>2, <1>4, <1>5, NotAtRegister
  <1>9. RAMShape(b, fifo', m)
    BY <1>2, <1>3, <1>5, <1>6, <1>7 DEF RAMShape
  <1> QED
    BY <1>4, <1>8, <1>9, ShapeFrom

LEMMA SetUpShapes ==
  ASSUME Alone, AInv, Shape, SetUp("main")
  PROVE  Shape'
  <1> DEFINE a == acc["main"]
             m == moved["main"]
             op == a.op
             b == [a EXCEPT !.pc = "start"]
             g == fifo[op]
             end == a.start + a.len
             f == [g EXCEPT !.next = a.start, !.end = end]
  <1>1. a.pc = "setup" /\ a.pc \in RAMPCs /\ "start" \in RAMPCs /\ g.state = "idle"
    BY DEF SetUp, At, RAMPCs
  <1>2. /\ a \in AccRecords /\ op \in Ops /\ ~csr.busy /\ g \in FifoRecords
        /\ fifo \in [Ops -> FifoRecords] /\ Other(op) \in Ops /\ Other(op) # op
        /\ Quiet(fifo[Other(op)]) /\ Aligned(a) /\ RAMShape(a, fifo, m)
    BY <1>1, RAMFacts
  <1>3. g.words = <<>> /\ a.done = 0 /\ m = <<>>
    BY <1>1, <1>2 DEF RAMShape
  <1>4. /\ acc'["main"] = b /\ moved'["main"] = m /\ csr' = csr
        /\ fifo' = [fifo EXCEPT ![op] = f]
    BY FifosTyped DEF SetUp, AInv, Types
  <1>5. /\ b.pc = "start" /\ b.op = op /\ b.done = 0 /\ Aligned(b)
        /\ b.start = a.start /\ b.len = a.len
    BY <1>1, <1>2, <1>3, RAMGoesOn
  <1>6. f.state = "idle" /\ f.words = <<>> /\ f.next = a.start /\ f.end = end
    <2> HIDE DEF g, end
    <2> QED
      BY <1>1, <1>2, <1>3 DEF FifoRecords
  <1> HIDE DEF b, f
  <1>7. fifo'[op] = f /\ fifo'[Other(op)] = fifo[Other(op)]
    BY <1>2, <1>4
  <1>8. RegisterShape(b, csr', fifo', m)
    BY <1>1, <1>2, <1>4, <1>5, NotAtRegister
  <1>9. RAMShape(b, fifo', m)
    BY <1>2, <1>3, <1>5, <1>6, <1>7 DEF RAMShape
  <1> QED
    BY <1>4, <1>8, <1>9, ShapeFrom

LEMMA StartShapes ==
  ASSUME Alone, AInv, Shape, Start("main")
  PROVE  Shape'
  <1> DEFINE a == acc["main"]
             m == moved["main"]
             op == a.op
             b == [a EXCEPT !.pc = "avail"]
             g == fifo[op]
             f == [g EXCEPT !.state = "run", !.by = "main"]
  <1>1. a.pc = "start" /\ a.pc \in RAMPCs /\ "avail" \in RAMPCs
    BY DEF Start, At, RAMPCs
  <1>2. /\ a \in AccRecords /\ op \in Ops /\ ~csr.busy /\ g \in FifoRecords
        /\ fifo \in [Ops -> FifoRecords] /\ Other(op) \in Ops /\ Other(op) # op
        /\ Quiet(fifo[Other(op)]) /\ Aligned(a) /\ RAMShape(a, fifo, m)
        /\ a.start \in Nat /\ a.len \in Nat /\ a.done < a.len
    BY <1>1, RAMFacts
  <1>3. /\ g.words = <<>> /\ a.done = 0 /\ m = <<>> /\ g.next = a.start
        /\ g.end = a.start + a.len
    BY <1>1, <1>2 DEF RAMShape
  <1>4. /\ acc'["main"] = b /\ moved'["main"] = m /\ csr' = csr
        /\ fifo' = [fifo EXCEPT ![op] = f]
    BY <1>2, FifosTyped DEF Start, AInv, Types
  <1>5. /\ b.pc = "avail" /\ b.op = op /\ b.done = 0 /\ Aligned(b)
        /\ b.start = a.start /\ b.len = a.len
    BY <1>1, <1>2, <1>3, RAMGoesOn
  <1>6. /\ f.state = "run" /\ f.words = <<>> /\ f.next = a.start /\ f.end = a.start + a.len
        /\ f.by = "main"
    BY <1>2, <1>3 DEF FifoRecords
  <1> HIDE DEF b, f
  <1>7. fifo'[op] = f /\ fifo'[Other(op)] = fifo[Other(op)]
    BY <1>2, <1>4
  <1>8. RegisterShape(b, csr', fifo', m)
    BY <1>1, <1>2, <1>4, <1>5, NotAtRegister
  <1> HIDE DEF a, m
  <1>9. Extent(b, f)
    BY <1>2, <1>3, <1>5, <1>6 DEF Extent
  <1>10. Match(b, m, 0) /\ Copied(b, m, 0)
    BY <1>3 DEF Match, Copied
  <1>11. Reading(b, f, m)
    BY <1>2, <1>3, <1>5, <1>6, <1>9, <1>10 DEF Reading
  <1>12. Writing(b, f, m)
    BY <1>2, <1>3, <1>5, <1>6, <1>9, <1>10 DEF Writing
  <1>13. RAMShape(b, fifo', m)
    BY <1>2, <1>5, <1>6, <1>7, <1>11, <1>12 DEF RAMShape
  <1> QED
    BY <1>4, <1>8, <1>13, ShapeFrom DEF a, m

LEMMA PollAvailShapes ==
  ASSUME Alone, AInv, Shape, PollAvail("main")
  PROVE  Shape'
  <1> DEFINE a == acc["main"]
             m == moved["main"]
             b == [a EXCEPT !.pc = "word"]
  <1>1. a.pc = "avail" /\ a.pc \in RAMPCs /\ "word" \in RAMPCs
    BY DEF PollAvail, At, RAMPCs
  <1>2. /\ a \in AccRecords /\ ~csr.busy /\ Quiet(fifo[Other(a.op)]) /\ Aligned(a)
        /\ RAMShape(a, fifo, m)
    BY <1>1, RAMFacts
  <1>3. /\ fifo[a.op].by = "main"
        /\ IF a.op = "read" THEN Reading(a, fifo["read"], m) ELSE Writing(a, fifo["write"], m)
    BY <1>1, <1>2 DEF RAMShape
  <1>4. acc'["main"] = b /\ moved'["main"] = m /\ csr' = csr /\ fifo' = fifo
    BY FifosTyped DEF PollAvail, AInv, Types
  <1>5. /\ b.pc = "word" /\ b.op = a.op /\ b.done = a.done /\ Aligned(b)
        /\ b.start = a.start /\ b.len = a.len /\ b.buf = a.buf
    BY <1>1, <1>2, RAMGoesOn
  <1> HIDE DEF b, m, a
  <1>6. Reading(a, fifo["read"], m) => Reading(b, fifo["read"], m)
    BY <1>5, Zenon DEF Reading, Extent, Match, Place
  <1>7. Writing(a, fifo["write"], m) => Writing(b, fifo["write"], m)
    BY <1>5, Zenon DEF Writing, Extent, Held, Copied, Match, Place
  <1>8. RegisterShape(b, csr', fifo', m)
    BY <1>1, <1>2, <1>4, <1>5, NotAtRegister
  <1>9. RAMShape(b, fifo', m)
    BY <1>2, <1>3, <1>4, <1>5, <1>6, <1>7 DEF RAMShape
  <1> QED
    BY <1>4, <1>8, <1>9, ShapeFrom DEF a, m

\* The chip aborts a transfer only for a driver that waits for it.
LEMMA AbortedShapes ==
  ASSUME Alone, AInv, Shape, NEW op \in Ops, Aborted(op)
  PROVE  Shape'
  <1> DEFINE a == acc["main"]
             m == moved["main"]
             f == [fifo[op] EXCEPT !.state = "idle", !.words = <<>>]
  <1>1. fifo[op].state = "abort"
    BY DEF Aborted
  <1>2. a.pc \in RAMPCs
    <2> SUFFICES ASSUME a.pc \notin RAMPCs PROVE FALSE
      OBVIOUS
    <2>1. a.pc \in RegisterPCs \union {"idle"} /\ RegisterShape(a, csr, fifo, m)
      BY ShapeFacts DEF AccRecords, PCs, RegisterPCs, RAMPCs
    <2>2. Calm(fifo) \/ (Quiet(fifo["read"]) /\ Extent(a, fifo["write"]))
      BY <2>1 DEF RegisterShape, RegisterPCs
    <2> QED
      BY <1>1, <2>2 DEF Calm, Quiet, Extent
  <1>3. /\ a \in AccRecords /\ a.op \in Ops /\ ~csr.busy /\ fifo[a.op] \in FifoRecords
        /\ fifo \in [Ops -> FifoRecords] /\ Other(a.op) \in Ops /\ Other(a.op) # a.op
        /\ Quiet(fifo[Other(a.op)]) /\ Aligned(a) /\ RAMShape(a, fifo, m)
    BY <1>2, RAMFacts
  <1>4. op = a.op
    BY <1>1, <1>3 DEF Other, Quiet
  <1>5. a.pc = "setup"
    BY <1>1, <1>2, <1>3, <1>4 DEF RAMShape, RAMPCs, Reading, Writing, Extent
  <1>6. a.done = 0 /\ m = <<>>
    BY <1>2, <1>3, <1>5 DEF RAMShape
  <1>7. /\ acc' = acc /\ moved' = moved /\ csr' = csr
        /\ fifo' = [fifo EXCEPT ![op] = f]
    BY DEF Aborted
  <1>8. f.state = "idle" /\ f.words = <<>>
    BY <1>3, <1>4 DEF FifoRecords
  <1> HIDE DEF f
  <1>9. fifo'[a.op] = f /\ fifo'[Other(a.op)] = fifo[Other(a.op)]
    BY <1>3, <1>4, <1>7
  <1>10. RegisterShape(a, csr', fifo', m)
    BY <1>2, <1>3, <1>7, NotAtRegister
  <1>11. RAMShape(a, fifo', m)
    BY <1>3, <1>5, <1>6, <1>8, <1>9 DEF RAMShape
  <1> QED
    BY <1>7, <1>10, <1>11, ShapeFrom

---------------------------------------------------------------------------
(***************************************************************************)
(* Words of RAM: the arithmetic of addresses, words and lanes.             *)
(***************************************************************************)
LEMMA Lanes4 ==
  ASSUME NEW a \in Nat, NEW k \in Nat, (a % 4) + k <= 3
  PROVE  (a + k) \div 4 = a \div 4 /\ (a + k) % 4 = (a % 4) + k
  OBVIOUS

LEMMA WordOf ==
  ASSUME NEW a \in Nat
  PROVE  /\ a \div 4 \in Nat /\ a % 4 \in Lanes /\ a = 4 * (a \div 4) + (a % 4)
         /\ 4 * (a \div 4) <= a /\ a < 4 * (a \div 4) + 4
  OBVIOUS

LEMMA WordIn ==
  ASSUME NEW a \in Nat, NEW q \in Nat, NEW n \in Nat, q <= a \div 4, a < 4 * (q + n)
  PROVE  a \div 4 - q + 1 \in 1 .. n
  OBVIOUS

LEMMA WordStart ==
  ASSUME NEW q \in Nat
  PROVE  (4 * q) \div 4 = q /\ (4 * q) % 4 = 0
  OBVIOUS

LEMMA WordOrder ==
  ASSUME NEW a \in Nat, NEW b \in Nat, a <= b
  PROVE  a \div 4 <= b \div 4
  OBVIOUS

\* The next word of a transfer ends at the next multiple of four, or at its end.
LEMMA NextWord ==
  ASSUME NEW f \in FifoRecords, f.next < f.end
  PROVE  LET next == f.next + To(f) - From(f) + 1
             count == To(f) - From(f) + 1
         IN  /\ next = Least(4 * (f.next \div 4) + 4, f.end)
             /\ next > f.next /\ next <= f.end /\ next \in Nat
             /\ count \in 1 .. 4 /\ next = f.next + count
             /\ From(f) + count <= 4 /\ To(f) = From(f) + count - 1 /\ To(f) \in Int
             /\ From(f) \in Lanes /\ From(f) = f.next % 4
  <1>1. f.next \in Nat /\ f.end \in Nat
    BY FifoFields
  <1>2. From(f) = f.next % 4 /\ From(f) \in Lanes
    BY <1>1 DEF From
  <1>3. To(f) = IF 3 < f.end - f.next + From(f) - 1 THEN 3 ELSE f.end - f.next + From(f) - 1
    BY DEF To, Least
  <1>4. f.next = 4 * (f.next \div 4) + From(f)
    BY <1>1, <1>2, WordOf
  <1> HIDE DEF From
  <1> DEFINE next == f.next + To(f) - From(f) + 1
             count == To(f) - From(f) + 1
  <1>5. /\ To(f) \in Int /\ count \in 1 .. 4 /\ From(f) + count <= 4
        /\ To(f) = From(f) + count - 1 /\ next = f.next + count
    BY <1>1, <1>2, <1>3
  <1>6. next > f.next /\ next <= f.end /\ next \in Nat
    BY <1>1, <1>2, <1>3
  <1>7. next = Least(4 * (f.next \div 4) + 4, f.end)
    <2>1. f.next \div 4 \in Nat
      BY <1>1
    <2> QED
      BY <1>1, <1>2, <1>3, <1>4, <2>1 DEF Least
  <1> QED
    BY <1>2, <1>5, <1>6, <1>7

\* A word more in the FIFO of a read, its octets written down.
LEMMA FillReads ==
  ASSUME NEW a \in AccRecords, NEW f \in FifoRecords, f.state = "run",
         NEW m \in Seq(Entries), Reading(a, f, m), NEW octets \in Register,
         NEW g, g.words = Append(f.words, octets), g.end = f.end,
         NEW count, count = To(f) - From(f) + 1, g.next = f.next + count,
         g.state = IF g.next = f.end THEN "idle" ELSE f.state,
         NEW n, Extended(m, n, f.next, octets, From(f), count)
  PROVE  Reading(a, g, n)
  <1> DEFINE start == a.start
             done == a.done
             p == start + done
             q == p \div 4
             words == f.words
             l == Len(words)
             from == From(f)
             next == f.next
             end == f.end
             w == next \div 4
             Word(i) == (start + i - 1) \div 4
             Octet4(i) == (start + i - 1) % 4
  <1>1. /\ start \in Nat /\ done \in Nat /\ a.len \in Nat /\ p \in Nat
        /\ next \in Nat /\ end \in Nat /\ words \in Seq(Register) /\ l \in Nat
    BY FifoFields DEF AccRecords
  <1>2. p = start + done
    OBVIOUS
  <1>3. Extent(a, f) /\ Len(m) = next - start /\ Match(a, m, done)
    BY DEF Reading
  <1>4. /\ l = 0 => next = p
        /\ l > 0 => p < next
        /\ l > 0 => 4 * (q + l - 1) < next /\ next <= 4 * (q + l)
        /\ l > 0 /\ next # end => next = 4 * (q + l)
    BY DEF Reading
  <1>5. \A i \in done + 1 .. next - start :
          m[i] = Place(a, i, words[Word(i) - q + 1][Octet4(i)])
    BY DEF Reading
  <1>6. end = start + a.len /\ next >= start /\ next < end
    BY <1>3 DEF Extent
  <1>7. next + count = Least(4 * w + 4, end)
    BY <1>6, NextWord
  <1>8. /\ next + count > next /\ next + count <= end
        /\ count \in 1 .. 4 /\ from + count <= 4 /\ from \in Lanes
    BY <1>6, NextWord
  <1>9. from = next % 4 /\ w \in Nat /\ 4 * w <= next
    BY <1>1, <1>6, NextWord, WordOf
  <1>10. Len(m) \in Nat /\ Len(n) = Len(m) + count
    BY DEF Extended
  <1>11. \A i \in 1 .. Len(m) : n[i] = m[i]
    BY DEF Extended
  <1>12. \A i \in 0 .. count - 1 :
           n[Len(m) + 1 + i] = [at |-> next + i, octet |-> octets[from + i]]
    BY DEF Extended
  <1>13. q \in Nat /\ 4 * q <= p /\ p < 4 * q + 4
    BY <1>1, WordOf
  <1>14. /\ g.words = Append(words, octets) /\ g.end = end /\ g.next = next + count
         /\ g.state = IF next + count = end THEN "idle" ELSE "run"
    OBVIOUS
  <1> HIDE DEF q, l, from, next, words, start, done, end, p, w, Word, Octet4
  <1>15. w = q + l
    <2>1. CASE l = 0
      BY <1>1, <1>4, <1>13, <2>1 DEF q, w
    <2>2. CASE l > 0
      <3>1. next = 4 * (q + l) /\ q + l \in Nat
        BY <1>1, <1>4, <1>6, <1>13, <2>2
      <3> QED
        BY <3>1, WordStart DEF w
    <2> QED
      BY <1>1, <2>1, <2>2
  <1>16. p <= next
    BY <1>1, <1>4
  <1>17. /\ Len(g.words) = l + 1 /\ g.words[l + 1] = octets
         /\ \A j \in 1 .. l : g.words[j] = words[j]
    BY <1>1, <1>14 DEF l
  <1>18. Extent(a, g)
    <2>1. g.end = start + a.len /\ g.next >= start
      BY <1>1, <1>6, <1>8, <1>14
    <2>2. g.state = IF g.next < g.end THEN "run" ELSE "idle"
      BY <1>1, <1>8, <1>14
    <2> QED
      BY <2>1, <2>2 DEF Extent, start
  <1>19. Len(n) = g.next - start
    BY <1>1, <1>3, <1>8, <1>10, <1>14
  <1>20. Match(a, n, done)
    <2>1. \A i \in 1 .. done : i \in 1 .. Len(m)
      BY <1>1, <1>2, <1>3, <1>16
    <2> QED
      BY <1>3, <1>11, <2>1 DEF Match
  <1>21. /\ p < g.next /\ 4 * (q + (l + 1) - 1) < g.next /\ g.next <= 4 * (q + (l + 1))
         /\ g.next # g.end => g.next = 4 * (q + (l + 1))
    <2>1. g.next = IF 4 * w + 4 < end THEN 4 * w + 4 ELSE end
      BY <1>7, <1>14 DEF Least
    <2> QED
      BY <1>1, <1>6, <1>8, <1>9, <1>13, <1>14, <1>15, <1>16, <2>1
  <1>22. ASSUME NEW i \in done + 1 .. g.next - start
         PROVE  n[i] = Place(a, i, g.words[Word(i) - q + 1][Octet4(i)])
    <2>1. start + i - 1 \in Nat /\ p <= start + i - 1 /\ i \in Nat
      BY <1>1, <1>2, <1>8, <1>14
    <2>2. CASE i <= next - start
      <3>1. i \in done + 1 .. next - start /\ i \in 1 .. Len(m)
        BY <1>1, <1>3, <2>1, <2>2
      <3>2. q <= (start + i - 1) \div 4
        BY <1>1, <2>1, WordOrder DEF q
      <3>3. start + i - 1 < 4 * (q + l)
        <4>1. l > 0
          BY <1>1, <1>4, <2>1, <2>2
        <4> QED
          BY <1>1, <1>4, <1>13, <2>1, <2>2, <4>1
      <3>4. Word(i) - q + 1 \in 1 .. l
        BY <1>1, <1>13, <2>1, <3>2, <3>3, WordIn DEF Word
      <3> QED
        BY <1>5, <1>11, <1>17, <3>1, <3>4
    <2>3. CASE i > next - start
      <3> DEFINE k == i - 1 - (next - start)
      <3>1. k \in 0 .. count - 1 /\ Len(m) + 1 + k = i /\ start + i - 1 = next + k
        BY <1>1, <1>3, <1>8, <1>14, <2>1, <2>3
      <3>2. k \in Nat /\ (next % 4) + k <= 3
        BY <1>8, <1>9, <3>1
      <3> HIDE DEF k
      <3>3. (next + k) \div 4 = w /\ (next + k) % 4 = from + k
        BY <1>1, <1>9, <3>2, Lanes4 DEF w
      <3>4. n[i] = [at |-> start + i - 1, octet |-> octets[from + k]]
        BY <1>12, <3>1
      <3>5. Word(i) = w /\ Octet4(i) = from + k
        BY <3>1, <3>3 DEF Word, Octet4
      <3>6. Word(i) - q + 1 = l + 1
        BY <1>1, <1>13, <1>15, <3>5
      <3> QED
        BY <1>17, <3>4, <3>5, <3>6 DEF Place, start
    <2>4. i <= next - start \/ i > next - start
      BY <1>1, <2>1
    <2> QED
      BY <2>2, <2>3, <2>4, Zenon
  <1>23. Len(g.words) > 0 /\ Len(g.words) # 0
    BY <1>1, <1>17
  <1> QED
    BY <1>17, <1>18, <1>19, <1>20, <1>21, <1>22, <1>23
    DEF Reading, p, q, start, done, Word, Octet4

\* The transfer of a FIFO that runs, one word further: its record, and the history.
LEMMA WordMoves ==
  ASSUME AInv, NEW op \in Ops, fifo[op].next < fifo[op].end, fifo[op].by = "main",
         NEW words \in Seq(Register), NEW octets \in [Lanes -> Cells],
         Log(fifo[op].by, fifo[op].next, octets, From(fifo[op]), To(fifo[op]))
  PROVE  LET f == fifo[op]
             g == [Moved(f) EXCEPT !.words = words]
             count == To(f) - From(f) + 1
         IN  /\ g.words = words /\ g.end = f.end /\ g.by = f.by /\ g.next = f.next + count
             /\ g.state = IF g.next = f.end THEN "idle" ELSE f.state
             /\ Extended(moved["main"], moved'["main"], f.next, octets, From(f), count)
  <1> DEFINE f == fifo[op]
             g == [Moved(f) EXCEPT !.words = words]
             count == To(f) - From(f) + 1
  <1>1. f \in FifoRecords /\ f.next <= f.end /\ moved \in [Callers -> Seq(Entries)]
    BY FifosTyped
  <1>2. f.next \in Nat /\ f.by \in Callers
    BY <1>1, FifoFields
  <1>3. /\ g.words = words /\ g.end = f.end /\ g.by = f.by
        /\ g.next = f.next + To(f) - From(f) + 1
        /\ g.state = IF g.next = f.end THEN "idle" ELSE f.state
    BY <1>1, MovedForm, Zenon
  <1>4. /\ count \in 1 .. 4 /\ From(f) + count <= 4 /\ To(f) = From(f) + count - 1
        /\ To(f) \in Int /\ From(f) \in Lanes /\ f.next + To(f) - From(f) + 1 = f.next + count
    <2> HIDE DEF f
    <2> QED
      BY <1>1, NextWord DEF f
  <1>5. count \in 0 .. 4
    BY <1>4
  <1>6. Log("main", f.next, octets, From(f), To(f)) /\ "main" \in Callers
    BY <1>2
  <1> HIDE DEF f, count, g
  <1>7. Extended(moved["main"], moved'["main"], f.next, octets, From(f), count)
    BY <1>1, <1>2, <1>4, <1>5, <1>6, LogExtends
  <1> QED
    BY <1>3, <1>4, <1>7, Zenon DEF f, count, g

LEMMA FillShapes ==
  ASSUME Alone, AInv, Shape, NEW octets \in [Lanes -> Octets], Fill(octets)
  PROVE  Shape'
  <1> DEFINE a == acc["main"]
             m == moved["main"]
             n == moved'["main"]
             f == fifo["read"]
             words == Append(f.words, octets)
             g == [Moved(f) EXCEPT !.words = words]
             count == To(f) - From(f) + 1
  <1>1. f.state = "run"
    BY DEF Fill
  <1>2. a.pc \in RAMPCs
    <2> SUFFICES ASSUME a.pc \notin RAMPCs PROVE FALSE
      OBVIOUS
    <2>1. a.pc \in RegisterPCs \union {"idle"} /\ RegisterShape(a, csr, fifo, m)
      BY ShapeFacts DEF AccRecords, PCs, RegisterPCs, RAMPCs
    <2>2. Calm(fifo) \/ Quiet(fifo["read"])
      BY <2>1 DEF RegisterShape, RegisterPCs
    <2> QED
      BY <1>1, <2>2 DEF Calm, Quiet
  <1>3. /\ a \in AccRecords /\ a.op \in Ops /\ ~csr.busy /\ f \in FifoRecords
        /\ fifo \in [Ops -> FifoRecords] /\ Quiet(fifo[Other(a.op)]) /\ Aligned(a)
        /\ RAMShape(a, fifo, m) /\ m \in Seq(Entries)
    BY <1>2, RAMFacts, ShapeFacts
  <1>4. a.op = "read"
    BY <1>1, <1>3 DEF Other, Quiet
  <1>5. a.pc \in {"avail", "word"}
    BY <1>1, <1>2, <1>3, <1>4 DEF RAMShape, RAMPCs
  <1>6. Reading(a, f, m) /\ f.by = "main" /\ Quiet(fifo["write"])
    <2>1. Quiet(fifo["write"])
      BY <1>3, <1>4 DEF Other
    <2>2. Reading(a, f, m) /\ f.by = "main"
      BY <1>2, <1>3, <1>4, <1>5 DEF RAMShape
    <2> QED
      BY <2>1, <2>2
  <1>7. f.next < f.end
    BY <1>1, <1>6 DEF Reading, Extent
  <1>8. octets \in Register /\ octets \in [Lanes -> Cells]
    BY DEF Register, Cells
  <1>9. words \in Seq(Register)
    BY <1>3, <1>8, FifoFields
  <1>10. Moved(f).words = f.words
    BY <1>3 DEF Moved, FifoRecords
  <1>11. /\ fifo' = [fifo EXCEPT !["read"] = g] /\ acc' = acc /\ csr' = csr
         /\ Log(f.by, f.next, octets, From(f), To(f))
    BY <1>10, Zenon DEF Fill
  <1> HIDE DEF words, g
  <1>12. /\ g.words = words /\ g.end = f.end /\ g.by = f.by /\ g.next = f.next + count
         /\ g.state = IF g.next = f.end THEN "idle" ELSE f.state
         /\ Extended(m, n, f.next, octets, From(f), count)
    BY <1>6, <1>7, <1>8, <1>9, <1>11, WordMoves, Zenon DEF g
  <1>13. Reading(a, g, n)
    <2> HIDE DEF a, f, m, n, count
    <2>1. g.words = Append(f.words, octets) /\ count = To(f) - From(f) + 1
      BY <1>12 DEF words, count
    <2> QED
      BY <1>1, <1>3, <1>6, <1>8, <1>12, <2>1, FillReads
  <1>14. fifo'["read"] = g /\ fifo'["write"] = fifo["write"]
    BY <1>3, <1>11
  <1>15. RegisterShape(a, csr', fifo', n)
    BY <1>2, <1>3, <1>11, NotAtRegister
  <1>16. RAMShape(a, fifo', n)
    BY <1>3, <1>4, <1>5, <1>6, <1>12, <1>13, <1>14 DEF RAMShape, Other
  <1> QED
    BY <1>11, <1>15, <1>16, ShapeFrom

\* The word in the FIFO of a write is taken, its octets written down.
LEMMA DrainWrites ==
  ASSUME NEW a \in AccRecords, NEW f \in FifoRecords, f.state = "run",
         NEW m \in Seq(Entries), Extent(a, f), Held(a, f, m),
         NEW count, count = To(f) - From(f) + 1, NEW next, next = f.next + count,
         NEW n, Extended(m, n, f.next, f.words[1], From(f), count)
  PROVE  next = a.start + a.done /\ Copied(a, n, a.done)
  <1> DEFINE start == a.start
             done == a.done
             old == f.next
             end == f.end
             w == f.words[1]
             from == From(f)
             Octet4(i) == (start + i - 1) % 4
  <1>1. /\ start \in Nat /\ done \in Nat /\ old \in Nat /\ end \in Nat
    BY FifoFields DEF AccRecords
  <1>2. old < start + done /\ Copied(a, m, old - start)
    BY DEF Held
  <1>3. start + done = Least(4 * (old \div 4) + 4, end)
    BY DEF Held
  <1>4. \A i \in old - start + 1 .. done : w[Octet4(i)] = a.buf[i - 1]
    BY DEF Held
  <1>5. old < end /\ old >= start
    BY DEF Extent
  <1>6. next = Least(4 * (old \div 4) + 4, end)
    BY <1>5, NextWord
  <1>7. /\ count \in 1 .. 4 /\ from + count <= 4 /\ from \in Lanes /\ from = old % 4
    BY <1>5, NextWord
  <1>8. Len(m) \in Nat /\ Len(n) = Len(m) + count
    BY DEF Extended
  <1>9. \A i \in 1 .. Len(m) : n[i] = m[i]
    BY DEF Extended
  <1>10. \A i \in 0 .. count - 1 :
           n[Len(m) + 1 + i] = [at |-> old + i, octet |-> w[from + i]]
    BY DEF Extended
  <1>11. next = old + count
    OBVIOUS
  <1> HIDE DEF start, done, old, end, w, from, Octet4
  <1>12. next = start + done
    BY <1>3, <1>6
  <1>13. Len(m) = old - start /\ Match(a, m, old - start)
    BY <1>2 DEF Copied
  <1>14. ASSUME NEW i \in 1 .. done
         PROVE  n[i] = Place(a, i, a.buf[i - 1])
    <2>1. i \in Nat /\ (i <= old - start \/ i > old - start)
      BY <1>1
    <2>2. CASE i <= old - start
      <3>1. i \in 1 .. old - start /\ i \in 1 .. Len(m)
        BY <1>1, <1>13, <2>1, <2>2
      <3> QED
        BY <1>9, <1>13, <3>1 DEF Match
    <2>3. CASE i > old - start
      <3> DEFINE k == i - 1 - (old - start)
      <3>1. k \in 0 .. count - 1 /\ Len(m) + 1 + k = i /\ start + i - 1 = old + k
        BY <1>1, <1>7, <1>11, <1>12, <1>13, <2>1, <2>3
      <3>2. k \in Nat /\ (old % 4) + k <= 3
        BY <1>7, <3>1
      <3> HIDE DEF k
      <3>3. (old + k) % 4 = from + k
        BY <1>1, <1>7, <3>2, Lanes4
      <3>4. n[i] = [at |-> start + i - 1, octet |-> w[from + k]]
        BY <1>10, <3>1
      <3>5. Octet4(i) = from + k
        BY <3>1, <3>3 DEF Octet4
      <3>6. w[Octet4(i)] = a.buf[i - 1]
        <4>1. i \in old - start + 1 .. done
          BY <1>1, <2>1, <2>3
        <4> QED
          BY <1>4, <4>1
      <3> QED
        BY <3>4, <3>5, <3>6 DEF Place, start
    <2> QED
      BY <2>1, <2>2, <2>3, Zenon
  <1>15. Len(n) = done
    BY <1>1, <1>7, <1>8, <1>11, <1>12, <1>13
  <1> QED
    BY <1>12, <1>14, <1>15 DEF Copied, Match, start, done

LEMMA DrainShapes ==
  ASSUME Alone, AInv, Shape, Drain
  PROVE  Shape'
  <1> DEFINE a == acc["main"]
             m == moved["main"]
             n == moved'["main"]
             f == fifo["write"]
             words == Tail(f.words)
             octets == Head(f.words)
             g == [Moved(f) EXCEPT !.words = words]
             count == To(f) - From(f) + 1
  <1>1. f.state = "run" /\ f.words # <<>>
    BY DEF Drain
  <1>2. /\ a \in AccRecords /\ PlaceOK(a) /\ m \in Seq(Entries) /\ f \in FifoRecords
        /\ RegisterShape(a, csr, fifo, m) /\ RAMShape(a, fifo, m)
        /\ fifo \in [Ops -> FifoRecords]
    BY ShapeFacts, FifosTyped
  <1>3. f.words \in Seq(Register)
    BY <1>2, FifoFields
  <1>4. words \in Seq(Register) /\ octets \in Register /\ octets = f.words[1]
    BY <1>1, <1>3, HeadTailProperties
  <1>5. octets \in [Lanes -> Cells]
    BY <1>4 DEF Register, Cells
  <1>6. Moved(f).words = f.words
    BY <1>2 DEF Moved, FifoRecords
  <1>7. /\ fifo' = [fifo EXCEPT !["write"] = g] /\ acc' = acc /\ csr' = csr
        /\ Log(f.by, f.next, octets, From(f), To(f))
    BY <1>6, Zenon DEF Drain
  <1>8. Extent(a, f) /\ Held(a, f, m) /\ Quiet(fifo["read"])
        /\ (\/ a.pc = "csr" /\ a.event /\ a.op = "write"
            \/ a.pc \in {"avail", "word"} /\ a.op = "write" /\ Aligned(a))
    <2>1. CASE a.pc \in RAMPCs
      <3>1. Quiet(fifo[Other(a.op)]) /\ Aligned(a) /\ a.op \in Ops
        BY <2>1, RAMFacts
      <3>2. a.op = "write" /\ Quiet(fifo["read"])
        BY <1>1, <3>1 DEF Other, Quiet
      <3>3. a.pc \in {"avail", "word"}
        BY <1>1, <1>2, <2>1, <3>2 DEF RAMShape, RAMPCs
      <3>4. Writing(a, f, m)
        BY <1>2, <2>1, <3>2, <3>3 DEF RAMShape
      <3> QED
        BY <1>1, <3>1, <3>2, <3>3, <3>4 DEF Writing
    <2>2. CASE a.pc \notin RAMPCs
      <3>1. a.pc \in RegisterPCs \union {"idle"}
        BY <1>2, <2>2 DEF AccRecords, PCs, RegisterPCs, RAMPCs
      <3>2. ~Calm(fifo)
        BY <1>1 DEF Calm, Quiet
      <3> QED
        BY <1>2, <3>1, <3>2 DEF RegisterShape, RegisterPCs
    <2> QED
      BY <2>1, <2>2
  <1>9. f.next < f.end
    BY <1>1, <1>8 DEF Extent
  <1>10. f.by = "main"
    BY <1>2, FifoFields, OneCaller
  <1> HIDE DEF words, octets, g
  <1>11. /\ g.words = words /\ g.end = f.end /\ g.next = f.next + count
         /\ g.state = IF g.next = f.end THEN "idle" ELSE f.state
         /\ Extended(m, n, f.next, octets, From(f), count)
    BY <1>4, <1>5, <1>7, <1>9, <1>10, WordMoves, Zenon DEF g
  <1>12. words = <<>>
    <2>1. Len(f.words) = 1
      BY <1>8 DEF Held
    <2>2. words \in Seq(Register) /\ Len(words) = 0
      BY <1>1, <1>3, <2>1, HeadTailProperties DEF words
    <2> QED
      BY <2>2, EmptySeq
  <1>13. g.next = a.start + a.done /\ Copied(a, n, a.done)
    <2> HIDE DEF a, f, m, n
    <2>1. Extended(m, n, f.next, f.words[1], From(f), count)
      BY <1>4, <1>11
    <2> QED
      BY <1>1, <1>2, <1>8, <1>11, <2>1, DrainWrites
  <1>14. Extent(a, g)
    BY <1>1, <1>2, <1>8, <1>11, <1>13 DEF Extent, AccRecords, PlaceOK
  <1>15. fifo'["write"] = g /\ fifo'["read"] = fifo["read"]
    BY <1>2, <1>7
  <1>16. CASE a.pc = "csr" /\ a.event /\ a.op = "write"
    <2>1. a.done = a.len
      BY <1>2, <1>16 DEF PlaceOK, RegisterPCs
    <2>2. Quiet(g)
      BY <1>2, <1>11, <1>12, <1>13, <1>14, <2>1 DEF Extent, Quiet, AccRecords
    <2>3. Calm(fifo')
      BY <1>8, <1>15, <2>2 DEF Calm
    <2>4. ~csr.busy
      BY <1>2, <1>16 DEF RegisterShape
    <2>5. RegisterShape(a, csr', fifo', n)
      BY <1>7, <1>13, <1>16, <2>3, <2>4 DEF RegisterShape
    <2>6. RAMShape(a, fifo', n)
      BY <1>16 DEF RAMShape, RAMPCs
    <2> QED
      BY <1>7, <2>5, <2>6, ShapeFrom
  <1>17. CASE a.pc \in {"avail", "word"} /\ a.op = "write" /\ Aligned(a)
    <2>1. a.pc \in RAMPCs
      BY <1>17 DEF RAMPCs
    <2>2. ~csr.busy
      BY <2>1, RAMFacts
    <2>3. g.by = "main"
      BY <1>2, <1>4, <1>10, <1>9, <1>5, <1>7, WordMoves, Zenon DEF g
    <2>4. Writing(a, g, n)
      BY <1>11, <1>12, <1>13, <1>14 DEF Writing
    <2>5. RegisterShape(a, csr', fifo', n)
      BY <1>7, <2>1, <2>2, NotAtRegister
    <2>6. RAMShape(a, fifo', n)
      BY <1>8, <1>15, <1>17, <2>3, <2>4 DEF RAMShape, Other
    <2> QED
      BY <1>7, <2>5, <2>6, ShapeFrom
  <1> QED
    BY <1>8, <1>16, <1>17

\* The octets of the next word of an access: up to the next multiple of four, or to
\* its end.
LEMMA PartEnds ==
  ASSUME NEW a \in AccRecords, a.done < a.len, Aligned(a)
  PROVE  LET p == a.start + a.done
         IN  /\ Lane(a) = p % 4 /\ Lane(a) \in Lanes /\ Part(a) \in 1 .. 4
             /\ Lane(a) + Part(a) <= 4 /\ a.done + Part(a) <= a.len
             /\ p + Part(a) = Least(4 * (p \div 4) + 4, a.start + a.len)
  <1> DEFINE p == a.start + a.done
  <1>1. a.start \in Nat /\ a.done \in Nat /\ a.len \in Nat /\ p \in Nat
    BY DEF AccRecords
  <1>2. Lane(a) = p % 4
    BY <1>1 DEF Lane, Aligned
  <1>3. /\ Lane(a) \in Lanes /\ Part(a) \in 1 .. 4 /\ a.done + Part(a) <= a.len
        /\ Lane(a) + Part(a) <= 4
    BY PartType
  <1>4. Part(a) = IF 4 - Lane(a) < a.len - a.done THEN 4 - Lane(a) ELSE a.len - a.done
    BY DEF Part, Least
  <1>5. p \div 4 \in Nat /\ p = 4 * (p \div 4) + Lane(a)
    BY <1>1, <1>2, WordOf
  <1>6. p + Part(a) = IF 4 * (p \div 4) + 4 < a.start + a.len THEN 4 * (p \div 4) + 4
                      ELSE a.start + a.len
    <2> DEFINE q == p \div 4
    <2>1. q \in Nat /\ a.start + a.done = 4 * q + Lane(a)
      BY <1>5
    <2> HIDE DEF q
    <2>2. a.start + a.done + Part(a) = IF 4 * q + 4 < a.start + a.len THEN 4 * q + 4
                                       ELSE a.start + a.len
      BY <1>1, <1>3, <1>4, <2>1
    <2> QED
      BY <2>2 DEF q
  <1> QED
    BY <1>2, <1>3, <1>6 DEF Least

\* A word is read: its octets are those of the buffer, and the words left those of the
\* octets left.
LEMMA WordRead ==
  ASSUME NEW a \in AccRecords, a.done < a.len, Aligned(a), NEW f \in FifoRecords,
         f.next <= f.end,
         NEW m \in Seq(Entries), Reading(a, f, m), f.words # <<>>,
         NEW b, b.start = a.start, b.len = a.len, b.done = a.done + Part(a),
         \A i \in 0 .. a.done - 1 : b.buf[i] = a.buf[i],
         \A i \in 0 .. Part(a) - 1 : b.buf[a.done + i] = f.words[1][Lane(a) + i],
         NEW g, g.words = Tail(f.words), g.next = f.next, g.end = f.end, g.state = f.state
  PROVE  /\ b.done = b.len => Copied(b, m, b.done) /\ Quiet(g)
         /\ b.done # b.len => Reading(b, g, m) /\ Aligned(b)
  <1> DEFINE start == a.start
             done == a.done
             len == a.len
             p == start + done
             q == p \div 4
             words == f.words
             l == Len(words)
             next == f.next
             end == f.end
             lane == Lane(a)
             part == Part(a)
             last == p + part
             Word(i) == (start + i - 1) \div 4
             Octet4(i) == (start + i - 1) % 4
  <1>1. /\ start \in Nat /\ done \in Nat /\ len \in Nat /\ p \in Nat
        /\ next \in Nat /\ end \in Nat /\ words \in Seq(Register) /\ l \in Nat
    BY FifoFields DEF AccRecords
  <1>2. p = start + done /\ last = p + part /\ done < len /\ next <= end
    OBVIOUS
  <1>3. Extent(a, f) /\ Len(m) = next - start /\ Match(a, m, done)
    BY DEF Reading
  <1>4. /\ l > 0 => p < next
        /\ l > 0 => 4 * (q + l - 1) < next /\ next <= 4 * (q + l)
        /\ l > 0 /\ next # end => next = 4 * (q + l)
    BY DEF Reading
  <1>5. \A i \in done + 1 .. next - start :
          m[i] = Place(a, i, words[Word(i) - q + 1][Octet4(i)])
    BY DEF Reading
  <1>6. /\ end = start + len /\ next >= start
        /\ f.state = IF next < end THEN "run" ELSE "idle"
    BY <1>3 DEF Extent
  <1>7. /\ lane = p % 4 /\ lane \in Lanes /\ part \in 1 .. 4 /\ lane + part <= 4
        /\ done + part <= len
    BY PartEnds
  <1>8. last = Least(4 * q + 4, start + len)
    BY PartEnds
  <1>9. q \in Nat /\ 4 * q <= p /\ p < 4 * q + 4
    BY <1>1, WordOf
  <1>10. l > 0
    BY <1>1, EmptySeq
  <1>11. b.start = start /\ b.len = len /\ b.done = done + part
    OBVIOUS
  <1>12. /\ \A i \in 0 .. done - 1 : b.buf[i] = a.buf[i]
         /\ \A i \in 0 .. part - 1 : b.buf[done + i] = words[1][lane + i]
    OBVIOUS
  <1>13. /\ Tail(words) \in Seq(Register) /\ Len(Tail(words)) = l - 1
         /\ \A j \in 1 .. l - 1 : Tail(words)[j] = words[j + 1]
    BY <1>1, HeadTailProperties
  <1>14. g.words = Tail(words) /\ g.next = next /\ g.end = end /\ g.state = f.state
    OBVIOUS
  <1> HIDE DEF q, l, next, words, start, done, end, p, len, lane, part, last, Word, Octet4
  <1>15. last = IF 4 * q + 4 < end THEN 4 * q + 4 ELSE end
    BY <1>6, <1>8 DEF Least
  <1>16. p < last /\ last <= next /\ last <= end /\ last \in Nat
    BY <1>1, <1>2, <1>4, <1>7, <1>9, <1>10, <1>15
  <1>17. \A i \in 1 .. b.done : m[i] = Place(b, i, b.buf[i - 1])
    <2> SUFFICES ASSUME NEW i \in 1 .. b.done PROVE m[i] = Place(b, i, b.buf[i - 1])
      OBVIOUS
    <2>1. i \in Nat /\ 1 <= i /\ i <= done + part /\ (i <= done \/ i > done)
      BY <1>1, <1>7, <1>11
    <2>2. CASE i <= done
      <3>1. i \in 1 .. done /\ i - 1 \in 0 .. done - 1
        BY <1>1, <2>1, <2>2
      <3> QED
        BY <1>3, <1>11, <1>12, <3>1 DEF Match, Place, start
    <2>3. CASE i > done
      <3> DEFINE k == i - 1 - done
      <3>1. /\ k \in 0 .. part - 1 /\ i - 1 = done + k /\ start + i - 1 = p + k
            /\ i \in done + 1 .. next - start
        BY <1>1, <1>2, <1>7, <1>16, <2>1, <2>3
      <3>2. k \in Nat /\ (p % 4) + k <= 3
        BY <1>7, <3>1
      <3> HIDE DEF k
      <3>3. (p + k) \div 4 = q /\ (p + k) % 4 = lane + k
        BY <1>1, <1>7, <3>2, Lanes4 DEF q
      <3>4. Word(i) = q /\ Octet4(i) = lane + k
        BY <3>1, <3>3 DEF Word, Octet4
      <3>5. Word(i) - q + 1 = 1
        BY <1>9, <3>4
      <3>6. m[i] = Place(a, i, words[1][lane + k])
        BY <1>5, <3>1, <3>4, <3>5
      <3>7. b.buf[i - 1] = words[1][lane + k]
        BY <1>12, <3>1
      <3> QED
        BY <1>11, <3>6, <3>7 DEF Place, start
    <2> QED
      BY <2>1, <2>2, <2>3
  <1>18. ASSUME b.done = b.len
         PROVE  Copied(b, m, b.done) /\ Quiet(g)
    <2>1. last = end /\ next = end
      BY <1>1, <1>2, <1>6, <1>7, <1>11, <1>16, <1>18
    <2>2. Len(m) = b.done
      BY <1>1, <1>2, <1>3, <1>6, <1>11, <1>18, <2>1
    <2>3. g.state = "idle"
      BY <1>1, <1>6, <1>14, <2>1
    <2>4. l = 1
      BY <1>1, <1>4, <1>9, <1>10, <1>15, <2>1
    <2>5. g.words = <<>>
      <3>1. Tail(words) \in Seq(Register) /\ Len(Tail(words)) = l - 1 /\ l - 1 = 0
        BY <1>13, <2>4
      <3>2. g.words \in Seq(Register) /\ Len(g.words) = 0
        BY <1>14, <3>1, Zenon
      <3> QED
        BY <3>2, EmptySeq
    <2> QED
      BY <1>17, <2>2, <2>3, <2>5 DEF Copied, Match, Quiet
  <1>19. ASSUME b.done # b.len
         PROVE  Reading(b, g, m) /\ Aligned(b)
    <2>1. last < end /\ last = 4 * (q + 1)
      BY <1>1, <1>2, <1>6, <1>7, <1>9, <1>11, <1>15, <1>19
    <2>2. b.start + b.done = 4 * (q + 1) /\ q + 1 \in Nat
      BY <1>1, <1>2, <1>7, <1>9, <1>11, <2>1
    <2>3. (b.start + b.done) \div 4 = q + 1 /\ Aligned(b)
      BY <2>2, WordStart DEF Aligned
    <2>4. Extent(b, g)
      BY <1>3, <1>11, <1>14 DEF Extent, start, len, next, end
    <2>5. Len(m) = g.next - b.start /\ Match(b, m, b.done)
      BY <1>3, <1>11, <1>14, <1>17 DEF Match
    <2>6. Len(g.words) = l - 1
      BY <1>13, <1>14
    <2>7. l - 1 = 0 => g.next = b.start + b.done
      BY <1>1, <1>4, <1>9, <1>10, <1>14, <1>16, <2>1, <2>2
    <2>8. l - 1 > 0 => b.start + b.done < g.next
      BY <1>1, <1>4, <1>9, <1>10, <1>14, <2>2
    <2>9. l - 1 > 0 => /\ 4 * ((q + 1) + (l - 1) - 1) < g.next
                       /\ g.next <= 4 * ((q + 1) + (l - 1))
                       /\ g.next # g.end => g.next = 4 * ((q + 1) + (l - 1))
      BY <1>1, <1>4, <1>9, <1>10, <1>14
    <2>10. ASSUME NEW i \in b.done + 1 .. g.next - b.start
           PROVE  m[i] = Place(b, i, g.words[Word(i) - (q + 1) + 1][Octet4(i)])
      <3>1. /\ i \in done + 1 .. next - start /\ start + i - 1 \in Nat
            /\ 4 * (q + 1) <= start + i - 1 /\ start + i - 1 < next
        BY <1>1, <1>2, <1>7, <1>11, <1>14, <2>1
      <3>2. q + 1 <= Word(i)
        BY <1>9, <3>1, WordOrder, WordStart DEF Word
      <3>3. start + i - 1 < 4 * (q + l)
        BY <1>1, <1>4, <1>9, <1>10, <3>1
      <3>4. Word(i) - q + 1 \in 1 .. l
        BY <1>1, <1>9, <3>1, <3>2, <3>3, WordIn DEF Word
      <3>5. /\ Word(i) - (q + 1) + 1 \in 1 .. l - 1
            /\ (Word(i) - (q + 1) + 1) + 1 = Word(i) - q + 1
        <4>1. Word(i) \in Nat
          BY <3>1 DEF Word
        <4> QED
          BY <1>1, <1>9, <3>2, <3>4, <4>1
      <3>6. g.words[Word(i) - (q + 1) + 1] = words[Word(i) - q + 1]
        BY <1>13, <1>14, <3>5
      <3>7. m[i] = Place(a, i, words[Word(i) - q + 1][Octet4(i)])
        BY <1>5, <3>1
      <3> QED
        BY <1>11, <3>6, <3>7 DEF Place, start
    <2>11. Len(g.words) = 0 => g.next = b.start + b.done
      BY <2>6, <2>7
    <2>12. Len(g.words) > 0 => /\ b.start + b.done < g.next
                               /\ 4 * ((q + 1) + Len(g.words) - 1) < g.next
                               /\ g.next <= 4 * ((q + 1) + Len(g.words))
                               /\ g.next # g.end => g.next = 4 * ((q + 1) + Len(g.words))
      BY <2>6, <2>8, <2>9
    <2> QED
      BY <1>11, <2>3, <2>4, <2>5, <2>10, <2>11, <2>12 DEF Reading, Word, Octet4, start
  <1> QED
    BY <1>18, <1>19

\* A word is written, and held until the chip takes it.
LEMMA WordWritten ==
  ASSUME NEW a \in AccRecords, a.done < a.len, Aligned(a), NEW f \in FifoRecords,
         NEW m, Extent(a, f), f.next = a.start + a.done, Copied(a, m, a.done),
         NEW b, b.start = a.start, b.len = a.len, b.done = a.done + Part(a), b.buf = a.buf,
         NEW w, \A i \in 0 .. Part(a) - 1 : w[Lane(a) + i] = a.buf[a.done + i],
         NEW g, g.words = <<w>>, g.next = f.next, g.end = f.end, g.state = f.state
  PROVE  /\ Extent(b, g) /\ Held(b, g, m)
         /\ b.done # b.len => Aligned(b)
  <1> DEFINE start == a.start
             done == a.done
             p == start + done
             q == p \div 4
             end == f.end
             lane == Lane(a)
             part == Part(a)
             last == p + part
             Octet4(i) == (start + i - 1) % 4
  <1>1. /\ start \in Nat /\ done \in Nat /\ a.len \in Nat /\ p \in Nat /\ end \in Nat
    BY FifoFields DEF AccRecords
  <1>2. p = start + done /\ last = p + part
    OBVIOUS
  <1>3. end = start + a.len
    BY DEF Extent
  <1>4. /\ lane = p % 4 /\ lane \in Lanes /\ part \in 1 .. 4 /\ lane + part <= 4
        /\ done + part <= a.len
    BY PartEnds
  <1>5. last = Least(4 * q + 4, start + a.len)
    BY PartEnds
  <1>6. q \in Nat /\ 4 * q <= p
    BY <1>1, WordOf
  <1>7. \A i \in 0 .. part - 1 : w[lane + i] = a.buf[done + i]
    OBVIOUS
  <1>8. /\ b.start = start /\ b.len = a.len /\ b.done = done + part /\ b.buf = a.buf
        /\ g.words = <<w>> /\ g.next = p /\ g.end = end /\ g.state = f.state
    OBVIOUS
  <1> HIDE DEF start, done, p, q, end, lane, part, last, Octet4
  <1>9. Extent(b, g)
    BY <1>8 DEF Extent, start, end, p
  <1>10. b.start + b.done = last
    BY <1>1, <1>2, <1>4, <1>8
  <1>11. b.start + b.done = Least(4 * (g.next \div 4) + 4, g.end)
    BY <1>3, <1>5, <1>8, <1>10 DEF q
  <1>12. g.next < b.start + b.done
    BY <1>1, <1>2, <1>4, <1>8, <1>10
  <1>13. Copied(b, m, g.next - b.start)
    <2>1. g.next - b.start = done
      BY <1>1, <1>2, <1>8
    <2>2. Copied(a, m, done)
      BY DEF done
    <2> QED
      BY <1>8, <2>1, <2>2, SameOctets DEF start
  <1>14. ASSUME NEW i \in g.next - b.start + 1 .. b.done
         PROVE  g.words[1][Octet4(i)] = b.buf[i - 1]
    <2> DEFINE k == i - 1 - done
    <2>1. /\ k \in 0 .. part - 1 /\ i - 1 = done + k /\ start + i - 1 = p + k
      BY <1>1, <1>2, <1>4, <1>8
    <2>2. k \in Nat /\ (p % 4) + k <= 3
      BY <1>4, <2>1
    <2> HIDE DEF k
    <2>3. (p + k) % 4 = lane + k
      BY <1>1, <1>4, <2>2, Lanes4
    <2>4. Octet4(i) = lane + k
      BY <2>1, <2>3 DEF Octet4
    <2>5. g.words[1] = w
      BY <1>8
    <2> QED
      BY <1>7, <1>8, <2>1, <2>4, <2>5
  <1>15. ASSUME b.done # b.len PROVE Aligned(b)
    <2>1. last = IF 4 * q + 4 < end THEN 4 * q + 4 ELSE end
      BY <1>3, <1>5 DEF Least
    <2>2. last = 4 * (q + 1) /\ q + 1 \in Nat
      BY <1>1, <1>2, <1>3, <1>4, <1>6, <1>8, <1>15, <2>1
    <2> QED
      BY <1>10, <2>2, WordStart DEF Aligned
  <1>16. Held(b, g, m)
    <2>1. Len(g.words) = 1
      BY <1>8
    <2> QED
      BY <1>8, <1>11, <1>12, <1>13, <1>14, <2>1 DEF Held, Octet4, start
  <1> QED
    BY <1>9, <1>15, <1>16

LEMMA ReadWordShapes ==
  ASSUME Alone, AInv, Shape, ~Pending, ReadWord("main")
  PROVE  Shape'
  <1> DEFINE a == acc["main"]
             m == moved["main"]
             f == fifo["read"]
             q == f.words
             w == IF q = <<>> THEN [i \in Lanes |-> Unset] ELSE Head(q)
             n == IF a.done = 0 THEN Part(a) ELSE 4
             buf == [i \in DOMAIN a.buf |->
                       IF i \in a.done .. a.done + n - 1 THEN w[Lane(a) + i - a.done]
                       ELSE a.buf[i]]
             c == [a EXCEPT !.buf = buf]
             b == Advance(c, Part(a))
             rest == IF q = <<>> THEN q ELSE Tail(q)
             g == [f EXCEPT !.words = rest]
  <1>1. a.pc = "word" /\ a.pc \in RAMPCs /\ a.op = "read"
    BY DEF ReadWord, At, RAMPCs
  <1>2. /\ a \in AccRecords /\ ~csr.busy /\ f \in FifoRecords /\ a.done < a.len
        /\ fifo \in [Ops -> FifoRecords] /\ Quiet(fifo["write"]) /\ Aligned(a)
        /\ RAMShape(a, fifo, m) /\ m \in Seq(Entries) /\ PlaceOK(a) /\ a.start >= PRAM
        /\ f.next <= f.end
    BY <1>1, RAMFacts, ShapeFacts, FifosTyped DEF Other
  <1>3. Reading(a, f, m) /\ f.by = "main"
    BY <1>1, <1>2 DEF RAMShape
  <1>4. q # <<>>
    <2> SUFFICES ASSUME q = <<>> PROVE FALSE
      OBVIOUS
    <2>1. Len(q) = 0
      OBVIOUS
    <2>2. f.next = a.start + a.done /\ Extent(a, f)
      BY <1>3, <2>1 DEF Reading
    <2>3. f.state = "run"
      BY <1>2, <2>2 DEF Extent, AccRecords
    <2> QED
      BY <2>1, <2>3 DEF Pending
  <1>5. q \in Seq(Register)
    BY <1>2, FifoFields
  <1>6. w = q[1] /\ rest = Tail(q)
    BY <1>4, <1>5
  <1>7. /\ acc'["main"] = b /\ moved'["main"] = m /\ csr' = csr
        /\ fifo' = [fifo EXCEPT !["read"] = g]
    BY FifosTyped DEF ReadWord, AInv, Types
  <1>8. /\ a.done \in Nat /\ a.len \in 0 .. MaxLen /\ a.buf \in Buffer /\ a.start \in Nat
        /\ Lane(a) \in Lanes /\ Part(a) \in 1 .. 4 /\ a.done + Part(a) <= a.len
        /\ Lane(a) + Part(a) <= 4 /\ (a.done # 0 => Lane(a) = 0)
    BY <1>2, PartType DEF Lane, AccRecords
  <1>9. n \in Part(a) .. 4
    BY <1>8
  <1>10. w \in Register
    BY <1>4, <1>5, <1>6
  <1> HIDE DEF w, n, rest
  <1>11. /\ buf \in Buffer
         /\ \A i \in 0 .. a.done - 1 : buf[i] = a.buf[i]
         /\ \A i \in 0 .. Part(a) - 1 : buf[a.done + i] = w[Lane(a) + i]
    <2> HIDE DEF a, f, q
    <2>1. \A i \in a.done .. a.done + n - 1 : Lane(a) + i - a.done \in Lanes
      <3>1. Lane(a) + n <= 4
        BY <1>8, <1>9 DEF n
      <3> QED
        BY <1>8, <1>9, <3>1
    <2>2. \A i \in a.done .. a.done + n - 1 : w[Lane(a) + i - a.done] \in Cells
      BY <1>10, <2>1 DEF Register, Cells
    <2>3. DOMAIN a.buf = 0 .. MaxLen + 2
      BY <1>8 DEF Buffer
    <2>4. buf \in Buffer
      BY <1>8, <2>2 DEF Buffer, Cells
    <2>5. \A i \in 0 .. a.done - 1 : i \in 0 .. MaxLen + 2 /\ i \notin a.done .. a.done + n - 1
      BY <1>8
    <2>6. \A i \in 0 .. a.done - 1 : buf[i] = a.buf[i]
      BY <2>3, <2>5
    <2>7. ASSUME NEW i \in 0 .. Part(a) - 1
          PROVE  buf[a.done + i] = w[Lane(a) + i]
      <3>1. /\ a.done + i \in 0 .. MaxLen + 2 /\ a.done + i \in a.done .. a.done + n - 1
            /\ Lane(a) + (a.done + i) - a.done = Lane(a) + i
        BY <1>8, <1>9
      <3> QED
        BY <2>3, <3>1
    <2> QED
      BY <2>4, <2>6, <2>7
  <1> HIDE DEF buf
  <1>12. /\ c \in AccRecords /\ c.buf = buf /\ c.start = a.start /\ c.done = a.done
         /\ c.len = a.len /\ c.op = a.op
    BY <1>2, <1>11 DEF AccRecords
  <1> HIDE DEF c
  <1>13. /\ b.start = a.start /\ b.buf = buf /\ b.len = a.len /\ b.op = a.op
         /\ b.done = a.done + Part(a)
         /\ b.pc = IF a.start < PRAM \/ a.done + Part(a) = a.len THEN "csr" ELSE "word"
         /\ b.event <=> a.done + Part(a) = a.len
    <2>1. Part(a) \in Nat /\ c.done + Part(a) <= c.len
      BY <1>8, <1>12
    <2> QED
      BY <1>12, <2>1, AdvanceFields
  <1>14. ~(a.start < PRAM)
    BY <1>2, <1>8
  <1>15. g.words = Tail(q) /\ g.next = f.next /\ g.end = f.end /\ g.state = f.state
         /\ g.by = f.by
    BY <1>2, <1>6 DEF FifoRecords
  <1> HIDE DEF b, g
  <1>16. fifo'["read"] = g /\ fifo'["write"] = fifo["write"]
    BY <1>2, <1>7
  <1>17. /\ b.done = b.len => Copied(b, m, b.done) /\ Quiet(g)
         /\ b.done # b.len => Reading(b, g, m) /\ Aligned(b)
    <2> HIDE DEF a, f, m
    <2>1. /\ \A i \in 0 .. a.done - 1 : b.buf[i] = a.buf[i]
          /\ \A i \in 0 .. Part(a) - 1 : b.buf[a.done + i] = f.words[1][Lane(a) + i]
      BY <1>6, <1>11, <1>13
    <2> QED
      BY <1>2, <1>3, <1>4, <1>13, <1>15, <2>1, WordRead
  <1>18. CASE b.done = b.len
    <2>1. b.pc = "csr"
      BY <1>13, <1>18
    <2>2. Calm(fifo')
      BY <1>2, <1>16, <1>17, <1>18 DEF Calm
    <2>3. RegisterShape(b, csr', fifo', m)
      BY <1>2, <1>7, <1>17, <1>18, <2>1, <2>2 DEF RegisterShape
    <2>4. RAMShape(b, fifo', m)
      BY <2>1 DEF RAMShape, RAMPCs
    <2> QED
      BY <1>7, <2>3, <2>4, ShapeFrom
  <1>19. CASE b.done # b.len
    <2>1. b.pc = "word" /\ b.pc \in RAMPCs
      BY <1>13, <1>14, <1>19 DEF RAMPCs
    <2>2. RegisterShape(b, csr', fifo', m)
      BY <1>2, <1>7, <2>1, NotAtRegister
    <2>3. RAMShape(b, fifo', m)
      BY <1>1, <1>2, <1>3, <1>13, <1>15, <1>16, <1>17, <1>19, <2>1 DEF RAMShape, Other
    <2> QED
      BY <1>7, <2>2, <2>3, ShapeFrom
  <1> QED
    BY <1>18, <1>19

LEMMA WriteWordShapes ==
  ASSUME Alone, AInv, Shape, ~Pending, WriteWord("main")
  PROVE  Shape'
  <1> DEFINE a == acc["main"]
             m == moved["main"]
             f == fifo["write"]
             q == f.words
             w == [i \in Lanes |-> IF i \in Lane(a) .. Lane(a) + Part(a) - 1
                                   THEN a.buf[a.done + i - Lane(a)] ELSE Unset]
             b == Advance(a, Part(a))
             more == IF Len(q) < Depth THEN Append(q, w) ELSE q
             g == [f EXCEPT !.words = more]
  <1>1. a.pc = "word" /\ a.pc \in RAMPCs /\ a.op = "write"
    BY DEF WriteWord, At, RAMPCs
  <1>2. /\ a \in AccRecords /\ ~csr.busy /\ f \in FifoRecords /\ a.done < a.len
        /\ fifo \in [Ops -> FifoRecords] /\ Quiet(fifo["read"]) /\ Aligned(a)
        /\ RAMShape(a, fifo, m) /\ PlaceOK(a) /\ a.start >= PRAM
    BY <1>1, RAMFacts, ShapeFacts, FifosTyped DEF Other
  <1>3. Writing(a, f, m) /\ f.by = "main"
    BY <1>1, <1>2 DEF RAMShape
  <1>4. /\ a.done \in Nat /\ a.len \in 0 .. MaxLen /\ a.start \in Nat
        /\ Lane(a) \in Lanes /\ Part(a) \in 1 .. 4 /\ a.done + Part(a) <= a.len
        /\ Lane(a) + Part(a) <= 4
    BY <1>2, PartType DEF AccRecords
  <1>5. q = <<>> /\ f.next = a.start + a.done /\ Copied(a, m, a.done) /\ Extent(a, f)
    <2> SUFFICES ASSUME Held(a, f, m), Extent(a, f) PROVE FALSE
      BY <1>3 DEF Writing
    <2>1. f.next < f.end /\ Len(q) = 1
      BY <1>2, <1>4, FifoFields DEF Held, Extent
    <2>2. f.state = "run"
      BY <2>1 DEF Extent
    <2>3. q # <<>>
      <3>1. Len(<<>>) # 1
        OBVIOUS
      <3> HIDE DEF q
      <3> QED
        BY <2>1, <3>1, Zenon
    <2> QED
      BY <2>2, <2>3 DEF Pending
  <1>6. /\ acc'["main"] = b /\ moved'["main"] = m /\ csr' = csr
        /\ fifo' = [fifo EXCEPT !["write"] = g]
    BY FifosTyped DEF WriteWord, AInv, Types
  <1>7. \A i \in 0 .. Part(a) - 1 : w[Lane(a) + i] = a.buf[a.done + i]
    <2> SUFFICES ASSUME NEW i \in 0 .. Part(a) - 1
                 PROVE  w[Lane(a) + i] = a.buf[a.done + i]
      OBVIOUS
    <2>1. /\ Lane(a) + i \in Lanes /\ Lane(a) + i \in Lane(a) .. Lane(a) + Part(a) - 1
          /\ a.done + (Lane(a) + i) - Lane(a) = a.done + i
      BY <1>4
    <2> QED
      BY <2>1
  <1> HIDE DEF w
  <1>8. more = <<w>>
    <2>1. Len(q) = 0 /\ 0 < Depth
      BY <1>5
    <2> QED
      BY <1>5, <2>1
  <1>9. /\ b.start = a.start /\ b.buf = a.buf /\ b.len = a.len /\ b.op = a.op
        /\ b.done = a.done + Part(a)
        /\ b.pc = IF a.start < PRAM \/ a.done + Part(a) = a.len THEN "csr" ELSE "word"
        /\ b.event <=> a.done + Part(a) = a.len
    <2>1. Part(a) \in Nat
      BY <1>4
    <2> QED
      BY <1>2, <1>4, <2>1, AdvanceFields
  <1>10. ~(a.start < PRAM)
    BY <1>2, <1>4
  <1> HIDE DEF more
  <1>11. /\ g.words = <<w>> /\ g.next = f.next /\ g.end = f.end /\ g.state = f.state
         /\ g.by = f.by
    BY <1>2, <1>8 DEF FifoRecords
  <1> HIDE DEF b, g
  <1>12. fifo'["write"] = g /\ fifo'["read"] = fifo["read"]
    BY <1>2, <1>6
  <1>13. /\ Extent(b, g) /\ Held(b, g, m)
         /\ b.done # b.len => Aligned(b)
    <2> HIDE DEF a, f, m
    <2> QED
      BY <1>2, <1>5, <1>7, <1>9, <1>11, WordWritten
  <1>14. CASE b.done = b.len
    <2>1. b.pc = "csr" /\ b.event
      BY <1>9, <1>14
    <2>2. RegisterShape(b, csr', fifo', m)
      BY <1>1, <1>2, <1>6, <1>9, <1>12, <1>13, <2>1 DEF RegisterShape
    <2>3. RAMShape(b, fifo', m)
      BY <2>1 DEF RAMShape, RAMPCs
    <2> QED
      BY <1>6, <2>2, <2>3, ShapeFrom
  <1>15. CASE b.done # b.len
    <2>1. b.pc = "word" /\ b.pc \in RAMPCs
      BY <1>9, <1>10, <1>15 DEF RAMPCs
    <2>2. RegisterShape(b, csr', fifo', m)
      BY <1>2, <1>6, <2>1, NotAtRegister
    <2>3. Writing(b, g, m)
      BY <1>13 DEF Writing
    <2>4. RAMShape(b, fifo', m)
      BY <1>1, <1>2, <1>3, <1>9, <1>11, <1>12, <1>13, <1>15, <2>1, <2>3 DEF RAMShape, Other
    <2> QED
      BY <1>6, <2>2, <2>4, ShapeFrom
  <1> QED
    BY <1>14, <1>15

---------------------------------------------------------------------------
LEMMA InitShape == Alone /\ AccessInit => Shape
  <1> SUFFICES ASSUME Alone, AccessInit PROVE Shape
    OBVIOUS
  <1>1. acc["main"] = Idle /\ moved["main"] = <<>> /\ ~csr.busy
    BY OneCaller DEF AccessInit
  <1>2. Calm(fifo)
    BY DEF AccessInit, Calm, Quiet
  <1>3. Idle.pc = "idle" /\ Idle.len = 0
    BY DEF Idle
  <1>4. Copied(Idle, <<>>, 0)
    BY DEF Copied, Match
  <1>5. RegisterShape(Idle, csr, fifo, <<>>)
    BY <1>1, <1>2, <1>3, <1>4 DEF RegisterShape
  <1>6. RAMShape(Idle, fifo, <<>>)
    BY <1>3 DEF RAMShape, RAMPCs
  <1> QED
    BY <1>1, <1>5, <1>6 DEF Shape

LEMMA AccessShapes ==
  ASSUME Alone, AInv, Shape, Access("main")
  PROVE  Shape'
  <1>1. ~Pending
    BY DEF Access, Alone
  <1>2. CASE LoadData("main")
    BY <1>2, LoadDataShapes
  <1>3. CASE Command("main")
    BY <1>1, <1>3, CommandShapes
  <1>4. CASE PollCSR("main")
    BY <1>4, PollCSRShapes
  <1>5. CASE FetchData("main")
    BY <1>5, FetchDataShapes
  <1>6. CASE FetchEvent("main")
    BY <1>6, FetchEventShapes
  <1>7. CASE Abort("main")
    BY <1>7, AbortShapes
  <1>8. CASE SetUp("main")
    BY <1>8, SetUpShapes
  <1>9. CASE Start("main")
    BY <1>9, StartShapes
  <1>10. CASE PollAvail("main")
    BY <1>10, PollAvailShapes
  <1>11. CASE ReadWord("main")
    BY <1>1, <1>11, ReadWordShapes
  <1>12. CASE WriteWord("main")
    BY <1>1, <1>12, WriteWordShapes
  <1> QED
    BY <1>2, <1>3, <1>4, <1>5, <1>6, <1>7, <1>8, <1>9, <1>10, <1>11, <1>12 DEF Access

LEMMA ShapePreserved == Alone /\ AInv /\ Shape /\ [AccessNext]_accessVars => Shape'
  <1> SUFFICES ASSUME Alone, AInv, Shape, [AccessNext]_accessVars PROVE Shape'
    OBVIOUS
  <1>1. ASSUME NEW octets \in [Lanes -> Octets], GiveRegister(octets) PROVE Shape'
    BY <1>1, GiveRegisterShapes
  <1>2. ASSUME NEW octets \in [Lanes -> Octets], Fill(octets) PROVE Shape'
    BY <1>2, FillShapes
  <1>3. CASE TakeRegister
    BY <1>3, TakeRegisterShapes
  <1>4. CASE Drain
    BY <1>4, DrainShapes
  <1>5. ASSUME NEW op \in Ops, Aborted(op) PROVE Shape'
    BY <1>5, AbortedShapes
  <1>6. CASE AnyCall("main")
    BY <1>6, CallShapes
  <1>7. CASE Access("main")
    BY <1>7, AccessShapes
  <1>8. CASE UNCHANGED accessVars
    <2>1. acc' = acc /\ csr' = csr /\ fifo' = fifo /\ moved' = moved
      BY <1>8 DEF accessVars
    <2> QED
      BY <2>1, Zenon DEF Shape
  <1>9. \A x \in Callers : AnyCall(x) \/ Access(x) => AnyCall("main") \/ Access("main")
    BY OneCaller
  <1> QED
    BY <1>1, <1>2, <1>3, <1>4, <1>5, <1>6, <1>7, <1>8, <1>9 DEF AccessNext, Chip

LEMMA ShapeExact == Alone /\ AInv /\ Shape => TransferExact
  <1> SUFFICES ASSUME Alone, AInv, Shape, NEW x \in Callers, acc[x].event,
                      acc[x].op = "write" => fifo["write"].words = <<>>
               PROVE  moved[x] = [i \in 1 .. acc[x].len |->
                        [at |-> acc[x].start + i - 1, octet |-> acc[x].buf[i - 1]]]
    BY Zenon DEF TransferExact
  <1> DEFINE a == acc["main"]
             m == moved["main"]
  <1>1. x = "main"
    BY OneCaller
  <1>2. /\ a \in AccRecords /\ PlaceOK(a) /\ m \in Seq(Entries)
        /\ RegisterShape(a, csr, fifo, m)
    BY ShapeFacts
  <1>3. a.pc \in {"csr", "poll", "fetch"} /\ a.done = a.len
    <2>1. a.pc \in RegisterPCs
      BY <1>1, <1>2 DEF PlaceOK, AccRecords, PCs, RegisterPCs, RAMPCs
    <2>2. Chunk(a).op = "read"
      BY <1>1, <1>2, <2>1, ChunkLegal
    <2> QED
      BY <1>1, <1>2, <2>1, <2>2 DEF PlaceOK, RegisterPCs
  <1>4. ~(a.op = "write" /\ Held(a, fifo["write"], m))
    <2>1. Len(<<>>) # 1
      OBVIOUS
    <2> QED
      BY <1>1, <2>1, Zenon DEF Held
  <1>5. Copied(a, m, a.len)
    BY <1>1, <1>2, <1>3, <1>4 DEF RegisterShape
  <1>6. /\ Len(m) = a.len
        /\ \A i \in 1 .. a.len : m[i] = [at |-> a.start + i - 1, octet |-> a.buf[i - 1]]
    BY <1>5 DEF Copied, Match, Place
  <1> DEFINE e == [i \in 1 .. a.len |-> [at |-> a.start + i - 1, octet |-> a.buf[i - 1]]]
  <1>7. m = e
    <2> HIDE DEF a, m
    <2>1. m = [i \in 1 .. a.len |-> m[i]]
      BY <1>2, <1>6
    <2> QED
      BY <1>6, <2>1
  <1> QED
    BY <1>1, <1>7

\* The octets ESC_read leaves with its caller are those the chip gave, and those the
\* chip took are those ESC_write was called with, each at its address, once and in order:
\* for every address and length, when no handler makes an access of its own in between
\* and the chip keeps up with the driver (Alone).
THEOREM TransferCorrect == ASSUME Alone PROVE AccessSpec => []TransferExact
  <1>1. AccessInit => AInv /\ Shape
    BY InitHolds, InitShape
  <1>2. (AInv /\ Shape) /\ [AccessNext]_accessVars => (AInv /\ Shape)'
    BY Preserved, ShapePreserved
  <1>3. AInv /\ Shape => TransferExact
    BY ShapeExact
  <1> QED
    BY <1>1, <1>2, <1>3, PTL DEF AccessSpec

---------------------------------------------------------------------------
(***************************************************************************)
(* The invariant: what EEP_process knows at each point of its loop.        *)
(***************************************************************************)
WordAddresses == {addr \in Nat : addr \div 16777216 < 128}
Cmds == 0 .. 4
Memory == [0 .. EEPROMSize - 1 -> Octets]
Interfaces == [busy : BOOLEAN, cmd : Cmds, failed : BOOLEAN, addr : WordAddresses,
               data : [0 .. 7 -> Octets]]

EEPROMTypes ==
  /\ task \in {"access", "check", "status", "answer", "take", "acknowledge"}
  /\ stat \in [cmd : 0 .. 7, addr : Nat]
  /\ ee \in Interfaces
  /\ asked \in [cmd : Cmds, addr : WordAddresses, word : [0 .. 1 -> Octets]]
  /\ eeprom \in Memory /\ written \in Memory

\* While it is busy the interface holds the last command.
Latched ==
  ee.busy => /\ ee.cmd = asked.cmd /\ ee.addr = asked.addr
             /\ asked.cmd = WRITE => \A i \in 0 .. 1 : ee.data[i] = asked.word[i]

\* The access the main loop makes or has just made.
Made(op, start, len) ==
  LET a == acc["main"]
  IN  a.op = op /\ a.start = start /\ a.len = len

\* The command worked on is the one in the interface.
Working == ee.busy /\ stat.cmd = asked.cmd /\ stat.addr = asked.addr

\* A status with the busy bit is followed by the command and the address that are in
\* the interface for as long as it is busy.
StatusRead(m) ==
  /\ \A i \in 1 .. Len(m) : m[i].octet \in Octets
  /\ Len(m) >= 2 /\ Bit(128, m[2].octet) =>
       /\ ee.busy /\ m[2].octet % 8 = ee.cmd
       /\ \A i \in 3 .. Len(m) : m[i].octet = (ee.addr \div Weight[i - 2]) % 256

\* What the acknowledgement of a read or a write without an error stands for.
ReadDone == \A i \in 0 .. READ_SIZE - 1 : ee.data[i] = eeprom[2 * asked.addr + i]
Rewritten ==
  [i \in DOMAIN eeprom |-> IF i \in 2 * asked.addr .. 2 * asked.addr + 1
                           THEN asked.word[i - 2 * asked.addr] ELSE written[i]]

Acknowledging(failed) ==
  /\ ee.busy
  /\ asked.cmd \in {READ, RELOAD} /\ ~failed => ReadDone
  /\ eeprom = IF asked.cmd = WRITE /\ ~failed THEN Rewritten ELSE written

\* The first octets of the data of a read are in place, or those of a write are taken.
InPlace(m) == \A i \in 1 .. Len(m) : ee.data[i - 1] = m[i].octet

Turn ==
  LET a == acc["main"]
      m == moved["main"]
  IN  /\ task = "access" => a.pc = "idle"
      /\ task = "check" /\ a.op = "write" =>
           a.start + a.len <= EECONTSTAT \/ a.start >= EEDATA + 8
      /\ task = "status" => Made("read", EECONTSTAT, 6) /\ StatusRead(m)
      /\ task = "answer" => /\ Made("write", EEDATA, READ_SIZE) /\ Working
                            /\ stat.cmd \in {READ, RELOAD} /\ InPlace(m)
                            /\ 2 * stat.addr + READ_SIZE <= EEPROMSize
                            /\ \A i \in 0 .. READ_SIZE - 1 : a.buf[i] = eeprom[2 * stat.addr + i]
      /\ task = "take" => /\ Made("read", EEDATA, WRITE_SIZE) /\ Working
                          /\ stat.cmd = WRITE /\ InPlace(m)
      /\ task = "acknowledge" => /\ Made("write", EECONTSTAT, 2)
                                 /\ Len(m) < 2 => Acknowledging(Bit(32, a.buf[1]))

\* Between commands the memory is what the acknowledged writes left.
Settled == task # "acknowledge" \/ Len(moved["main"]) >= 2 => eeprom = written

EInv == EEPROMTypes /\ Latched /\ Turn /\ Settled /\ ReadAnswered

LEMMA Registers ==
  /\ EECONTSTAT \in Nat /\ EEDATA \in Nat /\ EECONTSTAT + 6 <= EEDATA
  /\ EEDATA + 8 <= PRAM /\ PRAM <= Top /\ ALEVENT + 2 <= EECONTSTAT
  /\ Octets = 0 .. 255 /\ 8 <= MaxLen /\ EEPROMSize \in Nat
  BY EEPROMAssumption DEF EEPROMAssumption, READ_SIZE

---------------------------------------------------------------------------
(***************************************************************************)
(* What the registers of the interface hold.                               *)
(***************************************************************************)
\* Command, error and busy bit are told apart.
LEMMA StatusOctet ==
  ASSUME NEW cmd \in 0 .. 7, NEW failed \in BOOLEAN, NEW busy \in BOOLEAN
  PROVE  LET octet == cmd + Flag(failed, 32) + Flag(busy, 128)
         IN  /\ octet \in 0 .. 255 /\ octet % 8 = cmd
             /\ Bit(32, octet) <=> failed
             /\ Bit(128, octet) <=> busy
  <1>1. CASE failed /\ busy
    BY <1>1 DEF Flag, Bit
  <1>2. CASE failed /\ ~busy
    BY <1>2 DEF Flag, Bit
  <1>3. CASE ~failed /\ busy
    BY <1>3 DEF Flag, Bit
  <1>4. CASE ~failed /\ ~busy
    BY <1>4 DEF Flag, Bit
  <1> QED
    BY <1>1, <1>2, <1>3, <1>4

LEMMA Weights ==
  /\ Weight[1] = 1 /\ Weight[2] = 256 /\ Weight[3] = 65536 /\ Weight[4] = 16777216
  BY DEF Weight

LEMMA Digit ==
  ASSUME NEW n \in Nat, NEW q \in Nat, 256 * q <= n, n < 256 * q + 256
  PROVE  n % 256 = n - 256 * q
  OBVIOUS

\* The octets of an address make it up again.
LEMMA AddressOctets ==
  ASSUME NEW addr \in WordAddresses
  PROVE  Weight[1] * ((addr \div Weight[1]) % 256) + Weight[2] * ((addr \div Weight[2]) % 256)
         + Weight[3] * ((addr \div Weight[3]) % 256) + Weight[4] * ((addr \div Weight[4]) % 256)
         = addr
  <1>1. addr \in Nat /\ addr \div 16777216 < 128
    BY DEF WordAddresses
  <1> DEFINE a == addr \div 256
             b == addr \div 65536
             c == addr \div 16777216
  <1>2. /\ a \in Nat /\ b \in Nat /\ c \in Nat
        /\ 256 * a <= addr /\ addr < 256 * a + 256
        /\ 65536 * b <= addr /\ addr < 65536 * b + 65536
        /\ 16777216 * c <= addr /\ addr < 16777216 * c + 16777216
    BY <1>1
  <1>7. addr \div 1 = addr
    BY <1>1
  <1>9. c < 128
    BY <1>1
  <1> HIDE DEF a, b, c
  <1>3. addr % 256 = addr - 256 * a
    BY <1>1, <1>2, Digit
  <1>4. a % 256 = a - 256 * b
    <2>1. 256 * b <= a /\ a < 256 * b + 256
      BY <1>1, <1>2
    <2> QED
      BY <1>2, <2>1, Digit
  <1>5. b % 256 = b - 256 * c
    <2>1. 256 * c <= b /\ b < 256 * c + 256
      BY <1>1, <1>2
    <2> QED
      BY <1>2, <2>1, Digit
  <1>6. c % 256 = c
    BY <1>2, <1>9
  <1>8. 1 * (addr % 256) + 256 * (a % 256) + 65536 * (b % 256) + 16777216 * (c % 256) = addr
    BY <1>1, <1>2, <1>3, <1>4, <1>5, <1>6
  <1> QED
    BY <1>7, <1>8, Weights DEF a, b, c

\* The chip's registers hold octets.
LEMMA HoldsTyped ==
  ASSUME EEPROMTypes, NEW a \in Nat
  PROVE  Holds(a) \in Octets
  <1>1. /\ ee.busy \in BOOLEAN /\ ee.failed \in BOOLEAN /\ ee.cmd \in Cmds
        /\ ee.addr \in Nat /\ ee.data \in [0 .. 7 -> Octets] /\ Octets = 0 .. 255
    BY Registers DEF EEPROMTypes, Interfaces, WordAddresses
  <1>2. Flag(ee.busy, 32) \in 0 .. 255
    BY DEF Flag
  <1>3. ee.cmd + Flag(ee.failed, 32) + Flag(ee.busy, 128) \in 0 .. 255
    <2>1. ee.cmd \in 0 .. 7
      BY <1>1 DEF Cmds
    <2> QED
      BY <1>1, <2>1, StatusOctet
  <1>4. ASSUME a \in EECONTSTAT + 2 .. EECONTSTAT + 5
        PROVE  (ee.addr \div Weight[a - EECONTSTAT - 1]) % 256 \in 0 .. 255
    <2>1. a - EECONTSTAT - 1 \in 1 .. 4
      BY <1>4, Registers
    <2>2. Weight[a - EECONTSTAT - 1] \in {1, 256, 65536, 16777216}
      BY <2>1, Weights
    <2>3. ee.addr \div Weight[a - EECONTSTAT - 1] \in Int
      BY <1>1, <2>2
    <2> QED
      BY <2>3
  <1>5. ASSUME a \in EEDATA .. EEDATA + 7
        PROVE  ee.data[a - EEDATA] \in 0 .. 255
    <2>1. a - EEDATA \in 0 .. 7
      BY <1>5, Registers
    <2> QED
      BY <1>1, <2>1
  <1>6. a % 256 \in 0 .. 255 /\ 0 \in 0 .. 255
    OBVIOUS
  <1> QED
    BY <1>1, <1>2, <1>3, <1>4, <1>5, <1>6, Zenon DEF Holds

---------------------------------------------------------------------------
(***************************************************************************)
(* What the steps of an access do to what the invariant speaks of.         *)
(***************************************************************************)
\* At its end an access has transferred the octets of its buffer.
LEMMA AtIdle ==
  ASSUME AInv, Shape, acc["main"].pc = "idle"
  PROVE  LET a == acc["main"]
             m == moved["main"]
         IN  /\ Len(m) = a.len /\ a.len \in Nat /\ a.buf \in Buffer
             /\ \A i \in 1 .. a.len : m[i].octet = a.buf[i - 1]
  <1> DEFINE a == acc["main"]
             m == moved["main"]
  <1>1. a \in AccRecords /\ Copied(a, m, a.len)
    BY ShapeFacts DEF RegisterShape
  <1>2. Len(m) = a.len /\ \A i \in 1 .. a.len : m[i] = Place(a, i, a.buf[i - 1])
    BY <1>1 DEF Copied, Match
  <1>3. a.len \in Nat /\ a.buf \in Buffer
    BY <1>1 DEF AccRecords
  <1>4. ASSUME NEW i \in 1 .. a.len PROVE m[i].octet = a.buf[i - 1]
    <2>1. m[i] = Place(a, i, a.buf[i - 1])
      BY <1>2
    <2> QED
      BY <2>1 DEF Place
  <1> QED
    BY <1>2, <1>3, <1>4

\* Advance changes neither the call nor the buffer.
LEMMA AdvanceCalls ==
  ASSUME NEW a \in AccRecords, NEW n
  PROVE  LET b == Advance(a, n)
         IN  b.op = a.op /\ b.start = a.start /\ b.len = a.len /\ b.buf = a.buf
  BY DEF Advance, AccRecords

\* A step of the driver goes on with the same call; it changes the buffer of a read only.
LEMMA DriverKeeps ==
  ASSUME AInv, "main" \in Callers, Access("main")
  PROVE  LET a == acc["main"]
             b == acc'["main"]
         IN  /\ b.op = a.op /\ b.start = a.start /\ b.len = a.len
             /\ a.op = "write" => b.buf = a.buf
             /\ a.pc # "idle" /\ moved' = moved
  <1> DEFINE a == acc["main"]
             b == acc'["main"]
             Same == /\ b.op = a.op /\ b.start = a.start /\ b.len = a.len
                     /\ a.op = "write" => b.buf = a.buf
                     /\ a.pc # "idle" /\ moved' = moved
  <1>1. a \in AccRecords /\ PlaceOK(a) /\ acc \in [Callers -> AccRecords]
    BY FifosTyped DEF AInv, Types
  <1>2. CASE LoadData("main")
    BY <1>1, <1>2 DEF LoadData, At, AccRecords
  <1>3. CASE Command("main")
    BY <1>1, <1>3 DEF Command, At, AccRecords
  <1>4. CASE PollCSR("main")
    <2>1. /\ b = IF Chunk(a).op = "read" THEN [a EXCEPT !.pc = "fetch"]
                 ELSE Advance(a, Chunk(a).size)
          /\ a.pc = "poll" /\ moved' = moved
      BY <1>1, <1>4 DEF PollCSR, At
    <2>2. /\ [a EXCEPT !.pc = "fetch"].op = a.op /\ [a EXCEPT !.pc = "fetch"].start = a.start
          /\ [a EXCEPT !.pc = "fetch"].len = a.len /\ [a EXCEPT !.pc = "fetch"].buf = a.buf
      BY <1>1 DEF AccRecords
    <2> QED
      BY <1>1, <2>1, <2>2, AdvanceCalls
  <1>5. CASE FetchData("main")
    <2> DEFINE buf == [i \in DOMAIN a.buf |->
                         IF i \in a.done .. a.done + Chunk(a).size - 1
                         THEN csr.data[i - a.done] ELSE a.buf[i]]
               c == [a EXCEPT !.buf = buf]
    <2>1. /\ b = Advance(c, Chunk(a).size) /\ a.pc = "fetch" /\ ~a.event /\ moved' = moved
      BY <1>1, <1>5 DEF FetchData, At
    <2>2. a.op = "read"
      BY <1>1, <2>1, ChunkLegal DEF PlaceOK, RegisterPCs
    <2> HIDE DEF buf
    <2>3. /\ c.op = a.op /\ c.start = a.start /\ c.len = a.len
      BY <1>1 DEF AccRecords
    <2>4. Advance(c, Chunk(a).size).op = c.op /\ Advance(c, Chunk(a).size).start = c.start
          /\ Advance(c, Chunk(a).size).len = c.len
      BY <1>1 DEF Advance, AccRecords
    <2> QED
      BY <2>1, <2>2, <2>3, <2>4
  <1>6. CASE FetchEvent("main")
    BY <1>1, <1>6 DEF FetchEvent, At, AccRecords
  <1>7. CASE Abort("main")
    BY <1>1, <1>7 DEF Abort, At, AccRecords
  <1>8. CASE SetUp("main")
    BY <1>1, <1>8 DEF SetUp, At, AccRecords
  <1>9. CASE Start("main")
    BY <1>1, <1>9 DEF Start, At, AccRecords
  <1>10. CASE PollAvail("main")
    BY <1>1, <1>10 DEF PollAvail, At, AccRecords
  <1>11. CASE ReadWord("main")
    <2> DEFINE w == IF fifo.read.words = <<>> THEN [i \in Lanes |-> Unset]
                    ELSE Head(fifo.read.words)
               n == IF a.done = 0 THEN Part(a) ELSE 4
               buf == [i \in DOMAIN a.buf |->
                         IF i \in a.done .. a.done + n - 1 THEN w[Lane(a) + i - a.done]
                         ELSE a.buf[i]]
               c == [a EXCEPT !.buf = buf]
    <2>1. b = Advance(c, Part(a))
      BY <1>1, <1>11 DEF ReadWord
    <2>2. a.pc = "word" /\ a.op = "read" /\ moved' = moved
      BY <1>1, <1>11 DEF ReadWord, At
    <2> HIDE DEF buf
    <2>3. /\ c.op = a.op /\ c.start = a.start /\ c.len = a.len
      BY <1>1 DEF AccRecords
    <2>4. Advance(c, Part(a)).op = c.op /\ Advance(c, Part(a)).start = c.start
          /\ Advance(c, Part(a)).len = c.len
      BY <1>1 DEF Advance, AccRecords
    <2> QED
      BY <2>1, <2>2, <2>3, <2>4
  <1>12. CASE WriteWord("main")
    <2>1. b = Advance(a, Part(a)) /\ a.pc = "word" /\ moved' = moved
      BY <1>1, <1>12 DEF WriteWord, At
    <2> QED
      BY <1>1, <2>1, AdvanceCalls
  <1> QED
    BY <1>2, <1>3, <1>4, <1>5, <1>6, <1>7, <1>8, <1>9, <1>10, <1>11, <1>12 DEF Access

\* The FIFOs carry nothing of an access among the registers.
LEMMA NoTransfer ==
  ASSUME AInv, Shape, acc["main"].start < PRAM,
         \/ \E octets \in [Lanes -> Octets] : Fill(octets)
         \/ Drain \/ \E op \in Ops : Aborted(op)
  PROVE  moved' = moved /\ acc' = acc
  <1> DEFINE a == acc["main"]
  <1>1. a \in AccRecords /\ PlaceOK(a) /\ RegisterShape(a, csr, fifo, moved["main"])
    BY ShapeFacts
  <1>2. a.pc \in RegisterPCs \union {"idle"}
    BY <1>1 DEF PlaceOK, AccRecords, PCs, RAMPCs, RegisterPCs
  <1>3. a.start \in Nat
    BY <1>1 DEF AccRecords
  <1>4. Calm(fifo)
    BY <1>1, <1>2, <1>3 DEF RegisterShape, RegisterPCs
  <1>5. ~Drain /\ \A octets \in [Lanes -> Octets] : ~Fill(octets)
    BY <1>4 DEF Drain, Fill, Calm, Quiet
  <1> QED
    BY <1>5 DEF Aborted

\* What a read of registers puts behind what the access has: Holds of the next places.
ReadOn(m, n, start) ==
  /\ Len(m) \in Nat /\ Len(n) \in Nat /\ Len(m) <= Len(n)
  /\ \A i \in 1 .. Len(m) : n[i] = m[i]
  /\ \A i \in Len(m) + 1 .. Len(n) : n[i].octet = Holds(start + i - 1)

LEMMA RegisterGiven ==
  ASSUME Alone, EEPROMTypes, AInv, Shape, RegisterRead
  PROVE  LET a == acc["main"]
         IN  /\ acc' = acc
             /\ \/ moved' = moved
                \/ /\ a.op = "read" /\ ReadOn(moved["main"], moved'["main"], a.start)
                   /\ Len(moved'["main"]) <= a.len
  <1> DEFINE a == acc["main"]
             m == moved["main"]
             n == moved'["main"]
             octets == [i \in Lanes |-> Holds(csr.address + i)]
  <1>1. /\ csr.busy /\ csr.op = "read" /\ acc' = acc /\ GiveRegister(octets)
    BY DEF RegisterRead, GiveRegister
  <1>2. /\ a.pc = "poll" /\ csr.by = "main" /\ csr.op = Chunk(a).op
        /\ Copied(a, m, a.done) /\ csr \in CsrRecords /\ a \in AccRecords /\ PlaceOK(a)
        /\ m \in Seq(Entries) /\ csr.address \in Nat
        /\ ~a.event => csr.address = a.start + a.done
        /\ csr.size = Chunk(a).size
    BY <1>1, AtPoll, ShapeFacts DEF CsrRecords
  <1>3. CASE a.event
    BY <1>1, <1>2, <1>3 DEF GiveRegister
  <1>4. CASE ~a.event
    <2>1. a.op = "read" /\ csr.size <= a.len - a.done
      <3>1. Chunk(a).op = a.op /\ Chunk(a).size <= a.len - a.done
        BY <1>2, <1>4, ChunkLegal DEF RegisterPCs
      <3> QED
        BY <1>1, <1>2, <3>1
    <2>2. octets \in [Lanes -> Cells]
      BY <1>2, HoldsTyped DEF Cells
    <2>3. Log(csr.by, csr.address, octets, 0, csr.size - 1)
      BY <1>1, <1>2, <1>4 DEF GiveRegister
    <2> HIDE DEF octets
    <2>4. /\ Len(n) = a.done + csr.size /\ Match(a, n, a.done)
          /\ \A i \in 0 .. csr.size - 1 : n[a.done + i + 1] = Place(a, a.done + i + 1, octets[i])
      BY <1>1, <1>4, <2>2, <2>3, ChunkLogged
    <2>5. Len(m) = a.done /\ Match(a, m, a.done)
      BY <1>2 DEF Copied
    <2>6. a.done \in Nat /\ a.start \in Nat /\ csr.size \in {1, 2, 4}
      BY <1>2 DEF AccRecords, CsrRecords
    <2>7. \A i \in 1 .. Len(m) : n[i] = m[i]
      BY <2>4, <2>5, Zenon DEF Match
    <2>8. ASSUME NEW i \in Len(m) + 1 .. Len(n)
          PROVE  n[i].octet = Holds(a.start + i - 1)
      <3> DEFINE j == i - 1 - a.done
      <3>1. /\ j \in 0 .. csr.size - 1 /\ j \in Lanes /\ a.done + j + 1 = i
            /\ csr.address + j = a.start + i - 1
        <4>1. /\ Len(n) = a.done + csr.size /\ Len(m) = a.done
              /\ csr.address = a.start + a.done
          BY <1>2, <1>4, <2>4, <2>5
        <4> HIDE DEF a, m, n
        <4>2. i \in a.done + 1 .. a.done + csr.size
          BY <4>1
        <4> QED
          BY <2>6, <4>1, <4>2
      <3> HIDE DEF j
      <3>2. n[i] = Place(a, i, octets[j])
        BY <2>4, <3>1
      <3>3. n[i].octet = octets[j]
        BY <3>2 DEF Place
      <3>4. octets[j] = Holds(csr.address + j)
        BY <3>1 DEF octets
      <3> QED
        BY <3>1, <3>3, <3>4
    <2>9. /\ Len(m) \in Nat /\ Len(n) \in Nat /\ Len(m) <= Len(n)
          /\ Len(n) <= a.len
      <3>1. /\ Len(n) = a.done + csr.size /\ Len(m) = a.done /\ a.len \in Nat
        BY <1>2, <2>4, <2>5 DEF AccRecords
      <3> HIDE DEF a, m, n
      <3> QED
        BY <2>1, <2>6, <3>1
    <2> QED
      BY <1>1, <2>1, <2>7, <2>8, <2>9 DEF ReadOn
  <1> QED
    BY <1>3, <1>4

\* What a write of registers puts behind what the access has: the next octets of its
\* buffer, which are in the data register.
WrittenOn(m, n, a) ==
  /\ Len(m) \in Nat /\ Len(n) \in Nat /\ Len(m) < Len(n) /\ Len(n) <= a.len
  /\ \A i \in 1 .. Len(m) : n[i] = m[i]
  /\ \A i \in Len(m) + 1 .. Len(n) : n[i].octet = a.buf[i - 1]
  /\ csr.address = a.start + Len(m) /\ csr.size = Len(n) - Len(m)
  /\ \A k \in 0 .. csr.size - 1 : csr.data[k] = a.buf[Len(m) + k]

LEMMA RegisterTaken ==
  ASSUME Alone, AInv, Shape, TakeRegister
  PROVE  LET a == acc["main"]
         IN  /\ acc' = acc /\ a.op = "write" /\ a.pc = "poll"
             /\ a.start \in Nat /\ a.len \in Nat /\ a.start + a.len <= PRAM
             /\ WrittenOn(moved["main"], moved'["main"], a)
  <1> DEFINE a == acc["main"]
             m == moved["main"]
             n == moved'["main"]
             size == csr.size
  <1>1. /\ csr.busy /\ csr.op = "write" /\ acc' = acc
        /\ Log(csr.by, csr.address, csr.data, 0, csr.size - 1)
    BY DEF TakeRegister
  <1>2. /\ a.pc = "poll" /\ csr.op = Chunk(a).op /\ csr.size = Chunk(a).size
        /\ Copied(a, m, a.done) /\ csr \in CsrRecords /\ a \in AccRecords /\ PlaceOK(a)
        /\ ~a.event /\ Loaded(a, csr) /\ csr.address = a.start + a.done /\ a.start < PRAM
    BY <1>1, AtPoll, ShapeFacts
  <1>3. a.op = "write" /\ size <= a.len - a.done
    BY <1>1, <1>2, ChunkLegal DEF RegisterPCs
  <1>4. csr.data \in [Lanes -> Cells]
    BY <1>2 DEF CsrRecords, Register, Cells
  <1>5. /\ Len(n) = a.done + csr.size /\ Match(a, n, a.done)
        /\ \A i \in 0 .. csr.size - 1 : n[a.done + i + 1] = Place(a, a.done + i + 1, csr.data[i])
    BY <1>1, <1>2, <1>4, ChunkLogged
  <1>6. Len(m) = a.done /\ Match(a, m, a.done)
    BY <1>2 DEF Copied
  <1>7. /\ a.done \in Nat /\ a.start \in Nat /\ a.len \in Nat /\ size \in {1, 2, 4}
        /\ a.start + a.len <= PRAM
    BY <1>2 DEF AccRecords, CsrRecords, PlaceOK, InSpace
  <1>13. Len(n) = a.done + size /\ Len(m) = a.done
    BY <1>5, <1>6
  <1>8. \A i \in 1 .. Len(m) : n[i] = m[i]
    BY <1>5, <1>6, Zenon DEF Match
  <1>9. \A k \in 0 .. size - 1 : csr.data[k] = a.buf[Len(m) + k]
    BY <1>2, <1>6 DEF Loaded
  <1>10. ASSUME NEW i \in Len(m) + 1 .. Len(n)
         PROVE  n[i].octet = a.buf[i - 1]
    <2> DEFINE k == i - 1 - a.done
    <2>1. k \in 0 .. size - 1 /\ a.done + k + 1 = i /\ Len(m) + k = i - 1
      <3> HIDE DEF a, m, n, size
      <3>1. i \in a.done + 1 .. a.done + size
        BY <1>13
      <3> QED
        BY <1>7, <1>13, <3>1
    <2> HIDE DEF k
    <2>2. n[i] = Place(a, i, csr.data[k])
      BY <1>5, <2>1
    <2>3. n[i].octet = csr.data[k]
      BY <2>2 DEF Place
    <2> QED
      BY <1>9, <2>1, <2>3
  <1>11. Len(m) \in Nat /\ Len(n) \in Nat /\ Len(m) < Len(n) /\ Len(n) <= a.len
         /\ size = Len(n) - Len(m)
    <2> HIDE DEF a, m, n, size
    <2> QED
      BY <1>3, <1>7, <1>13
  <1>12. csr.address = a.start + Len(m)
    BY <1>2, <1>6
  <1> QED
    BY <1>1, <1>2, <1>3, <1>7, <1>8, <1>9, <1>10, <1>11, <1>12 DEF WrittenOn

---------------------------------------------------------------------------
(***************************************************************************)
(* What is read from the registers of the interface.                       *)
(***************************************************************************)
LEMMA HoldsCommand ==
  Holds(EECONTSTAT + 1) = ee.cmd + Flag(ee.failed, 32) + Flag(ee.busy, 128)
  <1>1. /\ EECONTSTAT + 1 # ALEVENT
        /\ EECONTSTAT + 1 \notin EECONTSTAT + 2 .. EECONTSTAT + 5
        /\ EECONTSTAT + 1 \notin EEDATA .. EEDATA + 7
        /\ EECONTSTAT + 1 \notin {ALEVENT + 1, EECONTSTAT}
    BY Registers
  <1> QED
    BY <1>1, Zenon DEF Holds

LEMMA HoldsAddress ==
  ASSUME NEW i \in 3 .. 6
  PROVE  Holds(EECONTSTAT + i - 1) = (ee.addr \div Weight[i - 2]) % 256
  <1> DEFINE a == EECONTSTAT + i - 1
  <1>1. /\ a # ALEVENT /\ a # EECONTSTAT + 1 /\ a \in EECONTSTAT + 2 .. EECONTSTAT + 5
        /\ a \notin EEDATA .. EEDATA + 7 /\ a \notin {ALEVENT + 1, EECONTSTAT}
        /\ a - EECONTSTAT - 1 = i - 2
    BY Registers
  <1> HIDE DEF a
  <1>2. Holds(a) = (ee.addr \div Weight[a - EECONTSTAT - 1]) % 256
    BY <1>1, Zenon DEF Holds
  <1> QED
    BY <1>1, <1>2 DEF a

LEMMA HoldsData ==
  ASSUME NEW i \in 1 .. 8
  PROVE  Holds(EEDATA + i - 1) = ee.data[i - 1]
  <1> DEFINE a == EEDATA + i - 1
  <1>1. /\ a # ALEVENT /\ a # EECONTSTAT + 1 /\ a \notin EECONTSTAT + 2 .. EECONTSTAT + 5
        /\ a \in EEDATA .. EEDATA + 7 /\ a \notin {ALEVENT + 1, EECONTSTAT}
        /\ a - EEDATA = i - 1
    BY Registers
  <1> HIDE DEF a
  <1>2. Holds(a) = ee.data[a - EEDATA]
    BY <1>1, Zenon DEF Holds
  <1> QED
    BY <1>1, <1>2 DEF a

\* A status goes on to be the one in the interface.
LEMMA StatusOn ==
  ASSUME EEPROMTypes, NEW m, NEW n, StatusRead(m), ReadOn(m, n, EECONTSTAT), Len(n) <= 6
  PROVE  StatusRead(n)
  <1>1. /\ Len(m) \in Nat /\ Len(n) \in Nat /\ Len(m) <= Len(n) /\ EECONTSTAT \in Nat
    BY Registers DEF ReadOn
  <1>2. ASSUME NEW i \in 1 .. Len(n) PROVE n[i].octet \in Octets
    <2>1. CASE i <= Len(m)
      BY <1>1, <2>1 DEF ReadOn, StatusRead
    <2>2. CASE i > Len(m)
      <3>1. i \in Len(m) + 1 .. Len(n) /\ EECONTSTAT + i - 1 \in Nat
        BY <1>1, <2>2
      <3> QED
        BY <3>1, HoldsTyped DEF ReadOn
    <2> QED
      BY <1>1, <2>1, <2>2
  <1>3. ASSUME Len(n) >= 2, Bit(128, n[2].octet)
        PROVE  /\ ee.busy /\ n[2].octet % 8 = ee.cmd
               /\ \A i \in 3 .. Len(n) : n[i].octet = (ee.addr \div Weight[i - 2]) % 256
    <2>1. ee.busy /\ n[2].octet % 8 = ee.cmd
      <3>1. CASE Len(m) >= 2
        <4>1. n[2] = m[2]
          BY <1>1, <3>1 DEF ReadOn
        <4> QED
          BY <1>3, <3>1, <4>1 DEF StatusRead
      <3>2. CASE Len(m) < 2
        <4>1. 2 \in Len(m) + 1 .. Len(n) /\ EECONTSTAT + 2 - 1 = EECONTSTAT + 1
          BY <1>1, <1>3, <3>2
        <4>2. n[2].octet = ee.cmd + Flag(ee.failed, 32) + Flag(ee.busy, 128)
          BY <4>1, HoldsCommand DEF ReadOn
        <4>3. ee.cmd \in 0 .. 7 /\ ee.busy \in BOOLEAN /\ ee.failed \in BOOLEAN
          BY DEF EEPROMTypes, Interfaces, Cmds
        <4>4. /\ n[2].octet % 8 = ee.cmd
              /\ Bit(128, n[2].octet) <=> ee.busy
          BY <4>2, <4>3, StatusOctet
        <4> QED
          BY <1>3, <4>4
      <3> QED
        BY <1>1, <3>1, <3>2
    <2>2. ASSUME NEW i \in 3 .. Len(n)
          PROVE  n[i].octet = (ee.addr \div Weight[i - 2]) % 256
      <3>1. CASE i <= Len(m)
        <4>1. /\ i \in 1 .. Len(m) /\ i \in 3 .. Len(m) /\ 2 \in 1 .. Len(m) /\ Len(m) >= 2
          BY <1>1, <3>1
        <4>2. n[i] = m[i] /\ n[2] = m[2]
          BY <4>1 DEF ReadOn
        <4> QED
          BY <1>3, <4>1, <4>2 DEF StatusRead
      <3>2. CASE i > Len(m)
        <4>1. i \in Len(m) + 1 .. Len(n) /\ i \in 3 .. 6
          BY <1>1, <3>2
        <4> QED
          BY <4>1, HoldsAddress DEF ReadOn
      <3> QED
        BY <1>1, <3>1, <3>2
    <2> QED
      BY <2>1, <2>2
  <1> QED
    BY <1>2, <1>3 DEF StatusRead

---------------------------------------------------------------------------
(***************************************************************************)
(* The steps of the chip and of the master.                                *)
(***************************************************************************)
\* Types in the form the steps need them.
LEMMA EETyped ==
  ASSUME EEPROMTypes
  PROVE  /\ ee \in Interfaces /\ ee.busy \in BOOLEAN /\ ee.failed \in BOOLEAN
         /\ ee.cmd \in Cmds /\ ee.addr \in WordAddresses /\ ee.addr \in Nat
         /\ ee.data \in [0 .. 7 -> Octets]
         /\ asked.cmd \in Cmds /\ asked.addr \in WordAddresses /\ asked.addr \in Nat
         /\ asked.word \in [0 .. 1 -> Octets]
         /\ stat.cmd \in 0 .. 7 /\ stat.addr \in Nat
         /\ eeprom \in Memory /\ written \in Memory /\ DOMAIN eeprom = 0 .. EEPROMSize - 1
  BY DEF EEPROMTypes, Interfaces, WordAddresses, Memory

LEMMA MasterKeeps ==
  ASSUME EInv, MasterCommand
  PROVE  UNCHANGED accessVars /\ EInv'
  <1>1. PICK cmd \in Commands, addr \in Addresses, word \in Words :
          /\ ee' = [ee EXCEPT !.busy = TRUE, !.cmd = cmd, !.failed = FALSE, !.addr = addr,
                              !.data = [i \in 0 .. 7 |-> IF i < 2 /\ cmd = WRITE THEN word[i]
                                                         ELSE @[i]]]
          /\ asked' = [cmd |-> cmd, addr |-> addr, word |-> word]
    BY DEF MasterCommand
  <1>2. /\ ~ee.busy /\ UNCHANGED <<accessVars, task, stat, eeprom, written>>
        /\ acc' = acc /\ moved' = moved /\ EEPROMTypes
    BY DEF MasterCommand, accessVars, EInv
  <1> DEFINE data == [i \in 0 .. 7 |-> IF i < 2 /\ cmd = WRITE THEN word[i] ELSE ee.data[i]]
  <1>3. /\ cmd \in Cmds /\ addr \in WordAddresses /\ word \in [0 .. 1 -> Octets]
    BY EEPROMAssumption DEF EEPROMAssumption, Commands, Cmds, WordAddresses
  <1>4. data \in [0 .. 7 -> Octets] /\ (cmd = WRITE => \A i \in 0 .. 1 : data[i] = word[i])
    BY <1>2, <1>3, EETyped
  <1>5. ee' = [ee EXCEPT !.busy = TRUE, !.cmd = cmd, !.failed = FALSE, !.addr = addr, !.data = data]
    BY <1>1
  <1> HIDE DEF data
  <1>6. /\ ee' \in Interfaces /\ ee'.busy = TRUE /\ ee'.cmd = cmd /\ ee'.addr = addr
        /\ ee'.data = data
    BY <1>2, <1>3, <1>4, <1>5, EETyped DEF Interfaces
  <1>7. asked' \in [cmd : Cmds, addr : WordAddresses, word : [0 .. 1 -> Octets]]
        /\ asked'.cmd = cmd /\ asked'.addr = addr /\ asked'.word = word
    BY <1>1, <1>3
  <1>8. EEPROMTypes'
    BY <1>2, <1>6, <1>7 DEF EEPROMTypes
  <1>9. Latched'
    BY <1>4, <1>6, <1>7 DEF Latched
  <1>10. Turn'
    <2>1. task = "status" => StatusRead(moved["main"])'
      BY <1>2 DEF EInv, Turn, StatusRead
    <2>2. task \notin {"answer", "take"}
      BY <1>2 DEF EInv, Turn, Working
    <2>3. task = "acknowledge" => ~(Len(moved["main"]) < 2)
      BY <1>2 DEF EInv, Turn, Acknowledging
    <2> QED
      BY <1>2, <2>1, <2>2, <2>3 DEF EInv, Turn, Made
  <1>11. Settled'
    BY <1>2 DEF EInv, Settled
  <1>12. ReadAnswered'
    BY <1>6 DEF ReadAnswered, Answered
  <1> QED
    BY <1>2, <1>8, <1>9, <1>10, <1>11, <1>12 DEF EInv

LEMMA ReadKeeps ==
  ASSUME Alone, AInv, Shape, EInv, RegisterRead
  PROVE  AccessNext /\ EInv'
  <1> DEFINE a == acc["main"]
             m == moved["main"]
             n == moved'["main"]
  <1>1. EEPROMTypes /\ UNCHANGED <<task, stat, ee, eeprom, asked, written, commands>>
    BY DEF RegisterRead, eeVars, EInv
  <1>2. acc' = acc /\ (n = m \/ (a.op = "read" /\ ReadOn(m, n, a.start) /\ Len(n) <= a.len))
    BY <1>1, RegisterGiven
  <1>3. AccessNext
    <2>1. csr.address \in Nat
      BY FifosTyped DEF CsrRecords
    <2>2. [i \in Lanes |-> Holds(csr.address + i)] \in [Lanes -> Octets]
      BY <1>1, <2>1, HoldsTyped
    <2> QED
      BY <2>2 DEF RegisterRead, AccessNext, Chip
  <1>4. EEPROMTypes' /\ Latched' /\ ReadAnswered'
    BY <1>1 DEF EInv, EEPROMTypes, Latched, ReadAnswered, Answered
  <1>5. CASE n = m
    <2>1. Turn' /\ Settled'
      BY <1>1, <1>2, <1>5 DEF EInv, Turn, Settled, Made, Working, StatusRead, InPlace,
                              Acknowledging, ReadDone, Rewritten
    <2> QED
      BY <1>3, <1>4, <2>1 DEF EInv
  <1>6. CASE a.op = "read" /\ ReadOn(m, n, a.start) /\ Len(n) <= a.len
    <2>1. task \notin {"answer", "acknowledge"}
      BY <1>6 DEF EInv, Turn, Made
    <2>2. ASSUME task = "status" PROVE Made("read", EECONTSTAT, 6)' /\ StatusRead(moved["main"])'
      <3>1. a.start = EECONTSTAT /\ a.len = 6 /\ StatusRead(m)
        BY <2>2 DEF EInv, Turn, Made
      <3>2. StatusRead(n)
        BY <1>1, <1>6, <3>1, StatusOn
      <3>3. Made("read", EECONTSTAT, 6)
        BY <2>2 DEF EInv, Turn
      <3> QED
        BY <1>1, <1>2, <3>2, <3>3 DEF StatusRead, Made
    <2>3. ASSUME task = "take"
          PROVE  (Made("read", EEDATA, WRITE_SIZE) /\ Working /\ stat.cmd = WRITE)' /\ InPlace(moved["main"])'
      <3>1. /\ a.start = EEDATA /\ a.len = 2 /\ InPlace(m)
        BY <2>3 DEF EInv, Turn, Made, WRITE_SIZE
      <3>2. ASSUME NEW i \in 1 .. Len(n) PROVE n[i].octet = ee.data[i - 1]
        <4>1. Len(m) \in Nat /\ Len(n) \in Nat /\ Len(n) <= 2
          BY <1>6, <3>1 DEF ReadOn
        <4>2. CASE i <= Len(m)
          BY <1>6, <3>1, <4>1, <4>2 DEF ReadOn, InPlace
        <4>3. CASE i > Len(m)
          <5>1. i \in Len(m) + 1 .. Len(n) /\ i \in 1 .. 8
            BY <4>1, <4>3
          <5> QED
            BY <1>6, <3>1, <5>1, HoldsData DEF ReadOn
        <4> QED
          BY <4>1, <4>2, <4>3
      <3>3. InPlace(n)
        BY <3>2 DEF InPlace
      <3>4. Made("read", EEDATA, WRITE_SIZE) /\ Working /\ stat.cmd = WRITE
        BY <2>3 DEF EInv, Turn
      <3> QED
        BY <1>1, <1>2, <3>3, <3>4 DEF InPlace, Made, Working
    <2>4. Turn'
      BY <1>1, <1>2, <2>1, <2>2, <2>3 DEF EInv, Turn
    <2>5. Settled'
      BY <1>1, <2>1 DEF EInv, Settled
    <2> QED
      BY <1>3, <1>4, <2>4, <2>5 DEF EInv
  <1> QED
    BY <1>2, <1>5, <1>6

\* A write to registers changes what it covers; a write to the command acknowledges it.
Taken == [i \in 0 .. 7 |-> IF InCommand(EEDATA + i)
                           THEN csr.data[EEDATA + i - csr.address] ELSE ee.data[i]]
Acks == InCommand(EECONTSTAT + 1)
AckOctet == csr.data[EECONTSTAT + 1 - csr.address]

LEMMA EffectFields ==
  ASSUME EEPROMTypes, ee' = Effect
  PROVE  /\ ee'.addr = ee.addr /\ ee'.data = Taken
         /\ Acks => ee'.busy = FALSE /\ ee'.failed = Bit(32, AckOctet)
         /\ ~Acks => ee'.busy = ee.busy /\ ee'.cmd = ee.cmd /\ ee'.failed = ee.failed
         /\ Taken \in [0 .. 7 -> Octets] => ee' \in Interfaces
  <1> DEFINE New(busy, cmd, failed) ==
               [ee EXCEPT !.data = Taken, !.busy = busy, !.cmd = cmd, !.failed = failed]
             Updated(e, busy, cmd, failed) ==
               /\ e.addr = ee.addr /\ e.data = Taken /\ e.busy = busy /\ e.cmd = cmd
               /\ e.failed = failed
               /\ Taken \in [0 .. 7 -> Octets] => e \in Interfaces
  <1>1. ee' = New(ee.busy /\ ~Acks, IF Acks THEN IDLE ELSE ee.cmd,
                  IF Acks THEN Bit(32, AckOctet) ELSE ee.failed)
    BY Zenon DEF Effect, Taken, Acks, AckOctet
  <1>2. ASSUME NEW busy \in BOOLEAN, NEW cmd \in Cmds, NEW failed \in BOOLEAN
        PROVE  Updated(New(busy, cmd, failed), busy, cmd, failed)
    <2>1. ee \in Interfaces
      BY DEF EEPROMTypes
    <2>2. CASE busy = TRUE /\ failed = TRUE
      BY <2>1, <2>2 DEF Interfaces
    <2>3. CASE busy = TRUE /\ failed = FALSE
      BY <2>1, <2>3 DEF Interfaces
    <2>4. CASE busy = FALSE /\ failed = TRUE
      BY <2>1, <2>4 DEF Interfaces
    <2>5. CASE busy = FALSE /\ failed = FALSE
      BY <2>1, <2>5 DEF Interfaces
    <2> QED
      BY <2>2, <2>3, <2>4, <2>5
  <1> HIDE DEF New, Updated
  <1>3. CASE Acks
    <2>1. (ee.busy /\ ~Acks) = FALSE /\ (IF Acks THEN IDLE ELSE ee.cmd) = IDLE
          /\ (IF Acks THEN Bit(32, AckOctet) ELSE ee.failed) = Bit(32, AckOctet)
      BY <1>3
    <2>2. ee' = New(FALSE, IDLE, Bit(32, AckOctet))
      BY <1>1, <2>1, Zenon
    <2>3. Bit(32, AckOctet) \in BOOLEAN /\ IDLE \in Cmds
      BY DEF Bit, IDLE, Cmds
    <2>4. Updated(ee', FALSE, IDLE, Bit(32, AckOctet))
      BY <1>2, <2>2, <2>3, Zenon
    <2> QED
      BY <1>3, <2>4 DEF Updated
  <1>4. CASE ~Acks
    <2>1. ee.busy \in BOOLEAN /\ ee.failed \in BOOLEAN /\ ee.cmd \in Cmds
      BY EETyped
    <2>2. (ee.busy /\ ~Acks) = ee.busy /\ (IF Acks THEN IDLE ELSE ee.cmd) = ee.cmd
          /\ (IF Acks THEN Bit(32, AckOctet) ELSE ee.failed) = ee.failed
      BY <1>4, <2>1
    <2>3. ee' = New(ee.busy, ee.cmd, ee.failed)
      BY <1>1, <2>2, Zenon
    <2>4. Updated(ee', ee.busy, ee.cmd, ee.failed)
      BY <1>2, <2>1, <2>3, Zenon
    <2> QED
      BY <1>4, <2>4 DEF Updated
  <1> QED
    BY <1>3, <1>4

\* A write that covers neither the command nor the data leaves the interface alone.
LEMMA WriteElsewhere ==
  ASSUME EEPROMTypes, ee' = Effect, ~Acks,
         \A i \in 0 .. 7 : ~InCommand(EEDATA + i)
  PROVE  /\ ee' \in Interfaces /\ ee'.busy = ee.busy /\ ee'.cmd = ee.cmd
         /\ ee'.failed = ee.failed /\ ee'.addr = ee.addr /\ ee'.data = ee.data
  <1>1. ee.data \in [0 .. 7 -> Octets]
    BY EETyped
  <1>2. ee'.data = [i \in 0 .. 7 |-> ee.data[i]]
    BY EffectFields DEF Taken
  <1>3. ee'.data = ee.data
    BY <1>1, <1>2
  <1> QED
    BY <1>1, <1>3, EffectFields

\* What a write to the registers does, and that the access allows it.
LEMMA WriteFacts ==
  ASSUME Alone, AInv, Shape, EInv, RegisterWrite
  PROVE  LET a == acc["main"]
             m == moved["main"]
             n == moved'["main"]
         IN  /\ AccessNext /\ EEPROMTypes /\ acc' = acc /\ ee' = Effect
             /\ UNCHANGED <<task, stat, eeprom, asked, commands>>
             /\ written' = IF ee.busy /\ ~ee'.busy /\ ~ee'.failed /\ asked.cmd = WRITE
                           THEN Rewritten ELSE written
             /\ a.op = "write" /\ a.pc = "poll" /\ a.start \in Nat /\ a.len \in Nat
             /\ a.start + a.len <= PRAM
             /\ WrittenOn(m, n, a)
             /\ \A i \in Nat : InCommand(i) <=> a.start + Len(m) <= i /\ i < a.start + Len(n)
  <1> DEFINE a == acc["main"]
             m == moved["main"]
             n == moved'["main"]
  <1>1. TakeRegister /\ EEPROMTypes
    BY DEF RegisterWrite, EInv
  <1>2. /\ acc' = acc /\ a.op = "write" /\ a.pc = "poll" /\ a.start \in Nat /\ a.len \in Nat
        /\ a.start + a.len <= PRAM /\ WrittenOn(m, n, a)
    BY <1>1, RegisterTaken
  <1>3. AccessNext
    BY <1>1 DEF AccessNext, Chip
  <1>4. ASSUME NEW i \in Nat
        PROVE  InCommand(i) <=> a.start + Len(m) <= i /\ i < a.start + Len(n)
    <2>1. /\ csr.address = a.start + Len(m) /\ csr.size = Len(n) - Len(m)
          /\ Len(m) \in Nat /\ Len(n) \in Nat
      BY <1>2 DEF WrittenOn
    <2> HIDE DEF a, m, n
    <2> QED
      BY <1>2, <2>1 DEF InCommand
  <1>5. /\ ee' = Effect /\ UNCHANGED <<task, stat, eeprom, asked, commands>>
        /\ written' = IF ee.busy /\ ~ee'.busy /\ ~ee'.failed /\ asked.cmd = WRITE
                      THEN Rewritten ELSE written
    BY DEF RegisterWrite, Rewritten
  <1> QED
    BY <1>1, <1>2, <1>3, <1>4, <1>5

LEMMA Apart ==
  ASSUME NEW start \in Nat, NEW len \in Nat, NEW from \in Nat, NEW to \in Nat, to <= len,
         NEW low \in Nat, NEW high \in Nat, start + len <= low \/ start >= high,
         NEW i \in Nat, low <= i, i < high
  PROVE  ~(start + from <= i /\ i < start + to)
  OBVIOUS

\* Another access of the slave writes to other registers.
LEMMA OtherWriteKeeps ==
  ASSUME Alone, AInv, Shape, EInv, RegisterWrite, task = "check"
  PROVE  EInv'
  <1> DEFINE a == acc["main"]
             m == moved["main"]
             n == moved'["main"]
  <1>1. /\ EEPROMTypes /\ acc' = acc /\ ee' = Effect
        /\ UNCHANGED <<task, stat, eeprom, asked, commands>> /\ a.op = "write"
        /\ a.start \in Nat /\ a.len \in Nat
        /\ Len(m) \in Nat /\ Len(n) \in Nat /\ Len(n) <= a.len
        /\ \A i \in Nat : InCommand(i) <=> a.start + Len(m) <= i /\ i < a.start + Len(n)
    BY WriteFacts DEF WrittenOn
  <1>2. written' = IF ee.busy /\ ~ee'.busy /\ ~ee'.failed /\ asked.cmd = WRITE
                   THEN Rewritten ELSE written
    BY WriteFacts
  <1>3. a.start + a.len <= EECONTSTAT \/ a.start >= EEDATA + 8
    BY <1>1 DEF EInv, Turn
  <1>4. ASSUME NEW i \in Nat, EECONTSTAT <= i, i < EEDATA + 8
        PROVE  ~InCommand(i)
    <2>1. (a.start + Len(m) <= i /\ i < a.start + Len(n)) <=> InCommand(i)
      BY <1>1
    <2>2. /\ Len(m) \in Nat /\ Len(n) \in Nat /\ Len(n) <= a.len
          /\ a.start \in Nat /\ a.len \in Nat
      BY <1>1
    <2> HIDE DEF a, m, n
    <2>3. EECONTSTAT \in Nat /\ EEDATA + 8 \in Nat
      BY Registers
    <2>4. ~(a.start + Len(m) <= i /\ i < a.start + Len(n))
      BY <1>3, <1>4, <2>2, <2>3, Apart, Zenon
    <2> QED
      BY <2>1, <2>4
  <1>5. ~Acks
    <2>1. EECONTSTAT + 1 \in Nat /\ EECONTSTAT <= EECONTSTAT + 1 /\ EECONTSTAT + 1 < EEDATA + 8
      BY Registers
    <2> QED
      BY <1>4, <2>1 DEF Acks
  <1>6. ASSUME NEW i \in 0 .. 7 PROVE ~InCommand(EEDATA + i)
    <2>1. EEDATA + i \in Nat /\ EECONTSTAT <= EEDATA + i /\ EEDATA + i < EEDATA + 8
      BY Registers
    <2> QED
      BY <1>4, <2>1
  <1>7. /\ ee' \in Interfaces /\ ee'.busy = ee.busy /\ ee'.cmd = ee.cmd
        /\ ee'.failed = ee.failed /\ ee'.addr = ee.addr /\ ee'.data = ee.data
    BY <1>1, <1>5, <1>6, WriteElsewhere
  <1>8. written' = written
    BY <1>2, <1>7
  <1>9. EEPROMTypes' /\ Latched' /\ ReadAnswered'
    BY <1>1, <1>7, <1>8 DEF EInv, EEPROMTypes, Latched, ReadAnswered, Answered
  <1>10. Turn' /\ Settled'
    BY <1>1, <1>8 DEF EInv, Turn, Settled
  <1> QED
    BY <1>9, <1>10 DEF EInv

\* The data of a read are put in place.
LEMMA DataWriteKeeps ==
  ASSUME Alone, AInv, Shape, EInv, RegisterWrite, task = "answer"
  PROVE  EInv'
  <1> DEFINE a == acc["main"]
             m == moved["main"]
             n == moved'["main"]
             lm == Len(m)
             ln == Len(n)
  <1>1. /\ EEPROMTypes /\ acc' = acc /\ ee' = Effect
        /\ UNCHANGED <<task, stat, eeprom, asked, commands>>
        /\ WrittenOn(m, n, a)
        /\ \A i \in Nat : InCommand(i) <=> a.start + lm <= i /\ i < a.start + ln
    BY WriteFacts
  <1>2. written' = IF ee.busy /\ ~ee'.busy /\ ~ee'.failed /\ asked.cmd = WRITE
                   THEN Rewritten ELSE written
    BY WriteFacts
  <1>3. /\ Made("write", EEDATA, READ_SIZE) /\ Working /\ stat.cmd \in {READ, RELOAD}
        /\ InPlace(m) /\ 2 * stat.addr + READ_SIZE <= EEPROMSize
        /\ \A i \in 0 .. READ_SIZE - 1 : a.buf[i] = eeprom[2 * stat.addr + i]
    BY DEF EInv, Turn
  <1>4. /\ a.start = EEDATA /\ a.len = 8 /\ lm \in Nat /\ ln \in Nat /\ lm < ln /\ ln <= 8
        /\ csr.address = EEDATA + lm /\ csr.size = ln - lm
    BY <1>1, <1>3 DEF Made, READ_SIZE, WrittenOn
  <1>5. /\ \A i \in 1 .. lm : n[i] = m[i]
        /\ \A i \in lm + 1 .. ln : n[i].octet = a.buf[i - 1]
        /\ \A k \in 0 .. csr.size - 1 : csr.data[k] = a.buf[lm + k]
    BY <1>1 DEF WrittenOn
  <1> HIDE DEF lm, ln
  <1>6. ~Acks
    <2>1. EECONTSTAT + 1 \in Nat /\ EECONTSTAT + 1 < EEDATA + lm
      BY <1>4, Registers
    <2> QED
      BY <1>1, <1>4, <2>1, Registers DEF Acks
  <1>7. ASSUME NEW i \in 0 .. 7
        PROVE  Taken[i] = IF i \in lm .. ln - 1 THEN a.buf[i] ELSE ee.data[i]
    <2>1. EEDATA + i \in Nat /\ (InCommand(EEDATA + i) <=> i \in lm .. ln - 1)
      <3>1. EEDATA + i \in Nat
        BY Registers
      <3>2. InCommand(EEDATA + i) <=> a.start + lm <= EEDATA + i /\ EEDATA + i < a.start + ln
        BY <1>1, <3>1
      <3>3. (a.start + lm <= EEDATA + i /\ EEDATA + i < a.start + ln) <=> i \in lm .. ln - 1
        BY <1>4, Registers
      <3> QED
        BY <3>1, <3>2, <3>3
    <2>2. CASE i \in lm .. ln - 1
      <3>1. EEDATA + i - csr.address = i - lm /\ i - lm \in 0 .. csr.size - 1 /\ lm + (i - lm) = i
        BY <1>4, <2>2, Registers
      <3>2. csr.data[EEDATA + i - csr.address] = a.buf[i]
        BY <1>5, <3>1
      <3> QED
        BY <2>1, <2>2, <3>2 DEF Taken
    <2>3. CASE i \notin lm .. ln - 1
      BY <2>1, <2>3 DEF Taken
    <2> QED
      BY <2>2, <2>3
  <1>8. ASSUME NEW i \in 0 .. 7 PROVE a.buf[i] \in Octets /\ ee.data[i] \in Octets
    <2>1. stat.addr \in Nat /\ EEPROMSize \in Nat /\ 2 * stat.addr + 8 <= EEPROMSize
      BY <1>1, <1>3, Registers, EETyped DEF READ_SIZE
    <2>2. 2 * stat.addr + i \in 0 .. EEPROMSize - 1
      BY <2>1
    <2>3. a.buf[i] = eeprom[2 * stat.addr + i]
      BY <1>3 DEF READ_SIZE
    <2>4. eeprom \in Memory /\ ee.data \in [0 .. 7 -> Octets]
      BY <1>1, EETyped
    <2> QED
      BY <2>2, <2>3, <2>4 DEF Memory
  <1>9. Taken \in [0 .. 7 -> Octets]
    <2>1. \A i \in 0 .. 7 : Taken[i] \in Octets
      BY <1>7, <1>8
    <2>2. Taken = [i \in 0 .. 7 |-> Taken[i]]
      BY DEF Taken
    <2> QED
      BY <2>1, <2>2
  <1>10. /\ ee' \in Interfaces /\ ee'.busy = ee.busy /\ ee'.cmd = ee.cmd
         /\ ee'.failed = ee.failed /\ ee'.addr = ee.addr /\ ee'.data = Taken
    BY <1>1, <1>6, <1>9, EffectFields
  <1>11. written' = written
    BY <1>2, <1>10
  <1>12. EEPROMTypes'
    BY <1>1, <1>10, <1>11 DEF EEPROMTypes
  <1>13. asked.cmd # WRITE /\ ee.busy
    BY <1>3 DEF Working, READ, WRITE, RELOAD
  <1>14. Latched' /\ ReadAnswered'
    BY <1>1, <1>10, <1>13 DEF EInv, Latched, ReadAnswered, Answered
  <1>15. ASSUME NEW i \in 1 .. ln PROVE Taken[i - 1] = n[i].octet
    <2>1. i - 1 \in 0 .. 7
      BY <1>4
    <2>2. CASE i <= lm
      <3>1. i \in 1 .. lm /\ i - 1 \notin lm .. ln - 1
        BY <1>4, <2>2
      <3>2. Taken[i - 1] = ee.data[i - 1]
        BY <1>7, <2>1, <3>1
      <3>3. ee.data[i - 1] = m[i].octet
        BY <1>3, <3>1 DEF InPlace, lm
      <3> QED
        BY <1>5, <3>1, <3>2, <3>3
    <2>3. CASE i > lm
      <3>1. i \in lm + 1 .. ln /\ i - 1 \in lm .. ln - 1
        BY <1>4, <2>3
      <3> QED
        BY <1>5, <1>7, <2>1, <3>1
    <2> QED
      BY <1>4, <2>2, <2>3
  <1>16. InPlace(moved["main"])'
    BY <1>10, <1>15 DEF InPlace, ln
  <1>17. Turn'
    BY <1>1, <1>3, <1>10, <1>16 DEF Turn, Made, Working
  <1>18. Settled'
    BY <1>1, <1>11 DEF EInv, Settled
  <1> QED
    BY <1>12, <1>14, <1>17, <1>18 DEF EInv

\* The command is acknowledged, with its error bit, when its octet is written.
LEMMA AckWriteKeeps ==
  ASSUME Alone, AInv, Shape, EInv, RegisterWrite, task = "acknowledge"
  PROVE  EInv'
  <1> DEFINE a == acc["main"]
             m == moved["main"]
             n == moved'["main"]
             lm == Len(m)
             ln == Len(n)
             failed == Bit(32, a.buf[1])
  <1>1. /\ EEPROMTypes /\ acc' = acc /\ ee' = Effect
        /\ UNCHANGED <<task, stat, eeprom, asked, commands>>
        /\ WrittenOn(m, n, a)
        /\ \A i \in Nat : InCommand(i) <=> a.start + lm <= i /\ i < a.start + ln
    BY WriteFacts
  <1>2. written' = IF ee.busy /\ ~ee'.busy /\ ~ee'.failed /\ asked.cmd = WRITE
                   THEN Rewritten ELSE written
    BY WriteFacts
  <1>3. /\ Made("write", EECONTSTAT, 2) /\ a.start = EECONTSTAT /\ a.len = 2
        /\ Len(m) < 2 => Acknowledging(failed)
    BY DEF EInv, Turn, Made
  <1>4. /\ lm \in Nat /\ ln \in Nat /\ lm < ln /\ ln <= 2
        /\ csr.address = EECONTSTAT + lm /\ csr.size = ln - lm
    BY <1>1, <1>3 DEF WrittenOn
  <1>5. \A k \in 0 .. csr.size - 1 : csr.data[k] = a.buf[lm + k]
    BY <1>1 DEF WrittenOn
  <1>6. Acknowledging(failed)
    BY <1>3, <1>4
  <1> HIDE DEF lm, ln, failed
  <1>7. ASSUME NEW i \in 0 .. 7 PROVE ~InCommand(EEDATA + i)
    <2>1. EEDATA + i \in Nat /\ ~(EEDATA + i < EECONTSTAT + ln)
      BY <1>4, Registers
    <2> QED
      BY <1>1, <1>3, <2>1
  <1>8. Acks <=> ln = 2
    <2>1. EECONTSTAT + 1 \in Nat
          /\ ((EECONTSTAT + lm <= EECONTSTAT + 1 /\ EECONTSTAT + 1 < EECONTSTAT + ln) <=> ln = 2)
      BY <1>4, Registers
    <2> QED
      BY <1>1, <1>3, <2>1 DEF Acks
  <1>9. CASE ln # 2
    <2>1. /\ ee' \in Interfaces /\ ee'.busy = ee.busy /\ ee'.cmd = ee.cmd
          /\ ee'.failed = ee.failed /\ ee'.addr = ee.addr /\ ee'.data = ee.data
      BY <1>1, <1>7, <1>8, <1>9, WriteElsewhere
    <2>2. written' = written
      BY <1>2, <2>1
    <2>3. EEPROMTypes' /\ Latched' /\ ReadAnswered'
      BY <1>1, <2>1, <2>2 DEF EInv, EEPROMTypes, Latched, ReadAnswered, Answered
    <2>4. Acknowledging(Bit(32, acc["main"].buf[1]))'
      BY <1>1, <1>6, <2>1, <2>2 DEF Acknowledging, ReadDone, Rewritten, failed
    <2>5. Turn'
      BY <1>1, <1>3, <2>4 DEF Turn, Made
    <2>6. Settled'
      <3>1. ~(ln >= 2)
        BY <1>4, <1>9
      <3> QED
        BY <1>1, <3>1 DEF Settled, ln
    <2> QED
      BY <2>3, <2>5, <2>6 DEF EInv
  <1>10. CASE ln = 2
    <2>1. AckOctet = a.buf[1]
      <3>1. EECONTSTAT + 1 - csr.address = 1 - lm /\ 1 - lm \in 0 .. csr.size - 1 /\ lm + (1 - lm) = 1
        BY <1>4, <1>10, Registers
      <3> QED
        BY <1>5, <3>1 DEF AckOctet
    <2>2. Taken = ee.data /\ ee.data \in [0 .. 7 -> Octets]
      <3>1. ee.data \in [0 .. 7 -> Octets]
        BY <1>1, EETyped
      <3>2. Taken = [i \in 0 .. 7 |-> ee.data[i]]
        BY <1>7 DEF Taken
      <3> QED
        BY <3>1, <3>2
    <2>3. /\ ee' \in Interfaces /\ ee'.busy = FALSE /\ ee'.failed = failed
          /\ ee'.data = ee.data
      BY <1>1, <1>8, <1>10, <2>1, <2>2, EffectFields DEF failed
    <2>4. written' = eeprom
      BY <1>2, <1>6, <2>3 DEF Acknowledging
    <2>5. EEPROMTypes'
      BY <1>1, <2>3, <2>4 DEF EEPROMTypes
    <2>6. Latched' /\ Settled'
      BY <1>1, <2>3, <2>4 DEF Latched, Settled
    <2>7. Turn'
      <3>1. ~(ln < 2)
        BY <1>10
      <3> QED
        BY <1>1, <1>3, <3>1 DEF Turn, Made, ln
    <2>8. ReadAnswered'
      BY <1>1, <1>6, <2>3 DEF ReadAnswered, Answered, Acknowledging, ReadDone
    <2> QED
      BY <2>5, <2>6, <2>7, <2>8 DEF EInv
  <1> QED
    BY <1>9, <1>10

LEMMA WriteKeeps ==
  ASSUME Alone, AInv, Shape, EInv, RegisterWrite
  PROVE  AccessNext /\ EInv'
  <1>1. AccessNext /\ acc["main"].op = "write" /\ acc["main"].pc = "poll"
    BY WriteFacts
  <1>2. task \notin {"access", "status", "take"}
    BY <1>1 DEF EInv, Turn, Made
  <1>3. task \in {"check", "answer", "acknowledge"}
    BY <1>2 DEF EInv, EEPROMTypes
  <1> QED
    BY <1>1, <1>3, OtherWriteKeeps, DataWriteKeeps, AckWriteKeeps

\* An access that leaves the interface and the tasks alone, and of the main loop's at
\* most the buffer of a read.
LEMMA ElsewhereKeeps ==
  ASSUME EInv, UNCHANGED eeVars,
         LET a == acc["main"]
             b == acc'["main"]
         IN  /\ b.op = a.op /\ b.start = a.start /\ b.len = a.len
             /\ a.op = "write" => b.buf = a.buf
             /\ a.pc = "idle" => b.pc = "idle",
         moved'["main"] = moved["main"] \/ task \in {"access", "check"}
  PROVE  EInv'
  <1>1. UNCHANGED <<task, stat, ee, eeprom, asked, written, commands>>
    BY DEF eeVars
  <1>2. EEPROMTypes' /\ Latched' /\ ReadAnswered'
    BY <1>1 DEF EInv, EEPROMTypes, Latched, ReadAnswered, Answered
  <1>3. CASE task \in {"access", "check"}
    BY <1>1, <1>2, <1>3 DEF EInv, Turn, Settled
  <1>4. CASE moved'["main"] = moved["main"]
    <2>1. Settled'
      BY <1>1, <1>4 DEF EInv, Settled
    <2>2. Turn'
      BY <1>1, <1>4 DEF EInv, Turn, Made, Working, StatusRead, InPlace, Acknowledging,
                        ReadDone, Rewritten
    <2> QED
      BY <1>2, <2>1, <2>2 DEF EInv
  <1> QED
    BY <1>3, <1>4

LEMMA FIFOKeeps ==
  ASSUME Alone, AInv, Shape, EInv, ChipFIFO
  PROVE  AccessNext /\ EInv'
  <1> DEFINE octets == [i \in Lanes |-> Holds(4 * (fifo.read.next \div 4) + i)]
  <1>1. octets \in [Lanes -> Octets]
    <2>1. fifo["read"].next \in Nat
      BY ShapeFacts, FifoFields
    <2>2. \A i \in Lanes : 4 * (fifo["read"].next \div 4) + i \in Nat
      BY <2>1
    <2> QED
      BY <2>2, HoldsTyped DEF EInv
  <1>2. UNCHANGED eeVars /\ (Fill(octets) \/ Drain \/ \E op \in Ops : Aborted(op))
    BY DEF ChipFIFO
  <1> HIDE DEF octets
  <1>3. AccessNext
    BY <1>1, <1>2 DEF AccessNext, Chip
  <1>4. acc' = acc
    BY <1>2 DEF Fill, Drain, Aborted
  <1>5. CASE acc["main"].start < PRAM
    BY <1>1, <1>2, <1>3, <1>4, <1>5, NoTransfer, ElsewhereKeeps
  <1>6. CASE ~(acc["main"].start < PRAM)
    <2>1. task \in {"access", "check"}
      <3>1. EECONTSTAT < PRAM /\ EEDATA < PRAM
        BY Registers
      <3>2. acc["main"].start \notin {EECONTSTAT, EEDATA}
        BY <1>6, <3>1
      <3> QED
        BY <3>2 DEF EInv, Turn, Made, EEPROMTypes
    <2> QED
      BY <1>2, <1>3, <1>4, <2>1, ElsewhereKeeps
  <1> QED
    BY <1>5, <1>6

LEMMA AccessingKeeps ==
  ASSUME Alone, AInv, Shape, EInv, Accessing
  PROVE  AccessNext /\ EInv'
  <1>1. Access("main") /\ UNCHANGED eeVars /\ "main" \in Callers
    BY OneCaller DEF Accessing
  <1>2. AccessNext
    BY <1>1 DEF AccessNext
  <1> QED
    BY <1>1, <1>2, DriverKeeps, ElsewhereKeeps

---------------------------------------------------------------------------
(***************************************************************************)
(* The steps of the main loop: each access it begins is one that           *)
(* ESCAccess allows.                                                       *)
(***************************************************************************)
LEMMA CallStep ==
  ASSUME Alone, AInv, NEW op \in Ops, NEW start \in 0 .. Top, NEW len \in 0 .. MaxLen,
         NEW buf \in Buffer, InSpace(start, len),
         op = "write" => \A i \in 0 .. len - 1 : buf[i] \in Octets,
         Call("main", op, start, len, buf)
  PROVE  /\ AccessNext /\ Made(op, start, len)' /\ acc'["main"].buf = buf
         /\ Len(moved'["main"]) = 0 /\ acc["main"].pc = "idle"
  <1>1. AccessNext
    BY OneCaller DEF AnyCall, AccessNext
  <1>2. acc'["main"] = Enter(op, start, len, buf) /\ moved'["main"] = <<>>
        /\ acc["main"].pc = "idle"
    BY OneCaller DEF Call, At, AInv, Types
  <1>3. /\ Enter(op, start, len, buf).op = op /\ Enter(op, start, len, buf).start = start
        /\ Enter(op, start, len, buf).len = len /\ Enter(op, start, len, buf).buf = buf
    BY DEF Enter
  <1> QED
    BY <1>1, <1>2, <1>3 DEF Made

\* Accesses to the registers of the interface.
LEMMA RegisterCall ==
  ASSUME Alone, AInv, NEW op \in Ops, NEW start, start = EECONTSTAT \/ start = EEDATA,
         NEW len \in Nat, len <= 8, start = EECONTSTAT => len <= 6, NEW buf \in Buffer,
         op = "write" => \A i \in 0 .. len - 1 : buf[i] \in Octets,
         Call("main", op, start, len, buf)
  PROVE  /\ AccessNext /\ Made(op, start, len)' /\ acc'["main"].buf = buf
         /\ Len(moved'["main"]) = 0 /\ acc["main"].pc = "idle"
  <1>1. start \in 0 .. Top /\ len \in 0 .. MaxLen /\ start < PRAM /\ start + len <= PRAM
    BY Registers
  <1>2. InSpace(start, len)
    BY <1>1 DEF InSpace
  <1> QED
    BY <1>1, <1>2, CallStep

LEMMA UnreadTyped == Unread \in Buffer
  BY DEF Unread, Buffer

\* The acknowledgement that is written says whether the command failed.
LEMMA StatusCall ==
  ASSUME Alone, AInv, NEW cmd \in 0 .. 7, NEW failed \in BOOLEAN, Status(cmd, failed)
  PROVE  /\ AccessNext /\ Made("write", EECONTSTAT, 2)' /\ Len(moved'["main"]) = 0
         /\ acc["main"].pc = "idle"
         /\ Bit(32, acc'["main"].buf[1]) <=> failed
  <1> DEFINE octet(i) == IF i = 0 THEN 0 ELSE cmd + Flag(failed, 32) + 128
             buf == [i \in 0 .. MaxLen + 2 |-> IF i < 2 THEN octet(i) ELSE Unset]
  <1>1. Call("main", "write", EECONTSTAT, 2, buf)
    BY DEF Status, Filled
  <1>2. cmd + Flag(failed, 32) + 128 \in 0 .. 255
        /\ (Bit(32, cmd + Flag(failed, 32) + 128) <=> failed)
    <2>1. CASE failed
      BY <2>1 DEF Flag, Bit
    <2>2. CASE ~failed
      BY <2>2 DEF Flag, Bit
    <2> QED
      BY <2>1, <2>2
  <1>3. octet(1) = cmd + Flag(failed, 32) + 128 /\ octet(0) = 0
    OBVIOUS
  <1>4. octet(1) \in Octets /\ octet(0) \in Octets /\ (Bit(32, octet(1)) <=> failed)
    <2>1. Octets = 0 .. 255 /\ 0 \in 0 .. 255
      BY Registers
    <2> HIDE DEF octet
    <2> QED
      BY <1>2, <1>3, <2>1, Zenon
  <1>5. \A i \in 0 .. MaxLen + 2 : i < 2 => octet(i) \in Octets
    BY <1>4
  <1> HIDE DEF octet
  <1>6. buf \in Buffer
    BY <1>5 DEF Buffer
  <1>7. 0 \in 0 .. MaxLen + 2 /\ 1 \in 0 .. MaxLen + 2 /\ buf[0] = octet(0) /\ buf[1] = octet(1)
    BY Registers
  <1> HIDE DEF buf
  <1>8. \A i \in 0 .. 2 - 1 : buf[i] \in Octets
    BY <1>4, <1>7
  <1>9. /\ AccessNext /\ Made("write", EECONTSTAT, 2)' /\ acc'["main"].buf = buf
        /\ Len(moved'["main"]) = 0 /\ acc["main"].pc = "idle"
    BY <1>1, <1>6, <1>8, RegisterCall
  <1> QED
    BY <1>4, <1>7, <1>9

\* A status with the busy bit, once read, is the command the master waits for.
LEMMA StatusKnown ==
  ASSUME AInv, Shape, EInv, task = "status", acc["main"].pc = "idle"
  PROVE  /\ Cmd \in 0 .. 7
         /\ Busy => ee.busy /\ Cmd = asked.cmd /\ Addr = asked.addr
  <1> DEFINE a == acc["main"]
             m == moved["main"]
  <1>1. a.len = 6 /\ StatusRead(m) /\ EEPROMTypes
    BY DEF EInv, Turn, Made
  <1>2. Len(m) = 6 /\ \A i \in 1 .. 6 : m[i].octet = a.buf[i - 1]
    BY <1>1, AtIdle
  <1>3. /\ m[2].octet = Octet(1) /\ m[3].octet = Octet(2) /\ m[4].octet = Octet(3)
        /\ m[5].octet = Octet(4) /\ m[6].octet = Octet(5)
    <2>1. /\ 2 - 1 = 1 /\ 3 - 1 = 2 /\ 4 - 1 = 3 /\ 5 - 1 = 4 /\ 6 - 1 = 5
          /\ 2 \in 1 .. 6 /\ 3 \in 1 .. 6 /\ 4 \in 1 .. 6 /\ 5 \in 1 .. 6 /\ 6 \in 1 .. 6
      OBVIOUS
    <2> HIDE DEF m
    <2> QED
      BY <1>2, <2>1, Zenon DEF Octet
  <1>4. Octet(1) \in 0 .. 255
    BY <1>1, <1>2, <1>3, Registers DEF StatusRead
  <1>5. Cmd \in 0 .. 7
    BY <1>4 DEF Cmd
  <1>6. ASSUME Busy PROVE ee.busy /\ Cmd = asked.cmd /\ Addr = asked.addr
    <2>1. /\ ee.busy /\ m[2].octet % 8 = ee.cmd
          /\ \A i \in 3 .. 6 : m[i].octet = (ee.addr \div Weight[i - 2]) % 256
      BY <1>1, <1>2, <1>3, <1>6 DEF StatusRead, Busy
    <2>2. Cmd = ee.cmd
      BY <1>3, <2>1 DEF Cmd
    <2>3. ee.addr \in WordAddresses /\ ee.cmd = asked.cmd /\ ee.addr = asked.addr
      BY <1>1, <2>1, EETyped DEF EInv, Latched
    <2>4. /\ Octet(2) = (ee.addr \div Weight[1]) % 256
          /\ Octet(3) = (ee.addr \div Weight[2]) % 256
          /\ Octet(4) = (ee.addr \div Weight[3]) % 256
          /\ Octet(5) = (ee.addr \div Weight[4]) % 256
      <3>1. /\ 3 - 2 = 1 /\ 4 - 2 = 2 /\ 5 - 2 = 3 /\ 6 - 2 = 4
            /\ 3 \in 3 .. 6 /\ 4 \in 3 .. 6 /\ 5 \in 3 .. 6 /\ 6 \in 3 .. 6
        OBVIOUS
      <3>2. \A i \in 3 .. 6 : m[i].octet = (ee.addr \div Weight[i - 2]) % 256
        BY <2>1
      <3> HIDE DEF m
      <3>3. Octet(2) = (ee.addr \div Weight[1]) % 256
        BY <1>3, <3>1, <3>2, Zenon
      <3>4. Octet(3) = (ee.addr \div Weight[2]) % 256
        BY <1>3, <3>1, <3>2, Zenon
      <3>5. Octet(4) = (ee.addr \div Weight[3]) % 256
        BY <1>3, <3>1, <3>2, Zenon
      <3>6. Octet(5) = (ee.addr \div Weight[4]) % 256
        BY <1>3, <3>1, <3>2, Zenon
      <3> QED
        BY <3>3, <3>4, <3>5, <3>6
    <2>5. Addr = ee.addr
      BY <2>3, <2>4, AddressOctets, Zenon DEF Addr
    <2> QED
      BY <2>1, <2>2, <2>3, <2>5
  <1> QED
    BY <1>5, <1>6

\* At the end of an access of the main loop the memory is what the acknowledged writes left.
LEMMA IdleSettled ==
  ASSUME AInv, Shape, EInv, acc["main"].pc = "idle"
  PROVE  eeprom = written
  <1>1. CASE task = "acknowledge"
    <2>1. acc["main"].len = 2
      BY <1>1 DEF EInv, Turn, Made
    <2>2. Len(moved["main"]) = 2
      BY <2>1, AtIdle
    <2> QED
      BY <2>2 DEF EInv, Settled
  <1> QED
    BY <1>1 DEF EInv, Settled

\* EEP_process ends with nothing to do.
LEMMA NothingKeeps ==
  ASSUME EInv, NoEvent \/ NotBusy
  PROVE  UNCHANGED accessVars /\ EInv'
  <1>1. /\ acc["main"].pc = "idle" /\ task \in {"check", "status"} /\ task' = "access"
        /\ UNCHANGED <<accessVars, stat, ee, eeprom, asked, written, commands>>
    BY DEF NoEvent, NotBusy, At
  <1>2. UNCHANGED <<acc, ALevent, csr, fifo, moved>>
    BY <1>1 DEF accessVars
  <1>3. EEPROMTypes' /\ Latched' /\ ReadAnswered'
    BY <1>1 DEF EInv, EEPROMTypes, Latched, ReadAnswered, Answered
  <1>4. Settled' /\ Turn'
    BY <1>1, <1>2 DEF EInv, Settled, Turn
  <1> QED
    BY <1>1, <1>3, <1>4 DEF EInv

\* The status is read, again or for the first time.
LEMMA StatusReadKeeps ==
  ASSUME Alone, AInv, Shape, EInv, Event \/ Again
  PROVE  AccessNext /\ EInv'
  <1>1. /\ Call("main", "read", EECONTSTAT, 6, Unread) /\ task' = "status"
        /\ UNCHANGED <<stat, ee, eeprom, asked, written, commands>>
    BY DEF Event, Again, ReadStatus
  <1>2. /\ AccessNext /\ Made("read", EECONTSTAT, 6)' /\ Len(moved'["main"]) = 0
        /\ acc["main"].pc = "idle"
    BY <1>1, UnreadTyped, RegisterCall
  <1>3. EEPROMTypes' /\ Latched' /\ ReadAnswered'
    BY <1>1 DEF EInv, EEPROMTypes, Latched, ReadAnswered, Answered
  <1>4. StatusRead(moved["main"])'
    BY <1>2 DEF StatusRead
  <1>5. Turn'
    BY <1>1, <1>2, <1>4 DEF Turn
  <1>6. Settled'
    BY <1>1, <1>2, IdleSettled DEF Settled
  <1> QED
    BY <1>2, <1>3, <1>5, <1>6 DEF EInv

\* The status is written back: what it says is so.
LEMMA AcknowledgeKeeps ==
  ASSUME Alone, AInv, EInv, NEW cmd \in 0 .. 7, NEW failed \in BOOLEAN, Status(cmd, failed),
         task' = "acknowledge", stat' \in [cmd : 0 .. 7, addr : Nat], eeprom' \in Memory,
         UNCHANGED <<ee, asked, written, commands>>, ee.busy,
         asked.cmd \in {READ, RELOAD} /\ ~failed => ReadDone',
         eeprom' = IF asked.cmd = WRITE /\ ~failed THEN Rewritten' ELSE written
  PROVE  AccessNext /\ EInv'
  <1>1. /\ AccessNext /\ Made("write", EECONTSTAT, 2)' /\ Len(moved'["main"]) = 0
        /\ (Bit(32, acc'["main"].buf[1]) <=> failed)
    BY StatusCall
  <1>2. EEPROMTypes' /\ Latched' /\ ReadAnswered'
    BY DEF EInv, EEPROMTypes, Latched, ReadAnswered, Answered
  <1>3. Acknowledging(Bit(32, acc["main"].buf[1]))'
    <2>1. Bit(32, acc'["main"].buf[1]) \in BOOLEAN
      BY DEF Bit
    <2> QED
      BY <1>1, <2>1, Zenon DEF Acknowledging
  <1>4. Turn'
    BY <1>1, <1>3 DEF Turn
  <1>5. Settled'
    BY <1>1 DEF Settled
  <1> QED
    BY <1>1, <1>2, <1>4, <1>5 DEF EInv

\* A read is answered with the memory, or with an error.
LEMMA DoReadKeeps ==
  ASSUME Alone, AInv, Shape, EInv, DoRead
  PROVE  AccessNext /\ EInv'
  <1> DEFINE octet(i) == eeprom[ByteAddress(Addr) + i]
             buf == Filled(octet, READ_SIZE)
             Answers == /\ ByteAddress(Addr) + READ_SIZE <= EEPROMSize
                        /\ Call("main", "write", EEDATA, READ_SIZE, buf)
                        /\ task' = "answer"
  <1>1. /\ task = "status" /\ Busy /\ Cmd \in {READ, RELOAD}
        /\ stat' = [cmd |-> Cmd, addr |-> Addr]
        /\ UNCHANGED <<ee, eeprom, asked, written, commands>>
        /\ Answers \/ (Status(Cmd, TRUE) /\ task' = "acknowledge")
    BY DEF DoRead
  <1>2. acc["main"].pc = "idle"
    BY <1>1 DEF Status, Call, At
  <1>3. Cmd \in 0 .. 7 /\ ee.busy /\ Cmd = asked.cmd /\ Addr = asked.addr
    BY <1>1, <1>2, StatusKnown
  <1>4. asked.addr \in Nat /\ eeprom \in Memory
    BY DEF EInv, EEPROMTypes, WordAddresses
  <1>5. eeprom = written
    BY <1>2, IdleSettled
  <1>6. stat' \in [cmd : 0 .. 7, addr : Nat] /\ stat'.cmd = asked.cmd /\ stat'.addr = asked.addr
    BY <1>1, <1>3, <1>4
  <1>7. CASE Answers
    <2>1. \A i \in 0 .. 7 : octet(i) \in Octets
      <3>1. \A i \in 0 .. 7 : 2 * asked.addr + i \in 0 .. EEPROMSize - 1
        BY <1>3, <1>4, <1>7, Registers DEF ByteAddress, READ_SIZE
      <3> QED
        BY <1>3, <1>4, <3>1 DEF ByteAddress, Memory
    <2>2. /\ buf = [i \in 0 .. MaxLen + 2 |-> IF i < 8 THEN octet(i) ELSE Unset]
          /\ Call("main", "write", EEDATA, 8, buf) /\ task' = "answer"
          /\ 2 * asked.addr + 8 <= EEPROMSize
      BY <1>3, <1>7 DEF Filled, READ_SIZE, ByteAddress
    <2>3. \A i \in 0 .. 7 : octet(i) = eeprom[2 * asked.addr + i]
      BY <1>3 DEF ByteAddress
    <2>4. 0 .. 7 \subseteq 0 .. MaxLen + 2 /\ \A i \in 0 .. 7 : i < 8
      BY Registers
    <2>5. \A i \in 0 .. MaxLen + 2 : i < 8 => i \in 0 .. 7
      OBVIOUS
    <2> HIDE DEF octet
    <2>6. \A i \in 0 .. 7 : buf[i] = octet(i)
      BY <2>2, <2>4
    <2>7. buf \in Buffer
      BY <2>1, <2>2, <2>5 DEF Buffer
    <2> HIDE DEF buf
    <2>8. \A i \in 0 .. 8 - 1 : buf[i] \in Octets
      BY <2>1, <2>6
    <2>9. /\ AccessNext /\ Made("write", EEDATA, 8)' /\ acc'["main"].buf = buf
          /\ Len(moved'["main"]) = 0
      <3>1. EEDATA # EECONTSTAT
        BY Registers
      <3> QED
        BY <2>2, <2>7, <2>8, <3>1, RegisterCall
    <2>10. EEPROMTypes' /\ Latched' /\ ReadAnswered'
      BY <1>1, <1>6, <2>2 DEF EInv, EEPROMTypes, Latched, ReadAnswered, Answered
    <2>11. InPlace(moved["main"])'
      BY <2>9 DEF InPlace
    <2>12. \A i \in 0 .. READ_SIZE - 1 : acc'["main"].buf[i] = eeprom'[2 * stat'.addr + i]
      <3>1. READ_SIZE - 1 = 7
        BY DEF READ_SIZE
      <3>2. \A i \in 0 .. 7 : buf[i] = eeprom[2 * asked.addr + i]
        BY <2>3, <2>6
      <3> QED
        BY <1>1, <1>6, <2>9, <3>1, <3>2, Zenon
    <2>13. Working' /\ stat'.cmd \in {READ, RELOAD} /\ 2 * stat'.addr + READ_SIZE <= EEPROMSize
      BY <1>1, <1>3, <1>6, <2>2 DEF Working, READ_SIZE
    <2>14. Turn'
      BY <2>2, <2>9, <2>11, <2>12, <2>13 DEF Turn, READ_SIZE
    <2>15. Settled'
      BY <1>1, <1>5 DEF Settled
    <2> QED
      BY <2>9, <2>10, <2>14, <2>15 DEF EInv
  <1>8. CASE Status(Cmd, TRUE) /\ task' = "acknowledge"
    <2>1. asked.cmd # WRITE
      BY <1>1, <1>3 DEF READ, WRITE, RELOAD
    <2> QED
      BY <1>1, <1>3, <1>4, <1>5, <1>6, <1>8, <2>1, AcknowledgeKeeps
  <1> QED
    BY <1>1, <1>7, <1>8

LEMMA DataWrittenKeeps ==
  ASSUME Alone, AInv, Shape, EInv, DataWritten
  PROVE  AccessNext /\ EInv'
  <1> DEFINE a == acc["main"]
             m == moved["main"]
  <1>1. /\ task = "answer" /\ Status(stat.cmd, FALSE) /\ task' = "acknowledge"
        /\ UNCHANGED <<stat, ee, eeprom, asked, written, commands>>
    BY DEF DataWritten
  <1>2. a.pc = "idle"
    BY <1>1 DEF Status, Call, At
  <1>3. /\ a.len = 8 /\ Working /\ stat.cmd \in {READ, RELOAD} /\ InPlace(m)
        /\ \A i \in 0 .. 7 : a.buf[i] = eeprom[2 * stat.addr + i]
    BY <1>1 DEF EInv, Turn, Made, READ_SIZE
  <1>4. Len(m) = 8 /\ \A i \in 1 .. 8 : m[i].octet = a.buf[i - 1]
    BY <1>2, <1>3, AtIdle
  <1>5. ee.busy /\ stat.cmd = asked.cmd /\ stat.addr = asked.addr
    BY <1>3 DEF Working
  <1>6. ReadDone'
    <2> SUFFICES ASSUME NEW i \in 0 .. 7 PROVE ee.data[i] = eeprom[2 * asked.addr + i]
      BY <1>1 DEF ReadDone, READ_SIZE
    <2>1. i + 1 \in 1 .. 8 /\ i + 1 - 1 = i
      OBVIOUS
    <2>2. ee.data[i] = m[i + 1].octet /\ m[i + 1].octet = a.buf[i]
      BY <1>3, <1>4, <2>1 DEF InPlace
    <2> QED
      BY <1>3, <1>5, <2>2
  <1>7. stat \in [cmd : 0 .. 7, addr : Nat] /\ eeprom \in Memory
    BY DEF EInv, EEPROMTypes
  <1>8. eeprom = written /\ asked.cmd # WRITE
    BY <1>2, <1>3, <1>5, IdleSettled DEF READ, WRITE, RELOAD
  <1> QED
    BY <1>1, <1>5, <1>6, <1>7, <1>8, AcknowledgeKeeps

LEMMA DoWriteKeeps ==
  ASSUME Alone, AInv, Shape, EInv, DoWrite
  PROVE  AccessNext /\ EInv'
  <1>1. /\ task = "status" /\ Busy /\ Cmd = WRITE /\ stat' = [cmd |-> Cmd, addr |-> Addr]
        /\ Call("main", "read", EEDATA, 2, Unread) /\ task' = "take"
        /\ UNCHANGED <<ee, eeprom, asked, written, commands>>
    BY DEF DoWrite, WRITE_SIZE
  <1>2. /\ AccessNext /\ Made("read", EEDATA, 2)' /\ Len(moved'["main"]) = 0
        /\ acc["main"].pc = "idle"
    BY <1>1, UnreadTyped, RegisterCall
  <1>3. Cmd \in 0 .. 7 /\ ee.busy /\ Cmd = asked.cmd /\ Addr = asked.addr /\ eeprom = written
    BY <1>1, <1>2, StatusKnown, IdleSettled
  <1>4. asked.addr \in Nat
    BY DEF EInv, EEPROMTypes, WordAddresses
  <1>5. stat' \in [cmd : 0 .. 7, addr : Nat] /\ stat'.cmd = asked.cmd /\ stat'.addr = asked.addr
    BY <1>1, <1>3, <1>4
  <1>6. EEPROMTypes' /\ Latched' /\ ReadAnswered'
    BY <1>1, <1>5 DEF EInv, EEPROMTypes, Latched, ReadAnswered, Answered
  <1>7. InPlace(moved["main"])'
    BY <1>2 DEF InPlace
  <1>8. Working' /\ stat'.cmd = WRITE
    BY <1>1, <1>3, <1>5 DEF Working
  <1>9. Turn' /\ Settled'
    BY <1>1, <1>2, <1>3, <1>7, <1>8 DEF Turn, Settled, WRITE_SIZE
  <1> QED
    BY <1>2, <1>6, <1>9 DEF EInv

LEMMA StoreKeeps ==
  ASSUME Alone, AInv, Shape, EInv, Store
  PROVE  AccessNext /\ EInv'
  <1> DEFINE a == acc["main"]
             m == moved["main"]
             there == ByteAddress(stat.addr)
             image == [i \in DOMAIN eeprom |->
                         IF i \in there .. there + WRITE_SIZE - 1 THEN Octet(i - there)
                         ELSE eeprom[i]]
  <1>1. /\ task = "take" /\ task' = "acknowledge"
        /\ UNCHANGED <<stat, ee, asked, written, commands>>
        /\ \/ eeprom' = image /\ Status(stat.cmd, FALSE)
           \/ UNCHANGED eeprom /\ Status(stat.cmd, TRUE)
    BY DEF Store
  <1>2. a.pc = "idle"
    BY <1>1 DEF Status, Call, At
  <1>3. a.len = 2 /\ Working /\ stat.cmd = WRITE /\ InPlace(m)
    BY <1>1 DEF EInv, Turn, Made, WRITE_SIZE
  <1>4. Len(m) = 2 /\ \A i \in 1 .. 2 : m[i].octet = a.buf[i - 1]
    BY <1>2, <1>3, AtIdle
  <1>5. ee.busy /\ stat.cmd = asked.cmd /\ stat.addr = asked.addr
    BY <1>3 DEF Working
  <1>6. \A i \in 0 .. 1 : Octet(i) = asked.word[i]
    <2> SUFFICES ASSUME NEW i \in 0 .. 1 PROVE Octet(i) = asked.word[i]
      OBVIOUS
    <2>1. i + 1 \in 1 .. 2 /\ i + 1 - 1 = i
      OBVIOUS
    <2>2. ee.data[i] = m[i + 1].octet /\ m[i + 1].octet = a.buf[i]
      BY <1>3, <1>4, <2>1 DEF InPlace
    <2>3. ee.data[i] = asked.word[i]
      BY <1>3, <1>5 DEF EInv, Latched
    <2> QED
      BY <2>2, <2>3 DEF Octet
  <1>7. /\ stat \in [cmd : 0 .. 7, addr : Nat] /\ eeprom \in Memory /\ asked.addr \in Nat
        /\ asked.word \in [0 .. 1 -> Octets]
    BY DEF EInv, EEPROMTypes, WordAddresses
  <1>8. eeprom = written
    BY <1>2, IdleSettled
  <1>9. there = 2 * asked.addr /\ there + WRITE_SIZE - 1 = 2 * asked.addr + 1
    BY <1>5, <1>7 DEF ByteAddress, WRITE_SIZE
  <1>10. asked.cmd = WRITE /\ WRITE \notin {READ, RELOAD}
    BY <1>3, <1>5 DEF READ, WRITE, RELOAD
  <1>11. CASE eeprom' = image /\ Status(stat.cmd, FALSE)
    <2>1. ASSUME NEW i \in 2 * asked.addr .. 2 * asked.addr + 1
          PROVE  Octet(i - 2 * asked.addr) = asked.word[i - 2 * asked.addr]
      <3>1. i - 2 * asked.addr \in 0 .. 1
        BY <1>7, <2>1
      <3> QED
        BY <1>6, <3>1
    <2>2. image = Rewritten
      BY <1>8, <1>9, <2>1, Zenon DEF Rewritten
    <2>3. Rewritten \in Memory
      <3>1. ASSUME NEW i \in 2 * asked.addr .. 2 * asked.addr + 1
            PROVE  asked.word[i - 2 * asked.addr] \in Octets
        <4>1. i - 2 * asked.addr \in 0 .. 1
          BY <1>7
        <4> QED
          BY <1>7, <4>1
      <3>2. DOMAIN eeprom = 0 .. EEPROMSize - 1 /\ written \in [0 .. EEPROMSize - 1 -> Octets]
        BY <1>7, <1>8 DEF Memory
      <3> QED
        BY <3>1, <3>2, Zenon DEF Rewritten, Memory
    <2>4. eeprom' \in Memory /\ eeprom' = Rewritten
      BY <1>11, <2>2, <2>3
    <2>5. DOMAIN eeprom' = DOMAIN eeprom
      BY <1>7, <2>4 DEF Memory
    <2>6. Rewritten' = Rewritten
      BY <1>1, <2>5, Zenon DEF Rewritten
    <2> QED
      BY <1>1, <1>5, <1>7, <1>10, <1>11, <2>4, <2>6, AcknowledgeKeeps
  <1>12. CASE UNCHANGED eeprom /\ Status(stat.cmd, TRUE)
    BY <1>1, <1>5, <1>7, <1>8, <1>12, AcknowledgeKeeps
  <1> QED
    BY <1>1, <1>11, <1>12

\* A command the slave does not know is answered with an error.
LEMMA UnknownKeeps ==
  ASSUME Alone, AInv, Shape, EInv, Unknown
  PROVE  AccessNext /\ EInv'
  <1>1. /\ task = "status" /\ Busy /\ Cmd \notin {READ, WRITE, RELOAD}
        /\ Status(Cmd, Cmd # IDLE) /\ task' = "acknowledge"
        /\ UNCHANGED <<stat, ee, eeprom, asked, written, commands>>
    BY DEF Unknown
  <1>2. acc["main"].pc = "idle"
    BY <1>1 DEF Status, Call, At
  <1>3. Cmd \in 0 .. 7 /\ ee.busy /\ Cmd = asked.cmd /\ eeprom = written
    BY <1>1, <1>2, StatusKnown, IdleSettled
  <1>4. stat \in [cmd : 0 .. 7, addr : Nat] /\ eeprom \in Memory
    BY DEF EInv, EEPROMTypes
  <1>5. asked.cmd \notin {READ, RELOAD} /\ asked.cmd # WRITE /\ (Cmd # IDLE) \in BOOLEAN
    BY <1>1, <1>3
  <1> QED
    BY <1>1, <1>3, <1>4, <1>5, AcknowledgeKeeps

\* The other accesses of the main loop.
LEMMA StackKeeps ==
  ASSUME Alone, AInv, Shape, EInv, NEW x \in Callers, StackAccess(x)
  PROVE  AccessNext /\ EInv'
  <1>1. x = "main"
    BY OneCaller
  <1>2. PICK a \in Accesses :
          Call("main", a.op, a.start, a.len,
               IF a.op = "read" THEN Unread ELSE Filled(SomeData, a.len))
    BY <1>1 DEF StackAccess, OtherAccess
  <1>3. /\ task = "access" /\ task' = "check"
        /\ UNCHANGED <<stat, ee, eeprom, asked, written, commands>>
    BY <1>1 DEF StackAccess
  <1> DEFINE buf == IF a.op = "read" THEN Unread ELSE Filled(SomeData, a.len)
  <1>4. /\ a.op \in Ops /\ a.start \in 0 .. Top /\ a.len \in 0 .. MaxLen
        /\ InSpace(a.start, a.len)
        /\ a.op = "write" => a.start + a.len <= EECONTSTAT \/ a.start >= EEDATA + 8
    BY EEPROMAssumption DEF EEPROMAssumption
  <1>5. \A i \in 0 .. MaxLen + 2 : SomeData(i) \in Octets
    BY Registers DEF SomeData
  <1>6. Filled(SomeData, a.len) \in Buffer
    BY <1>5 DEF Filled, Buffer
  <1>7. \A i \in 0 .. a.len - 1 : Filled(SomeData, a.len)[i] \in Octets
    <2>1. \A i \in 0 .. a.len - 1 : i \in 0 .. MaxLen + 2 /\ i < a.len
      BY <1>4, AccessAssumption
    <2> HIDE DEF SomeData
    <2> QED
      BY <1>5, <2>1, Zenon DEF Filled
  <1>8. buf \in Buffer /\ (a.op = "write" => \A i \in 0 .. a.len - 1 : buf[i] \in Octets)
    BY <1>6, <1>7, UnreadTyped
  <1> HIDE DEF buf
  <1>9. Call("main", a.op, a.start, a.len, buf)
    BY <1>2 DEF buf
  <1>10. /\ AccessNext /\ Made(a.op, a.start, a.len)' /\ acc["main"].pc = "idle"
    BY <1>4, <1>8, <1>9, CallStep
  <1>11. EEPROMTypes' /\ Latched' /\ ReadAnswered'
    BY <1>3 DEF EInv, EEPROMTypes, Latched, ReadAnswered, Answered
  <1>12. Turn'
    BY <1>3, <1>4, <1>10 DEF Turn, Made
  <1>13. Settled'
    BY <1>3, <1>10, IdleSettled DEF Settled
  <1> QED
    BY <1>10, <1>11, <1>12, <1>13 DEF EInv

---------------------------------------------------------------------------
(***************************************************************************)
(* The invariant, the refinement of ESCAccess and the properties.          *)
(***************************************************************************)
LEMMA EInvInit == Alone /\ Init => EInv
  <1> SUFFICES ASSUME Alone, Init PROVE EInv
    OBVIOUS
  <1>1. acc["main"].pc = "idle" /\ moved["main"] = <<>>
    BY OneCaller DEF Init, AccessInit, Idle
  <1>2. /\ task = "access" /\ stat = [cmd |-> 0, addr |-> 0]
        /\ ee = [busy |-> FALSE, cmd |-> 0, failed |-> FALSE, addr |-> 0,
                 data |-> [i \in 0 .. 7 |-> 0]]
        /\ eeprom = [i \in 0 .. EEPROMSize - 1 |-> i % 256]
        /\ asked = [cmd |-> 0, addr |-> 0, word |-> [i \in 0 .. 1 |-> 0]]
        /\ written = eeprom
    BY DEF Init, IDLE
  <1>3. eeprom \in Memory
    <2>1. \A i \in 0 .. EEPROMSize - 1 : i % 256 \in Octets
      BY Registers
    <2> QED
      BY <1>2, <2>1, Zenon DEF Memory
  <1>4. 0 \in WordAddresses /\ 0 \in Cmds /\ 0 \in Octets
    BY Registers DEF WordAddresses, Cmds
  <1>5. EEPROMTypes
    BY <1>2, <1>3, <1>4 DEF EEPROMTypes, Interfaces
  <1>6. ~ee.busy /\ asked.cmd = 0
    BY <1>2
  <1>7. Latched /\ ReadAnswered
    BY <1>6 DEF Latched, ReadAnswered, Answered, READ, RELOAD
  <1>8. Turn /\ Settled
    BY <1>1, <1>2 DEF Turn, Settled
  <1> QED
    BY <1>5, <1>7, <1>8 DEF EInv

\* Every step is one of an access, or one that no access sees.
LEMMA StepKeeps ==
  ASSUME Alone, AInv, Shape, EInv, [Next]_vars
  PROVE  [AccessNext]_accessVars /\ EInv'
  <1>1. CASE MasterCommand
    BY <1>1, MasterKeeps
  <1>2. CASE RegisterRead
    BY <1>2, ReadKeeps
  <1>3. CASE RegisterWrite
    BY <1>3, WriteKeeps
  <1>4. CASE ChipFIFO
    BY <1>4, FIFOKeeps
  <1>5. CASE Accessing
    BY <1>5, AccessingKeeps
  <1>6. CASE NoEvent \/ NotBusy
    BY <1>6, NothingKeeps
  <1>7. CASE Event \/ Again
    BY <1>7, StatusReadKeeps
  <1>8. CASE DoRead
    BY <1>8, DoReadKeeps
  <1>9. CASE DataWritten
    BY <1>9, DataWrittenKeeps
  <1>10. CASE DoWrite
    BY <1>10, DoWriteKeeps
  <1>11. CASE Store
    BY <1>11, StoreKeeps
  <1>12. CASE Unknown
    BY <1>12, UnknownKeeps
  <1>13. CASE \E x \in Callers : StackAccess(x)
    BY <1>13, StackKeeps
  <1>14. CASE UNCHANGED vars
    <2>1. UNCHANGED accessVars /\ UNCHANGED eeVars
      BY <1>14 DEF vars
    <2>2. /\ UNCHANGED <<acc, ALevent, csr, fifo, moved>>
          /\ UNCHANGED <<task, stat, ee, eeprom, asked, written, commands>>
      BY <2>1 DEF accessVars, eeVars
    <2>3. acc'["main"] = acc["main"] /\ moved'["main"] = moved["main"]
      BY <2>2
    <2> QED
      BY <2>1, <2>3, ElsewhereKeeps
  <1> QED
    BY <1>1, <1>2, <1>3, <1>4, <1>5, <1>6, <1>7, <1>8, <1>9, <1>10, <1>11, <1>12, <1>13,
       <1>14 DEF Next, ChipStep, EEP_process

LEMMA Inductive ==
  ASSUME Alone
  PROVE  /\ Init => AInv /\ Shape /\ EInv
         /\ (AInv /\ Shape /\ EInv) /\ [Next]_vars
              => (AInv /\ Shape /\ EInv)' /\ [AccessNext]_accessVars
  <1>1. Init => AInv /\ Shape /\ EInv
    <2>1. Init => AccessInit
      BY DEF Init
    <2> QED
      BY <2>1, InitHolds, InitShape, EInvInit
  <1>2. ASSUME AInv, Shape, EInv, [Next]_vars
        PROVE  (AInv /\ Shape /\ EInv)' /\ [AccessNext]_accessVars
    BY <1>2, StepKeeps, Preserved, ShapePreserved
  <1> QED
    BY <1>1, <1>2

\* EEP_process and the rest of the main loop make accesses as ESCAccess has them: the
\* EEPROM emulation implements it, with the variables of the accesses as they are.
THEOREM AccessesRefined == ASSUME Alone PROVE Spec => AccessSpec
  <1>1. Init => AccessInit
    BY DEF Init
  <1>2. Init => AInv /\ Shape /\ EInv
    BY Inductive
  <1>3. (AInv /\ Shape /\ EInv) /\ [Next]_vars
          => (AInv /\ Shape /\ EInv)' /\ [AccessNext]_accessVars
    BY Inductive
  <1> QED
    BY <1>1, <1>2, <1>3, PTL DEF Spec, AccessSpec

\* What EEP_process relies on holds in every state.
THEOREM EEPROMCorrect == ASSUME Alone PROVE Spec => [](AInv /\ Shape /\ EInv)
  <1>1. Init => AInv /\ Shape /\ EInv
    BY Inductive
  <1>2. (AInv /\ Shape /\ EInv) /\ [Next]_vars => (AInv /\ Shape /\ EInv)'
    BY Inductive
  <1> QED
    BY <1>1, <1>2, PTL DEF Spec

\* A master that finds its read or reload done without an error finds eight octets of
\* the memory at the address it asked for (eep_read: the data before the status).
THEOREM AnswersCorrect == ASSUME Alone PROVE Spec => []ReadAnswered
  <1>1. AInv /\ Shape /\ EInv => ReadAnswered
    BY DEF EInv
  <1> QED
    BY EEPROMCorrect, <1>1, PTL

\* While no command is being carried out the memory is what the writes acknowledged
\* without an error made of it (eep_write).
THEOREM StoredCorrect == ASSUME Alone PROVE Spec => []WritesStored
  <1>1. ASSUME AInv, Shape, EInv PROVE WritesStored
    <2> SUFFICES ASSUME ~ee.busy PROVE eeprom = written
      BY DEF WritesStored
    <2>1. CASE task = "acknowledge" /\ Len(moved["main"]) < 2
      BY <1>1, <2>1 DEF EInv, Turn, Acknowledging
    <2>2. CASE task # "acknowledge"
      BY <1>1, <2>2 DEF EInv, Settled
    <2>3. CASE ~(Len(moved["main"]) < 2)
      <3>1. moved["main"] \in Seq(Entries)
        BY <1>1, OneCaller DEF AInv, Types
      <3>2. Len(moved["main"]) >= 2
        BY <2>3, <3>1
      <3> QED
        BY <1>1, <3>2 DEF EInv, Settled
    <2> QED
      BY <2>1, <2>2, <2>3
  <1> QED
    BY EEPROMCorrect, <1>1, PTL

\* The commands of every access of the main loop are ones the chip carries out, and
\* each transfers the octets of its addresses.
THEOREM AccessesCorrect ==
  ASSUME Alone PROVE Spec => []CommandsLegal /\ []TransferExact
  BY AccessesRefined, CommandsCorrect, TransferCorrect, PTL

=============================================================================
