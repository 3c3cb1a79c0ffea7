----------------------------- MODULE ESCAccess -----------------------------
(***************************************************************************)
(* Access to the LAN9252 (src/templates/esc_hw.c): every ESC_read and      *)
(* ESC_write of the stack goes over SPI, registers through the CSR         *)
(* interface in chunks the chip accepts, process data RAM through a FIFO   *)
(* for each direction, and ends with a read of the AL event register.  A   *)
(* step is one SPI transfer of the driver or one action of the chip.       *)
(*                                                                         *)
(* The chip is external: what it needs and does is taken from how the      *)
(* driver uses it.  Octets the chip gives are arbitrary here.  Callers are *)
(* the main loop and, with interrupts, a handler that runs to its end.     *)
(*                                                                         *)
(* An operator named X_Y is operator X with a plausible mistake, Y, that   *)
(* breaks one of the properties.                                           *)
(***************************************************************************)
EXTENDS Integers, Sequences

CONSTANTS
  Octets,        \* values of an octet, 0 among them
  Unset,         \* what an octet nobody has written holds
  ALEVENT,       \* ESCREG_ALEVENT
  PRAM,          \* 0x1000: the first address of process data RAM
  Top,           \* the last one
  MaxLen,        \* bound on the octets of an access
  Depth,         \* words a FIFO holds
  UseInterrupt,  \* accesses are also made in an interrupt handler
  KeepsUp        \* the chip fills and drains its FIFOs between two SPI transfers

ASSUME AccessAssumption ==
  /\ 0 \in Octets /\ Unset \notin Octets
  /\ ALEVENT \in Nat /\ PRAM \in Nat /\ Top \in Nat
  /\ ALEVENT % 2 = 0 /\ PRAM % 4 = 0 /\ ALEVENT + 2 <= PRAM
  /\ MaxLen \in Nat /\ Depth \in Nat \ {0}
  /\ UseInterrupt \in BOOLEAN /\ KeepsUp \in BOOLEAN

Callers == IF UseInterrupt THEN {"main", "isr"} ELSE {"main"}
Ops == {"read", "write"}
Lanes == 0 .. 3                                     \* the octets of a 32-bit register
Register == [Lanes -> Octets \union {Unset}]
Buffer == [0 .. MaxLen + 2 -> Octets \union {Unset}]
Unread == [i \in 0 .. MaxLen + 2 |-> Unset]

VARIABLES
  \* the driver: acc[x], the access of caller x
  acc,       \* pc; op, start, len: the call; done: octets so far; buf; event: its end
  ALevent,   \* ESCvar.ALevent
  \* the chip
  csr,       \* CSR_CMD, CSR_DATA: busy, op, address, size, data; by: whose command
  fifo,      \* fifo[op]: state, next, end: its transfer; words; by: whose transfer
  \* history
  moved      \* moved[x]: the octets the chip gave or took for the access of x, in order

accessVars == <<acc, ALevent, csr, fifo, moved>>

Least(a, b) == IF a < b THEN a ELSE b

---------------------------------------------------------------------------
(***************************************************************************)
(* Calls.                                                                  *)
(***************************************************************************)
Idle == [pc |-> "idle", op |-> "read", start |-> 0, len |-> 0, done |-> 0,
         buf |-> Unread, event |-> FALSE]

\* A handler runs to its end before the main loop goes on.
Runs(x) == x = "main" => \A y \in Callers \ {x} : acc[y].pc = "idle"

At(x, pc) == Runs(x) /\ acc[x].pc = pc

\* ESC_read, ESC_write: len 0 in process data RAM has no use in the stack.
Enter(op, start, len, buf) ==
  [pc |-> IF start >= PRAM THEN "abort" ELSE "csr", op |-> op, start |-> start,
   len |-> len, done |-> 0, buf |-> buf, event |-> start < PRAM /\ len = 0]

Call(x, op, start, len, buf) ==
  /\ At(x, "idle")
  /\ acc' = [acc EXCEPT ![x] = Enter(op, start, len, buf)]
  /\ moved' = [moved EXCEPT ![x] = <<>>]
  /\ UNCHANGED <<ALevent, csr, fifo>>

\* n further octets are done; the end is a read of ALEVENT.
Advance(a, n) ==
  [a EXCEPT !.done = a.done + n, !.event = a.done + n = a.len,
            !.pc = IF a.start < PRAM \/ a.done + n = a.len THEN "csr" ELSE "word"]

---------------------------------------------------------------------------
(***************************************************************************)
(* Registers: ESC_read_csr, ESC_write_csr and the loop around them.        *)
(***************************************************************************)
Size_Keeps3(address, len) ==
  LET size == Least(len, 4)
  IN  IF address % 2 = 1 THEN 1
      ELSE IF (address \div 2) % 2 = 1 THEN IF size % 2 = 1 THEN 1 ELSE 2
      ELSE size

\* The chip takes 1, 2 or 4 octets, at a multiple of their number.
Size(address, len) ==
  LET size == Least(len, 4)
  IN  IF address % 2 = 1 THEN 1
      ELSE IF (address \div 2) % 2 = 1 THEN IF size % 2 = 1 THEN 1 ELSE 2
      ELSE IF size = 3 THEN 1 ELSE size

Chunk(a) ==
  IF a.event THEN [op |-> "read", address |-> ALEVENT, size |-> 2]
  ELSE [op |-> a.op, address |-> a.start + a.done,
        size |-> Size(a.start + a.done, a.len - a.done)]

\* The data register, before a write.
LoadData(x) ==
  LET a == acc[x]
  IN  /\ At(x, "csr") /\ Chunk(a).op = "write"
      /\ csr' = [csr EXCEPT !.data =
                   [i \in Lanes |-> IF i < Chunk(a).size THEN a.buf[a.done + i] ELSE Unset]]
      /\ acc' = [acc EXCEPT ![x].pc = "command"]
      /\ UNCHANGED <<ALevent, fifo, moved>>

Command(x) ==
  LET k == Chunk(acc[x])
  IN  /\ At(x, "command") \/ (At(x, "csr") /\ k.op = "read")
      /\ csr' = [csr EXCEPT !.busy = TRUE, !.op = k.op, !.address = k.address,
                            !.size = k.size, !.by = x]
      /\ acc' = [acc EXCEPT ![x].pc = "poll"]
      /\ UNCHANGED <<ALevent, fifo, moved>>

PollCSR(x) ==
  LET a == acc[x]
  IN  /\ At(x, "poll") /\ ~csr.busy
      /\ acc' = [acc EXCEPT ![x] = IF Chunk(a).op = "read" THEN [a EXCEPT !.pc = "fetch"]
                                   ELSE Advance(a, Chunk(a).size)]
      /\ UNCHANGED <<ALevent, csr, fifo, moved>>

FetchData(x) ==
  LET a == acc[x]
      size == Chunk(a).size
  IN  /\ At(x, "fetch") /\ ~a.event
      /\ acc' = [acc EXCEPT ![x] = Advance(
                   [a EXCEPT !.buf = [i \in DOMAIN a.buf |->
                      IF i \in a.done .. a.done + size - 1 THEN csr.data[i - a.done]
                      ELSE a.buf[i]]], size)]
      /\ UNCHANGED <<ALevent, csr, fifo, moved>>

FetchEvent(x) ==
  /\ At(x, "fetch") /\ acc[x].event
  /\ ALevent' = [i \in 0 .. 1 |-> csr.data[i]]
  /\ acc' = [acc EXCEPT ![x].pc = "idle", ![x].event = FALSE]
  /\ UNCHANGED <<csr, fifo, moved>>

---------------------------------------------------------------------------
(***************************************************************************)
(* Process data RAM: ESC_read_pram, ESC_write_pram.                        *)
(***************************************************************************)
Room(op) == IF op = "read" THEN fifo[op].words # <<>> ELSE Len(fifo[op].words) < Depth

Abort(x) ==
  LET op == acc[x].op
  IN  /\ At(x, "abort")
      /\ fifo' = [fifo EXCEPT ![op].state = "abort"]
      /\ acc' = [acc EXCEPT ![x].pc = "setup"]
      /\ UNCHANGED <<ALevent, csr, moved>>

SetUp(x) ==
  LET a == acc[x]
  IN  /\ At(x, "setup") /\ fifo[a.op].state = "idle"
      /\ fifo' = [fifo EXCEPT ![a.op].next = a.start, ![a.op].end = a.start + a.len]
      /\ acc' = [acc EXCEPT ![x].pc = "start"]
      /\ UNCHANGED <<ALevent, csr, moved>>

Start(x) ==
  /\ At(x, "start")
  /\ fifo' = [fifo EXCEPT ![acc[x].op].state = "run", ![acc[x].op].by = x]
  /\ acc' = [acc EXCEPT ![x].pc = "avail"]
  /\ UNCHANGED <<ALevent, csr, moved>>

PollAvail(x) ==
  /\ At(x, "avail") /\ Room(acc[x].op)
  /\ acc' = [acc EXCEPT ![x].pc = "word"]
  /\ UNCHANGED <<ALevent, csr, fifo, moved>>

Lane_Aligned(a) == 0
\* The first octet is at its place in the first word.
Lane(a) == IF a.done = 0 THEN a.start % 4 ELSE 0
Part(a) == Least(4 - Lane(a), a.len - a.done)

\* The number of words in the FIFO (fifo_cnt) is read and not used.  Of the first
\* word its part is stored, of the others all four octets.
ReadWord(x) ==
  LET a == acc[x]
      q == fifo.read.words
      w == IF q = <<>> THEN [i \in Lanes |-> Unset] ELSE Head(q)
      n == IF a.done = 0 THEN Part(a) ELSE 4
  IN  /\ At(x, "word") /\ a.op = "read"
      /\ acc' = [acc EXCEPT ![x] = Advance(
                   [a EXCEPT !.buf = [i \in DOMAIN a.buf |->
                      IF i \in a.done .. a.done + n - 1 THEN w[Lane(a) + i - a.done]
                      ELSE a.buf[i]]], Part(a))]
      /\ fifo' = [fifo EXCEPT !.read.words = IF q = <<>> THEN q ELSE Tail(q)]
      /\ UNCHANGED <<ALevent, csr, moved>>

WriteWord(x) ==
  LET a == acc[x]
      q == fifo.write.words
      w == [i \in Lanes |-> IF i \in Lane(a) .. Lane(a) + Part(a) - 1
                            THEN a.buf[a.done + i - Lane(a)] ELSE Unset]
  IN  /\ At(x, "word") /\ a.op = "write"
      /\ acc' = [acc EXCEPT ![x] = Advance(a, Part(a))]
      /\ fifo' = [fifo EXCEPT !.write.words = IF Len(q) < Depth THEN Append(q, w) ELSE q]
      /\ UNCHANGED <<ALevent, csr, moved>>

\* What the chip can do with its FIFOs.
Pending ==
  \/ fifo.read.state = "run" /\ Len(fifo.read.words) < Depth
  \/ fifo.write.state = "run" /\ fifo.write.words # <<>>

Access(x) ==
  /\ ~(KeepsUp /\ Pending)
  /\ \/ LoadData(x) \/ Command(x) \/ PollCSR(x) \/ FetchData(x) \/ FetchEvent(x)
     \/ Abort(x) \/ SetUp(x) \/ Start(x) \/ PollAvail(x) \/ ReadWord(x) \/ WriteWord(x)

---------------------------------------------------------------------------
(***************************************************************************)
(* The chip.                                                               *)
(***************************************************************************)
\* octets: a function from lanes
Log(x, address, octets, from, to) ==
  moved' = [moved EXCEPT ![x] = @ \o [i \in 1 .. to - from + 1 |->
              [at |-> address + i - 1, octet |-> octets[from + i - 1]]]]

GiveRegister(octets) ==
  /\ csr.busy /\ csr.op = "read"
  /\ csr' = [csr EXCEPT !.busy = FALSE,
               !.data = [i \in Lanes |-> IF i < csr.size THEN octets[i] ELSE Unset]]
  /\ IF acc[csr.by].event THEN UNCHANGED moved
     ELSE Log(csr.by, csr.address, octets, 0, csr.size - 1)
  /\ UNCHANGED <<acc, ALevent, fifo>>

TakeRegister ==
  /\ csr.busy /\ csr.op = "write"
  /\ csr' = [csr EXCEPT !.busy = FALSE]
  /\ Log(csr.by, csr.address, csr.data, 0, csr.size - 1)
  /\ UNCHANGED <<acc, ALevent, fifo>>

Aborted(op) ==
  /\ fifo[op].state = "abort"
  /\ fifo' = [fifo EXCEPT ![op].state = "idle", ![op].words = <<>>]
  /\ UNCHANGED <<acc, ALevent, csr, moved>>

\* The octets of a transfer that are in its next word.
From(f) == f.next % 4
To(f) == Least(3, f.end - f.next + From(f) - 1)
Moved(f) == [f EXCEPT !.next = @ + To(f) - From(f) + 1,
                      !.state = IF f.next + To(f) - From(f) + 1 = f.end THEN "idle" ELSE @]

Fill(octets) ==
  LET f == fifo.read
  IN  /\ f.state = "run" /\ Len(f.words) < Depth
      /\ fifo' = [fifo EXCEPT !.read = [Moved(f) EXCEPT !.words = Append(@, octets)]]
      /\ Log(f.by, f.next, octets, From(f), To(f))
      /\ UNCHANGED <<acc, ALevent, csr>>

Drain ==
  LET f == fifo.write
  IN  /\ f.state = "run" /\ f.words # <<>>
      /\ fifo' = [fifo EXCEPT !.write = [Moved(f) EXCEPT !.words = Tail(@)]]
      /\ Log(f.by, f.next, Head(f.words), From(f), To(f))
      /\ UNCHANGED <<acc, ALevent, csr>>

---------------------------------------------------------------------------
AccessInit ==
  /\ acc = [x \in Callers |-> Idle]
  /\ ALevent = [i \in 0 .. 1 |-> 0]
  /\ csr = [busy |-> FALSE, op |-> "read", address |-> 0, size |-> 1,
            data |-> [i \in Lanes |-> Unset], by |-> "main"]
  /\ fifo = [op \in Ops |-> [state |-> "idle", next |-> 0, end |-> 0, words |-> <<>>,
                             by |-> "main"]]
  /\ moved = [x \in Callers |-> <<>>]

InSpace(start, len) == IF start < PRAM THEN start + len <= PRAM ELSE len > 0 /\ start + len <= Top + 1

AnyCall(x) ==
  \E op \in Ops, start \in 0 .. Top, len \in 0 .. MaxLen, buf \in Buffer :
    /\ InSpace(start, len)
    /\ op = "write" => \A i \in 0 .. len - 1 : buf[i] \in Octets
    /\ Call(x, op, start, len, buf)

Chip ==
  \/ \E octets \in [Lanes -> Octets] : GiveRegister(octets) \/ Fill(octets)
  \/ TakeRegister \/ Drain \/ \E op \in Ops : Aborted(op)

AccessNext == Chip \/ \E x \in Callers : AnyCall(x) \/ Access(x)

AccessSpec == AccessInit /\ [][AccessNext]_accessVars

---------------------------------------------------------------------------
(***************************************************************************)
(* Properties.                                                             *)
(***************************************************************************)
AccessTypeOK ==
  /\ DOMAIN acc = Callers
  /\ \A x \in Callers :
       /\ acc[x].pc \in {"idle", "csr", "command", "poll", "fetch", "abort", "setup",
                         "start", "avail", "word"}
       /\ acc[x].op \in Ops /\ acc[x].event \in BOOLEAN
       /\ acc[x].len \in 0 .. MaxLen /\ acc[x].done \in 0 .. acc[x].len
       /\ acc[x].start \in 0 .. Top /\ acc[x].buf \in Buffer
  /\ ALevent \in [0 .. 1 -> Octets \union {Unset}]
  /\ csr.busy \in BOOLEAN /\ csr.op \in Ops /\ csr.address \in Nat /\ csr.by \in Callers
  /\ csr.size \in {1, 2, 4} /\ csr.data \in Register
  /\ \A op \in Ops : /\ fifo[op].state \in {"idle", "abort", "run"}
                     /\ fifo[op].words \in Seq(Register) /\ Len(fifo[op].words) <= Depth

\* Every command the chip gets is one it can carry out: 1, 2 or 4 octets at a multiple
\* of their number, among the registers and within the access it is made for.
CommandsLegal ==
  csr.busy => /\ csr.size \in {1, 2, 4} /\ csr.address % csr.size = 0
              /\ csr.address + csr.size <= PRAM

\* When the octets of an access have been transferred they are those of its addresses,
\* each once and in order: what a read leaves in the caller's buffer is what the chip
\* gave, what the chip took is what the caller's buffer holds.
TransferExact ==
  \A x \in Callers :
    LET a == acc[x]
    IN  a.event /\ (a.op = "write" => fifo.write.words = <<>>) =>
          moved[x] = [i \in 1 .. a.len |-> [at |-> a.start + i - 1, octet |-> a.buf[i - 1]]]
=============================================================================
