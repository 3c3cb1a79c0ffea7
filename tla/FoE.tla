-------------------------------- MODULE FoE --------------------------------
(***************************************************************************)
(* File access over EtherCAT, the slave's side (src/templates/esc_foe.c):  *)
(* ESC_foeprocess answers one request of the master at a time, writing a   *)
(* file through a buffer that is flushed to the application's              *)
(* write_function, or reading one (FOE_READ_SUPPORTED).                    *)
(*                                                                         *)
(* The master is arbitrary: it sends any request in any order, repeats,    *)
(* skips and reads its answers when it likes.  Only the contents are       *)
(* honest: packet k carries the bytes of the file from (k - 1) * DataSize, *)
(* and a byte is represented by its place in the file.                     *)
(*                                                                         *)
(* An operator named X_Y is operator X with a plausible mistake, Y, that   *)
(* breaks one of the properties.                                           *)
(***************************************************************************)
EXTENDS Integers, Sequences

CONSTANTS
  DataSize,       \* ESC_FOE_DATA_SIZE
  BufferSize,     \* foe_cfg->buffer_size
  MaxData,        \* foe_file->max_data, the end of the file (fend)
  OutBuffers,     \* mailbox buffers ESC_claimbuffer can hand out
  Opcodes,        \* requests the master sends
  MaxPacket       \* bound: packet numbers of the master, and packets it reads

AllOpcodes == {"WRQ", "DATA", "ERR", "RRQ", "ACK", "BUSY", "other"}

ASSUME ConstAssumption ==
  /\ DataSize \in Nat /\ DataSize > 0
  /\ BufferSize \in Nat /\ BufferSize > 0
  /\ MaxData \in Nat /\ MaxData > 0
  /\ OutBuffers \in Nat /\ MaxPacket \in Nat
  /\ Opcodes \subseteq AllOpcodes

VARIABLES
  foestate,       \* FOEvar.foestate: "ready", "data", "ack" or "final"
  foepacket,      \* FOEvar.foepacket
  fposition,      \* FOEvar.fposition
  fprevposition,  \* FOEvar.fprevposition
  fbuffer,        \* the bytes in foe_cfg->fbuffer; its length is fbufposition
  file,           \* foe_file: address_offset, total_size, what write_function
                  \* stored (flash) and whether it failed since the file was opened
  out,            \* answers the master has not read
  accepted        \* history: the end of the file was acknowledged

foe  == <<foestate, foepacket, fposition, fprevposition, fbuffer>>
vars == <<foe, file, out, accepted>>

Addresses == 0 .. MaxData - 1
Unwritten == -1
Packets == 0 .. MaxPacket

Ack(packet) == [op |-> "ACK", packet |-> packet]
Err(code)   == [op |-> "ERR", code |-> code]
Data(packet, from, len) == [op |-> "DATA", packet |-> packet, from |-> from, len |-> len]

\* ESC_claimbuffer: an answer that finds no buffer is not sent.
Free == Len(out) < OutBuffers
Push(queue, msg) == IF Len(queue) < OutBuffers THEN Append(queue, msg) ELSE queue

---------------------------------------------------------------------------
(***************************************************************************)
(* The pieces the handlers are made of.                                    *)
(***************************************************************************)
FOE_init ==
  /\ foestate' = "ready" /\ foepacket' = 0
  /\ fposition' = 0 /\ fprevposition' = 0
  /\ fbuffer' = <<>>

FOE_abort_Silent(code) == FOE_init /\ UNCHANGED out

FOE_abort(code) == FOE_init /\ out' = Push(out, Err(code))

\* FOE_fopen finds the file: it is written from its start.
Opened == [address_offset |-> 0, total_size |-> 0,
           flash |-> [a \in Addresses |-> Unwritten], failed |-> FALSE]

\* A call of write_function, and the advance that follows it whatever it returned.
Written(f, data, ok) ==
  [f EXCEPT !.flash = [a \in Addresses |->
                         IF ok /\ a - f.address_offset \in 0 .. Len(data) - 1
                         THEN data[a - f.address_offset + 1] ELSE f.flash[a]],
            !.address_offset = f.address_offset + Len(data),
            !.failed = f.failed \/ ~ok]

\* FOE_fwrite copies n bytes of the packet to the buffer, handing it over whenever
\* BufferSize bytes are in it; Rest is what stays.
Collected(packet, n) ==
  fbuffer \o [i \in 1 .. n |-> (packet - 1) * DataSize + i - 1]
Flushed(packet, n) == (Len(Collected(packet, n)) \div BufferSize) * BufferSize
Rest(packet, n) ==
  SubSeq(Collected(packet, n), Flushed(packet, n) + 1, Len(Collected(packet, n)))

FOE_fwrite(packet, n, ok) ==
  LET all   == Collected(packet, n)
      upto  == Flushed(packet, n)
      sized == [file EXCEPT !.total_size = @ + n]
  IN  IF upto = 0 THEN sized
      ELSE Written(Written(sized, SubSeq(all, 1, upto - BufferSize), TRUE),
                   SubSeq(all, upto - BufferSize + 1, upto), ok)

\* Where the copy may stop because a flush failed: only after the byte that filled it.
FlushPoints(packet, len) ==
  {n \in 1 .. len : Len(Collected(packet, n)) % BufferSize = 0}

---------------------------------------------------------------------------
(***************************************************************************)
(* Writing a file.                                                         *)
(***************************************************************************)
FOE_write(found) ==
  \/ /\ foestate # "ready" /\ FOE_abort("illegal")
     /\ UNCHANGED <<file, accepted>>
  \/ /\ foestate = "ready" /\ ~found /\ FOE_abort("notfound")
     /\ UNCHANGED <<file, accepted>>
  \/ /\ foestate = "ready" /\ found
     /\ file' = Opened /\ accepted' = FALSE
     /\ \/ /\ Free /\ out' = Append(out, Ack(0))
           /\ foestate' = "data" /\ foepacket' = 1
           /\ fposition' = 0 /\ fprevposition' = 0 /\ fbuffer' = <<>>
        \/ ~Free /\ FOE_abort("progerror")

\* FOE_data before it writes anything
DataRefused(packet, len) ==
  /\ UNCHANGED <<file, accepted>>
  /\ \/ foestate # "data" /\ FOE_abort("illegal")
     \/ foestate = "data" /\ packet # foepacket /\ FOE_abort("packetno")
     \/ /\ foestate = "data" /\ packet = foepacket
        /\ len > 0 /\ fposition + len > MaxData
        /\ FOE_abort("diskfull")

DataTaken_AnyPacket(packet, len) == foestate = "data" /\ (len > 0 => fposition + len <= MaxData)

DataTaken(packet, len) ==
  /\ foestate = "data" /\ packet = foepacket
  /\ len > 0 => fposition + len <= MaxData

\* An empty packet ends the file.  What FOE_fclose returns is ignored.
DataEnd(packet, len) ==
  /\ DataTaken(packet, len) /\ len = 0
  /\ \E ok \in BOOLEAN : file' = Written(file, fbuffer, ok)
  /\ out' = Push(out, Ack(foepacket)) /\ accepted' = Free
  /\ FOE_init

\* A full packet that is copied whole, though the last flush may have failed.
DataFull(packet, len) ==
  /\ DataTaken(packet, len) /\ len = DataSize
  /\ \E ok \in BOOLEAN :
       /\ ok \/ len \in FlushPoints(packet, len)
       /\ file' = FOE_fwrite(packet, len, ok)
  /\ UNCHANGED accepted
  /\ \/ /\ Free /\ out' = Append(out, Ack(foepacket))
        /\ foepacket' = foepacket + 1
        /\ fprevposition' = fposition /\ fposition' = fposition + len
        /\ fbuffer' = Rest(packet, len)
        /\ UNCHANGED foestate
     \/ ~Free /\ FOE_abort("progerror")

\* A full packet of which a failed flush left some uncopied: aborted, which resets the
\* packet number, and acknowledged all the same.
DataFullCut(packet, len) ==
  /\ DataTaken(packet, len) /\ len = DataSize
  /\ \E n \in FlushPoints(packet, len) \ {len} : file' = FOE_fwrite(packet, n, FALSE)
  /\ UNCHANGED accepted
  /\ LET aborted == Push(out, Err("progerror"))
     IN  /\ out' = Push(aborted, Ack(0))
         /\ foepacket' = IF Len(aborted) < OutBuffers THEN 1 ELSE 0
  /\ foestate' = "ready" /\ fposition' = 0 /\ fprevposition' = 0 /\ fbuffer' = <<>>

DataShort_WithoutClose(packet, len) ==
  /\ DataTaken(packet, len) /\ len \in 1 .. DataSize - 1
  /\ file' = FOE_fwrite(packet, len, TRUE)
  /\ FOE_init /\ out' = Push(out, Ack(foepacket)) /\ accepted' = Free

\* A short packet ends the file: the rest of the buffer is written too.
DataShort(packet, len) ==
  /\ DataTaken(packet, len) /\ len \in 1 .. DataSize - 1
  /\ \/ /\ \E n \in FlushPoints(packet, len) \ {len} : file' = FOE_fwrite(packet, n, FALSE)
        /\ UNCHANGED accepted /\ FOE_abort("progerror")
     \/ \E ok, closed \in BOOLEAN :
          /\ ok \/ len \in FlushPoints(packet, len)
          /\ file' = Written(FOE_fwrite(packet, len, ok), Rest(packet, len), closed)
          /\ \/ closed /\ FOE_init /\ out' = Push(out, Ack(foepacket)) /\ accepted' = Free
             \/ ~closed /\ FOE_abort("progerror") /\ UNCHANGED accepted

FOE_data(packet, len) ==
  \/ DataRefused(packet, len)
  \/ DataEnd(packet, len)
  \/ DataFull(packet, len)
  \/ DataFullCut(packet, len)
  \/ DataShort(packet, len)

---------------------------------------------------------------------------
(***************************************************************************)
(* Reading a file, in a build with FOE_READ_SUPPORTED.                     *)
(***************************************************************************)
\* FOE_fread gives as much as the file has left.
Chunk(from) == IF MaxData - from < DataSize THEN MaxData - from ELSE DataSize

Send_KeepsPosition(packet, from) ==
  /\ out' = Append(out, Data(packet, from, Chunk(from)))
  /\ foepacket' = packet + 1
  /\ fposition' = from

\* FOE_send_data_packet with a buffer
Send(packet, from) ==
  /\ out' = Append(out, Data(packet, from, Chunk(from)))
  /\ foepacket' = packet + 1
  /\ fposition' = from + Chunk(from)

FOE_read(found) ==
  \/ /\ foestate # "ready" /\ FOE_abort("illegal")
     /\ UNCHANGED <<file, accepted>>
  \/ /\ foestate = "ready" /\ ~found /\ FOE_abort("notfound")
     /\ UNCHANGED <<file, accepted>>
  \/ /\ foestate = "ready" /\ found
     /\ file' = Opened /\ accepted' = FALSE
     /\ \/ Free /\ Send(1, 0) /\ foestate' = "ack" /\ fprevposition' = 0 /\ fbuffer' = <<>>
        \/ ~Free /\ FOE_abort("progerror")

\* FOE_ack from the given packet number and position; FOE_busy steps back first.
Continue(packet, from) ==
  \/ /\ Free /\ Send(packet, from)
     /\ foestate' = IF Chunk(from) < DataSize THEN "final" ELSE "ack"
     /\ UNCHANGED <<fprevposition, fbuffer>>
  \/ ~Free /\ FOE_abort("progerror")

FOE_ack ==
  /\ UNCHANGED <<file, accepted>>
  /\ \/ foestate = "final" /\ FOE_init /\ UNCHANGED out
     \/ foestate \notin {"ack", "final"} /\ FOE_abort("illegal")
     \/ foestate = "ack" /\ Continue(foepacket, fposition)

\* The position it steps back to is never set while reading.
FOE_busy ==
  /\ UNCHANGED <<file, accepted>>
  /\ \/ foestate # "ack" /\ FOE_abort("illegal")
     \/ foestate = "ack" /\ Continue(foepacket - 1, fprevposition)

\* The master gives up: no answer.
FOE_error == FOE_init /\ UNCHANGED <<out, file, accepted>>

---------------------------------------------------------------------------
\* One request in buffer 0, which ESC_foeprocess always frees.
ESC_foeprocess(op) ==
  \/ op = "WRQ"  /\ \E found \in BOOLEAN : FOE_write(found)
  \/ op = "DATA" /\ \E packet \in Packets, len \in 0 .. DataSize : FOE_data(packet, len)
  \/ op = "RRQ"  /\ \E found \in BOOLEAN : FOE_read(found)
  \/ op = "ACK"  /\ FOE_ack
  \/ op = "BUSY" /\ FOE_busy
  \/ op = "ERR"  /\ FOE_error
  \/ op = "other" /\ FOE_abort("notdefined") /\ UNCHANGED <<file, accepted>>

Process ==
  \E op \in Opcodes :
    /\ op \in {"ACK", "BUSY"} => foepacket <= MaxPacket
    /\ ESC_foeprocess(op)

ReadAnswer == out # <<>> /\ out' = Tail(out) /\ UNCHANGED <<foe, file, accepted>>

\* ESC_stopmbx empties the mailboxes and leaves FoE as it is.
StopMailbox == out # <<>> /\ out' = <<>> /\ UNCHANGED <<foe, file, accepted>>

Init ==
  /\ foestate = "ready" /\ foepacket = 0
  /\ fposition = 0 /\ fprevposition = 0
  /\ fbuffer = <<>>
  /\ file = Opened
  /\ out = <<>>
  /\ accepted = FALSE

Next == Process \/ ReadAnswer \/ StopMailbox

Spec == Init /\ [][Next]_vars

---------------------------------------------------------------------------
(***************************************************************************)
(* Properties.                                                             *)
(***************************************************************************)
Bytes == 0 .. MaxData + DataSize
Answers == [op : {"ACK"}, packet : Nat]
             \union [op : {"ERR"}, code : {"illegal", "notfound", "progerror", "packetno",
                                           "diskfull", "notdefined"}]
             \union [op : {"DATA"}, packet : Nat, from : 0 .. MaxData, len : 0 .. DataSize]

\* The buffer never grows past its size.
TypeOK ==
  /\ foestate \in {"ready", "data", "ack", "final"}
  /\ foepacket \in Nat
  /\ fposition \in 0 .. MaxData /\ fprevposition \in 0 .. MaxData
  /\ fbuffer \in Seq(Addresses) /\ Len(fbuffer) < BufferSize
  /\ file \in [address_offset : 0 .. MaxData, total_size : 0 .. MaxData,
               flash : [Addresses -> Addresses \union {Unwritten}], failed : BOOLEAN]
  /\ out \in Seq(Answers) /\ Len(out) <= OutBuffers
  /\ accepted \in BOOLEAN

\* While a file is received the packet number, the position, the size, the address and
\* the buffer agree, through flushes, lost answers, aborts and retries.
PositionsAgree ==
  foestate = "data" =>
    /\ fposition = (foepacket - 1) * DataSize
    /\ fposition = file.total_size
    /\ fposition = file.address_offset + Len(fbuffer)
    /\ \A i \in 1 .. Len(fbuffer) : fbuffer[i] = file.address_offset + i - 1

\* Whatever the master sends, a byte is only ever stored at its place in the file.
StoredInPlace == \A a \in Addresses : file.flash[a] \in {a, Unwritten}

\* A file whose end was acknowledged is stored whole, if no write failed.
AcceptedIsStored ==
  accepted /\ ~file.failed => \A a \in 0 .. file.total_size - 1 : file.flash[a] = a

\* No request but an error, or the acknowledgement that ends a read, goes without an
\* answer while there is a buffer for it.
EveryRequestAnswered ==
  [][\A op \in Opcodes \ {"ERR"} :
       ESC_foeprocess(op) /\ Free => Len(out') > Len(out) \/ foestate = "final"]_vars

\* The data packets of a read carry the file in order: the first starts at its first
\* byte, and each goes on where the one before it in the mailbox ended.  (After a BUSY
\* request the numbers go on, and so do the positions.)
ReadInOrder ==
  \A i \in 1 .. Len(out) : out[i].op = "DATA" =>
    /\ out[i].packet = 1 => out[i].from = 0
    /\ i > 1 /\ out[i - 1].op = "DATA" /\ out[i].packet = out[i - 1].packet + 1
         => out[i].from = out[i - 1].from + out[i - 1].len

(***************************************************************************)
(* What comments say and the code does not do.                             *)
(***************************************************************************)
\* "Every read frame follwed by an Ack frame. On error we will send FOE Abort."
FailureReported == accepted => ~file.failed

\* "Send the last part again."
SendsLastPartAgain ==
  [][foestate = "ack" /\ Free /\ ESC_foeprocess("BUSY") =>
       out'[Len(out')].from = (out'[Len(out')].packet - 1) * DataSize]_vars
=============================================================================
