------------------------------- MODULE EEPROM -------------------------------
(***************************************************************************)
(* EEPROM emulation (src/templates/esc_eep.c): the master's commands to    *)
(* the EEPROM interface of the ESC are carried out by the slave's main     *)
(* loop, over the accesses of ESCAccess, between its other accesses.       *)
(*                                                                         *)
(* The EEPROM interface of the chip and the memory behind EEP_read and     *)
(* EEP_write are external: either call may fail.                           *)
(*                                                                         *)
(* An operator named X_Y is operator X with a plausible mistake, Y, that   *)
(* breaks one of the properties.                                           *)
(***************************************************************************)
EXTENDS ESCAccess

CONSTANTS
  EECONTSTAT,   \* ESCREG_EECONTSTAT; the address is at + 2
  EEDATA,       \* ESCREG_EEDATA
  EEPROMSize,   \* its octets
  Addresses,    \* word addresses a master asks for
  Words,        \* pairs of octets it writes
  Accesses,     \* the other accesses of the slave: [op, start, len]
  MaxCommands   \* bound on the commands of a behaviour

IDLE == 0
READ == 1
WRITE == 2
RELOAD == 3
Commands == 1 .. 4     \* 4: one the slave does not know

READ_SIZE == 8         \* EEP_READ_SIZE
WRITE_SIZE == 2        \* EEP_WRITE_SIZE

ASSUME EEPROMAssumption ==
  /\ EECONTSTAT \in Nat /\ EECONTSTAT % 4 = 2
  /\ EEDATA \in Nat /\ EEDATA % 4 = 0 /\ EECONTSTAT + 6 <= EEDATA
  /\ EEDATA + 8 <= PRAM /\ PRAM <= Top /\ ALEVENT + 2 <= EECONTSTAT
  /\ Octets = 0 .. 255
  \* byte addresses are computed in 32 bits
  /\ Addresses \subseteq Nat /\ \A addr \in Addresses : addr \div 16777216 < 128
  /\ Words \subseteq [0 .. 1 -> Octets]
  /\ EEPROMSize \in Nat /\ READ_SIZE <= MaxLen
  \* only EEP_process writes to the EEPROM interface
  /\ Accesses \subseteq [op : Ops, start : 0 .. Top, len : 0 .. MaxLen]
  /\ \A a \in Accesses :
       /\ InSpace(a.start, a.len)
       /\ a.op = "write" => a.start + a.len <= EECONTSTAT \/ a.start >= EEDATA + 8

VARIABLES
  task,      \* the main loop: "access", "check", then in EEP_process
             \* "status", "answer", "take", "acknowledge"
  stat,      \* the command it works on: cmd, addr, failed
  ee,        \* the chip's EEPROM interface: busy, cmd, failed (ackErr), addr, data
  eeprom,    \* the memory behind EEP_read and EEP_write
  \* histories
  asked,     \* the last command: cmd, addr, word
  written,   \* what the acknowledged writes leave in the memory
  commands   \* number of commands

eeVars == <<task, stat, ee, eeprom, asked, written, commands>>
vars == <<accessVars, eeVars>>

---------------------------------------------------------------------------
(***************************************************************************)
(* The chip: what its registers hold and do.                               *)
(***************************************************************************)
Bit(b, n) == (n \div b) % 2 = 1
Flag(p, b) == IF p THEN b ELSE 0
Weight == <<1, 256, 65536, 16777216>>   \* of the octets of an address

\* cmdReg is bits 0 to 2 of the upper octet of the status, ackErr bit 5, busy bit 7;
\* the event of a pending command is ESCREG_ALEVENT_EEP.
Holds(a) ==
  CASE a = ALEVENT -> Flag(ee.busy, 32)
    [] a = EECONTSTAT + 1 -> ee.cmd + Flag(ee.failed, 32) + Flag(ee.busy, 128)
    [] a \in EECONTSTAT + 2 .. EECONTSTAT + 5 -> (ee.addr \div Weight[a - EECONTSTAT - 1]) % 256
    [] a \in EEDATA .. EEDATA + 7 -> ee.data[a - EEDATA]
    [] a \in {ALEVENT + 1, EECONTSTAT} -> 0
    [] OTHER -> a % 256

InCommand(a) == a \in csr.address .. csr.address + csr.size - 1

\* A write to the command acknowledges it, with its error bit.
Effect ==
  LET octet == csr.data[EECONTSTAT + 1 - csr.address]
      ack == InCommand(EECONTSTAT + 1)
  IN  [ee EXCEPT
        !.data = [i \in 0 .. 7 |-> IF InCommand(EEDATA + i)
                                   THEN csr.data[EEDATA + i - csr.address] ELSE @[i]],
        !.busy = @ /\ ~ack,
        !.cmd = IF ack THEN IDLE ELSE @,
        !.failed = IF ack THEN Bit(32, octet) ELSE @]

RegisterRead ==
  /\ GiveRegister([i \in Lanes |-> Holds(csr.address + i)])
  /\ UNCHANGED eeVars

RegisterWrite ==
  /\ TakeRegister
  /\ ee' = Effect
  /\ written' = IF ee.busy /\ ~ee'.busy /\ ~ee'.failed /\ asked.cmd = WRITE
                THEN [i \in DOMAIN eeprom |->
                        IF i \in 2 * asked.addr .. 2 * asked.addr + 1
                        THEN asked.word[i - 2 * asked.addr] ELSE written[i]]
                ELSE written
  /\ UNCHANGED <<task, stat, eeprom, asked, commands>>

ChipFIFO ==
  /\ \/ Fill([i \in Lanes |-> Holds(4 * (fifo.read.next \div 4) + i)])
     \/ Drain
     \/ \E op \in Ops : Aborted(op)
  /\ UNCHANGED eeVars

\* The master commands only an EEPROM interface that is not busy.
MasterCommand ==
  /\ ~ee.busy /\ commands < MaxCommands
  /\ \E cmd \in Commands, addr \in Addresses, word \in Words :
       /\ ee' = [ee EXCEPT !.busy = TRUE, !.cmd = cmd, !.failed = FALSE, !.addr = addr,
                           !.data = [i \in 0 .. 7 |-> IF i < 2 /\ cmd = WRITE THEN word[i]
                                                      ELSE @[i]]]
       /\ asked' = [cmd |-> cmd, addr |-> addr, word |-> word]
  /\ commands' = commands + 1
  /\ UNCHANGED <<accessVars, task, stat, eeprom, written>>

---------------------------------------------------------------------------
(***************************************************************************)
(* The slave.                                                              *)
(***************************************************************************)
\* Data of a write: octet i at lane i.
Filled(octet(_), n) == [i \in 0 .. MaxLen + 2 |-> IF i < n THEN octet(i) ELSE Unset]
SomeData(i) == (100 + i) % 256

OtherAccess(x) ==
  \E a \in Accesses :
    Call(x, a.op, a.start, a.len,
         IF a.op = "read" THEN Unread ELSE Filled(SomeData, a.len))

\* In the main loop, or in the interrupt handler at any time.
StackAccess(x) ==
  /\ OtherAccess(x)
  /\ IF x = "main" THEN task = "access" /\ task' = "check" ELSE UNCHANGED task
  /\ UNCHANGED <<stat, ee, eeprom, asked, written, commands>>

ReadStatus == Call("main", "read", EECONTSTAT, 6, Unread)

\* EEP_process: nothing to do, or the first turn of its loop.
NoEvent ==
  /\ task = "check" /\ At("main", "idle")
  /\ ~Bit(32, ALevent[0])
  /\ task' = "access"
  /\ UNCHANGED <<accessVars, stat, ee, eeprom, asked, written, commands>>

Event ==
  /\ task = "check" /\ Bit(32, ALevent[0])
  /\ ReadStatus
  /\ task' = "status"
  /\ UNCHANGED <<stat, ee, eeprom, asked, written, commands>>

\* What the octets read from ESCREG_EECONTSTAT mean.
Octet(i) == acc["main"].buf[i]
Busy == Bit(128, Octet(1))
Cmd == Octet(1) % 8
Addr == Weight[1] * Octet(2) + Weight[2] * Octet(3) + Weight[3] * Octet(4) + Weight[4] * Octet(5)

NotBusy ==
  /\ task = "status" /\ At("main", "idle") /\ ~Busy
  /\ task' = "access"
  /\ UNCHANGED <<accessVars, stat, ee, eeprom, asked, written, commands>>

\* ByteAddress(a): stat.addr * sizeof(uint16_t).
ByteAddress(addr) == 2 * addr

\* Write the status back: the command, busy, ackErr if it failed, no other error.
Status(cmd, failed) ==
  LET octet(i) == IF i = 0 THEN 0 ELSE cmd + Flag(failed, 32) + 128
  IN  Call("main", "write", EECONTSTAT, 2, Filled(octet, 2))

\* Acknowledges without waiting for the data to be in place.
DoRead_AcksFirst ==
  /\ task = "status" /\ Busy /\ Cmd \in {READ, RELOAD}
  /\ stat' = [cmd |-> Cmd, addr |-> Addr]
  /\ Status(Cmd, ByteAddress(Addr) + READ_SIZE > EEPROMSize) /\ task' = "acknowledge"
  /\ UNCHANGED <<ee, eeprom, asked, written, commands>>

DoRead ==
  /\ task = "status" /\ Busy /\ Cmd \in {READ, RELOAD}
  /\ stat' = [cmd |-> Cmd, addr |-> Addr]
  /\ \/ /\ ByteAddress(Addr) + READ_SIZE <= EEPROMSize
        /\ LET octet(i) == eeprom[ByteAddress(Addr) + i]
           IN  Call("main", "write", EEDATA, READ_SIZE, Filled(octet, READ_SIZE))
        /\ task' = "answer"
     \/ Status(Cmd, TRUE) /\ task' = "acknowledge"
  /\ UNCHANGED <<ee, eeprom, asked, written, commands>>

\* The data of the read are in place.
DataWritten ==
  /\ task = "answer"
  /\ Status(stat.cmd, FALSE)
  /\ task' = "acknowledge"
  /\ UNCHANGED <<stat, ee, eeprom, asked, written, commands>>

DoWrite ==
  /\ task = "status" /\ Busy /\ Cmd = WRITE
  /\ stat' = [cmd |-> Cmd, addr |-> Addr]
  /\ Call("main", "read", EEDATA, WRITE_SIZE, Unread)
  /\ task' = "take"
  /\ UNCHANGED <<ee, eeprom, asked, written, commands>>

\* A failure of EEP_write is not told.
Store_Succeeds ==
  /\ task = "take"
  /\ UNCHANGED eeprom /\ Status(stat.cmd, FALSE)
  /\ task' = "acknowledge"
  /\ UNCHANGED <<stat, ee, asked, written, commands>>

Store ==
  /\ task = "take"
  /\ \/ /\ ByteAddress(stat.addr) + WRITE_SIZE <= EEPROMSize
        /\ eeprom' = [i \in DOMAIN eeprom |->
             IF i \in ByteAddress(stat.addr) .. ByteAddress(stat.addr) + WRITE_SIZE - 1
             THEN Octet(i - ByteAddress(stat.addr)) ELSE eeprom[i]]
        /\ Status(stat.cmd, FALSE)
     \/ UNCHANGED eeprom /\ Status(stat.cmd, TRUE)
  /\ task' = "acknowledge"
  /\ UNCHANGED <<stat, ee, asked, written, commands>>

Unknown_Silent ==
  /\ task = "status" /\ Busy /\ Cmd \notin {READ, WRITE, RELOAD}
  /\ At("main", "idle")
  /\ task' = "access"
  /\ UNCHANGED <<accessVars, stat, ee, eeprom, asked, written, commands>>

Unknown ==
  /\ task = "status" /\ Busy /\ Cmd \notin {READ, WRITE, RELOAD}
  /\ Status(Cmd, Cmd # IDLE)
  /\ task' = "acknowledge"
  /\ UNCHANGED <<stat, ee, eeprom, asked, written, commands>>

Again ==
  /\ task = "acknowledge"
  /\ ReadStatus
  /\ task' = "status"
  /\ UNCHANGED <<stat, ee, eeprom, asked, written, commands>>

EEP_process ==
  \/ NoEvent \/ Event \/ NotBusy \/ DoRead \/ DataWritten \/ DoWrite \/ Store
  \/ Unknown \/ Again

Accessing == \E x \in Callers : Access(x) /\ UNCHANGED eeVars
ChipStep == RegisterRead \/ RegisterWrite \/ ChipFIFO

---------------------------------------------------------------------------
Init ==
  /\ AccessInit
  /\ task = "access" /\ stat = [cmd |-> IDLE, addr |-> 0]
  /\ ee = [busy |-> FALSE, cmd |-> IDLE, failed |-> FALSE, addr |-> 0,
           data |-> [i \in 0 .. 7 |-> 0]]
  /\ eeprom = [i \in 0 .. EEPROMSize - 1 |-> i % 256]
  /\ asked = [cmd |-> IDLE, addr |-> 0, word |-> [i \in 0 .. 1 |-> 0]]
  /\ written = eeprom /\ commands = 0

Next ==
  \/ MasterCommand \/ ChipStep \/ Accessing
  \/ EEP_process \/ \E x \in Callers : StackAccess(x)

Spec == Init /\ [][Next]_vars

\* The main loop runs and the chip carries out what it is given.
FairSpec ==
  Spec /\ WF_vars(ChipStep) /\ WF_vars(Accessing) /\ WF_vars(StackAccess("main") \/ EEP_process)

---------------------------------------------------------------------------
(***************************************************************************)
(* Properties.                                                             *)
(***************************************************************************)
Answered(cmds) == ~ee.busy /\ ~ee.failed /\ asked.cmd \in cmds

\* A master that finds its read done without an error finds the memory of the
\* address it asked for, all of it.
ReadAnswered ==
  Answered({READ, RELOAD}) =>
    \A i \in 0 .. READ_SIZE - 1 : ee.data[i] = eeprom[2 * asked.addr + i]

\* The memory holds what the writes that were acknowledged without an error put there,
\* and nothing else, whenever no command is being carried out.
WritesStored == ~ee.busy => eeprom = written

\* A command is answered: the interface does not stay busy.
CommandAnswered == ee.busy ~> ~ee.busy
=============================================================================
