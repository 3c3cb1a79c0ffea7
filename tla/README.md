# Verification of the SOES slave stack in stmcat

The repository is a generator: an Eclipse plugin (`src/src/`, Java) reads an object dictionary from
a spreadsheet and prints a project around an EtherCAT slave stack (`src/templates/`, C, SOES on an
LAN9252 with an STM32). The stack is the program that runs in the field, and what these modules are
mostly about; of the generator they have the dictionary it prints for it. There are no tests in the
repository; comments in the code are the only statement of intent, so the properties here are what those
comments, the callers of each routine and the other end of the wire rely on.

- [The system](#the-system): components, state, operations, interaction, what is hard
- [Modules](#modules): what each one models and how it corresponds to the code
- [Runs](#runs): what TLC checks, bounds, fairness
- [Proofs](#proofs): what TLAPS proves, from what, along which argument
- [Observations](#observations): where the code does not do what its comments say
- [Not modelled](#not-modelled) and [Plan](#plan)

To check a run: `tlc -config MCALPoll.cfg MCALState.tla`; to check the proofs:
`tlapm ALStateProofs.tla`, and likewise for the other modules whose names end in `Proofs` (a few
minutes for `EEPROMProofs`, seconds to a minute or two for the others).

## The system

`ecat_task.c` initialises the stack and then calls `ecat_slv` for ever; `ecat_slv` is
`ecat_slv_poll` followed by `DIG_process`. One turn of the loop is

    ESC_state; ESC_sm_act_event; ESC_mbxprocess; ESC_coeprocess;
    [ESC_foeprocess;] [ESC_eoeprocess; ESC_eoeprocess_tx;] ESC_xoeprocess; [EEP_process;] DIG_process

and every routine in it returns at once when it has nothing to do. There is one thread. With
`use_interrupt` the process data routine `DIG_process` also runs in interrupts (SYNC0/SM2 and a timer
for the watchdog) and the rest in `ecat_slv_worker`; `ecat_task.c` ships the polled configuration.
The other actor is the master, which reads and writes registers and memory of the EtherCAT slave
controller (ESC) at any moment, and sees the slave only through them.

All state is in the global `ESCvar` and a few file-static structures.

| component | state | operations | talks to |
|---|---|---|---|
| AL state machine (`esc.c` 344-460, 680-1174) | `ALstatus`, `ALerror`, `App.state`, `MBXrun`, `activemb0/1`, `SMtestresult` | `ESC_state`, `ESC_ALstatus`, `ESC_ALerror`, `ESC_ALstatusgotoerror`, `ESC_sm_act_event`, `ESC_checkSM23`, `ESC_startmbx[boot]`, `ESC_stopmbx`, `ESC_startinput/output`, `ESC_stopinput/output` | master (AL Control, SyncManager registers), mailbox engine (starts and stops it), `DIG_process` (`App.state`), `sizeOfPDO` |
| Process data and watchdog (`ecat_slv.c` 74-210) | `watchdog`, `App.state`, process images | `DIG_process`, `RXPDO_update`, `TXPDO_update` | AL state machine (steps it down to SAFEOP), application |
| Mailbox engine (`esc.c` 462-678) | `MBXcontrol[]`, `MBX[]`, `txcue`, `mbxoutpost`, `mbxbackup`, `mbxfree`, `xoe`, `toggle`, `mbxincnt`, cached `SM[0..1]` | `ESC_claimbuffer`, `ESC_readmbx`, `ESC_writembx`, `ESC_ackmbxread`, `ESC_mbxprocess`, `ESC_checkmbx`, `MBX_error`, `ESC_xoeprocess` | master (SM0, SM1, repeat bit), every protocol below |
| CoE (`esc_coe.c`) | `segmented`, `frags`, `fragsleft`, `data`, the object dictionary | SDO upload, download, segments; OD list, object and entry descriptions | mailbox engine, application hooks |
| PDO mapping (`esc_coe.c` 75-213, 938-1258; `ecat_slv.c` 43-72) | `SMmap2/3`, `sm2/3mappings` | `sizeOfPDO`, `COE_pdoPack`, `COE_pdoUnpack`, `COE_initDefaultValues`, `ESC_pre_objecthandler` | AL state machine, CoE, process data |
| FoE (`esc_foe.c`) | `FOEvar` (state, packet, positions, buffer), the file | `FOE_read/write/data/ack/busy/error`, `FOE_fopen/fread/fwrite/fclose` | mailbox engine, `write_function` |
| EoE frames (`esc_eoe.c` 676-1060) | `EOEvar.rx*`, `EOEvar.tx*`, a static frame number | `EOE_receive_fragment`, `EOE_send_fragment` | mailbox engine, network stack callbacks |
| EoE parameters (`esc_eoe.c` 138-675) | `nic_ports[]` | `EOE_set_ip`, `EOE_get_ip`, accessors | mailbox engine, network stack |
| EEPROM (`esc_eep.c`) | the memory behind `EEP_read`, `EEP_write` | `EEP_process` | master (EEPROM interface of the chip), LAN9252 access |
| LAN9252 access (`esc_hw.c`) | registers and FIFOs of the chip, `ALevent` | `ESC_read`, `ESC_write` | every other component, chip |
| Generator (`src/src/ecatGenerator`) | `lObject`, `objRxPdo`, `objTxPdo`, sizes of process data | `SlaveReader`, `generatePdo`, `generateSDO`, `generateObjList`, `generateXML` | prints `SDOobjects`, which CoE and PDO mapping search, and the ESI file of the master |
| Import wizard (`src/src/stmcat`) | dialog | | generator |

What is hard about it, and hard to test on a bench:

- *Interleaving with the master.* Requests, SyncManager changes, process data and mailbox traffic
  arrive between any two accesses of the slave. State is read from the ESC into copies (`ALevent`,
  `SM[n].MBXstat`, `SM[1].ECrep`) that are refreshed only on some paths.
- *Interleaving with interrupts.* `DIG_process` changes AL status and `App.state` in the middle of
  `ESC_state`.
- *Lost reads and repeats.* The mailbox protocol answers a toggle bit with the last message again,
  while the next one is already posted, or being built.
- *A small pool.* Three buffers (`MBXBUFFERS`) are shared by requests, answers, the repeat backup
  and EoE frames. Each handler reacts differently to finding none.
- *Transfers that span turns* (OD list, SDO segments, FoE files, EoE frames) and share `frags`,
  `fragsleft`, `xoe`; mailboxes may be stopped in the middle.
- *Errors in callbacks*: `write_function`, `get_buffer`, the application's hooks.
- *Many transfers to an access*: one `ESC_read` is a dozen SPI transfers on registers that all
  accesses share, cut at the addresses the chip accepts.
- *Tables read while they are computed*: a request for SAFEOP in SAFEOP computes `SMmap2` and `SMmap3`
  anew while interrupts copy process data by them.
- *Two programs that must agree*: the Java generator numbers, sizes and orders what the C search
  relies on.
- *Liveness*: a loop that never blocks can still starve one of its tasks.

What makes each component correct:

- AL state machine: outputs are driven only in OP, OP has outputs and an active SM2, mailboxes run
  exactly outside INIT, an error indication always has a code (true of the polled loop, and of
  interrupts not) and stays until it is acknowledged,
  moves follow the EtherCAT state graph, requests are read, a broken SyncManager ends OP.
- Watchdog: outputs survive a bounded silence, and silence does stop them.
- Mailbox: no buffer leaks or has two roles, responses are neither lost, repeated nor reordered, a
  repeated request is executed once, every request is answered, mailbox traffic never keeps AL
  Control from being served.
- FoE: bytes are stored at their place, a file acknowledged is a file stored, a read carries the
  file in order, every request has an answer.
- EoE: the fragments sent put the frames together again; only whole frames are handed to the
  network stack and all whole frames are; frames do not starve the inbox.
- CoE: a list or segmented upload carries all of its data once and in order, whatever comes between;
  an abort changes nothing, an acknowledgement says what was stored, an information request is not
  dropped.
- PDO mapping: data are where the lists of the master say, the parts of a process image do not overlap
  and stay within the length the SyncManager was checked for, and a request for SAFEOP is answered.
- EoE parameters: what is read back is what was set last (true but for a MAC address that only the
  application has set); success means that all was set.
- LAN9252 access: the chip gets only commands it can carry out; each octet goes to its address, once.
- EEPROM: a read answers what is stored, an acknowledged write is stored, every command is answered.
- Object dictionary: what the sheet defines and maps, the slave finds, with the same length.

PROJECT.json lists the hazards line by line.

## Modules

| module | models | extended by |
|---|---|---|
| `ALContract` | what a master may rely on when it reads AL Status: an abstract state machine with three variables and no requests, loop or watchdog | |
| `ALState` | `esc.c` 344-460 and 680-1174, `ecat_slv.c` 151-210: the AL state machine, SyncManager checks, `DIG_process` with its watchdog, polled and from interrupts; `Contract == INSTANCE ALContract WITH ...` | `MCALState`, `ALStateProofs` |
| `Mailbox` | `esc.c` 462-678 and what the protocol handlers do to buffers, under `ecat_slv_poll` or `ecat_slv_worker` | `MCMailbox`, `MailboxProofs` |
| `CoE` | `esc_coe.c` 209-937: the services of `ESC_coeprocess` | `MCCoE`, `CoEProofs` |
| `FoE` | `esc_foe.c`: all of it | `MCFoE`, `FoEProofs` |
| `EoESend` | `esc_eoe.c` 806-950: outgoing frames, with the outbox of `esc.c` they share with the answers | `MCEoESend`, `EoESendProofs` |
| `EoEReceive` | `esc_eoe.c` 676-812: incoming frames | `EoEService` |
| `EoEService` | `esc_eoe.c` 138-675 and 953-1060: the service, its answers, the network parameters | `MCEoEService`, `EoEServiceProofs` |
| `PDOMap` | `esc_coe.c` 75-196 and 938-1258, `ecat_slv.c` 43-135: assignment, mapping, `sizeOfPDO`, process data | `MCPDOMap`, `PDOMapProofs` |
| `ESCAccess` | `esc_hw.c`: every access of the stack to the chip | `EEPROM` |
| `EEPROM` | `esc_eep.c`: EEPROM emulation, over `ESCAccess` | `MCEEPROM`, `EEPROMProofs` |
| `Dictionary` | `SlaveReader.java`, `DictObject.java` and the searches of `esc_coe.c` 30-64 | `MCDictionary`, `CoEProofs` |

An `MC` module only gives names to the constant values its configurations use. PROJECT.json maps every
definition to the lines it translates. An operator named `X_Y` is operator `X` with a plausible mistake
`Y`: put in the place of `X` it breaks one of the properties, which shows that the property is about
the code.

**ALState.** `pc` says which routine of the loop runs next. `ESC_state` is three steps, the switch
(`ESC_state`, with one operator per group of transitions: `Stay`, `StartMailbox`, `Refuse`, ...), the
clearing of AL Status Code (`ESC_clearError`) and the final write (`ESC_ALstatus`), so that an
interrupt fits between any two of them; `ESC_stateReturn` is its early return. The local `an` is kept
from the first to the last. A status variable and the register it is written to change in one step. `ESC_smAck` and `ESC_sm_act_event` are the two
halves of the SyncManager change handler, `DIG_poll`, `DIG_timer` and `DIG_interrupt` the three ways
`DIG_process` is called. The master's actions are the writes the slave can notice: a request, a
SyncManager (right or wrong), another PDO mapping, process data, a change of DC registers. Register
contents are abstracted to "passes the checks" (`smBad`, `mapBad`, `dcBad`). `ALevent` is not a
variable: a stale copy of it is a step taken before the master's write.

**Mailbox.** `pc` again; `ESC_mbxprocess` is one operator per path to a return (`MbxOutboxRead`,
`MbxRepeat`, `MbxPost`, `MbxRead`, `MbxIdle`). Messages are `[req, kind]` from the master and
`[req, n]` from the slave, the number of the request and of the message among its responses. The
protocols are reduced to the five ways they treat buffers: dropped when none is free (`sdo`), kept
and tried again (`info`), several messages over several turns (`list`), answered and left claimed
(`short`), not taken by anybody (`other`); `empty` is a header without data. The master sends, sends
again what it does not know was taken, reads, loses a read (before or after it took effect), asks for
a repeat, and stops and starts the mailboxes. `Worker` selects `ecat_slv_worker`, whose inner loop
runs while `txcue > 0`.

**CoE.** `ESC_coeprocess` handles the request claimed in buffer 0, one operator per service
(`SDO_upload`, `SDO_download`, ...); its argument `free` says whether a buffer can be claimed for the
answer in this turn, which the other protocols decide. SDO services are done with the request either
way, information services (`Answered`) keep it. Objects have a size and access rights; the octets of an
answer are `from` and `len` in the object or the list, and the rooms of a message (`UploadRoom`,
`SegmentRoom`, `ListRoom`) are computed as in the code, so that an answer off by one octet or one entry
is seen. `upload` and `listed` are history: what the master has put together so far (`Sees`). The
request may be any at any time, an SDO abort of the master being one that is not recognised.
`ESC_pre_objecthandler` may refuse any download. `MBX_error` and `SDO_abort` are one answer, `Abort`.
`SDO_getod` and `SDO_geted` are `Describe`, without the words they send.

**FoE.** One action per request handled, `ESC_foeprocess(op)`, split by the paths of the handlers.
A byte of the file is its place in the file, and packet `k` carries the bytes from
`(k - 1) * DataSize`, so "stored in place" can be said without contents; the packet numbers, their
order and repetition are the master's free choice. `write_function` may fail at any flush, a buffer
may be missing at any answer, the mailboxes may be stopped at any moment. The reading half is that of
a build with `FOE_READ_SUPPORTED`.

**EoESend.** The loop is `ESC_mbxprocess` and `ESC_eoeprocess_tx` in turn. The mailbox engine is the
one of `Mailbox` without repeats. The application queues frames at any moment.

**EoEReceive.** One action, `EOE_receive_fragment`, on any fragment of any of the master's frames in
any order; each operator is a path of the routine. What has been copied is a sequence of pieces.

**EoEService** extends it with the other requests. `ESC_eoeprocess` is one action per request: it runs
to its end in the main loop. A request to set parameters is its flags and how many of the parameters
the message still holds; `Stored` is the run through the flags, which stores a parameter before it
knows that the message reaches that far (what is behind its end is `Stale`). `EOE_NUMBER_OF_PORTS` is
1, and the port numbers 0 and 1 name the same element of `nic_ports`. `Access` is the accessors the
application calls, of which that of the MAC does not mark it as set; the callback that loads settings calls them within `EOE_get_ip`
(`Loads`). The application, the other senders and the master's reads are actions of their own, so a response may find no buffer and be
dropped. `given` and `named` are history: the value each parameter was given last, by anybody, and the
parameters a request of the master has named.

**PDOMap.** The lists 0x1C12, 0x1C13 and the mapping objects are `count` (subindex 0) and `slot` (the
rest). `sizeOfPDO` is one action per turn of its two loops (`NextPDO`, `MapEntry`, `EndPDO`,
`EndSize`), with the counters and locals of the code as variables, as `DIG_process` in an interrupt
comes between them; `Incorrect` is the way out of a mapping that does not exist or is too long.
`Accept` and `Reject` are the checks of `ESC_startinput`. A list read past its end gives anything.
`TXPDO_update` and `RXPDO_update` record in `image` what they copied and where (`Place`); values are
left out. The AL states are reduced to the three that matter here; `ALState` has the rest.

**ESCAccess.** One action per SPI transfer of the driver or per step of the chip. `acc[x]` is the
access of a caller, the main loop or an interrupt handler, with its program counter; the handler runs
to its end (`Runs`). Registers go through `csr` in chunks (`Size`), process data RAM through `fifo`, one
for each direction, the first and last word in part (`Lane`). Every access ends with a read of
`ALevent`. The chip is external: it is modelled by what the driver waits for and what it reads.
`moved` is history: the octets that went over the wire, each with its address.

**EEPROM** extends it. `task` says where the main loop is: another access of the stack, then
`EEP_process`, whose accesses are calls of `ESCAccess`. `Holds` and `Effect` are what the chip's
registers read and what writing them does. `EEP_read` and `EEP_write` may fail; the master gives
the next command as soon as the interface is not busy.

**Dictionary.** One action per row read (`SkipRow`, `AppendRow`, `NewObject`), one per object
`generatePdo` maps, and one for the printing, which may end in the exception of an array without an
entry. What is printed are operators on the state: `objdesc`, `maxsub`, `SDOobjects`. The run time
searches are `SDO_findobject` and `SDO_findsubindex` on it. Loops that collect or add up are recursive
functions: `Picked` (what a loop does not skip) and `Extended` (sizes with padding). The slave keeps
`maxsub` in an octet (`Printed`) and takes 16 bits of an entry of the mapping as the index and 8 as the
subindex, so a subindex above 255 runs over into the index (`Mapped`). A sheet is `Orderly` when its
objects are in ascending order, a VARIABLE has one row, and no object has more than `MaxSub` = 255
subindexes behind subindex 0, as in the example the repository ships.

## Runs

| run | question | bounds |
|---|---|---|
| `al_poll` | Polled: are the safety properties of the AL state machine kept against any request, any wrong SyncManager, mapping or DC setting; does it implement `ALContract`; does a broken SyncManager end OP, and does silence stop the outputs? | all 7 request codes, watchdog 2, SM0 or SM3 wrong |
| `al_irq` | With `DIG_process` in interrupts as well as in the loop: are outputs driven only in OP, does the watchdog bound silence, are moves legal? (`ErrorLatched`, `ErrorHasCode`, `OpDrivesOutputs` and the contract do not survive interrupts, see Observations) | 5 requests, SM0 or SM2 wrong |
| `pdo` | While a master edits lists between requests for SAFEOP and interrupts copy process data: are data where the lists say, do objects keep apart and within the SyncManager, does every request end? | one mapping object for outputs, two for inputs, 3 downloads, counts in a `uint8_t` of 4 values, offsets of the real width; objects of 1, 8 and 72 bits, a gap, one that does not exist |
| `mailbox_slots` | Do buffer states, indexes and counter agree, do responses keep their order through lost reads and repeats, and is a state request served although the master stops reading? | 3 buffers, all kinds, 2 requests, 1 retry, 2 lost reads, 1 restart |
| `mailbox_order` | Is each response read once, in order, and every request answered? | 3 buffers, all kinds but `empty`, 3 requests, 1 retry, no lost reads, 1 restart |
| `coe` | Do segments and list fragments put the object and the list together, is a download stored as it is answered? | the real mailbox (128 octets: 112 of an upload, 119 of a segment, 57 entries in a message); objects of 4, 112, 231 and 400 octets; 1, 57, 58, 114, 115 and 160 objects |
| `foe` | Is what is stored in place, what is accepted stored, what is read in order, and every request answered? | packets of 2 bytes, a buffer of 3, a file of 7, 2 output buffers, packet numbers to 5 |
| `eoe_send` | Do the fragments read put the frames together; is a frame finished; is the inbox served when frames stop? | 3 buffers, blocks of 2, fragments of 5, frames of 3, 4, 7 and 9 |
| `eoe_service` | Are only whole frames handed over, and all that arrive whole; are parameters read those given last, but for a MAC that only the application has given; does success mean all was set? | the real sizes: blocks of 32, 96 per fragment, eight frames of 60 to 1514 octets with and without time stamps; the MAC and one other parameter, two values, the port numbers 0 to 2, 2 buffers |
| `hw` | Does the chip get only commands it can carry out; do octets end up at their addresses; is every EEPROM command answered, with what is stored? | register accesses of each rest of an address and every size of chunk, RAM accesses within a word and over several; a FIFO of 2 words; a memory of 12 octets, two word addresses (one beyond what a read may take), 2 commands, the real size of a read and a write |
| `dictionary` | Does the slave find what the generator maps and announces, and have room for it? | sheets of 4 rows: objects of each kind at six indexes (below, at the ends of, between and behind the ranges of process data), 1, 8 and 16 bits, arrays of length -1, 0 and 2; at 0x8000 also one of 255, in sheets of up to three rows |
| `al_validated` | Expected violation, see Observations | polled, all requests, SM0, SM2 or SM3 wrong |

Why the bounds are enough. *ALState*: the code treats all failing SyncManager sets by the first that
fails, so one wrong SyncManager of each role (mailbox, output, input) reaches every branch; the output's
is in `al_irq`. A watchdog of 2 has a call that decrements without expiring and one that expires. The
proofs below remove these bounds. *PDOMap*: three downloads write an entry of a list that was set to 0
and set its count again, which is what a master does to change a mapping; tables of 2 and 3 entries
are exceeded by the lists a master can make of them; the counters stay below the value at which a
`uint8_t` wraps, which `MCPDOEndless` reaches. `LayoutCorrect` and
`DataCorrect` hold without these bounds. *Mailbox*: two
output buffers can be posted, kept and queued in every combination, and the shipped configuration has
two; with two requests, one can be queued behind the other. Requests are numbered without wrapping, as
the mailbox counter is 3 bits and only successive messages are compared. `empty` is left out of
`mailbox_order` because it is answered before the duplicate check, lost reads because a repeat may cost
a response (both in Observations); `NoneOvertakes` is checked with both. *CoE*: objects that are expedited, that fill one message exactly, that end
exactly with a segment, and that need two segments with a rest; lists that fill one or two fragments
exactly and that have one entry more. *FoE*: buffer and packet sizes that do not divide each other or
the file reach every split of a packet (none, one, or more flushes; a rest or none; a file that ends in
a short packet, as 7 does); `MaxPacket` lets a transfer end and number past its end. *EoESend*: frames
of one, two and three fragments, some with a last fragment that is not whole blocks. With `N = 4`
(`MBXBUFFERS 4`) `StreamInOrder` does not hold, see Observations. *EoEService*: parameters are handled one
behind the other in the same way, two of them have one before and one behind any end of a message; the
theorems hold for any. *EEPROM*: two commands, the second given while the main loop is still in
`EEP_process` or after it; chunks depend on an address modulo 4 and on the rest up to 4, all of
which the accesses have. *Dictionary*: four rows make two objects with their entries, in any order of
kinds, or one with three; every object is treated alone but for the running subindex and size. The array of
255 elements is the longest an octet can count; it is in shorter sheets (`MCLong`) and not among the
process data because each of its 255 searches and sums takes TLC that much longer, and the theorems hold
without these bounds.

Fairness. `WF(Loop)` / `WF(Slave)`: the main loop has no blocking call but the busy waits of
`esc_hw.c` on the chip, so some step of it is always taken; in `PDOMap` `Loop` is the turns of
`sizeOfPDO` and the checks behind it, which wait for nobody. `EEPROM` is about those busy waits: its
`FairSpec` lets the chip finish what it was commanded and the driver and the main loop go on.
`WF(DIG_timer)`: a timer interrupt keeps coming. Nothing is assumed of the master, except in `Answered`
and the liveness of `EoESend`, where the master keeps reading its outbox: strong fairness in `Mailbox`,
since a repeat or a state request it makes itself may interrupt it, weak in `EoESend`. `Answered` gives
up its claim once the master has stopped the mailboxes, which drops requests on purpose.

Only the runs of `MCDictionary` disable deadlock checking: the generator ends. All else loops.

## Proofs

Eight modules prove safety properties that the runs check, for every value of the constants that
satisfies the assumptions of the component's module and the hypotheses named here. Some results are not
properties of a run: `CodeCorrect` (`ErrorHasCode`), `NamedCorrect` (`ErrorNamed`), `InfoCorrect` (`InfoNotDropped`), `PositionsCorrect`
(`PositionsAgree`), `PartsCorrect` (`NoEmptyFragment`), `TransferOwnsRequest` of `Mailbox` and the type
invariants; TLC agrees with all of them on the small instances.

`ALStateProofs`, for any set of requests, any watchdog count, any sets of wrong SyncManagers:

| theorem | statement | interrupts |
|---|---|---|
| `TypeCorrect` | `Spec => []TypeOK` | with and without |
| `OutputsCorrect` | `Spec => []OutputsOnlyInOp` | with and without |
| `NamedCorrect` | `Spec => []ErrorNamed` | with and without |
| `MailboxCorrect` | `Spec => []MailboxMatchesState` | with and without |
| `WatchdogCorrect` | `Spec => []WatchdogBound` | with and without |
| `MovesCorrect` | `Spec => OnlyLegalMoves` | with and without |
| `OpCorrect` | `Spec => []OpDrivesOutputs` | without |
| `CodeCorrect` | `Spec => []ErrorHasCode` | without |
| `LatchCorrect` | `Spec => ErrorLatched` | without |
| `ContractCorrect` | `Spec => ImplementsContract` | without |

Lemmas about the switch (`SwitchStatus`, `SwitchOutputs`, `SwitchMove`, ...) say once what its cases
have in common; each invariant then has one step per action. Four strengthenings are needed.
`WatchdogInv`: while outputs are driven, the calls missed and the count left add up to at most
`WatchdogCnt`. `PostInv`: a status without error that `ESC_state` is about to write is the one reported
or follows it by a legal move; an interrupt in between leaves SAFEOP, from which what was decided in OP
is legal too. `OpInv` is `OpDrivesOutputs` for the status about to be reported (`Reported`): OP comes
without error, with outputs and an active SM2, already before it is written. `AckInv` says that in the
middle of `ESC_state` an error is only pending when the request acknowledges it. The refinement maps
`st` and `err` to the status about to be reported and `driving` to the output flag; `ContractStep`
shows that each step is `Enter`, `Fail` or a stutter.

`MailboxProofs`, for any number of buffers, requests, retries, losses and restarts, polled or driven by
the worker: `TypeCorrect`, `TransferCorrect` (`TransferOwnsRequest`) and `SlotsCorrect` (`Spec =>
[]SlotsConsistent`), all from one inductive invariant

    IInv == TypeOK /\ SlotsConsistent /\ PostedInv /\ FilledInv /\ InboxInv /\ TransferInv

The last four are what the code relies on without saying so. `PostedInv`: while a buffer is posted the
slave either sees the outbox full or will notice the master's read first, so it never posts a second
one (without it `mbxoutpost` would be overwritten and a buffer leak). `FilledInv`: a buffer in use
holds a message, and then so does buffer 0, so a repeat never writes an empty mailbox. `InboxInv`: the
cached status byte never shows a full inbox that is empty, so `ESC_readmbx` never reads an old
message. `TransferInv`: a transfer over several turns holds its request and a list has fragments left.
The counter `txcue` is a cardinality, so the steps rest on the library's facts about finite sets.

Three more theorems build on it. `OnceCorrect` (`NoEmpty => (Spec => []AnsweredOnce)`) holds for everything
but empty mailboxes, which the code answers before it looks for a repetition (see Observations). Its
invariant is `OnceInv == Numbered /\ Once /\ ClaimInv`, which needs no hypothesis, as `Once` is `NoEmpty =>
AnsweredOnce`: what was answered is no newer than `mbxincnt`, what is in the inbox no older, and of the
request that is claimed only the messages before `NextPart` exist, the number its handler will give the
next one. `OrderCorrect` (`Ordered => (Spec =>
[]DeliveredInOrder)`) has the hypotheses `N = 3`, `MaxLoss = 0` and `NoEmpty`; with four buffers, or a
repeat, the property is false (both in Observations). Its invariant, `CalmInv /\ OutboxInv /\ QueueInv`,
says that what was produced is what was received, the outbox, buffer 2 and buffer 1 in this order, which
needs that buffer 2 is never idle while buffer 1 waits.

`OvertakeCorrect` (`N = 3 => (Spec => []NoneOvertakes)`) is what is left of this when reads are lost, for
every kind of request: responses may be missing, but those received were produced, in this order, and none comes
twice. Its invariant is `FollowInv == Ascending /\ HeldInv /\ SentInv /\ ReadInv`, with `Earlier` the order
of production. `HeldInv`: the backup is earlier than the posted or postponed response, and this than
those that wait (`Ahead`). `SentInv`: a response in the outbox is the backup or the posted one, and
anything else is there only before there is a backup. `ReadInv`: what was received is not behind any
buffer that waits (`Passed`), nor behind the backup (`Noticed`) but for the posted response between the
master's read and the slave's noticing it (`Unnoticed`); this is why a repeat, which writes the backup
again, gives the master its last message or a new one and never an older one. The answer to an empty mailbox
may be produced a second time, so all of this is up to equality (`Upto`), and `EmptyInv` says that nothing
else may: a request that comes with the number of the last one is that request, and an empty one is
answered with a single message.

`CoEProofs` has two parts, about `CoE` and about `Dictionary`, which have no state in common. The first is
for any mailbox with room for a message, any objects and any dictionary: `TypeCorrect`,
`UploadCorrect` (`Spec => UploadInOrder`), `ListCorrect` (`Spec => ListInOrder`), `DownloadCorrect`
(`Spec => DownloadAsAnswered`) and `InfoCorrect` (`Spec => InfoNotDropped`), the last from `Next` alone,
the others from

    IInv == TypeOK /\ UploadInv /\ ListInv

The services share `frags` and `fragsleft`; the invariant says whose they are. `UploadInv`: while the
master is in the middle of an upload they hold its size and the octets it was sent, and `segmented` is
set. `ListInv`: while a list is sent they count its fragments, no upload is expected to go on, and
`listed` entries are behind the ones sent. Without the second half `fragsleft` could be decremented at
zero. The lists need arithmetic with a product of two variables: `FragsHold` says that `ListFrags` is
the least number of messages that hold the list, `Fragment` what is left behind fragment `k`; both rest
on `DivBounds` and `DivUnique`, which characterise `\div`.

The second part is for any number of rows of any contents: `GeneratorCorrect` (`GeneratorSpec =>
[]GeneratorInv`) and `BuffersCorrect` (`BuffersHold`) for any sheet, `SearchCorrect` (`Orderly =>
(GeneratorSpec => []ListSearchable)`) and `MappingCorrect` (`Orderly => (GeneratorSpec =>
[]MappingFound)`) for orderly ones, which have their objects in ascending order and no more than 255
subindexes in any; of another the last two are false (see Observations). The assumption
about the fixed objects is that their indexes ascend and lie between 0x1000 and 0x5FFF, as those of
`slave_objectlist.tmp` do. The invariant is

    GeneratorInv == GeneratorTypes /\ SheetInv /\ PhaseInv /\ PdoInv /\ SizeInv

`SheetInv`: the entries of an object are numbered from 0, an array has no negative length, and an orderly
sheet makes objects in ascending order, none with more than 255 subindexes. `PdoInv`: what is mapped of an
orderly sheet is of an object the loop has passed, which announces it with that length (`Announced`), and
comes in the order of index and subindex. `SizeInv`: `nTxPdoBitSize` and `nRxPdoBitSize` cover the bits without padding. `ElementsFacts`
says what is mapped of one object, case by case of its kind, against what is printed of it, and
`SplitNumber` that an index and a subindex come apart again when the subindex is an octet.
The search is one of the least index or subindex that is not below the wanted one: `ListAscending` has
the three parts of the list in order, `ObjectFound` and `SubindexFound` then find the place by `MinIs`.
That a recursive function exists and has the values its equation says is proved once (`StepsExist`), by
induction up to its length (`Upto`), and `Selects`, `TotalsDef` and `SumsDef` say what the three functions
compute.

`PDOMapProofs`, for any dictionary, lists of any length and contents, any limit on mappings, with and
without interrupts: `TypeCorrect`, which contains that `sizeOfPDO` never writes beyond its table, and
`LayoutCorrect` (`EntriesMatch => (Spec => []LayoutSound)`), both also for lists whose counts are longer
than they are, from

    IInv == LayoutSound /\ Progress

`LayoutSound` speaks of tables that are not being computed. `Progress` is what the loops have done so
far: the entries of the part computed keep apart and end before `offset`, and `offset` has not wrapped, as
it is at most 255 for each entry. The hypothesis `EntriesMatch` says that the master maps an object with
its length; without it the theorem is false (`MCPDOMismatch`). `MappingFound` of `Dictionary` is the same
fact for the mapping the generator prints.

`DataCorrect` says that data are where the lists say:

    EntriesMatch /\ Conforming => (Spec => [](WideAligned => DataWhereMapped))

`Conforming`: counts do not exceed the lists, lists are shorter than what makes a `uint8_t` wrap
(`MCPDOEndless`), and both SyncManagers have a table. `WideAligned`: objects longer than a word begin on an
octet (`MCPDOUnaligned` shows the other). The invariant is `MInv == ListsHold /\ Followed /\ Shown`.
`Followed`: a table that was accepted since the last edit is the lists, and one being computed is the
lists up to where the loops are (`Reached`); `Shown`: what was copied last is what the table says. The
lists are flattened, and their offsets added up, by recursive functions. The library's induction theorem
cannot be used, so `Induction` is proved from the well-foundedness of `<` on `Nat` for the sets it is
needed for, and cited from there.

`FoEProofs`, for any sizes of packets, buffer and file, any number of mailbox buffers, and any order of
requests: `TypeCorrect` (no octet is written behind the buffer or the file), `StoredCorrect`
(`StoredInPlace`), `AcceptedCorrect` (`AcceptedIsStored`), `PositionsCorrect` (`PositionsAgree`), `ReadCorrect`
(`ReadInOrder`) and `AnsweredCorrect` (`EveryRequestAnswered`), from

    IInv == FoeTypes /\ FileInv /\ InOrder(out) /\ Receiving /\ Reading

`FileInv`: each octet in the file is at its place. `Receiving`: while a file is received, what the
writes so far covered is stored unless one failed (`Whole`), the buffer holds the octets behind that, and
the positions are those of the packet that is due; `WrittenFile` says what one call of `write_function`
does to this. `Reading`: while one is read, the last answer ends at the position. `InOrder` is about the
packets that wait in mailbox buffers.

`EoESendProofs`, for frames, fragments and blocks of any size: `TypeCorrect` and `PartsCorrect`
(`FreeSupplied => (Spec => []NoEmptyFragment)`) for any number of buffers, and `StreamCorrect` (`N = 3 =>
(Spec => StreamInOrder)`), with and without `free_buffer`. `FrameInv`: in the middle of a frame something
of it is left and the next part begins at a block, so the field gives its offset back (`OffsetField`).
The order is that of `Mailbox`, told in another way, as answers are not counted here: `Stream` is a
function from four places (read last, outbox, buffer 2, buffer 1) to messages. `StreamInv`: of two
fragments with none between them the later one follows on the earlier, and what is sent next follows on
the last. `Moved`, `Same` and `Added` say what the three things that happen to messages do to it. With
`N = 4` the theorem is false (see Observations).

`EEPROMProofs` has two parts. The first is about `ESCAccess` alone, for every address and length of an
access, every depth of the FIFOs, and every octet the chip gives: `TypeCorrect` and `CommandsCorrect`
(`CommandsLegal`) for any callers, with interrupts, from

    AInv == Types /\ PlacesOK /\ CommandsLegal

in which `PlacesOK` says what is left of an access at each point of the driver, and that a register access
stays below process data RAM. `TransferCorrect` (`Alone => (AccessSpec => []TransferExact)`) adds `Shape`:
what has been moved is the beginning of what was asked for, and what is in the registers of the CSR
interface or the words of a FIFO is what comes next (`RegisterShape`, `RAMShape`). `Alone` says that no
interrupt handler makes accesses, as in the polled loop of `ecat_task.c`, and that the chip keeps up with
SPI; `MCEEPROMIrq` and `MCEEPROMSlow` are counterexamples without the one and the other.

The second part proves that the emulation implements it: `AccessesRefined` (`Alone => (Spec =>
AccessSpec)`), so that all of the above holds of its accesses (`AccessesCorrect`). `AnswersCorrect`
(`ReadAnswered`) and `StoredCorrect` (`WritesStored`) are about the master, from

    EInv == EEPROMTypes /\ Latched /\ Turn /\ Settled /\ ReadAnswered

`Latched`: a busy interface holds the command that was asked for. `Turn`: at each point of `EEP_process`
the access it has made is the one it means to have made, and with `TransferExact` its buffer is what the
registers were or will be; a status with the busy bit is followed by the command and the address of the
interface, though they were read in chunks, because the master waits. `Settled`: the memory is what was
acknowledged, but for the time between the write and its acknowledgement.

`EoEServiceProofs`, for frames and fragments of any size, and any parameters and values: `HandedCorrect` and
`NoneLost` (`HandedWhole`, `NoWholeFrameLost`) under the hypothesis `Pool` that a frame finds a buffer, as
in the run, `ReadBackCorrect` (`ReadBack`) and `SuccessCorrect` (`SuccessMeansSet`). Three invariants:
`FrameInv`, what is stored is the beginning of one frame, and the number, size and offset kept are those
of its next fragment; `RunInv`, a run of fragments that arrived one behind the other is what is stored;
`NicInv`, a parameter has the value it was given last unless a message ended before it, and is set from
the first one on, the MAC from the first request of the master that names it.
Frames are numbered modulo `FrameNumbers`, and a frame is told from another by its number, its offset
and the fragment that is due: `NumbersDiffer`, `FragmentFits` and `PartBounds` are the arithmetic.

Only model-checked: every liveness property, as TLAPS has no fairness (`BrokenSMStopsOp`,
`SilenceStopsOutputs`, `SafeopAnswered`, `ALServed`, `Answered`, `FrameCompletes`, `QuietServesInbox`,
`CommandAnswered`). Every safety property of a passing run is stated by a theorem, some under the
hypotheses named above.

## Observations

What the code does and a comment or a document of it says otherwise, or what a reader would not expect.
The first is a run, with its finding in PROJECT.json; TLC finds the others violated with the
configuration named, as it is or with the property named in place of its own.

| configuration | property | what happens |
|---|---|---|
| `MCALValid` (*run*) | `OpIsValidated` | While an error waits for its acknowledge `ESC_sm_act_event` reads SyncManager changes, which acknowledges them, and drops the result (`esc.c` 868-871): OP can be entered with a SyncManager found wrong. |
| `MCALInputs` | `NoInputsBelowSafeop` | A request for SAFEOP in SAFEOP that fails goes to PREOP and leaves the inputs running (`esc.c` 1036-1063). |
| `MCALBootMbx` | `MailboxPerState` | After a refused request in BOOT or a later PREOP the pair of mailboxes in use is not the one of the state (`esc.c` 1027). |
| `MCALRace` | `ErrorLatched` | With interrupts, `ESC_state` overwrites an expiry that came between its switch and its write of AL Status (`esc.c` 1136). |
| `MCALRace`, `INVARIANT ErrorHasCode` | `ErrorHasCode` | The same expiry behind the clearing of AL Status Code leaves its code in a status without error (`esc.c` 1130-1136). |
| `MCPDOEndless` | `SafeopAnswered` | Without dynamic mapping a count of 255 is compared with `<=` to a `uint8_t`, which wraps: the loop does not end (`esc_coe.c` 115, 126). |
| `MCPDOMismatch` | `LayoutSound` | A mapping with a length that is not the object's is accepted: offsets add up the one, data are copied by the other, and objects overlap (`esc_coe.c` 129, 1174). |
| `MCPDOUnaligned` | `DataWhereMapped` | An object above 64 bits that is not mapped at an octet is copied from the next one (`esc_coe.c` 1174, 1222). |
| `MCMailboxRepeat` | `OutboxHoldsResponse` | A repeat request while the first message is in the outbox finds no backup; `ESC_writembx(0)` sends the master its own request (`esc.c` 598). |
| `MCMailboxPost` | `PostsToFree` | After a repeat the cached status is old: a write is refused by the full outbox and the buffer marked posted all the same (`esc.c` 608). |
| `MCMailboxOrder` with `MaxLoss = 1` | `DeliveredInOrder` | The two above: the master receives its own request; or, after its first answer was read, the response that was refused is lost, as the slave takes the master's read of the repeat for one of the posted response (`esc.c` 553). |
| `MCMailboxWorker` | `ALServed` | `ecat_slv_worker` spins in its inner loop while the master does not read, and AL Control is not looked at (`ecat_slv.c` 227). |
| `MCCoE`, `INVARIANT StoredAsSent` | `StoredAsSent` | A download announced with the size of an object larger than a mailbox is stored and acknowledged though the message cannot hold it (`esc_coe.c` 450-461). |
| `MCCoE`, `PROPERTY SegmentGoesOn` | `SegmentGoesOn` | A list asked for between two segments uses their counters, and the next segment starts at a number of fragments (`esc_coe.c` 590, 621). |
| `MCFoEFailure` | `FailureReported` | A failing `write_function` in the last packet is acknowledged like success (`esc_foe.c` 147-160, 453). |
| `MCFoEBusy` | `SendsLastPartAgain` | A BUSY goes back to the start of the file: `fprevposition` is never set by a read (`esc_foe.c` 516). |
| `MCEoESendStarve` | `InboxServed` | Steady outgoing frames keep the inbox unread for ever (`esc.c` 630). |
| `MCEoESendEmpty` | `NoEmptyFragment` | Without `free_buffer` a frame never ends (`esc_eoe.c` 941). |
| `MCEoEService`, `INVARIANT RequestAnswered` | `RequestAnswered` | A request for parameters is carried out and freed when no buffer is free for its answer. |
| `MCEoEService`, `PROPERTY RefusedSetsNothing` | `RefusedSetsNothing` | A request to set parameters that is too short is refused after the parameters before the end, and one behind it, were set (`esc_eoe.c` 620-699). |
| `MCEoEService`, `INVARIANT AllReadBack` | `AllReadBack` | `EOE_ecat_set_mac` stores the address and, unlike the other accessors, does not mark it as set: the master does not get a MAC address that only the application has given (`esc_eoe.c` 243-255). |
| `MCEEPROMIrq` | `TransferExact` | An interrupt between a command of the CSR interface and its data makes an access of its own, and the two get each other's octets (`esc_hw.c` 130). |
| `MCEEPROMSlow` | `TransferExact` | The words of a RAM access are read and written as fast as SPI goes; a FIFO that is slower gives or loses others (`esc_hw.c` 212, 282). |
| `MCDictionaryDocs` | `ModuleDataMapped`, `DescriptionAgrees` | Of input and output data only 0x6000 to 0x6999 and 0x7000 to 0x7999 are mapped (`SlaveReader.java` 187, 193), where the sheet of `examples/STMCAT.xlsx` (cells C41, C56) has "Input Data of the Module (0x6000 - 0x6FFF)" and "Output Data of the Module (0x7000 - 0x7FFF)"; and the ESI file names the first element of an array for every element (619), as `pdoRefEntry` is entry 1. |

Two more need only another constant. With `Orderly = FALSE` in `MCDictionary.cfg` the objects of a sheet
that is not in ascending order are not found (`esc_coe.c` 55), and a VARIABLE with a second row announces a
subindex whose descriptor does not exist; with a row of 256 elements added to `MCRows` an array announces
none of them, as `maxsub` is an octet (`esc_coe.h` 34), and the last one, when it is mapped, is mapped as subindex
0 of the next index (`SlaveReader.java` 237). With `Pool = FALSE` in `MCEoEService.cfg` and the invariant
`HandedInBuffer` a frame is handed over without a buffer (`esc_eoe.c` 783).

Seen while reading, without a configuration:

- AL state: a request that names no state is refused; in OP it stops the outputs and goes to SAFEOP, in
  other states it keeps the state. In SAFEOP it also stops the inputs, but only when the state asked for is
  0, as the branch compares a byte that holds two states (`esc.c` 1107-1121). BOOT with the error bit is not
  recognised as BOOT (860). `ESC_startmbxboot` reports 0x15 where its comment says 0x16 (344, 364). The
  watchdog counter stays 0 after an expiry until a call with the outputs stopped reloads it; an OP
  request before that expires at once (`ecat_slv.c` 156-170).
- `MBXBUFFERS 2` turns the only output buffer into a permanent backup: after the first response
  nothing can be sent. `MBXBUFFERS 4` lets a response overtake another and a fragment the one before
  it, because claim and post both search from the last buffer. `options.tmp` ships 3.
- A repeat request before anything was ever sent is never acknowledged, and the inbox is not read
  while it waits (`esc.c` 579-604).
- A mailbox counter of 0 disables the duplicate check (`esc.c` 640); a repeated message without data
  is answered twice, as that branch comes before the check (634-646); so is a CoE message that is too
  short (`esc_coe.c` 851, `esc.c` 661).
- `ESCvar.SM[1].ECrep` is refreshed only by `ESC_checkmbx`, hence only by a SyncManager change event.
- FoE and EoE keep their transfer across a stop of the mailboxes; EoE's first fragments after a start may
  be from the middle of a frame.
- FoE: a full packet of which only a part is taken is answered with an abort and an acknowledgement
  (`esc_foe.c` 476); a file of less than one packet is followed by an empty packet (329).
- EoE: frames sixteen numbers apart cannot be told apart (4 bits); a time stamp is subtracted from the
  length without a check that it is there (`esc_eoe.c` 803).
- CoE: an expedited upload between two segments leaves `segmented` set (`esc_coe.c` 286): a further
  segment request continues the upload before it. An SDO abort of the master is answered with an abort
  and ends nothing. The toggle bit of a segment request is copied and not checked (371). A download is
  stored before a buffer for its acknowledgement is claimed (461): without one the master sees a timeout
  and the value has changed. A hook of the application overwrites the abort code of
  `ESC_pre_objecthandler` (`ecat_slv.c` 62).
- EEPROM: a register read stores 1, 2 or 4 octets at a time and none behind its end, a read of RAM
  stores whole words and may store octets behind it.
- Generator: `rxpdo` and `txpdo` are sized in octets while bits are copied in words of 64
  (`esc_coe.c` 938-1003); entries of 16 bits are padded for the size (`SlaveReader.java` 167) and not in
  the mapping, so they may start at any bit; a SINT is an `int16_t` in C and `COE_setValue` writes its low
  octet, which loses the sign; elements of an array have default 0 in the dictionary and that of the
  sheet in the ESI file; objects below 0x6000 are defined and never listed; the column of the PDO
  direction is read and not used.

## Not modelled

- *Overrides*: `rxpdo_override`, `txpdo_override`, the hooks of CoE but for their refusals.
- *Start-up*: `ESC_init` waits for the chip, `COE_initDefaultValues` writes values; `Restart` of `PDOMap`
  has the lists it sets.
- *LAN9252*: the octets of an SPI transfer; an access of no octets to RAM, which nobody makes. That the
  chip keeps up with SPI is an assumption of `hw` (`KeepsUp`), that there is no interrupt is how
  `ecat_task.c` configures it; both have a configuration that shows what happens otherwise.
- *EEPROM*: `ecat_task.c` ships without `esc_hw_eep_handler`; the run is for a build that sets it. Byte
  addresses are computed without wrapping: `EEPROMAssumption` has the first octet of a word address below
  128, so its double fits in 32 bits.
- *Assigned PDOs that name another object* of the dictionary, as 0x1000: `Ghosts` are indexes that name
  none.
- *AL state*: a status variable of the slave and the register it is copied to are one.
- *Mailbox*: the counter 0, with which a master restarts it (`esc.c` 640).
- *Tables of process data*: an interrupt between the two stores to an entry (`esc_coe.c` 176-177); no
  property speaks of a table that is being computed.
- *EoE*: a negative length of the DNS name (`esc_eoe.c` 691); words of the callbacks; the masks of the offset
  and the number of blocks (71, 76, 864-874), 6 bits that no Ethernet frame fills.
- *EEPROM memory*: an `EEP_write` that fails has changed nothing.
- *Generator output* (`SlaveGenerator.java`): templates are copied and filled, once, in sequence. Names,
  C types and XML of `SlaveReader` are formatting; a blank or malformed cell is an empty one. A row whose
  object code is none of the three leaves `eObjectCode` null and ends in an exception (`DictObject.java`
  29-37, `SlaveReader.java` 202). The mapping objects 0x1600 and 0x1A00 have the entries the generator maps,
  and are taken to hold no more than 255 of them.
- *Import wizard, device description template, enumerations*: no state.
- *Contents*: registers are "right" or "wrong", messages have a kind and a number, process data a place.
  Time is calls of the watchdog. `ALState` has the result of `sizeOfPDO` as the master's choice.

## Plan

1. The remaining hypothesis of the LAN9252 access: `TransferExact` for FIFOs that are slower than SPI but
   never overtaken.
2. A composition of `ALState` and `PDOMap` in place of `mapBad`, of `Mailbox` and `FoE` in place of
   `OutBuffers`, and of `Mailbox` and `CoE` in place of `free`.
