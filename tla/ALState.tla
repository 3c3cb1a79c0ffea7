------------------------------ MODULE ALState ------------------------------
(***************************************************************************)
(* The AL state machine of the slave stack (src/templates/esc.c) as it is  *)
(* driven by ecat_slv.c: the loop                                          *)
(*                                                                         *)
(*    ESC_state  ->  ESC_ALstatus  ->  ESC_sm_act_event  ->  DIG_process   *)
(*                                                                         *)
(* runs against a master that writes AL Control, the SyncManager           *)
(* configuration and the process data at any moment.  ESC_state is three   *)
(* steps, the switch over the transition, the clearing of AL Status Code   *)
(* and the write of AL Status, because an interrupt (UseInterrupt) may run *)
(* DIG_process between them.  A variable of ESCvar and the register it is  *)
(* written to with are one step.                                           *)
(*                                                                         *)
(* ESCvar.ALevent is not a variable: it is refreshed by every access to    *)
(* the ESC, and a step that reads it late is a step that ran before the    *)
(* master's write.  Mailbox contents are the subject of Mailbox.           *)
(*                                                                         *)
(* An operator named X_Y is operator X with a plausible mistake, Y, that   *)
(* breaks one of the properties.                                           *)
(***************************************************************************)
EXTENDS Integers, FiniteSets

CONSTANTS
  Requests,        \* states the master may ask for in AL Control
  WatchdogCnt,     \* cfg->watchdog_cnt, in calls of DIG_process
  BadSets,         \* the sets of wrongly configured SyncManagers considered
  UseInterrupt     \* cfg->use_interrupt

States == {"init", "preop", "boot", "safeop", "op"}

\* "zero" is a request whose low nibble is 0; "unknown" any other nibble that is
\* no state.
RequestCodes == States \union {"zero", "unknown"}

SMs == 0 .. 3

ASSUME ConstAssumption ==
  /\ Requests \subseteq RequestCodes
  /\ WatchdogCnt \in Nat
  /\ BadSets \subseteq SUBSET SMs
  /\ UseInterrupt \in BOOLEAN

VARIABLES
  pc,            \* next step of the loop: "state", "clear", "write", "sm", "dig"
  an,            \* local an of ESC_state, between the switch and ESC_ALstatus
  acked,         \* whether ESCvar.ALcontrol, the last request read, acknowledges
  ALstatus,      \* ESCvar.ALstatus, also register 0x130
  ALerror,       \* ESCvar.ALerror, also register 0x134
  App,           \* ESCvar.App.state, as a set of flags
  MBXrun,        \* ESCvar.MBXrun
  activemb,      \* ESCvar.activemb0/1: "none", "mb" or "mbboot"
  SMtestresult,  \* ESCvar.SMtestresult
  smOff,         \* SyncManagers deactivated by the PDI (register 0x807)
  watchdog,      \* watchdog of ecat_slv.c
  irq,           \* SM2/SYNC0 interrupt enabled (esc_hw_interrupt_enable)
  \* the ESC and the master
  ctlEvent,      \* ESCREG_ALEVENT_CONTROL: AL Control holds an unread request
  smBad,         \* SyncManagers whose registers fail the stack's checks
  smChanged,     \* SyncManagers with an unread activation change
  sm2Event,      \* ESCREG_ALEVENT_SM2: process data not read yet
  mapBad,        \* SyncManagers for which sizeOfPDO reports no mapping
  dcBad,         \* ESC_checkDC would fail
  misses         \* history: watchdog calls of DIG_process since data or OP entry,
                 \* counted up to WatchdogCnt

local  == <<pc, an, acked>>
status == <<ALstatus, ALerror>>
mbx    == <<MBXrun, activemb>>
master == <<smBad, mapBad, dcBad>>
vars   == <<pc, an, acked, ALstatus, ALerror, App, MBXrun, activemb,
            SMtestresult, smOff, watchdog, irq, ctlEvent, smBad,
            smChanged, sm2Event, mapBad, dcBad, misses>>

Status(st, err) == [st |-> st, err |-> err]
StatusSet == [st : States, err : BOOLEAN]
ControlSet == [st : Requests, ack : BOOLEAN]

ErrorCodes == {"none", "invalidstatechange", "unknownstate",
               "invalidbootmbxconfig", "invalidmbxconfig", "invalidoutputsm",
               "invalidinputsm", "watchdog", "dcinvalidsynccfg"}

---------------------------------------------------------------------------
(***************************************************************************)
(* SyncManager checks.  A check reads the registers of the SyncManagers it *)
(* looks at, which acknowledges their change events.                       *)
(***************************************************************************)
MbxOk == smBad \intersect {0, 1} = {}
MbxCheckResult == IF 0 \in smBad THEN "SM0" ELSE "SM1"

\* ESC_checkSM23 stops at SM2 when SM2 is wrong.
SM23Ok == smBad \intersect {2, 3} = {}
SM23Read == IF 2 \in smBad THEN {2} ELSE {2, 3}
SM23CheckResult == IF 2 \in smBad THEN "SM2" ELSE "SM3"
SM23Error(result) ==
  IF result = "SM3" THEN "invalidinputsm" ELSE "invalidoutputsm"

\* An error acknowledge, or any request for INIT, confirms the error.
Acks(c) == c.ack \/ c.st = "init"

---------------------------------------------------------------------------
(***************************************************************************)
(* ESC_state, the switch.  Each operator below is a group of cases with    *)
(* the same effects; from is the state reported, to the state requested.   *)
(***************************************************************************)

Accept(st)     == an' = Status(st, FALSE) /\ UNCHANGED ALerror
Fail(st, code) == an' = Status(st, TRUE) /\ ALerror' = code

\* INIT_TO_INIT, PREOP_TO_PREOP, OP_TO_OP
Stay(from, to) ==
  /\ from = to /\ to \in {"init", "preop", "op"}
  /\ Accept(to)
  /\ UNCHANGED <<App, mbx, SMtestresult, smOff, irq, smChanged>>

StartMailbox_IgnoresCheck(from, to) ==
  /\ <<from, to>> \in {<<"init", "preop">>, <<"init", "boot">>, <<"boot", "boot">>}
  /\ activemb' = IF to = "preop" THEN "mb" ELSE "mbboot"
  /\ MBXrun' = TRUE
  /\ smChanged' = smChanged \ {0, 1}
  /\ IF MbxOk THEN Accept(to) ELSE Fail("init", "invalidmbxconfig")
  /\ UNCHANGED <<App, SMtestresult, smOff, irq>>

\* INIT_TO_PREOP with ESC_startmbx, INIT_TO_BOOT and BOOT_TO_BOOT with
\* ESC_startmbxboot.
StartMailbox(from, to) ==
  /\ <<from, to>> \in {<<"init", "preop">>, <<"init", "boot">>, <<"boot", "boot">>}
  /\ activemb' = IF to = "preop" THEN "mb" ELSE "mbboot"
  /\ MBXrun' = MbxOk
  /\ smChanged' = smChanged \ {0, 1}
  /\ IF MbxOk
     THEN Accept(to) /\ smOff' = smOff \ {0, 1} /\ UNCHANGED SMtestresult
     ELSE /\ Fail("init", IF to = "preop" THEN "invalidmbxconfig"
                                          ELSE "invalidbootmbxconfig")
          /\ smOff' = smOff \union {0, 1}
          /\ SMtestresult' = MbxCheckResult
  /\ UNCHANGED <<App, irq>>

\* The transitions that are refused whatever the configuration.
IllegalMoves == {<<"init", "safeop">>, <<"init", "op">>, <<"preop", "boot">>,
                 <<"preop", "op">>, <<"boot", "preop">>, <<"boot", "safeop">>,
                 <<"boot", "op">>, <<"safeop", "boot">>}

Refuse_Accepts(from, to) ==
  /\ <<from, to>> \in IllegalMoves
  /\ Accept(to)
  /\ UNCHANGED <<App, mbx, SMtestresult, smOff, irq, smChanged>>

Refuse(from, to) ==
  /\ <<from, to>> \in IllegalMoves
  /\ Fail(IF from = "boot" THEN "preop" ELSE from, "invalidstatechange")
  /\ UNCHANGED <<App, mbx, SMtestresult, smOff, irq, smChanged>>

RefuseFromOp_KeepsOutputs(from, to) ==
  /\ from = "op" /\ to = "boot"
  /\ Fail("safeop", "invalidstatechange")
  /\ UNCHANGED <<App, smOff, mbx, SMtestresult, irq, smChanged>>

\* OP_TO_BOOT
RefuseFromOp(from, to) ==
  /\ from = "op" /\ to = "boot"
  /\ Fail("safeop", "invalidstatechange")
  /\ App' = App \intersect {"INPUT"}
  /\ smOff' = smOff \union {2}
  /\ UNCHANGED <<mbx, SMtestresult, irq, smChanged>>

StopToInit_KeepsMailbox(from, to) ==
  /\ from # "init" /\ to = "init"
  /\ Accept("init")
  /\ App' = {} /\ smOff' = SMs /\ irq' = FALSE
  /\ UNCHANGED <<mbx, SMtestresult, smChanged>>

\* OP_TO_INIT, SAFEOP_TO_INIT, PREOP_TO_INIT, BOOT_TO_INIT
StopToInit(from, to) ==
  /\ from # "init" /\ to = "init"
  /\ Accept("init")
  /\ MBXrun' = FALSE
  /\ IF from \in {"safeop", "op"}
     THEN App' = {} /\ smOff' = SMs /\ irq' = FALSE
     ELSE UNCHANGED <<App, irq>> /\ smOff' = smOff \union {0, 1}
  /\ UNCHANGED <<activemb, SMtestresult, smChanged>>

StopToPreop_KeepsOutputs(from, to) ==
  /\ from \in {"safeop", "op"} /\ to = "preop"
  /\ Accept("preop")
  /\ App' = App \ {"INPUT"} /\ smOff' = smOff \union {3} /\ irq' = FALSE
  /\ UNCHANGED <<mbx, SMtestresult, smChanged>>

\* OP_TO_PREOP, SAFEOP_TO_PREOP
StopToPreop(from, to) ==
  /\ from \in {"safeop", "op"} /\ to = "preop"
  /\ Accept("preop")
  /\ App' = {} /\ smOff' = smOff \union {2, 3} /\ irq' = FALSE
  /\ UNCHANGED <<mbx, SMtestresult, smChanged>>

\* PREOP_TO_SAFEOP, SAFEOP_TO_SAFEOP while a mapping cannot be computed.
UnmappedInput(from, to) ==
  /\ from \in {"preop", "safeop"} /\ to = "safeop"
  /\ mapBad # {}
  /\ Fail("preop", IF 2 \in mapBad THEN "invalidoutputsm" ELSE "invalidinputsm")
  /\ UNCHANGED <<App, mbx, SMtestresult, smOff, irq, smChanged>>

\* PREOP_TO_SAFEOP, SAFEOP_TO_SAFEOP with ESC_startinput.  When SM2 or SM3 is
\* wrong App.state stays as it was; only a failed DC check clears it.
StartInput(from, to) ==
  /\ from \in {"preop", "safeop"} /\ to = "safeop"
  /\ mapBad = {}
  /\ smChanged' = smChanged \ SM23Read
  /\ \/ /\ ~SM23Ok
        /\ Fail("preop", SM23Error(SM23CheckResult))
        /\ SMtestresult' = SM23CheckResult
        /\ smOff' = smOff \union {2, 3}
        /\ UNCHANGED <<App, irq>>
     \/ /\ SM23Ok /\ UseInterrupt /\ dcBad
        /\ Fail("preop", "dcinvalidsynccfg")
        /\ App' = {}
        /\ smOff' = smOff \union {2, 3}
        /\ UNCHANGED <<SMtestresult, irq>>
     \/ /\ SM23Ok /\ ~(UseInterrupt /\ dcBad)
        /\ Accept("safeop")
        /\ App' = {"INPUT"}
        /\ smOff' = smOff \ {2, 3}
        /\ irq' = UseInterrupt
        /\ UNCHANGED SMtestresult
  /\ UNCHANGED mbx

StartOutput_WithoutSM2(from, to) ==
  /\ from = "safeop" /\ to = "op"
  /\ Accept("op")
  /\ App' = App \union {"OUTPUT"}
  /\ UNCHANGED <<smOff, mbx, SMtestresult, irq, smChanged>>

\* SAFEOP_TO_OP with ESC_startoutput
StartOutput(from, to) ==
  /\ from = "safeop" /\ to = "op"
  /\ Accept("op")
  /\ App' = App \union {"OUTPUT"}
  /\ smOff' = smOff \ {2}
  /\ UNCHANGED <<mbx, SMtestresult, irq, smChanged>>

\* OP_TO_SAFEOP with ESC_stopoutput
StopOutput(from, to) ==
  /\ from = "op" /\ to = "safeop"
  /\ Accept("safeop")
  /\ App' = App \intersect {"INPUT"}
  /\ smOff' = smOff \union {2}
  /\ UNCHANGED <<mbx, SMtestresult, irq, smChanged>>

\* default: a request that names no state.  The code compares the whole
\* transition byte with ESCsafeop, which only a zero request in SAFEOP matches.
UnknownRequest(from, to) ==
  /\ to \in {"zero", "unknown"}
  /\ Fail(IF from = "op" THEN "safeop" ELSE from, "unknownstate")
  /\ \/ /\ from = "op"
        /\ App' = App \intersect {"INPUT"} /\ smOff' = smOff \union {2}
        /\ UNCHANGED irq
     \/ /\ from = "safeop" /\ to = "zero"
        /\ App' = {} /\ smOff' = smOff \union {2, 3} /\ irq' = FALSE
     \/ /\ from # "op" /\ ~(from = "safeop" /\ to = "zero")
        /\ UNCHANGED <<App, smOff, irq>>
  /\ UNCHANGED <<mbx, SMtestresult, smChanged>>

\* COE_initDefaultValues, in INIT_TO_PREOP, restores the default mapping objects,
\* which fit.
Mapping(from, to) == IF from = "init" /\ to = "preop" THEN {} ELSE mapBad

Switch(from, to) ==
  \/ Stay(from, to)
  \/ StartMailbox(from, to)
  \/ Refuse(from, to)
  \/ RefuseFromOp(from, to)
  \/ StopToInit(from, to)
  \/ StopToPreop(from, to)
  \/ UnmappedInput(from, to)
  \/ StartInput(from, to)
  \/ StartOutput(from, to)
  \/ StopOutput(from, to)
  \/ UnknownRequest(from, to)

---------------------------------------------------------------------------
(***************************************************************************)
(* The steps of the loop.                                                  *)
(***************************************************************************)
\* The request read is whatever the master wrote last: its value is chosen when
\* it is read.

\* ESC_state without a pending request, or in an error that the request does
\* not acknowledge.
ESC_stateReturn ==
  /\ pc = "state"
  /\ pc' = "sm"
  /\ \/ ~ctlEvent /\ UNCHANGED <<acked, ctlEvent>>
     \/ /\ ctlEvent /\ ctlEvent' = FALSE
        /\ ALstatus.err /\ acked' = FALSE
        /\ \E c \in ControlSet : ~Acks(c)
  /\ UNCHANGED <<an, status, App, mbx, SMtestresult, smOff, watchdog, irq,
                 master, smChanged, sm2Event, misses>>

ESC_state_WithoutAck ==
  /\ pc = "state"
  /\ ctlEvent /\ ctlEvent' = FALSE
  /\ pc' = "clear"
  /\ \E c \in ControlSet :
       /\ acked' = Acks(c)
       /\ Switch(ALstatus.st, c.st)
       /\ mapBad' = Mapping(ALstatus.st, c.st)
  /\ misses' = IF "OUTPUT" \in App' \ App THEN 0 ELSE misses
  /\ UNCHANGED <<ALstatus, watchdog, smBad, dcBad, sm2Event>>

ESC_state ==
  /\ pc = "state"
  /\ ctlEvent /\ ctlEvent' = FALSE
  /\ pc' = "clear"
  /\ \E c \in ControlSet :
       /\ acked' = Acks(c)
       /\ ALstatus.err => Acks(c)
       /\ Switch(ALstatus.st, c.st)
       /\ mapBad' = Mapping(ALstatus.st, c.st)
  /\ misses' = IF "OUTPUT" \in App' \ App THEN 0 ELSE misses
  /\ UNCHANGED <<ALstatus, watchdog, smBad, dcBad, sm2Event>>

NoStatus == Status("init", FALSE)   \* an outside ESC_state

\* The end of ESC_state: clear the code of an error that is gone, ...
ESC_clearError ==
  /\ pc = "clear"
  /\ pc' = "write"
  /\ ALerror' = IF an.err THEN ALerror ELSE "none"
  /\ UNCHANGED <<an, acked, ALstatus, App, mbx, SMtestresult, smOff, watchdog, irq,
                 master, ctlEvent, smChanged, sm2Event, misses>>

\* ... and report the state.
ESC_ALstatus ==
  /\ pc = "write"
  /\ pc' = "sm"
  /\ ALstatus' = an
  /\ an' = NoStatus
  /\ UNCHANGED <<acked, ALerror, App, mbx, SMtestresult, smOff, watchdog, irq,
                 master, ctlEvent, smChanged, sm2Event, misses>>

LoopEnd == IF UseInterrupt THEN "state" ELSE "dig"

\* The mailboxes are up and the state is neither INIT nor BOOT without error.
SMsInUse ==
  /\ ALstatus.st # "init"
  /\ ALstatus # Status("boot", FALSE)
  /\ MBXrun

\* ESC_sm_act_event outside the checked states: no change event, or SMack 0..7.
ESC_smAck ==
  /\ pc = "sm"
  /\ smChanged = {} \/ ~SMsInUse
  /\ smChanged' = {}
  /\ pc' = LoopEnd
  /\ UNCHANGED <<an, acked, status, App, mbx, SMtestresult, smOff, watchdog,
                 irq, master, ctlEvent, sm2Event, misses>>

\* ESC_checkSM23 returns the state it is given, so in PREOP with error its
\* result reads as a failure; SMtestresult then is that of an earlier check.
SM23Fails == ~SM23Ok \/ ALstatus = Status("preop", TRUE)
SMact_MailboxOnly ==
  CASE ALstatus.err /\ ~acked -> "stay"
    [] ~MbxOk                -> "init"
    [] OTHER                 -> "keep"

SMact ==
  CASE ALstatus.err /\ ~acked -> "stay"
    [] ~MbxOk                           -> "init"
    [] App # {} /\ SM23Fails            -> "preop"
    [] OTHER                            -> "keep"

ESC_sm_act_event ==
  /\ pc = "sm"
  /\ smChanged # {} /\ SMsInUse
  /\ smChanged' = smChanged \ ({0, 1} \union SM23Read)
  /\ SMtestresult' = IF ~SM23Ok THEN SM23CheckResult
                     ELSE IF ~MbxOk THEN MbxCheckResult ELSE SMtestresult
  /\ ALstatus' = IF SMact \in {"init", "preop"} THEN Status(SMact, TRUE) ELSE ALstatus
  /\ ALerror' = CASE SMact = "init"  -> "invalidmbxconfig"
                  [] SMact = "preop" -> SM23Error(SMtestresult')
                  [] OTHER           -> ALerror
  /\ MBXrun' = IF SMact = "init" THEN FALSE ELSE MBXrun
  /\ IF SMact \in {"init", "preop"} /\ App # {}
     THEN App' = {} /\ irq' = FALSE
     ELSE UNCHANGED <<App, irq>>
  /\ smOff' = smOff \union (IF MbxOk THEN {} ELSE {0, 1})
                    \union (IF SMact \in {"init", "preop"} /\ App # {} THEN {2, 3} ELSE {})
  /\ pc' = LoopEnd
  /\ UNCHANGED <<an, acked, activemb, watchdog, master, ctlEvent, sm2Event, misses>>

---------------------------------------------------------------------------
(***************************************************************************)
(* DIG_process.  ecat_slv calls it with every flag at the end of the loop; *)
(* an interrupt driven application calls it from a timer with the watchdog *)
(* flag and from the SM2/SYNC0 interrupt with the others, at any step of   *)
(* the loop.  Its effects only depend on the two flags modelled here; the  *)
(* application hook and the copy of the inputs change no state kept here.  *)
(***************************************************************************)
Ticked_Never == watchdog
Ticked == IF watchdog > 0 THEN watchdog - 1 ELSE 0
Expires_OneLate(wd) == wd /\ watchdog = 0 /\ "OUTPUT" \in App
Expires(wd) == wd /\ Ticked = 0 /\ "OUTPUT" \in App

DIG_process(wd, out) ==
  LET outputs   == "OUTPUT" \in App /\ ~Expires(wd)
      data      == out /\ sm2Event
      afterTick == IF ~wd THEN watchdog
                   ELSE IF "OUTPUT" \notin App THEN WatchdogCnt ELSE Ticked
  IN  /\ IF Expires(wd)
         THEN /\ App' = App \intersect {"INPUT"}
              /\ smOff' = smOff \union {2}
              /\ ALerror' = "watchdog"
              /\ ALstatus' = Status("safeop", TRUE)
         ELSE UNCHANGED <<App, smOff, status>>
      /\ watchdog' = IF data /\ outputs THEN WatchdogCnt ELSE afterTick
      /\ sm2Event' = (sm2Event /\ ~data)
      /\ misses' = IF data /\ outputs THEN 0
                   ELSE IF wd /\ "OUTPUT" \in App /\ misses < WatchdogCnt
                   THEN misses + 1 ELSE misses
      /\ UNCHANGED <<an, acked, mbx, SMtestresult, irq, master, ctlEvent, smChanged>>

DIG_poll      == pc = "dig" /\ pc' = "state" /\ DIG_process(TRUE, TRUE)
DIG_timer     == UseInterrupt /\ DIG_process(TRUE, FALSE) /\ UNCHANGED pc
DIG_interrupt == UseInterrupt /\ irq /\ sm2Event /\ DIG_process(FALSE, TRUE) /\ UNCHANGED pc

---------------------------------------------------------------------------
(***************************************************************************)
(* The master, at any moment.                                              *)
(***************************************************************************)
slave == <<local, status, App, mbx, SMtestresult, smOff, watchdog, irq, misses>>

WriteControl ==
  /\ ctlEvent' = TRUE
  /\ UNCHANGED <<slave, smBad, smChanged, sm2Event, mapBad, dcBad>>

\* Any write to a SyncManager's activation register raises its change event.
WriteSM ==
  /\ \E bad \in BadSets, n \in SMs :
       /\ bad \ {n} = smBad \ {n}
       /\ smBad' = bad
       /\ smChanged' = smChanged \union {n}
  /\ UNCHANGED <<slave, ctlEvent, sm2Event, mapBad, dcBad>>

\* SDO downloads to 0x1C12, 0x1C13 and the mapping objects, writable in PREOP,
\* change what sizeOfPDO returns, hence whether the lengths of SM2 and SM3 fit.
\* They run in the mailbox step, which follows ESC_sm_act_event in the loop.
Remap ==
  /\ pc = LoopEnd /\ MBXrun /\ ALstatus.st = "preop"
  /\ \E bad \in BadSets :
       bad \intersect {0, 1} = smBad \intersect {0, 1} /\ smBad' = bad
  /\ \E bad \in BadSets : mapBad' = bad \intersect {2, 3}
  /\ UNCHANGED <<slave, ctlEvent, smChanged, sm2Event, dcBad>>

\* Process data reaches SM2 only while it is active and configured.
WriteSM2 ==
  /\ 2 \notin smOff \union smBad
  /\ sm2Event' = TRUE
  /\ UNCHANGED <<slave, ctlEvent, smBad, smChanged, mapBad, dcBad>>

WriteDC ==
  /\ UseInterrupt
  /\ dcBad' = ~dcBad
  /\ UNCHANGED <<slave, ctlEvent, smBad, smChanged, sm2Event, mapBad>>

Loop == \/ ESC_stateReturn \/ ESC_state \/ ESC_clearError \/ ESC_ALstatus
        \/ ESC_smAck \/ ESC_sm_act_event \/ DIG_poll
Interrupt == DIG_timer \/ DIG_interrupt
Master == WriteControl \/ WriteSM \/ Remap \/ WriteSM2 \/ WriteDC

\* The state ecat_slv_init leaves.  The master may have written anything by then.
Init ==
  /\ pc = "state"
  /\ an = NoStatus
  /\ acked = FALSE
  /\ ALstatus = Status("init", FALSE)
  /\ ALerror = "none"
  /\ App = {}
  /\ MBXrun = FALSE
  /\ activemb = "none"
  /\ SMtestresult = "none"
  /\ smOff = SMs
  /\ watchdog = WatchdogCnt
  /\ irq = FALSE
  /\ ctlEvent \in BOOLEAN
  /\ smBad \in BadSets
  /\ smChanged = {}
  /\ sm2Event = FALSE
  /\ mapBad = {}
  /\ dcBad = FALSE
  /\ misses = 0

---------------------------------------------------------------------------
Next == Loop \/ Interrupt \/ Master

Spec == Init /\ [][Next]_vars

\* The main loop of ecat_task.c never blocks; with interrupts its timer keeps
\* running too.  Nothing is assumed of the master.
FairSpec == Spec /\ WF_vars(Loop) /\ WF_vars(DIG_timer)

---------------------------------------------------------------------------
(***************************************************************************)
(* Properties.                                                             *)
(***************************************************************************)
LoopTypes ==
  /\ pc \in {"state", "clear", "write", "sm", "dig"}
  /\ an \in StatusSet
  /\ acked \in BOOLEAN
  /\ watchdog \in 0 .. WatchdogCnt
  /\ misses \in Nat

StatusTypes ==
  /\ ALstatus \in StatusSet
  /\ ALerror \in ErrorCodes
  /\ MBXrun \in BOOLEAN
  /\ activemb \in {"none", "mb", "mbboot"}
  /\ SMtestresult \in {"none", "SM0", "SM1", "SM2", "SM3"}

SetTypes ==
  /\ App \subseteq {"INPUT", "OUTPUT"}
  /\ smOff \subseteq SMs
  /\ smBad \subseteq SMs
  /\ smChanged \subseteq SMs
  /\ mapBad \subseteq {2, 3}

FlagTypes ==
  /\ irq \in BOOLEAN
  /\ ctlEvent \in BOOLEAN
  /\ sm2Event \in BOOLEAN
  /\ dcBad \in BOOLEAN

TypeOK == LoopTypes /\ StatusTypes /\ SetTypes /\ FlagTypes

\* ESC_state has decided on a state and not reported it yet.
Deciding == pc \in {"clear", "write"}

\* The status that holds, or that ESC_state is about to report.
Reported == IF Deciding THEN an ELSE ALstatus

\* Outputs are driven only in OP: whatever path leaves OP (a request, a watchdog
\* expiry, a SyncManager change, an unknown request) also stops them.
OutputsOnlyInOp == "OUTPUT" \in App => Reported = Status("op", FALSE)

\* A slave in OP drives its outputs through an SM2 that the PDI keeps active.
OpDrivesOutputs == Reported = Status("op", FALSE) => "OUTPUT" \in App /\ 2 \notin smOff

\* Whenever AL Status shows an error, or is about to, AL Status Code names one: no
\* path sets the indication and forgets the code, or clears the code too early.
ErrorNamed == Reported.err => ALerror # "none"

\* AL Status shows an error exactly while AL Status Code names one: no path leaves a
\* code behind either.  In the polled loop only: an expiry between the last two steps
\* of ESC_state leaves its code to a status without an error.
ErrorHasCode ==
  /\ ErrorNamed
  /\ ~Deciding /\ ALerror # "none" => ALstatus.err

\* The mailboxes run in every state but INIT, through every failed start, refused
\* transition and forced step down.
MailboxMatchesState == MBXrun <=> Reported.st # "init"

\* Without data the outputs survive less than WatchdogCnt calls of the watchdog.
WatchdogBound == "OUTPUT" \in App => misses = 0 \/ misses < WatchdogCnt

\* An error indication is withdrawn only after a request that acknowledges it
\* ("Error state not acked, leave original", ESC_state).
ErrorLatched == [][ALstatus.err /\ ~ALstatus'.err => acked]_vars

\* Without an error the reported state moves only along the EtherCAT state graph.
LegalMoves ==
  {<<"init", "preop">>, <<"init", "boot">>, <<"boot", "init">>,
   <<"preop", "init">>, <<"preop", "safeop">>, <<"safeop", "init">>,
   <<"safeop", "preop">>, <<"safeop", "op">>, <<"op", "safeop">>,
   <<"op", "preop">>, <<"op", "init">>}

OnlyLegalMoves ==
  [][~ALstatus'.err /\ ALstatus'.st # ALstatus.st
       => <<ALstatus.st, ALstatus'.st>> \in LegalMoves]_vars

\* The state reported, its error indication and the outputs together implement the
\* contract a master relies on (ALContract).
Contract == INSTANCE ALContract
  WITH st <- Reported.st, err <- Reported.err, driving <- "OUTPUT" \in App

ImplementsContract == Contract!Spec

\* A SyncManager found wrong while in OP takes the slave out of OP, unless the
\* master repairs it first.
BrokenSMStopsOp ==
  (ALstatus = Status("op", FALSE) /\ smBad \intersect smChanged # {})
    ~> (ALstatus.st # "op" \/ smBad = {})

\* When process data stops coming the outputs stop: they are off, or data is
\* waiting, again and again.
SilenceStopsOutputs == []<>("OUTPUT" \notin App \/ sm2Event)

---------------------------------------------------------------------------
(***************************************************************************)
(* What comments of the code say and the code does not do: each of these   *)
(* is the property of a configuration that finds it violated.              *)
(***************************************************************************)
\* AL Status is written "reflecting actual state": below SAFEOP no process data
\* is exchanged.
NoInputsBelowSafeop ==
  ~Deciding /\ ALstatus \in {Status("init", FALSE), Status("preop", FALSE)} => App = {}

\* The "State check decides which one": bootstrap mailboxes in BOOT, the others
\* in the other states.
MailboxPerState ==
  MBXrun /\ ~Reported.err => (activemb = "mbboot" <=> Reported.st = "boot")

\* A SyncManager found wrong forces the slave to step down: none is wrong in OP
\* but those whose change is still unread.
OpIsValidated ==
  ALstatus = Status("op", FALSE) => smBad \subseteq smChanged
=============================================================================
