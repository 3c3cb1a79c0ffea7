--------------------------- MODULE ALStateProofs ---------------------------
(***************************************************************************)
(* Proofs about ALState, for any set of requests, any watchdog count, any  *)
(* SyncManager configurations, and with or without interrupts.             *)
(***************************************************************************)
EXTENDS ALState, TLAPS

USE ConstAssumption DEF ConstAssumption, States, RequestCodes, SMs, Status, Deciding

---------------------------------------------------------------------------
(***************************************************************************)
(* Type correctness.                                                       *)
(***************************************************************************)
\* The initial states, the states ecat_slv_init leaves, are well typed.
LEMMA TypeInit == Init => TypeOK
  <1> SUFFICES ASSUME Init PROVE TypeOK
    OBVIOUS
  <1>1. LoopTypes
    <2>1. an \in StatusSet
      BY DEF Init, NoStatus, StatusSet
    <2>2. watchdog \in 0 .. WatchdogCnt /\ misses \in Nat
      BY DEF Init
    <2>3. pc \in {"state", "clear", "write", "sm", "dig"} /\ acked \in BOOLEAN
      BY DEF Init
    <2> QED
      BY <2>1, <2>2, <2>3 DEF LoopTypes
  <1>2. StatusTypes
    BY DEF Init, StatusTypes, StatusSet, ErrorCodes
  <1>3. SetTypes
    BY DEF Init, SetTypes
  <1>4. FlagTypes
    BY DEF Init, FlagTypes
  <1> QED
    BY <1>1, <1>2, <1>3, <1>4 DEF TypeOK

\* What the cases of the switch of ESC_state do to the status, the mailboxes and the
\* result of the last SyncManager check.
LEMMA SwitchStatus ==
  ASSUME TypeOK, NEW from \in States, NEW to \in RequestCodes, Switch(from, to)
  PROVE  /\ an' \in StatusSet
         /\ ALerror' \in ErrorCodes
         /\ MBXrun' \in BOOLEAN
         /\ activemb' \in {"none", "mb", "mbboot"}
         /\ SMtestresult' \in {"none", "SM0", "SM1", "SM2", "SM3"}
  <1> USE DEF TypeOK, StatusTypes, mbx, Accept, Fail
  <1>1. \E st \in States, err \in BOOLEAN : an' = Status(st, err)
    BY DEF Switch, Stay, StartMailbox, Refuse, RefuseFromOp, StopToInit, StopToPreop,
           UnmappedInput, StartInput, StartOutput, StopOutput, UnknownRequest
  <1>2. ALerror' \in ErrorCodes
    BY DEF Switch, Stay, StartMailbox, Refuse, RefuseFromOp, StopToInit, StopToPreop,
           UnmappedInput, StartInput, StartOutput, StopOutput, UnknownRequest,
           ErrorCodes, SM23Error
  <1>3. MBXrun' \in BOOLEAN
    BY DEF Switch, Stay, StartMailbox, Refuse, RefuseFromOp, StopToInit, StopToPreop,
           UnmappedInput, StartInput, StartOutput, StopOutput, UnknownRequest,
           MbxOk
  <1>4. activemb' \in {"none", "mb", "mbboot"}
    BY DEF Switch, Stay, StartMailbox, Refuse, RefuseFromOp, StopToInit, StopToPreop,
           UnmappedInput, StartInput, StartOutput, StopOutput, UnknownRequest
  <1>5. SMtestresult' \in {"none", "SM0", "SM1", "SM2", "SM3"}
    BY DEF Switch, Stay, StartMailbox, Refuse, RefuseFromOp, StopToInit, StopToPreop,
           UnmappedInput, StartInput, StartOutput, StopOutput, UnknownRequest,
           MbxCheckResult, SM23CheckResult
  <1> QED
    BY <1>1, <1>2, <1>3, <1>4, <1>5 DEF StatusSet

\* What each case does to the application state, the SyncManagers and the interrupts.
LEMMA SwitchSets ==
  ASSUME TypeOK, NEW from, NEW to, Switch(from, to)
  PROVE  /\ App' \subseteq {"INPUT", "OUTPUT"}
         /\ smOff' \subseteq SMs
         /\ smChanged' \subseteq SMs
         /\ irq' \in BOOLEAN
  <1> USE DEF TypeOK, SetTypes, FlagTypes
  <1>1. App' \in {App, {}, {"INPUT"}, App \union {"OUTPUT"}, App \intersect {"INPUT"}}
    BY DEF Switch, Stay, StartMailbox, Refuse, RefuseFromOp, StopToInit, StopToPreop,
           UnmappedInput, StartInput, StartOutput, StopOutput, UnknownRequest
  <1>2. smOff' \subseteq smOff \union SMs
    BY DEF Switch, Stay, StartMailbox, Refuse, RefuseFromOp, StopToInit, StopToPreop,
           UnmappedInput, StartInput, StartOutput, StopOutput, UnknownRequest
  <1>3. smChanged' \subseteq smChanged
    BY DEF Switch, Stay, StartMailbox, Refuse, RefuseFromOp, StopToInit, StopToPreop,
           UnmappedInput, StartInput, StartOutput, StopOutput, UnknownRequest
  <1>4. irq' \in BOOLEAN
    BY DEF Switch, Stay, StartMailbox, Refuse, RefuseFromOp, StopToInit, StopToPreop,
           UnmappedInput, StartInput, StartOutput, StopOutput, UnknownRequest
  <1> QED
    BY <1>1, <1>2, <1>3, <1>4

\* Every step keeps the types.
LEMMA TypeNext == TypeOK /\ [Next]_vars => TypeOK'
  <1> SUFFICES ASSUME TypeOK, [Next]_vars PROVE TypeOK'
    OBVIOUS
  <1> USE DEF local, status, mbx, master, slave
  <1>1. CASE ESC_stateReturn
    <2>1. LoopTypes'
      BY <1>1 DEF ESC_stateReturn, TypeOK, LoopTypes
    <2>2. StatusTypes' /\ SetTypes'
      BY <1>1 DEF ESC_stateReturn, TypeOK, StatusTypes, SetTypes
    <2>3. FlagTypes'
      BY <1>1 DEF ESC_stateReturn, TypeOK, FlagTypes
    <2> QED
      BY <2>1, <2>2, <2>3 DEF TypeOK
  <1>2. CASE ESC_state
    <2>1. PICK c \in ControlSet : /\ acked' = Acks(c) /\ Switch(ALstatus.st, c.st)
                                  /\ mapBad' = Mapping(ALstatus.st, c.st)
      BY <1>2 DEF ESC_state
    <2>2. ALstatus.st \in States /\ c.st \in RequestCodes
      BY DEF TypeOK, StatusTypes, StatusSet, ControlSet
    <2>3. LoopTypes'
      <3>1. acked' \in BOOLEAN
        BY <2>1 DEF Acks, ControlSet
      <3>2. misses' \in Nat
        BY <1>2 DEF ESC_state, TypeOK, LoopTypes
      <3> QED
        BY <1>2, <2>1, <2>2, <3>1, <3>2, SwitchStatus DEF ESC_state, TypeOK, LoopTypes
    <2>4. StatusTypes'
      BY <1>2, <2>1, <2>2, SwitchStatus DEF ESC_state, TypeOK, StatusTypes
    <2>5. SetTypes'
      <3>1. mapBad' \subseteq {2, 3}
        BY <2>1 DEF Mapping, TypeOK, SetTypes
      <3> QED
        BY <1>2, <2>1, <3>1, SwitchSets DEF ESC_state, TypeOK, SetTypes
    <2>6. FlagTypes'
      BY <1>2, <2>1, SwitchSets DEF ESC_state, TypeOK, FlagTypes
    <2> QED
      BY <2>3, <2>4, <2>5, <2>6 DEF TypeOK
  <1>3. CASE ESC_clearError \/ ESC_ALstatus
    <2>1. LoopTypes'
      <3>1. CASE ESC_clearError
        BY <3>1 DEF ESC_clearError, TypeOK, LoopTypes
      <3>2. CASE ESC_ALstatus
        BY <3>2 DEF ESC_ALstatus, TypeOK, LoopTypes, NoStatus, StatusSet
      <3> QED
        BY <1>3, <3>1, <3>2
    <2>2. StatusTypes'
      BY <1>3 DEF ESC_clearError, ESC_ALstatus, TypeOK, LoopTypes, StatusTypes, ErrorCodes
    <2>3. SetTypes' /\ FlagTypes'
      BY <1>3 DEF ESC_clearError, ESC_ALstatus, TypeOK, SetTypes, FlagTypes
    <2> QED
      BY <2>1, <2>2, <2>3 DEF TypeOK
  <1>4. CASE ESC_smAck
    <2>1. LoopTypes'
      BY <1>4 DEF ESC_smAck, LoopEnd, TypeOK, LoopTypes
    <2>2. StatusTypes' /\ FlagTypes'
      BY <1>4 DEF ESC_smAck, TypeOK, StatusTypes, FlagTypes
    <2>3. SetTypes'
      <3>1. UNCHANGED <<App, smOff, smBad, mapBad>> /\ smChanged' = {}
        BY <1>4 DEF ESC_smAck
      <3> QED
        BY <3>1 DEF TypeOK, SetTypes
    <2> QED
      BY <2>1, <2>2, <2>3 DEF TypeOK
  <1>5. CASE ESC_sm_act_event
    <2>1. SMact \in {"stay", "init", "preop", "keep"}
      BY DEF SMact
    <2>2. LoopTypes'
      BY <1>5 DEF ESC_sm_act_event, LoopEnd, TypeOK, LoopTypes
    <2>3. StatusTypes'
      BY <1>5, <2>1 DEF ESC_sm_act_event, TypeOK, StatusTypes, StatusSet, ErrorCodes,
                        SM23CheckResult, MbxCheckResult, SM23Error
    <2>4. SetTypes'
      BY <1>5 DEF ESC_sm_act_event, TypeOK, SetTypes
    <2>5. FlagTypes'
      BY <1>5 DEF ESC_sm_act_event, TypeOK, FlagTypes
    <2> QED
      BY <2>2, <2>3, <2>4, <2>5 DEF TypeOK
  <1>6. ASSUME NEW wd \in BOOLEAN, NEW out \in BOOLEAN, DIG_process(wd, out),
               pc' \in {"state", pc}
        PROVE  TypeOK'
    <2>1. Ticked \in 0 .. WatchdogCnt
      BY DEF Ticked, TypeOK, LoopTypes
    <2>2. LoopTypes'
      BY <1>6, <2>1 DEF DIG_process, TypeOK, LoopTypes
    <2>3. StatusTypes'
      <3>1. /\ ALstatus' \in {ALstatus, Status("safeop", TRUE)}
            /\ ALerror' \in {ALerror, "watchdog"}
            /\ UNCHANGED <<MBXrun, activemb, SMtestresult>>
        BY <1>6 DEF DIG_process
      <3>2. Status("safeop", TRUE) \in StatusSet /\ "watchdog" \in ErrorCodes
        BY DEF StatusSet, ErrorCodes
      <3> HIDE DEF Status
      <3> QED
        BY <3>1, <3>2 DEF TypeOK, StatusTypes
    <2>4. SetTypes'
      <3>1. App' \subseteq App
        BY <1>6 DEF DIG_process, TypeOK, SetTypes
      <3>2. smOff' \subseteq smOff \union {2}
        BY <1>6 DEF DIG_process
      <3>3. UNCHANGED <<smBad, smChanged, mapBad>>
        BY <1>6 DEF DIG_process
      <3> QED
        BY <3>1, <3>2, <3>3 DEF TypeOK, SetTypes
    <2>5. FlagTypes'
      BY <1>6 DEF DIG_process, TypeOK, FlagTypes
    <2> QED
      BY <2>2, <2>3, <2>4, <2>5 DEF TypeOK
  <1>7. CASE DIG_poll
    BY <1>6, <1>7 DEF DIG_poll
  <1>8. CASE Interrupt
    BY <1>6, <1>8 DEF Interrupt, DIG_timer, DIG_interrupt
  <1>9. CASE Master
    <2>1. LoopTypes' /\ StatusTypes'
      BY <1>9 DEF Master, WriteControl, WriteSM, Remap, WriteSM2, WriteDC, TypeOK,
                  LoopTypes, StatusTypes
    <2>2. SetTypes'
      BY <1>9 DEF Master, WriteControl, WriteSM, Remap, WriteSM2, WriteDC, TypeOK, SetTypes
    <2>3. FlagTypes'
      BY <1>9 DEF Master, WriteControl, WriteSM, Remap, WriteSM2, WriteDC, TypeOK, FlagTypes
    <2> QED
      BY <2>1, <2>2, <2>3 DEF TypeOK
  <1>10. CASE UNCHANGED vars
    <2>1. LoopTypes' /\ StatusTypes'
      BY <1>10 DEF vars, TypeOK, LoopTypes, StatusTypes
    <2>2. SetTypes' /\ FlagTypes'
      BY <1>10 DEF vars, TypeOK, SetTypes, FlagTypes
    <2> QED
      BY <2>1, <2>2 DEF TypeOK
  <1> QED
    BY <1>1, <1>2, <1>3, <1>4, <1>5, <1>7, <1>8, <1>9, <1>10 DEF Next, Loop

\* TypeOK holds in every reachable state of the AL state machine.
THEOREM TypeCorrect == Spec => []TypeOK
  BY TypeInit, TypeNext, PTL DEF Spec

---------------------------------------------------------------------------
(***************************************************************************)
(* What the switch of ESC_state promises its caller: how the reported      *)
(* state, the outputs, the mailboxes and the code move together.           *)
(***************************************************************************)
LEMMA SwitchOutputs ==
  ASSUME NEW from \in States, NEW to \in RequestCodes, Switch(from, to),
         "OUTPUT" \in App => from = "op"
  PROVE  "OUTPUT" \in App' => an' = Status("op", FALSE)
  <1> USE DEF Accept, Fail
  <1>1. CASE from = "op"
    BY <1>1 DEF Switch, Stay, StartMailbox, IllegalMoves, Refuse, RefuseFromOp, StopToInit,
                StopToPreop, UnmappedInput, StartInput, StartOutput, StopOutput, UnknownRequest
  <1>2. CASE from # "op" /\ "OUTPUT" \notin App
    BY <1>2 DEF Switch, Stay, StartMailbox, Refuse, RefuseFromOp, StopToInit,
                StopToPreop, UnmappedInput, StartInput, StartOutput, StopOutput, UnknownRequest
  <1> QED
    BY <1>1, <1>2

\* A failed case names its error.
LEMMA SwitchCode ==
  ASSUME NEW from, NEW to, Switch(from, to), an'.err
  PROVE  ALerror' # "none"
  BY DEF Switch, Stay, StartMailbox, Refuse, RefuseFromOp, StopToInit, StopToPreop,
         UnmappedInput, StartInput, StartOutput, StopOutput, UnknownRequest,
         Accept, Fail, SM23Error

\* The mailboxes run after the switch exactly when the state left is not INIT.
LEMMA SwitchMailbox ==
  ASSUME NEW from \in States, NEW to \in RequestCodes, Switch(from, to),
         MBXrun \in BOOLEAN, MBXrun <=> from # "init"
  PROVE  MBXrun' <=> an'.st # "init"
  <1> USE DEF Accept, Fail, mbx
  <1>1. CASE StartMailbox(from, to)
    <2>1. MBXrun' = MbxOk /\ (IF MbxOk THEN an' = Status(to, FALSE) ELSE an' = Status("init", TRUE))
      BY <1>1 DEF StartMailbox
    <2>2. to # "init"
      BY <1>1 DEF StartMailbox
    <2>3. CASE MbxOk
      <3>1. MBXrun' = TRUE
        BY <2>1, <2>3 DEF MbxOk
      <3> QED
        BY <2>1, <2>2, <2>3, <3>1
    <2>4. CASE ~MbxOk
      <3>1. MBXrun' = FALSE
        BY <2>1, <2>4 DEF MbxOk
      <3> QED
        BY <2>1, <2>4, <3>1
    <2> QED
      BY <2>3, <2>4
  <1>2. CASE StopToInit(from, to)
    BY <1>2 DEF StopToInit
  <1>3. CASE ~StartMailbox(from, to) /\ ~StopToInit(from, to)
    <2>1. UNCHANGED mbx
      BY <1>3 DEF Switch, Stay, Refuse, RefuseFromOp, StopToPreop, UnmappedInput,
                  StartInput, StartOutput, StopOutput, UnknownRequest
    <2>2. an'.st = "init" <=> from = "init"
      BY <1>3 DEF Switch, Stay, IllegalMoves, Refuse, RefuseFromOp, StopToPreop,
                  UnmappedInput, StartInput, StartOutput, StopOutput, UnknownRequest
    <2> QED
      BY <2>1, <2>2
  <1> QED
    BY <1>1, <1>2, <1>3

\* A case without error keeps the state or follows an edge of the state graph.
LEMMA SwitchMove ==
  ASSUME NEW from \in States, NEW to \in RequestCodes, Switch(from, to), ~an'.err
  PROVE  an'.st = from \/ <<from, an'.st>> \in LegalMoves
  BY DEF Switch, Stay, StartMailbox, IllegalMoves, Refuse, RefuseFromOp, StopToInit,
         StopToPreop, UnmappedInput, StartInput, StartOutput, StopOutput, UnknownRequest,
         Accept, Fail, LegalMoves

\* OP is reached by starting the outputs and kept by touching nothing.
LEMMA SwitchToOp ==
  ASSUME NEW from \in States, NEW to \in RequestCodes, Switch(from, to), an'.st = "op"
  PROVE  /\ ~an'.err
         /\ \/ from = "op" /\ App' = App /\ smOff' = smOff
            \/ App' = App \union {"OUTPUT"} /\ smOff' = smOff \ {2}
  BY DEF Switch, Stay, StartMailbox, IllegalMoves, Refuse, RefuseFromOp, StopToInit,
         StopToPreop, UnmappedInput, StartInput, StartOutput, StopOutput, UnknownRequest,
         Accept, Fail

---------------------------------------------------------------------------
(***************************************************************************)
(* Safety.  Each invariant below is inductive with TypeOK, alone or with   *)
(* the ones before it.                                                     *)
(***************************************************************************)
\* What ESC_state hands to the switch.
LEMMA StateStep ==
  ASSUME TypeOK, ESC_state
  PROVE  \E c \in ControlSet :
           /\ c.st \in RequestCodes /\ ALstatus.st \in States
           /\ acked' = Acks(c) /\ (ALstatus.err => Acks(c))
           /\ Switch(ALstatus.st, c.st)
  BY DEF ESC_state, ControlSet, TypeOK, StatusTypes, StatusSet

LEMMA OutputsNext ==
  TypeOK /\ OutputsOnlyInOp /\ [Next]_vars => OutputsOnlyInOp'
  <1> SUFFICES ASSUME TypeOK, OutputsOnlyInOp, [Next]_vars PROVE OutputsOnlyInOp'
    OBVIOUS
  <1> USE DEF OutputsOnlyInOp, Reported, local, status, mbx, master, slave
  <1>1. CASE ESC_stateReturn
    BY <1>1 DEF ESC_stateReturn
  <1>2. CASE ESC_state
    <2>1. PICK c \in ControlSet : /\ c.st \in RequestCodes /\ ALstatus.st \in States
                                  /\ Switch(ALstatus.st, c.st)
      BY <1>2, StateStep
    <2>2. "OUTPUT" \in App => ALstatus.st = "op"
      BY <1>2 DEF ESC_state
    <2> QED
      BY <1>2, <2>1, <2>2, SwitchOutputs DEF ESC_state
  <1>3. CASE ESC_clearError \/ ESC_ALstatus
    BY <1>3 DEF ESC_clearError, ESC_ALstatus
  <1>4. CASE ESC_smAck
    BY <1>4 DEF ESC_smAck, LoopEnd
  <1>5. CASE ESC_sm_act_event
    BY <1>5 DEF ESC_sm_act_event, LoopEnd, SMact
  <1>6. ASSUME NEW wd \in BOOLEAN, NEW out \in BOOLEAN, DIG_process(wd, out),
               UNCHANGED pc \/ (pc = "dig" /\ pc' = "state")
        PROVE  OutputsOnlyInOp'
    <2>1. UNCHANGED an
      BY <1>6 DEF DIG_process
    <2>2. CASE Expires(wd)
      BY <1>6, <2>1, <2>2 DEF DIG_process
    <2>3. CASE ~Expires(wd)
      BY <1>6, <2>1, <2>3 DEF DIG_process
    <2> QED
      BY <2>2, <2>3
  <1>7. CASE DIG_poll
    BY <1>6, <1>7 DEF DIG_poll
  <1>8. CASE Interrupt
    BY <1>6, <1>8 DEF Interrupt, DIG_timer, DIG_interrupt
  <1>9. CASE Master
    BY <1>9 DEF Master, WriteControl, WriteSM, Remap, WriteSM2, WriteDC
  <1>10. CASE UNCHANGED vars
    BY <1>10 DEF vars
  <1> QED
    BY <1>1, <1>2, <1>3, <1>4, <1>5, <1>7, <1>8, <1>9, <1>10 DEF Next, Loop

\* In every reachable state outputs are driven only in OP, in the polled and in the
\* interrupt driven application alike.
THEOREM OutputsCorrect == Spec => []OutputsOnlyInOp
  <1>1. Init => OutputsOnlyInOp
    BY DEF Init, OutputsOnlyInOp
  <1> QED
    BY <1>1, TypeCorrect, OutputsNext, PTL DEF Spec

LEMMA NamedNext == TypeOK /\ ErrorNamed /\ [Next]_vars => ErrorNamed'
  <1> SUFFICES ASSUME TypeOK, ErrorNamed, [Next]_vars PROVE ErrorNamed'
    OBVIOUS
  <1> USE DEF ErrorNamed, Reported, local, status, mbx, master, slave
  <1>1. CASE ESC_stateReturn
    BY <1>1 DEF ESC_stateReturn
  <1>2. CASE ESC_state
    <2>1. PICK c \in ControlSet : Switch(ALstatus.st, c.st)
      BY <1>2, StateStep
    <2> QED
      BY <1>2, <2>1, SwitchCode DEF ESC_state
  <1>3. CASE ESC_clearError \/ ESC_ALstatus
    BY <1>3 DEF ESC_clearError, ESC_ALstatus
  <1>4. CASE ESC_smAck
    BY <1>4 DEF ESC_smAck, LoopEnd
  <1>5. CASE ESC_sm_act_event
    <2>1. CASE SMact \in {"init", "preop"}
      BY <1>5, <2>1 DEF ESC_sm_act_event, LoopEnd, SM23Error
    <2>2. CASE SMact \notin {"init", "preop"}
      BY <1>5, <2>2 DEF ESC_sm_act_event, LoopEnd
    <2> QED
      BY <2>1, <2>2
  <1>6. ASSUME NEW wd \in BOOLEAN, NEW out \in BOOLEAN, DIG_process(wd, out),
               UNCHANGED pc \/ (pc = "dig" /\ pc' = "state")
        PROVE  ErrorNamed'
    <2>1. UNCHANGED an
      BY <1>6 DEF DIG_process
    <2>2. CASE Expires(wd)
      BY <1>6, <2>1, <2>2 DEF DIG_process
    <2>3. CASE ~Expires(wd)
      BY <1>6, <2>1, <2>3 DEF DIG_process
    <2> QED
      BY <2>2, <2>3
  <1>7. CASE DIG_poll
    BY <1>6, <1>7 DEF DIG_poll
  <1>8. CASE Interrupt
    BY <1>6, <1>8 DEF Interrupt, DIG_timer, DIG_interrupt
  <1>9. CASE Master
    BY <1>9 DEF Master, WriteControl, WriteSM, Remap, WriteSM2, WriteDC
  <1>10. CASE UNCHANGED vars
    BY <1>10 DEF vars
  <1> QED
    BY <1>1, <1>2, <1>3, <1>4, <1>5, <1>7, <1>8, <1>9, <1>10 DEF Next, Loop

\* In every reachable state an error indication, shown or about to be, has its code,
\* whichever step of ESC_state an interrupt comes after.
THEOREM NamedCorrect == Spec => []ErrorNamed
  <1>1. Init => ErrorNamed
    BY DEF Init, ErrorNamed, Reported
  <1> QED
    BY <1>1, TypeCorrect, NamedNext, PTL DEF Spec

---------------------------------------------------------------------------
\* A watchdog expiry reports SAFEOP in whatever state it finds; that the mailboxes
\* still match needs that outputs are driven only in OP.
LEMMA MailboxNext ==
  TypeOK /\ OutputsOnlyInOp /\ MailboxMatchesState /\ [Next]_vars => MailboxMatchesState'
  <1> SUFFICES ASSUME TypeOK, OutputsOnlyInOp, MailboxMatchesState, [Next]_vars
               PROVE MailboxMatchesState'
    OBVIOUS
  <1> USE DEF MailboxMatchesState, Reported, local, status, mbx, master, slave
  <1>1. CASE ESC_stateReturn
    BY <1>1 DEF ESC_stateReturn
  <1>2. CASE ESC_state
    <2>1. PICK c \in ControlSet : /\ c.st \in RequestCodes /\ ALstatus.st \in States
                                  /\ Switch(ALstatus.st, c.st)
      BY <1>2, StateStep
    <2>2. MBXrun \in BOOLEAN /\ (MBXrun <=> ALstatus.st # "init")
      BY <1>2 DEF ESC_state, TypeOK, StatusTypes
    <2> QED
      BY <1>2, <2>1, <2>2, SwitchMailbox DEF ESC_state
  <1>3. CASE ESC_clearError \/ ESC_ALstatus
    BY <1>3 DEF ESC_clearError, ESC_ALstatus
  <1>4. CASE ESC_smAck
    BY <1>4 DEF ESC_smAck, LoopEnd
  <1>5. CASE ESC_sm_act_event
    <2>1. CASE SMact = "init"
      BY <1>5, <2>1 DEF ESC_sm_act_event, LoopEnd
    <2>2. CASE SMact # "init"
      BY <1>5, <2>2 DEF ESC_sm_act_event, LoopEnd, SMsInUse
    <2> QED
      BY <2>1, <2>2
  <1>6. ASSUME NEW wd \in BOOLEAN, NEW out \in BOOLEAN, DIG_process(wd, out),
               UNCHANGED pc \/ (pc = "dig" /\ pc' = "state")
        PROVE  MailboxMatchesState'
    <2>1. UNCHANGED <<an, MBXrun>>
      BY <1>6 DEF DIG_process
    <2>2. CASE Expires(wd)
      <3>1. Reported.st = "op"
        BY <2>2 DEF Expires, OutputsOnlyInOp
      <3>2. ALstatus' = Status("safeop", TRUE)
        BY <1>6, <2>2 DEF DIG_process
      <3> QED
        BY <1>6, <2>1, <3>1, <3>2
    <2>3. CASE ~Expires(wd)
      BY <1>6, <2>1, <2>3 DEF DIG_process
    <2> QED
      BY <2>2, <2>3
  <1>7. CASE DIG_poll
    BY <1>6, <1>7 DEF DIG_poll
  <1>8. CASE Interrupt
    BY <1>6, <1>8 DEF Interrupt, DIG_timer, DIG_interrupt
  <1>9. CASE Master
    BY <1>9 DEF Master, WriteControl, WriteSM, Remap, WriteSM2, WriteDC
  <1>10. CASE UNCHANGED vars
    BY <1>10 DEF vars
  <1> QED
    BY <1>1, <1>2, <1>3, <1>4, <1>5, <1>7, <1>8, <1>9, <1>10 DEF Next, Loop

\* In every reachable state the mailboxes run exactly when the state is not INIT.
THEOREM MailboxCorrect == Spec => []MailboxMatchesState
  <1>1. Init => MailboxMatchesState
    BY DEF Init, MailboxMatchesState, Reported
  <1> QED
    BY <1>1, TypeCorrect, OutputsCorrect, MailboxNext, PTL DEF Spec

---------------------------------------------------------------------------
\* WatchdogBound is not inductive: the bound comes from what is left on the watchdog.
WatchdogInv ==
  "OUTPUT" \in App => misses = 0 \/ (watchdog > 0 /\ misses + watchdog <= WatchdogCnt)

LEMMA WatchdogNext == TypeOK /\ WatchdogInv /\ [Next]_vars => WatchdogInv'
  <1> SUFFICES ASSUME TypeOK, WatchdogInv, [Next]_vars, "OUTPUT" \in App'
               PROVE  misses' = 0 \/ (watchdog' > 0 /\ misses' + watchdog' <= WatchdogCnt)
    BY DEF WatchdogInv
  <1> USE DEF WatchdogInv, local, status, mbx, master, slave
  <1>1. CASE ESC_state
    BY <1>1 DEF ESC_state
  <1>2. CASE ESC_stateReturn \/ ESC_clearError \/ ESC_ALstatus \/ ESC_smAck
    BY <1>2 DEF ESC_stateReturn, ESC_clearError, ESC_ALstatus, ESC_smAck
  <1>3. CASE ESC_sm_act_event
    BY <1>3 DEF ESC_sm_act_event
  <1>4. ASSUME NEW wd \in BOOLEAN, NEW out \in BOOLEAN, DIG_process(wd, out)
        PROVE  misses' = 0 \/ (watchdog' > 0 /\ misses' + watchdog' <= WatchdogCnt)
    <2>1. watchdog \in 0 .. WatchdogCnt /\ misses \in Nat
      BY DEF TypeOK, LoopTypes
    <2>2. "OUTPUT" \in App /\ ~Expires(wd)
      BY <1>4 DEF DIG_process
    <2>3. CASE wd
      <3>1. Ticked > 0
        BY <2>1, <2>2, <2>3 DEF Expires, Ticked
      <3>2. Ticked = watchdog - 1
        BY <2>1, <3>1 DEF Ticked
      <3>3. misses' = 0 \/ (misses' \in {misses, misses + 1} /\ watchdog' = Ticked)
        BY <1>4, <2>2, <2>3 DEF DIG_process
      <3> QED
        BY <2>1, <2>2, <3>1, <3>2, <3>3
    <2>4. CASE ~wd
      <3>1. misses' = 0 \/ UNCHANGED <<misses, watchdog>>
        BY <1>4, <2>4 DEF DIG_process
      <3> QED
        BY <2>1, <2>2, <3>1
    <2> QED
      BY <2>3, <2>4
  <1>5. CASE DIG_poll \/ Interrupt
    BY <1>4, <1>5 DEF DIG_poll, Interrupt, DIG_timer, DIG_interrupt
  <1>6. CASE Master
    BY <1>6 DEF Master, WriteControl, WriteSM, Remap, WriteSM2, WriteDC
  <1>7. CASE UNCHANGED vars
    BY <1>7 DEF vars
  <1> QED
    BY <1>1, <1>2, <1>3, <1>5, <1>6, <1>7 DEF Next, Loop

\* Without process data the outputs are driven for less than WatchdogCnt calls of the
\* watchdog, however they were started and whatever the master does meanwhile.
THEOREM WatchdogCorrect == Spec => []WatchdogBound
  <1>1. Init => WatchdogInv
    BY DEF Init, WatchdogInv
  <1>2. TypeOK /\ WatchdogInv => WatchdogBound
    BY DEF TypeOK, LoopTypes, WatchdogInv, WatchdogBound
  <1> QED
    BY <1>1, <1>2, TypeCorrect, WatchdogNext, PTL DEF Spec

---------------------------------------------------------------------------
\* The state ESC_state is about to report, without error, is reached from the state
\* shown by an edge of the state graph.
PostInv ==
  Deciding /\ ~an.err => an.st = ALstatus.st \/ <<ALstatus.st, an.st>> \in LegalMoves

LEMMA PostNext ==
  TypeOK /\ OutputsOnlyInOp /\ PostInv /\ [Next]_vars => PostInv'
  <1> SUFFICES ASSUME TypeOK, OutputsOnlyInOp, PostInv, [Next]_vars PROVE PostInv'
    OBVIOUS
  <1> USE DEF PostInv, local, status, mbx, master, slave
  <1>1. CASE ESC_state
    <2>1. PICK c \in ControlSet : /\ c.st \in RequestCodes /\ ALstatus.st \in States
                                  /\ Switch(ALstatus.st, c.st)
      BY <1>1, StateStep
    <2> QED
      BY <1>1, <2>1, SwitchMove DEF ESC_state
  <1>2. CASE ESC_stateReturn \/ ESC_clearError \/ ESC_ALstatus \/ ESC_smAck
    BY <1>2 DEF ESC_stateReturn, ESC_clearError, ESC_ALstatus, ESC_smAck, LoopEnd
  <1>3. CASE ESC_sm_act_event
    BY <1>3 DEF ESC_sm_act_event, LoopEnd
  <1>4. CASE DIG_poll
    BY <1>4 DEF DIG_poll
  <1>5. CASE Interrupt
    <2>1. PICK wd \in BOOLEAN, out \in BOOLEAN : DIG_process(wd, out)
      BY <1>5 DEF Interrupt, DIG_timer, DIG_interrupt
    <2>2. UNCHANGED <<pc, an>>
      BY <1>5 DEF Interrupt, DIG_timer, DIG_interrupt, DIG_process
    <2>3. CASE Expires(wd)
      <3>1. ALstatus' = Status("safeop", TRUE)
        BY <2>1, <2>3 DEF DIG_process
      <3>2. Deciding => an = Status("op", FALSE)
        BY <2>3 DEF Expires, OutputsOnlyInOp, Reported
      <3> QED
        BY <2>2, <3>1, <3>2 DEF LegalMoves
    <2>4. CASE ~Expires(wd)
      BY <2>1, <2>2, <2>4 DEF DIG_process
    <2> QED
      BY <2>3, <2>4
  <1>6. CASE Master
    BY <1>6 DEF Master, WriteControl, WriteSM, Remap, WriteSM2, WriteDC
  <1>7. CASE UNCHANGED vars
    BY <1>7 DEF vars
  <1> QED
    BY <1>1, <1>2, <1>3, <1>4, <1>5, <1>6, <1>7 DEF Next, Loop

LEMMA MoveStep ==
  PostInv /\ [Next]_vars
    => [~ALstatus'.err /\ ALstatus'.st # ALstatus.st
        => <<ALstatus.st, ALstatus'.st>> \in LegalMoves]_vars
  <1> SUFFICES ASSUME PostInv, [Next]_vars, ~ALstatus'.err, ALstatus'.st # ALstatus.st
               PROVE  <<ALstatus.st, ALstatus'.st>> \in LegalMoves
    OBVIOUS
  <1> USE DEF local, status, mbx, master, slave
  <1>1. CASE ESC_ALstatus
    BY <1>1 DEF ESC_ALstatus, PostInv
  <1>2. CASE \/ ESC_state \/ ESC_stateReturn \/ ESC_clearError \/ ESC_smAck
             \/ Master \/ UNCHANGED vars
    BY <1>2 DEF ESC_state, ESC_stateReturn, ESC_clearError, ESC_smAck, vars,
                Master, WriteControl, WriteSM, Remap, WriteSM2, WriteDC
  <1>3. CASE ESC_sm_act_event
    BY <1>3 DEF ESC_sm_act_event
  <1>4. CASE DIG_poll \/ Interrupt
    <2>1. PICK wd \in BOOLEAN, out \in BOOLEAN : DIG_process(wd, out)
      BY <1>4 DEF DIG_poll, Interrupt, DIG_timer, DIG_interrupt
    <2>2. ALstatus' = ALstatus \/ ALstatus' = Status("safeop", TRUE)
      BY <2>1 DEF DIG_process
    <2> QED
      BY <2>2
  <1> QED
    BY <1>1, <1>2, <1>3, <1>4 DEF Next, Loop

\* Without an error, AL Status moves only along the EtherCAT state graph, even when the
\* watchdog interrupts a transition.
THEOREM MovesCorrect == Spec => OnlyLegalMoves
  <1>1. Init => PostInv
    BY DEF Init, PostInv
  <1> QED
    BY <1>1, OutputsCorrect, TypeCorrect, PostNext, MoveStep, PTL DEF Spec, OnlyLegalMoves

---------------------------------------------------------------------------
(***************************************************************************)
(* Three properties that hold only when no interrupt runs DIG_process      *)
(* between the steps of ESC_state.                                         *)
(***************************************************************************)
\* A code that is left belongs to the error shown, or to the decision of ESC_state.
CodeInv ==
  /\ ErrorNamed
  /\ pc = "write" /\ ~an.err => ALerror = "none"
  /\ ~Deciding /\ ALerror # "none" => ALstatus.err

LEMMA CodeNext == ~UseInterrupt /\ TypeOK /\ CodeInv /\ [Next]_vars => CodeInv'
  <1> SUFFICES ASSUME ~UseInterrupt, TypeOK, CodeInv, [Next]_vars PROVE CodeInv'
    OBVIOUS
  <1>1. ErrorNamed'
    BY NamedNext DEF CodeInv
  <1> USE DEF CodeInv, ErrorNamed, Reported, local, status, mbx, master, slave
  <1>2. CASE ESC_state
    BY <1>1, <1>2 DEF ESC_state
  <1>3. CASE ESC_stateReturn \/ ESC_clearError \/ ESC_ALstatus \/ ESC_smAck
    BY <1>1, <1>3 DEF ESC_stateReturn, ESC_clearError, ESC_ALstatus, ESC_smAck, LoopEnd
  <1>4. CASE ESC_sm_act_event
    <2>1. CASE SMact \in {"init", "preop"}
      BY <1>1, <1>4, <2>1 DEF ESC_sm_act_event, LoopEnd
    <2>2. CASE SMact \notin {"init", "preop"}
      BY <1>1, <1>4, <2>2 DEF ESC_sm_act_event, LoopEnd
    <2> QED
      BY <2>1, <2>2
  <1>5. CASE DIG_poll
    <2>1. CASE Expires(TRUE)
      BY <1>1, <1>5, <2>1 DEF DIG_poll, DIG_process
    <2>2. CASE ~Expires(TRUE)
      BY <1>1, <1>5, <2>2 DEF DIG_poll, DIG_process
    <2> QED
      BY <2>1, <2>2
  <1>6. ~Interrupt
    BY DEF Interrupt, DIG_timer, DIG_interrupt
  <1>7. CASE Master
    BY <1>1, <1>7 DEF Master, WriteControl, WriteSM, Remap, WriteSM2, WriteDC
  <1>8. CASE UNCHANGED vars
    BY <1>1, <1>8 DEF vars
  <1> QED
    BY <1>2, <1>3, <1>4, <1>5, <1>6, <1>7, <1>8 DEF Next, Loop

\* In the polled application an error indication has its code and a code its
\* indication.
THEOREM CodeCorrect == ASSUME ~UseInterrupt PROVE Spec => []ErrorHasCode
  <1>1. Init => CodeInv
    BY DEF Init, CodeInv, ErrorNamed, Reported
  <1>2. CodeInv => ErrorHasCode
    BY DEF CodeInv, ErrorHasCode
  <1> QED
    BY <1>1, <1>2, TypeCorrect, CodeNext, PTL DEF Spec

OpInv ==
  Reported.st = "op" => ~Reported.err /\ "OUTPUT" \in App /\ 2 \notin smOff

LEMMA OpNext ==
  ~UseInterrupt /\ TypeOK /\ OpInv /\ [Next]_vars => OpInv'
  <1> SUFFICES ASSUME ~UseInterrupt, TypeOK, OpInv, [Next]_vars PROVE OpInv'
    OBVIOUS
  <1> USE DEF OpInv, Reported, local, status, mbx, master, slave
  <1>1. CASE ESC_state
    <2>1. PICK c \in ControlSet : /\ c.st \in RequestCodes /\ ALstatus.st \in States
                                  /\ Switch(ALstatus.st, c.st)
      BY <1>1, StateStep
    <2> QED
      BY <1>1, <2>1, SwitchToOp DEF ESC_state
  <1>2. CASE ESC_stateReturn \/ ESC_clearError \/ ESC_ALstatus \/ ESC_smAck
    BY <1>2 DEF ESC_stateReturn, ESC_clearError, ESC_ALstatus, ESC_smAck, LoopEnd
  <1>3. CASE ESC_sm_act_event
    <2>1. CASE SMact \in {"init", "preop"}
      BY <1>3, <2>1 DEF ESC_sm_act_event, LoopEnd
    <2>2. CASE SMact \notin {"init", "preop"}
      BY <1>3, <2>2 DEF ESC_sm_act_event, LoopEnd
    <2> QED
      BY <2>1, <2>2
  <1>4. CASE DIG_poll
    <2>1. UNCHANGED an
      BY <1>4 DEF DIG_poll, DIG_process
    <2>2. CASE Expires(TRUE)
      BY <1>4, <2>2 DEF DIG_poll, DIG_process
    <2>3. CASE ~Expires(TRUE)
      BY <1>4, <2>1, <2>3 DEF DIG_poll, DIG_process
    <2> QED
      BY <2>2, <2>3
  <1>5. ~Interrupt
    BY DEF Interrupt, DIG_timer, DIG_interrupt
  <1>6. CASE Master
    BY <1>6 DEF Master, WriteControl, WriteSM, Remap, WriteSM2, WriteDC
  <1>7. CASE UNCHANGED vars
    BY <1>7 DEF vars
  <1> QED
    BY <1>1, <1>2, <1>3, <1>4, <1>5, <1>6, <1>7 DEF Next, Loop

\* In the polled application a slave in OP drives its outputs, through an SM2 that the
\* PDI has not deactivated.
THEOREM OpCorrect == ASSUME ~UseInterrupt PROVE Spec => []OpDrivesOutputs
  <1>1. Init => OpInv
    BY DEF Init, OpInv, Reported
  <1>2. OpInv => OpDrivesOutputs
    BY DEF OpInv, OpDrivesOutputs
  <1> QED
    BY <1>1, <1>2, TypeCorrect, OpNext, PTL DEF Spec

\* A request ESC_state acts on in an error acknowledges it.
AckInv == Deciding /\ ALstatus.err => acked

LEMMA AckNext == ~UseInterrupt /\ AckInv /\ [Next]_vars => AckInv'
  <1> SUFFICES ASSUME ~UseInterrupt, AckInv, [Next]_vars PROVE AckInv'
    OBVIOUS
  <1> USE DEF AckInv, local, status, mbx, master, slave
  <1>1. CASE ESC_state
    BY <1>1 DEF ESC_state
  <1>2. CASE ESC_stateReturn \/ ESC_clearError \/ ESC_ALstatus \/ ESC_smAck
    BY <1>2 DEF ESC_stateReturn, ESC_clearError, ESC_ALstatus, ESC_smAck, LoopEnd
  <1>3. CASE ESC_sm_act_event
    BY <1>3 DEF ESC_sm_act_event, LoopEnd
  <1>4. CASE DIG_poll
    BY <1>4 DEF DIG_poll
  <1>5. ~Interrupt
    BY DEF Interrupt, DIG_timer, DIG_interrupt
  <1>6. CASE Master
    BY <1>6 DEF Master, WriteControl, WriteSM, Remap, WriteSM2, WriteDC
  <1>7. CASE UNCHANGED vars
    BY <1>7 DEF vars
  <1> QED
    BY <1>1, <1>2, <1>3, <1>4, <1>5, <1>6, <1>7 DEF Next, Loop

LEMMA LatchStep ==
  ~UseInterrupt /\ AckInv /\ [Next]_vars => [ALstatus.err /\ ~ALstatus'.err => acked]_vars
  <1> SUFFICES ASSUME ~UseInterrupt, AckInv, [Next]_vars, ALstatus.err, ~ALstatus'.err
               PROVE  acked
    OBVIOUS
  <1> USE DEF local, status, mbx, master, slave
  <1>1. CASE ESC_ALstatus
    BY <1>1 DEF ESC_ALstatus, AckInv
  <1>2. CASE \/ ESC_state \/ ESC_stateReturn \/ ESC_clearError \/ ESC_smAck
             \/ Master \/ UNCHANGED vars
    BY <1>2 DEF ESC_state, ESC_stateReturn, ESC_clearError, ESC_smAck, vars,
                Master, WriteControl, WriteSM, Remap, WriteSM2, WriteDC
  <1>3. CASE ESC_sm_act_event
    BY <1>3 DEF ESC_sm_act_event
  <1>4. CASE DIG_poll \/ Interrupt
    <2>1. PICK wd \in BOOLEAN, out \in BOOLEAN : DIG_process(wd, out)
      BY <1>4 DEF DIG_poll, Interrupt, DIG_timer, DIG_interrupt
    <2>2. ALstatus' = ALstatus \/ ALstatus' = Status("safeop", TRUE)
      BY <2>1 DEF DIG_process
    <2> QED
      BY <2>2
  <1> QED
    BY <1>1, <1>2, <1>3, <1>4 DEF Next, Loop

\* In the polled application an error is withdrawn only after a request that
\* acknowledges it.
THEOREM LatchCorrect == ASSUME ~UseInterrupt PROVE Spec => ErrorLatched
  <1>1. Init => AckInv
    BY DEF Init, AckInv
  <1> QED
    BY <1>1, AckNext, LatchStep, PTL DEF Spec, ErrorLatched

---------------------------------------------------------------------------
(***************************************************************************)
(* The polled application implements ALContract.                           *)
(***************************************************************************)
\* A case that fails never moves up the state graph.
LEMMA SwitchFallback ==
  ASSUME NEW from \in States, NEW to \in RequestCodes, Switch(from, to), an'.err
  PROVE  an'.st \in Contract!Fallback[from]
  BY DEF Switch, Stay, StartMailbox, IllegalMoves, Refuse, RefuseFromOp, StopToInit,
         StopToPreop, UnmappedInput, StartInput, StartOutput, StopOutput, UnknownRequest,
         Accept, Fail, Contract!Fallback

\* A step of the loop or of the master is a step of the contract, or none.
LEMMA ContractStep ==
  ~UseInterrupt /\ TypeOK /\ OutputsOnlyInOp /\ OutputsOnlyInOp' /\ OpInv /\ OpInv' /\ [Next]_vars
    => [Contract!Next]_Contract!vars
  <1> SUFFICES ASSUME ~UseInterrupt, TypeOK, OutputsOnlyInOp, OutputsOnlyInOp', OpInv, OpInv',
                      [Next]_vars
               PROVE  [Contract!Next]_Contract!vars
    OBVIOUS
  <1> DEFINE driving == "OUTPUT" \in App
  <1> USE DEF local, status, mbx, master, slave
  \* It is enough to look at the status reported: the outputs follow it.
  <1>1. driving <=> Reported.st = "op"
    BY DEF OutputsOnlyInOp, OpInv
  <1>2. driving' <=> Reported'.st = "op"
    BY DEF OutputsOnlyInOp, OpInv
  <1>3. ASSUME Reported' = Reported
        PROVE  UNCHANGED Contract!vars
    BY <1>1, <1>2, <1>3 DEF Contract!vars
  <1>4. ASSUME Reported'.err = FALSE,
               Reported'.st = Reported.st \/ <<Reported.st, Reported'.st>> \in LegalMoves
        PROVE  Contract!Next
    BY <1>2, <1>4 DEF Contract!Next, Contract!Enter, Contract!Graph, LegalMoves
  <1>5. ASSUME Reported'.err = TRUE, Reported'.st \in Contract!Fallback[Reported.st],
               Reported'.st # "op"
        PROVE  Contract!Next
    BY <1>2, <1>5 DEF Contract!Next, Contract!Fail
  <1> HIDE DEF driving
  <1>6. CASE ESC_state
    <2>1. PICK c \in ControlSet : /\ c.st \in RequestCodes /\ ALstatus.st \in States
                                  /\ Switch(ALstatus.st, c.st)
      BY <1>6, StateStep
    <2>2. Reported = ALstatus /\ Reported' = an'
      BY <1>6 DEF ESC_state, Reported
    <2>3. an'.err \in BOOLEAN
      BY <2>1, SwitchStatus DEF StatusSet
    <2>4. CASE an'.err
      <3>1. an'.st # "op"
        BY <2>2, <2>4 DEF OpInv
      <3> QED
        BY <1>5, <2>1, <2>2, <2>3, <2>4, <3>1, SwitchFallback
    <2>5. CASE ~an'.err
      BY <1>4, <2>1, <2>2, <2>3, <2>5, SwitchMove
    <2> QED
      BY <2>4, <2>5
  <1>7. CASE ESC_stateReturn \/ ESC_clearError \/ ESC_ALstatus \/ ESC_smAck \/ Master \/ UNCHANGED vars
    BY <1>3, <1>7 DEF ESC_stateReturn, ESC_clearError, ESC_ALstatus, ESC_smAck, LoopEnd, vars, Reported,
                      Master, WriteControl, WriteSM, Remap, WriteSM2, WriteDC
  <1>8. CASE ESC_sm_act_event
    <2>1. Reported = ALstatus /\ Reported' = ALstatus'
      BY <1>8 DEF ESC_sm_act_event, LoopEnd, Reported
    <2>2. ALstatus.st \in States /\ ALstatus.st # "init"
      BY <1>8 DEF ESC_sm_act_event, SMsInUse, TypeOK, StatusTypes, StatusSet
    <2>3. CASE SMact = "init"
      <3>1. ALstatus' = Status("init", TRUE)
        BY <1>8, <2>3 DEF ESC_sm_act_event
      <3> QED
        BY <1>5, <2>1, <2>2, <3>1 DEF Contract!Fallback
    <2>4. CASE SMact = "preop"
      <3>1. ALstatus' = Status("preop", TRUE)
        BY <1>8, <2>4 DEF ESC_sm_act_event
      <3> QED
        BY <1>5, <2>1, <2>2, <3>1 DEF Contract!Fallback
    <2>5. CASE SMact \notin {"init", "preop"}
      BY <1>3, <1>8, <2>1, <2>5 DEF ESC_sm_act_event
    <2> QED
      BY <2>3, <2>4, <2>5
  <1>9. CASE DIG_poll
    <2>1. Reported = ALstatus /\ Reported' = ALstatus'
      BY <1>9 DEF DIG_poll, Reported
    <2>2. CASE Expires(TRUE)
      <3>1. ALstatus' = Status("safeop", TRUE)
        BY <1>9, <2>2 DEF DIG_poll, DIG_process
      <3>2. ALstatus.st = "op"
        BY <2>1, <2>2 DEF Expires, OutputsOnlyInOp
      <3> QED
        BY <1>5, <2>1, <3>1, <3>2 DEF Contract!Fallback
    <2>3. CASE ~Expires(TRUE)
      BY <1>3, <1>9, <2>1, <2>3 DEF DIG_poll, DIG_process
    <2> QED
      BY <2>2, <2>3
  <1>10. ~Interrupt
    BY DEF Interrupt, DIG_timer, DIG_interrupt
  <1> QED
    BY <1>6, <1>7, <1>8, <1>9, <1>10 DEF Next, Loop

\* In the polled application the status and the outputs of the slave implement the
\* contract: every transition is one the master may expect.
THEOREM ContractCorrect == ASSUME ~UseInterrupt PROVE Spec => ImplementsContract
  <1>1. Init => Contract!Init
    BY DEF Init, Reported, Contract!Init
  <1>2. Init => OpInv
    BY DEF Init, OpInv, Reported
  <1> QED
    BY <1>1, <1>2, TypeCorrect, OutputsCorrect, OpNext, ContractStep, PTL
       DEF Spec, ImplementsContract, Contract!Spec
=============================================================================
