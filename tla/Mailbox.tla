------------------------------ MODULE Mailbox ------------------------------
(***************************************************************************)
(* The mailbox engine of the slave stack: the buffers MBX[0..N-1], the     *)
(* routine ESC_mbxprocess that moves them through the two mailbox          *)
(* SyncManagers, and the protocol handlers that claim them, as ecat_slv.c  *)
(* runs them against a master that sends requests, reads responses, loses  *)
(* some of what it reads and asks for repeats.  ESC_coeprocess is reduced  *)
(* to what it does to buffers: which requests it answers, in how many      *)
(* messages, and what it keeps when no buffer is free.                     *)
(*                                                                         *)
(* An operator named X_Y is operator X with a plausible mistake, Y, that   *)
(* breaks one of the properties.                                           *)
(***************************************************************************)
EXTENDS Integers, Sequences, FiniteSets

CONSTANTS
  N,            \* MBXBUFFERS: buffer 0 for the inbox, 1 .. N-1 for the outbox
  Kinds,        \* kinds of request the master sends
  ListFrags,    \* fragments of an OD list response
  MaxReq,       \* bound: requests sent
  MaxRetry,     \* bound: requests the master sends a second time
  MaxLoss,      \* bound: reads of the outbox the master loses
  MaxRestart,   \* bound: times the mailboxes are stopped and started again
  Worker        \* TRUE: ecat_slv_worker; FALSE: ecat_slv_poll

(***************************************************************************)
(* sdo:   an SDO upload, segment or download: the request is dropped even  *)
(*        when no buffer is free for its response                          *)
(* info:  an SDO information service, kept until a buffer is free          *)
(* list:  the OD list, ListFrags messages                                  *)
(* short: a CoE message below COE_MINIMUM_LENGTH                           *)
(* other: a protocol nobody handles                                        *)
(* empty: a mailbox header of length zero                                  *)
(***************************************************************************)
AllKinds == {"sdo", "info", "list", "short", "other", "empty"}

ASSUME ConstAssumption ==
  /\ N \in Nat /\ N >= 2
  /\ Kinds \subseteq AllKinds
  /\ ListFrags \in Nat /\ ListFrags >= 2
  /\ MaxReq \in Nat /\ MaxRetry \in Nat /\ MaxLoss \in Nat /\ MaxRestart \in Nat
  /\ Worker \in BOOLEAN

VARIABLES
  pc,          \* "sm", "mbx", "coe", "xoe": the next handler of the loop
  MBXrun,      \* ESCvar.MBXrun
  state,       \* MBXcontrol[n].state
  MBX,         \* the message in buffer n
  txcue,       \* ESCvar.txcue
  mbxoutpost,  \* ESCvar.mbxoutpost: the buffer in the outbox, 0 for none
  mbxbackup,   \* ESCvar.mbxbackup: the buffer kept for a repeat, 0 for none
  mbxfree,     \* ESCvar.mbxfree
  xoe,         \* ESCvar.xoe: "none", "coe" or "odl" (MBXCOE + MBXODL)
  fragsleft,   \* ESCvar.fragsleft of an OD list
  toggle,      \* ESCvar.toggle: the last repeat request served
  ECrep,       \* ESCvar.SM[1].ECrep as last read
  MBXstat,     \* ESCvar.SM[n].MBXstat of SM0 and SM1 as last read
  mbxincnt,    \* ESCvar.mbxincnt
  \* the ESC
  inbox,       \* SM0
  outbox,      \* SM1
  evSM0,       \* ESCREG_ALEVENT_SM0: the inbox was written
  evSM1,       \* ESCREG_ALEVENT_SM1: the outbox was read
  smChange,    \* ESCREG_ALEVENT_SMCHANGE
  repReq,      \* repeat request bit, written by the master
  repAck,      \* repeat acknowledge bit, written by the slave
  alReq,       \* AL Control: "none", "stop" (INIT) or "start" (PREOP)
  \* the master, and history
  lost,        \* the master has missed a read and not asked for a repeat yet
  lastReq,     \* number of the last request sent
  received,    \* messages received, repetitions of the last one dropped
  produced,    \* responses handed to the outbox queue, in order
  spent        \* retries, losses and restarts so far

slots  == <<state, MBX, txcue, mbxoutpost, mbxbackup>>
proto  == <<xoe, fragsleft>>
cached == <<ECrep, MBXstat>>
esc    == <<inbox, outbox, evSM0, evSM1, smChange, repReq, repAck, alReq>>
master == <<lost, lastReq, received, spent>>
vars   == <<pc, MBXrun, state, MBX, txcue, mbxoutpost, mbxbackup, mbxfree, xoe,
            fragsleft, toggle, ECrep, MBXstat, mbxincnt, inbox, outbox, evSM0,
            evSM1, smChange, repReq, repAck, alReq, lost, lastReq, received,
            produced, spent>>

Buffers == 0 .. N - 1
OutBuffers == 1 .. N - 1
BufferStates == {"idle", "inclaim", "outclaim", "outreq", "outpost", "backup", "again"}

NoMsg == [req |-> 0]
Request(id, kind) == [req |-> id, kind |-> kind]
Response(id, n)   == [req |-> id, n |-> n]
RequestSet  == [req : 1 .. MaxReq, kind : Kinds]
ResponseSet == [req : 1 .. MaxReq, n : 1 .. ListFrags]
Messages == RequestSet \union ResponseSet \union {NoMsg}

---------------------------------------------------------------------------
(***************************************************************************)
(* Buffers.                                                                *)
(***************************************************************************)
Highest(S) == CHOOSE n \in S : \A m \in S : m <= n

IdleOut == {n \in OutBuffers : state[n] = "idle"}
OutReq  == {n \in OutBuffers : state[n] = "outreq"}

\* ESC_claimbuffer takes the last idle buffer; the handler fills it and marks it
\* outreq.  inState is what becomes of the request in buffer 0.
Respond(msg, inState) ==
  LET n == Highest(IdleOut)
  IN  /\ IdleOut # {}
      /\ state' = [state EXCEPT ![n] = "outreq", ![0] = inState]
      /\ MBX' = [MBX EXCEPT ![n] = msg]
      /\ txcue' = txcue + 1
      /\ produced' = Append(produced, msg)

\* The same when no buffer is free: only the request's state changes.
NoBuffer(inState) ==
  /\ IdleOut = {}
  /\ state' = [state EXCEPT ![0] = inState]
  /\ UNCHANGED <<MBX, txcue, produced>>

RespondOrDrop(msg, inState) == Respond(msg, inState) \/ NoBuffer(inState)

\* ESC_writembx: a mailbox the master has not read yet refuses the write.
Written(old, n) == IF old = NoMsg THEN MBX[n] ELSE old

---------------------------------------------------------------------------
(***************************************************************************)
(* ESC_mbxprocess, one operator per path to a return.  A pending SM0 or    *)
(* SM1 event makes it read both status bytes first.                        *)
(***************************************************************************)
Stat == IF evSM0 \/ evSM1
        THEN [n \in {0, 1} |-> IF n = 0 THEN inbox # NoMsg ELSE outbox # NoMsg]
        ELSE MBXstat

\* The value ESC_mbxprocess returns decides, with txcue in the worker, whether
\* the protocol handlers run.
Return(handle) == pc' = IF handle \/ (Worker /\ txcue' > 0) THEN "coe" ELSE "sm"

MbxStopped ==
  /\ pc = "mbx" /\ ~MBXrun
  /\ UNCHANGED <<MBXrun, slots, mbxfree, proto, toggle, cached, mbxincnt, esc,
                 master, produced>>
  /\ Return(FALSE)

\* The master has read the outbox: a postponed message is written, and the buffer
\* posted becomes the backup in place of the one before.
OutboxRead == mbxoutpost # 0 /\ evSM1

NewBackup_KeepsOld ==
  state' = [state EXCEPT ![mbxoutpost] = "backup"] /\ mbxbackup' = mbxoutpost

NewBackup_KeepsFirst ==
  IF mbxbackup = 0
  THEN state' = [state EXCEPT ![mbxoutpost] = "backup"] /\ mbxbackup' = mbxoutpost
  ELSE state' = [state EXCEPT ![mbxoutpost] = "idle"] /\ UNCHANGED mbxbackup

NewBackup ==
  /\ state' = [n \in Buffers |-> IF n = mbxoutpost THEN "backup"
                                 ELSE IF n = mbxbackup /\ n # 0 THEN "idle"
                                 ELSE state[n]]
  /\ mbxbackup' = mbxoutpost

MbxOutboxRead ==
  /\ pc = "mbx" /\ MBXrun
  /\ OutboxRead
  /\ evSM1' = FALSE
  /\ LET again == state[mbxoutpost] = "again"
     IN  /\ outbox' = IF again THEN Written(outbox, mbxoutpost) ELSE outbox
         /\ mbxfree' = ~again
  /\ NewBackup
  /\ mbxoutpost' = 0
  /\ MBXstat' = Stat
  /\ UNCHANGED <<txcue, MBX>>
  /\ Return(xoe # "none")
  /\ UNCHANGED <<MBXrun, proto, toggle, ECrep, mbxincnt, inbox, evSM0, smChange,
                 repReq, repAck, alReq, master, produced>>

\* A repeat request.  With a message in the outbox the mailbox is reset, that
\* message is postponed, and buffer mbxbackup is written, whatever it is.
RepeatPending == ECrep # toggle

MbxRepeat ==
  /\ pc = "mbx" /\ MBXrun
  /\ ~OutboxRead /\ RepeatPending
  /\ MBXstat' = Stat
  /\ IF mbxoutpost = 0 /\ mbxbackup = 0
     THEN UNCHANGED <<state, outbox, evSM1, mbxfree, toggle, repAck>>
     ELSE /\ IF mbxoutpost = 0
             THEN outbox' = Written(outbox, mbxbackup) /\ UNCHANGED state
             ELSE /\ outbox' = Written(NoMsg, mbxbackup)
                  /\ state' = [state EXCEPT ![mbxoutpost] = "again"]
          /\ evSM1' = FALSE
          /\ mbxfree' = FALSE
          /\ toggle' = ECrep
          /\ repAck' = ECrep
  /\ UNCHANGED <<MBX, txcue, mbxoutpost, mbxbackup>>
  /\ Return(FALSE)
  /\ UNCHANGED <<MBXrun, proto, ECrep, mbxincnt, inbox, evSM0, smChange, repReq,
                 alReq, master, produced>>

\* Post the queued response of the last buffer that has one.
CanPost == txcue > 0 /\ (mbxfree \/ ~Stat[1]) /\ OutReq # {}

MbxPost_Lowest ==
  /\ pc = "mbx" /\ MBXrun
  /\ ~OutboxRead /\ ~RepeatPending /\ CanPost
  /\ LET n == CHOOSE i \in OutReq : \A j \in OutReq : i <= j
     IN  /\ outbox' = Written(outbox, n)
         /\ state' = [state EXCEPT ![n] = "outpost"]
         /\ mbxoutpost' = n
  /\ MBXstat' = [Stat EXCEPT ![1] = outbox' # NoMsg]
  /\ evSM1' = (evSM1 /\ outbox # NoMsg)
  /\ mbxfree' = FALSE
  /\ txcue' = txcue - 1
  /\ UNCHANGED <<MBX, mbxbackup>>
  /\ Return(FALSE)
  /\ UNCHANGED <<MBXrun, proto, toggle, ECrep, mbxincnt, inbox, evSM0, smChange,
                 repReq, repAck, alReq, master, produced>>

MbxPost ==
  /\ pc = "mbx" /\ MBXrun
  /\ ~OutboxRead /\ ~RepeatPending /\ CanPost
  /\ LET n == Highest(OutReq)
     IN  /\ outbox' = Written(outbox, n)
         /\ state' = [state EXCEPT ![n] = "outpost"]
         /\ mbxoutpost' = n
  /\ MBXstat' = [Stat EXCEPT ![1] = outbox' # NoMsg]
  /\ evSM1' = (evSM1 /\ outbox # NoMsg)
  /\ mbxfree' = FALSE
  /\ txcue' = txcue - 1
  /\ UNCHANGED <<MBX, mbxbackup>>
  /\ Return(FALSE)
  /\ UNCHANGED <<MBXrun, proto, toggle, ECrep, mbxincnt, inbox, evSM0, smChange,
                 repReq, repAck, alReq, master, produced>>

\* Read the inbox: an empty mailbox is answered with an error, a repetition of
\* the last request is dropped, any other request is claimed.
CanRead == Stat[0] /\ state[0] = "idle" /\ mbxoutpost = 0 /\ xoe = "none"

MbxRead_AcceptsDuplicate ==
  /\ pc = "mbx" /\ MBXrun
  /\ ~OutboxRead /\ ~RepeatPending /\ ~CanPost /\ CanRead
  /\ MBXstat' = [Stat EXCEPT ![0] = FALSE]
  /\ inbox' = NoMsg /\ evSM0' = FALSE
  /\ mbxincnt' = inbox.req
  /\ state' = [state EXCEPT ![0] = "inclaim"]
  /\ MBX' = [MBX EXCEPT ![0] = inbox]
  /\ UNCHANGED <<txcue, produced, mbxoutpost, mbxbackup>>
  /\ Return(TRUE)
  /\ UNCHANGED <<MBXrun, mbxfree, proto, toggle, ECrep, outbox, evSM1, smChange,
                 repReq, repAck, alReq, master>>

MbxRead ==
  /\ pc = "mbx" /\ MBXrun
  /\ ~OutboxRead /\ ~RepeatPending /\ ~CanPost /\ CanRead
  /\ MBXstat' = [Stat EXCEPT ![0] = FALSE]
  /\ inbox' = NoMsg /\ evSM0' = FALSE
  /\ mbxincnt' = inbox.req
  /\ LET duplicate == inbox.req = mbxincnt
         claimed   == IF duplicate \/ inbox.kind = "empty" THEN "idle" ELSE "inclaim"
         n         == Highest(IdleOut)
     IN  IF inbox.kind = "empty" /\ IdleOut # {}
         THEN /\ state' = [state EXCEPT ![n] = "outreq"]
              /\ MBX' = [MBX EXCEPT ![0] = inbox, ![n] = Response(inbox.req, 1)]
              /\ txcue' = txcue + 1
              /\ produced' = Append(produced, Response(inbox.req, 1))
         ELSE /\ state' = [state EXCEPT ![0] = claimed]
              /\ MBX' = [MBX EXCEPT ![0] = inbox]
              /\ UNCHANGED <<txcue, produced>>
  /\ UNCHANGED <<mbxoutpost, mbxbackup>>
  /\ Return(TRUE)
  /\ UNCHANGED <<MBXrun, mbxfree, proto, toggle, ECrep, outbox, evSM1, smChange,
                 repReq, repAck, alReq, master>>

MbxIdle_Waits ==
  /\ pc = "mbx" /\ MBXrun
  /\ ~OutboxRead /\ ~RepeatPending /\ ~CanPost /\ ~CanRead
  /\ MBXstat' = Stat
  /\ pc' = IF txcue > 0 THEN "mbx" ELSE "sm"
  /\ UNCHANGED <<MBXrun, slots, mbxfree, proto, toggle, ECrep, mbxincnt, esc,
                 master, produced>>

MbxIdle ==
  /\ pc = "mbx" /\ MBXrun
  /\ ~OutboxRead /\ ~RepeatPending /\ ~CanPost /\ ~CanRead
  /\ MBXstat' = Stat
  /\ UNCHANGED slots
  /\ Return(FALSE)
  /\ UNCHANGED <<MBXrun, mbxfree, proto, toggle, ECrep, mbxincnt, esc, master, produced>>

---------------------------------------------------------------------------
(***************************************************************************)
(* The protocol handlers.                                                  *)
(***************************************************************************)
handled == <<MBXrun, mbxoutpost, mbxbackup, mbxfree, toggle, cached, mbxincnt,
             esc, master>>

NewRequest == xoe = "none" /\ state[0] = "inclaim"
Kind == MBX[0].kind
ReqId == MBX[0].req

\* SDO_upload, SDO_uploadsegment, SDO_download and SDO_abort
CoeSdo ==
  /\ Kind = "sdo"
  /\ RespondOrDrop(Response(ReqId, 1), "idle")
  /\ xoe' = "none" /\ UNCHANGED fragsleft

\* SDO_getod, SDO_geted, SDO_infoerror
CoeInfo ==
  /\ Kind = "info"
  /\ RespondOrDrop(Response(ReqId, 1), IF IdleOut = {} THEN "inclaim" ELSE "idle")
  /\ xoe' = IF IdleOut = {} THEN "coe" ELSE "none"
  /\ UNCHANGED fragsleft

\* SDO_getodlist: the first fragment; the request stays claimed
CoeList ==
  /\ Kind = "list"
  /\ RespondOrDrop(Response(ReqId, 1), "inclaim")
  /\ xoe' = IF IdleOut = {} THEN "coe" ELSE "odl"
  /\ fragsleft' = IF IdleOut = {} THEN fragsleft ELSE ListFrags - 1

\* SDO_getodlistcont: the next fragment; the last one frees the request
CoeListCont ==
  /\ xoe = "odl" /\ mbxoutpost = 0
  /\ LET last == fragsleft = 1 /\ IdleOut # {}
     IN  /\ RespondOrDrop(Response(ReqId, ListFrags - fragsleft + 1),
                          IF last THEN "idle" ELSE "inclaim")
         /\ xoe' = IF last THEN "none" ELSE "odl"
         /\ fragsleft' = IF IdleOut = {} THEN fragsleft ELSE fragsleft - 1

\* A CoE message that is too short is answered and stays claimed.
CoeShort ==
  /\ NewRequest /\ Kind = "short"
  /\ RespondOrDrop(Response(ReqId, 1), "inclaim")
  /\ UNCHANGED proto

CoeWork == \/ CoeListCont
           \/ CoeShort
           \/ (NewRequest \/ xoe = "coe") /\ (CoeSdo \/ CoeInfo \/ CoeList)

CoeIdle ==
  /\ xoe = "odl" => mbxoutpost # 0
  /\ ~(NewRequest /\ Kind = "short")
  /\ (NewRequest \/ xoe = "coe") => Kind \notin {"sdo", "info", "list"}

ESC_coeprocess ==
  /\ pc = "coe" /\ pc' = "xoe"
  /\ \/ MBXrun /\ CoeWork
     \/ (~MBXrun \/ CoeIdle) /\ UNCHANGED <<state, MBX, txcue, produced, proto>>
  /\ UNCHANGED handled

\* Whatever no protocol took is answered with an error and dropped.
ESC_xoeprocess_Silent ==
  /\ pc = "xoe"
  /\ pc' = IF Worker THEN "mbx" ELSE "sm"
  /\ state' = IF MBXrun /\ NewRequest THEN [state EXCEPT ![0] = "idle"] ELSE state
  /\ UNCHANGED <<MBX, txcue, produced, handled, proto>>

ESC_xoeprocess ==
  /\ pc = "xoe"
  /\ pc' = IF Worker THEN "mbx" ELSE "sm"
  /\ IF MBXrun /\ NewRequest
     THEN RespondOrDrop(Response(ReqId, IF Kind = "short" THEN 2 ELSE 1), "idle")
     ELSE UNCHANGED <<state, MBX, txcue, produced>>
  /\ UNCHANGED <<handled, proto>>

---------------------------------------------------------------------------
(***************************************************************************)
(* ESC_state and ESC_sm_act_event, as far as the mailboxes go.             *)
(***************************************************************************)
\* ESC_stopmbx, for a request of INIT.  What was pending is given up on both sides.
ESC_stopmbx ==
  /\ pc = "sm" /\ pc' = "mbx"
  /\ alReq = "stop" /\ alReq' = "none"
  /\ MBXrun' = FALSE
  /\ state' = [n \in Buffers |-> "idle"]
  /\ mbxoutpost' = 0 /\ mbxbackup' = 0 /\ txcue' = 0
  /\ xoe' = "none" /\ fragsleft' = 0
  /\ mbxfree' = TRUE /\ toggle' = FALSE /\ mbxincnt' = 0
  /\ inbox' = NoMsg /\ outbox' = NoMsg /\ evSM0' = FALSE /\ evSM1' = FALSE
  /\ smChange' = FALSE /\ repAck' = repReq /\ lost' = FALSE
  /\ received' = <<>> /\ produced' = <<>>
  /\ UNCHANGED <<MBX, cached, repReq, lastReq, spent>>

\* ESC_startmbx, for a request of PREOP
ESC_startmbx ==
  /\ pc = "sm" /\ pc' = "mbx"
  /\ alReq = "start" /\ alReq' = "none"
  /\ MBXrun' = TRUE
  /\ MBXstat' = [n \in {0, 1} |-> IF n = 0 THEN inbox # NoMsg ELSE outbox # NoMsg]
  /\ ECrep' = repReq /\ toggle' = repReq
  /\ smChange' = FALSE
  /\ UNCHANGED <<slots, mbxfree, proto, mbxincnt, inbox, outbox, evSM0, evSM1,
                 repReq, repAck, master, produced>>

\* ESC_checkmbx reads all of SM0 and SM1; only here a repeat request is noticed.
ESC_checkmbx ==
  /\ pc = "sm" /\ pc' = "mbx"
  /\ alReq = "none" /\ smChange /\ smChange' = FALSE
  /\ IF MBXrun
     THEN /\ MBXstat' = [n \in {0, 1} |-> IF n = 0 THEN inbox # NoMsg ELSE outbox # NoMsg]
          /\ ECrep' = repReq
     ELSE UNCHANGED cached
  /\ UNCHANGED <<MBXrun, slots, mbxfree, proto, toggle, mbxincnt, inbox, outbox,
                 evSM0, evSM1, repReq, repAck, alReq, master, produced>>

NoEvent ==
  /\ pc = "sm" /\ pc' = "mbx"
  /\ alReq = "none" /\ ~smChange
  /\ UNCHANGED <<MBXrun, slots, mbxfree, proto, toggle, cached, mbxincnt, esc,
                 master, produced>>

---------------------------------------------------------------------------
(***************************************************************************)
(* The master, at any moment.                                              *)
(***************************************************************************)
slave == <<pc, MBXrun, slots, mbxfree, proto, toggle, cached, mbxincnt, produced>>

CanSend == MBXrun /\ alReq = "none" /\ inbox = NoMsg

Send ==
  /\ CanSend /\ lastReq < MaxReq
  /\ \E kind \in Kinds : inbox' = Request(lastReq + 1, kind)
  /\ lastReq' = lastReq + 1
  /\ evSM0' = TRUE
  /\ UNCHANGED <<slave, outbox, evSM1, smChange, repReq, repAck, alReq, lost, received, spent>>

\* The master did not see that its request was taken and sends it again.
Retry ==
  /\ CanSend /\ lastReq > 0 /\ spent.retry < MaxRetry
  /\ lastReq = mbxincnt /\ MBX[0] \in RequestSet /\ MBX[0].req = lastReq
  /\ inbox' = MBX[0]
  /\ evSM0' = TRUE
  /\ spent' = [spent EXCEPT !.retry = @ + 1]
  /\ UNCHANGED <<slave, outbox, evSM1, smChange, repReq, repAck, alReq, lost, lastReq,
                 received>>

RepeatAcked == repReq = repAck
CanReceive == outbox # NoMsg /\ RepeatAcked /\ ~lost /\ alReq = "none"

\* The counter of a message tells a repetition from a new one.
Read ==
  /\ CanReceive
  /\ outbox' = NoMsg /\ evSM1' = TRUE
  /\ received' = IF received # <<>> /\ received[Len(received)] = outbox
                 THEN received ELSE Append(received, outbox)
  /\ UNCHANGED <<slave, inbox, evSM0, smChange, repReq, repAck, alReq, lost, lastReq,
                 spent>>

\* The read of a full outbox is lost on its way to the slave or on its way back.
ReadLost ==
  /\ CanReceive /\ spent.loss < MaxLoss
  /\ \/ UNCHANGED <<outbox, evSM1>>
     \/ outbox' = NoMsg /\ evSM1' = TRUE
  /\ lost' = TRUE
  /\ spent' = [spent EXCEPT !.loss = @ + 1]
  /\ UNCHANGED <<slave, inbox, evSM0, smChange, repReq, repAck, alReq, lastReq, received>>

\* The master asks for the last message again; it reads on when the slave has
\* acknowledged the repeat.
AskRepeat ==
  /\ lost /\ lost' = FALSE
  /\ repReq' = ~repReq /\ smChange' = TRUE
  /\ UNCHANGED <<slave, inbox, outbox, evSM0, evSM1, repAck, alReq, lastReq,
                 received, spent>>

RequestState ==
  /\ alReq = "none"
  /\ \/ MBXrun /\ spent.restart < MaxRestart /\ alReq' = "stop"
        /\ spent' = [spent EXCEPT !.restart = @ + 1]
     \/ ~MBXrun /\ alReq' = "start" /\ UNCHANGED spent
  /\ UNCHANGED <<slave, inbox, outbox, evSM0, evSM1, smChange, repReq, repAck,
                 lost, lastReq, received>>

---------------------------------------------------------------------------
Init ==
  /\ pc = "sm"
  /\ MBXrun = FALSE
  /\ state = [n \in Buffers |-> "idle"]
  /\ MBX = [n \in Buffers |-> NoMsg]
  /\ txcue = 0 /\ mbxoutpost = 0 /\ mbxbackup = 0
  /\ mbxfree = TRUE
  /\ xoe = "none" /\ fragsleft = 0
  /\ toggle = FALSE /\ ECrep = FALSE
  /\ MBXstat = [n \in {0, 1} |-> FALSE]
  /\ mbxincnt = 0
  /\ inbox = NoMsg /\ outbox = NoMsg
  /\ evSM0 = FALSE /\ evSM1 = FALSE /\ smChange = FALSE
  /\ repReq \in BOOLEAN /\ repAck = repReq
  /\ alReq = "none"
  /\ lost = FALSE /\ lastReq = 0
  /\ received = <<>> /\ produced = <<>>
  /\ spent = [retry |-> 0, loss |-> 0, restart |-> 0]

ESC_mbxprocess == \/ MbxStopped \/ MbxOutboxRead \/ MbxRepeat
                  \/ MbxPost \/ MbxRead \/ MbxIdle
Slave  == \/ ESC_stopmbx \/ ESC_startmbx \/ ESC_checkmbx \/ NoEvent
          \/ ESC_mbxprocess \/ ESC_coeprocess \/ ESC_xoeprocess
Master == Send \/ Retry \/ Read \/ ReadLost \/ AskRepeat \/ RequestState

Next == Slave \/ Master

Spec == Init /\ [][Next]_vars

\* The slave's loop never blocks.  Whether the master keeps reading its outbox
\* is an assumption of its own.
FairSlave  == Spec /\ WF_vars(Slave)
FairReader == FairSlave /\ SF_vars(Read)

---------------------------------------------------------------------------
(***************************************************************************)
(* Properties.                                                             *)
(***************************************************************************)
SlotTypes ==
  /\ state \in [Buffers -> BufferStates]
  /\ MBX \in [Buffers -> Messages]
  /\ txcue \in Nat
  /\ mbxoutpost \in Buffers
  /\ mbxbackup \in Buffers

RunTypes ==
  /\ pc \in {"sm", "mbx", "coe", "xoe"}
  /\ xoe \in {"none", "coe", "odl"}
  /\ fragsleft \in 0 .. ListFrags
  /\ MBXstat \in [{0, 1} -> BOOLEAN]
  /\ mbxincnt \in 0 .. MaxReq

LinkTypes ==
  /\ inbox \in RequestSet \union {NoMsg}
  /\ outbox \in Messages
  /\ alReq \in {"none", "stop", "start"}
  /\ lastReq \in 0 .. MaxReq

FlagTypes ==
  /\ MBXrun \in BOOLEAN /\ mbxfree \in BOOLEAN
  /\ toggle \in BOOLEAN /\ ECrep \in BOOLEAN
  /\ evSM0 \in BOOLEAN /\ evSM1 \in BOOLEAN /\ smChange \in BOOLEAN
  /\ repReq \in BOOLEAN /\ repAck \in BOOLEAN
  /\ lost \in BOOLEAN

TypeOK == SlotTypes /\ RunTypes /\ LinkTypes /\ FlagTypes

\* The indexes and the counter kept beside the buffer states never disagree with
\* them: exactly the buffer mbxoutpost is posted or postponed, exactly mbxbackup is
\* kept, and txcue counts the responses that wait.  Through repeats, restarts and
\* full pools no buffer leaks and none is in two roles.
SlotsConsistent ==
  /\ state[0] \in {"idle", "inclaim"}
  /\ \A n \in OutBuffers :
       /\ state[n] \in {"outpost", "again"} <=> n = mbxoutpost
       /\ state[n] = "backup" <=> n = mbxbackup
  /\ txcue = Cardinality(OutReq)

\* A protocol transfer in progress owns the request in buffer 0.
TransferOwnsRequest == xoe # "none" => state[0] = "inclaim" /\ MBX[0] \in RequestSet

\* No response overtakes another, none is lost, none is invented.
DeliveredInOrder ==
  /\ Len(received) <= Len(produced)
  /\ \A i \in 1 .. Len(received) : received[i] = produced[i]

\* Lost reads and the repeats they lead to may cost the master a response.  Those it
\* receives were produced, in the order in which it receives them, and none is received
\* twice, though the outbox is reset and filled from two buffers in turn.
NoneOvertakes ==
  \A i, j \in 1 .. Len(received) :
    i <= j /\ {received[i], received[j]} \subseteq ResponseSet =>
      \E p, q \in 1 .. Len(produced) :
        /\ produced[p] = received[i] /\ produced[q] = received[j]
        /\ IF i < j THEN p < q ELSE p = q

\* A request the master sends twice is answered once.
AnsweredOnce ==
  \A i, j \in 1 .. Len(produced) : i # j => produced[i] # produced[j]

\* Every request is answered, when the master reads its outbox and does not itself
\* stop the mailboxes.
Answered ==
  \A id \in 1 .. MaxReq :
    lastReq >= id ~> \/ \E i \in 1 .. Len(received) : received[i].req = id
                     \/ spent.restart > 0

\* A state request is served, whether or not the master reads its outbox.
ALServed == alReq # "none" ~> alReq = "none"

(***************************************************************************)
(* What comments say and the code does not do.                             *)
(***************************************************************************)
\* "if the outmailbox is free check if we have something to send"
PostsToFree ==
  [][mbxoutpost = 0 /\ mbxoutpost' # 0 => outbox = NoMsg]_vars

\* A repeat request is served with the backup ("use backup mbx"): the outbox never
\* holds a message the master itself sent.
OutboxHoldsResponse == outbox \in ResponseSet \union {NoMsg}
=============================================================================
