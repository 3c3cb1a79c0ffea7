---------------------------- MODULE MailboxProofs ----------------------------
(***************************************************************************)
(* Proofs about Mailbox, for any number of buffers, any requests, and any  *)
(* number of retries, losses and restarts, polled or driven by the worker. *)
(***************************************************************************)
EXTENDS Mailbox, FiniteSetTheorems, SequenceTheorems, WellFoundedInduction, TLAPS

USE ConstAssumption DEF ConstAssumption, AllKinds

---------------------------------------------------------------------------
(***************************************************************************)
(* The strengthening: what the code relies on without saying so.           *)
(***************************************************************************)
\* While a buffer is posted the outbox is not taken for free, either because the slave
\* sees it full or because the master's read will be noticed first.
PostedInv ==
  mbxoutpost # 0 => ~mbxfree /\ (evSM1 \/ (outbox # NoMsg /\ MBXstat[1]))

\* A buffer in use holds a message, and then so does buffer 0: a repeat never writes an
\* empty one.
FilledInv ==
  \A n \in OutBuffers : state[n] # "idle" => MBX[n].req # 0 /\ MBX[0].req # 0

\* The inbox is seen full only while it is.
InboxInv == MBXrun /\ MBXstat[0] => inbox # NoMsg

\* A transfer in progress holds its request, and a list has fragments left.
TransferInv ==
  /\ xoe # "none" => state[0] = "inclaim"
  /\ state[0] = "inclaim" => MBX[0] \in RequestSet
  /\ xoe = "odl" => fragsleft \in 1 .. ListFrags - 1

IInv == TypeOK /\ SlotsConsistent /\ PostedInv /\ FilledInv /\ InboxInv /\ TransferInv

---------------------------------------------------------------------------
(***************************************************************************)
(* Buffers and messages.                                                   *)
(***************************************************************************)
\* ESC_claimbuffer and ESC_outreqbuffer, which search from the end, find a buffer of the
\* set they search.
LEMMA HighestIn ==
  ASSUME NEW S \in SUBSET OutBuffers, S # {}
  PROVE  Highest(S) \in S
  <1> DEFINE less == OpToRel(<, Nat)
             gaps == {N - n : n \in S}
  <1>1. gaps \subseteq Nat /\ gaps # {}
    <2>1. \A n \in S : N - n \in Nat
      BY DEF OutBuffers
    <2>2. gaps \subseteq Nat
      BY <2>1
    <2>3. PICK n \in S : TRUE
      OBVIOUS
    <2>4. N - n \in gaps
      BY <2>3
    <2> QED
      BY <2>2, <2>4
  <1>2. IsWellFoundedOn(less, Nat)
    BY NatLessThanWellFounded
  <1>3. \A x, y \in Nat : x < y => <<x, y>> \in less
    BY DEF OpToRel
  <1> HIDE DEF less
  <1>4. PICK g \in gaps : \A h \in gaps : ~(<<h, g>> \in less)
    BY <1>1, <1>2, WFMin
  <1>5. PICK n \in S : g = N - n
    BY <1>4
  <1>6. \A m \in S : m <= n
    <2> SUFFICES ASSUME NEW m \in S, m > n PROVE FALSE
      BY DEF OutBuffers
    <2>1. N - m \in gaps /\ N - m < g
      BY <1>5 DEF OutBuffers
    <2> QED
      BY <1>1, <1>3, <1>4, <2>1
  <1> QED
    BY <1>6 DEF Highest

LEMMA OutReqFinite == IsFiniteSet(OutReq)
  <1>1. IsFiniteSet(1 .. N - 1)
    BY FS_Interval
  <1> QED
    BY <1>1, FS_Subset DEF OutReq, OutBuffers

\* A message has a request number, an empty mailbox has none.
LEMMA MessageReq ==
  /\ NoMsg.req = 0
  /\ \A m \in RequestSet \union ResponseSet : m.req \in 1 .. MaxReq /\ m # NoMsg
  BY DEF NoMsg, RequestSet, ResponseSet

LEMMA ResponseType ==
  ASSUME NEW id \in 1 .. MaxReq, NEW n \in 1 .. ListFrags
  PROVE  Response(id, n) \in ResponseSet /\ Response(id, n).req = id
  BY DEF Response, ResponseSet

\* What a handler leaves when it claims buffer n for msg, with buffer 0 in state s.
LEMMA Claimed ==
  ASSUME SlotTypes, SlotsConsistent, FilledInv,
         NEW n \in IdleOut, NEW s \in {"idle", "inclaim"},
         NEW msg \in ResponseSet, NEW m0 \in Messages, m0.req # 0,
         state' = [b \in Buffers |-> IF b = n THEN "outreq" ELSE IF b = 0 THEN s ELSE state[b]],
         MBX' = [b \in Buffers |-> IF b = n THEN msg ELSE IF b = 0 THEN m0 ELSE MBX[b]],
         txcue' = txcue + 1, UNCHANGED <<mbxoutpost, mbxbackup>>
  PROVE  SlotTypes' /\ SlotsConsistent' /\ FilledInv'
  <1>1. n \in OutBuffers /\ n \in Buffers /\ n # 0 /\ state[n] = "idle" /\ n \notin OutReq
    BY DEF IdleOut, OutReq, OutBuffers, Buffers
  <1>2. 0 \in Buffers /\ OutBuffers = Buffers \ {0}
    BY DEF Buffers, OutBuffers
  <1>3. SlotTypes'
    BY <1>1 DEF SlotTypes, BufferStates, Messages
  <1>4. \A b \in OutBuffers : state'[b] = IF b = n THEN "outreq" ELSE state[b]
    BY <1>2
  <1>5. txcue' = Cardinality(OutReq')
    <2>1. OutReq' = OutReq \union {n}
      BY <1>1, <1>4 DEF OutReq
    <2> QED
      BY <1>1, <2>1, OutReqFinite, FS_AddElement DEF SlotsConsistent
  <1>6. state'[0] \in {"idle", "inclaim"}
    BY <1>1, <1>2
  <1>7. \A b \in OutBuffers : /\ state'[b] \in {"outpost", "again"} <=> b = mbxoutpost'
                              /\ state'[b] = "backup" <=> b = mbxbackup'
    BY <1>1, <1>4 DEF SlotsConsistent
  <1>8. FilledInv'
    <2>1. msg.req # 0
      BY MessageReq
    <2>2. \A b \in OutBuffers : MBX'[b] = IF b = n THEN msg ELSE MBX[b]
      BY <1>2
    <2>3. MBX'[0] = m0
      BY <1>1, <1>2
    <2> QED
      BY <1>4, <2>1, <2>2, <2>3 DEF FilledInv
  <1> QED
    BY <1>3, <1>5, <1>6, <1>7, <1>8 DEF SlotsConsistent

\* Answering a request, or dropping the answer, keeps the buffers consistent.
LEMMA Responded ==
  ASSUME SlotTypes, SlotsConsistent, FilledInv,
         MBX[0] \in RequestSet, NEW s \in {"idle", "inclaim"},
         NEW msg \in ResponseSet, RespondOrDrop(msg, s),
         UNCHANGED <<mbxoutpost, mbxbackup>>
  PROVE  /\ SlotTypes' /\ SlotsConsistent' /\ FilledInv'
         /\ state'[0] = s /\ MBX'[0] = MBX[0]
  <1>1. 0 \in Buffers /\ OutBuffers = Buffers \ {0} /\ IdleOut \subseteq OutBuffers
    BY DEF Buffers, OutBuffers, IdleOut
  <1>2. CASE Respond(msg, s)
    <2> DEFINE n == Highest(IdleOut)
    <2>1. n \in IdleOut
      BY <1>1, <1>2, HighestIn DEF Respond
    <2>2. state' = [b \in Buffers |-> IF b = n THEN "outreq" ELSE IF b = 0 THEN s ELSE state[b]]
      BY <1>1, <1>2, <2>1 DEF Respond, SlotTypes
    <2>3. MBX' = [b \in Buffers |-> IF b = n THEN msg ELSE IF b = 0 THEN MBX[0] ELSE MBX[b]]
      BY <1>1, <1>2, <2>1 DEF Respond, SlotTypes
    <2>4. MBX[0] \in Messages /\ MBX[0].req # 0
      BY MessageReq DEF Messages
    <2>5. txcue' = txcue + 1
      BY <1>2 DEF Respond
    <2> HIDE DEF n
    <2>6. SlotTypes' /\ SlotsConsistent' /\ FilledInv'
      BY <2>1, <2>2, <2>3, <2>4, <2>5, Claimed
    <2>7. state'[0] = s /\ MBX'[0] = MBX[0]
      BY <1>1, <2>1, <2>2, <2>3
    <2> QED
      BY <2>6, <2>7
  <1>3. CASE NoBuffer(s)
    <2>1. /\ state' = [state EXCEPT ![0] = s]
          /\ UNCHANGED <<MBX, txcue>>
      BY <1>3 DEF NoBuffer
    <2>2. \A b \in OutBuffers : state'[b] = state[b]
      BY <1>1, <2>1 DEF SlotTypes
    <2>3. OutReq' = OutReq
      BY <2>2 DEF OutReq
    <2>4. SlotTypes' /\ state'[0] = s
      BY <1>1, <2>1 DEF SlotTypes, BufferStates
    <2>5. SlotsConsistent'
      BY <2>1, <2>2, <2>3, <2>4 DEF SlotsConsistent
    <2>6. FilledInv'
      BY <2>1, <2>2 DEF FilledInv
    <2> QED
      BY <2>1, <2>4, <2>5, <2>6
  <1> QED
    BY <1>2, <1>3 DEF RespondOrDrop

---------------------------------------------------------------------------
(***************************************************************************)
(* One lemma per group of actions: each keeps the invariant.               *)
(***************************************************************************)
\* Steps that leave the buffers alone keep what is said of them.
LEMMA SlotsKept ==
  ASSUME SlotTypes, SlotsConsistent, FilledInv, UNCHANGED slots
  PROVE  SlotTypes' /\ SlotsConsistent' /\ FilledInv'
  <1> USE DEF slots
  <1>1. SlotTypes' /\ OutReq' = OutReq
    BY DEF SlotTypes, OutReq
  <1> QED
    BY <1>1 DEF SlotsConsistent, FilledInv

\* The status bytes as ESC_mbxprocess sees them.
LEMMA StatSees ==
  ASSUME IInv, MBXrun
  PROVE  /\ Stat \in [{0, 1} -> BOOLEAN]
         /\ Stat[0] => inbox # NoMsg
         /\ mbxoutpost # 0 /\ ~evSM1 => outbox # NoMsg /\ Stat[1]
  BY DEF IInv, TypeOK, RunTypes, InboxInv, PostedInv, Stat

\* The master writes and reads the mailboxes, never the buffers.
LEMMA MasterKeeps ==
  ASSUME IInv, Master
  PROVE  IInv'
  <1> USE DEF IInv, TypeOK, slots, proto, cached, slave
  <1>1. CASE Send
    <2>1. SlotTypes' /\ SlotsConsistent' /\ FilledInv'
      BY <1>1, SlotsKept DEF Send
    <2>2. RunTypes' /\ PostedInv' /\ TransferInv'
      BY <1>1 DEF Send, CanSend, RunTypes, PostedInv, TransferInv
    <2>3. LinkTypes'
      BY <1>1 DEF Send, CanSend, Request, RequestSet, LinkTypes
    <2>4. FlagTypes'
      BY <1>1 DEF Send, CanSend, FlagTypes
    <2>5. InboxInv'
      BY <1>1 DEF Send, CanSend, Request, NoMsg, InboxInv
    <2> QED
      BY <2>1, <2>2, <2>3, <2>4, <2>5
  <1>2. CASE Retry
    <2>1. SlotTypes' /\ SlotsConsistent' /\ FilledInv'
      BY <1>2, SlotsKept DEF Retry
    <2>2. RunTypes' /\ PostedInv' /\ TransferInv'
      BY <1>2 DEF Retry, CanSend, RunTypes, PostedInv, TransferInv
    <2>3. LinkTypes'
      BY <1>2 DEF Retry, CanSend, LinkTypes
    <2>4. FlagTypes'
      BY <1>2 DEF Retry, CanSend, FlagTypes
    <2>5. InboxInv'
      BY <1>2, MessageReq DEF Retry, CanSend, InboxInv
    <2> QED
      BY <2>1, <2>2, <2>3, <2>4, <2>5
  <1>3. CASE Read
    <2>1. SlotTypes' /\ SlotsConsistent' /\ FilledInv'
      BY <1>3, SlotsKept DEF Read
    <2>2. RunTypes' /\ InboxInv' /\ TransferInv'
      BY <1>3 DEF Read, CanReceive, RunTypes, InboxInv, TransferInv
    <2>3. LinkTypes'
      BY <1>3 DEF Read, CanReceive, Messages, LinkTypes
    <2>4. FlagTypes'
      BY <1>3 DEF Read, CanReceive, FlagTypes
    <2>5. PostedInv'
      BY <1>3 DEF Read, CanReceive, PostedInv
    <2> QED
      BY <2>1, <2>2, <2>3, <2>4, <2>5
  <1>4. CASE ReadLost
    <2>1. SlotTypes' /\ SlotsConsistent' /\ FilledInv'
      BY <1>4, SlotsKept DEF ReadLost
    <2>2. RunTypes' /\ InboxInv' /\ TransferInv'
      BY <1>4 DEF ReadLost, CanReceive, RunTypes, InboxInv, TransferInv
    <2>3. LinkTypes'
      BY <1>4 DEF ReadLost, CanReceive, Messages, LinkTypes
    <2>4. FlagTypes'
      BY <1>4 DEF ReadLost, CanReceive, FlagTypes
    <2>5. PostedInv'
      BY <1>4 DEF ReadLost, CanReceive, PostedInv
    <2> QED
      BY <2>1, <2>2, <2>3, <2>4, <2>5
  <1>5. CASE AskRepeat
    <2>1. SlotTypes' /\ SlotsConsistent' /\ FilledInv'
      BY <1>5, SlotsKept DEF AskRepeat
    <2>2. RunTypes' /\ InboxInv' /\ TransferInv' /\ PostedInv'
      BY <1>5 DEF AskRepeat, RunTypes, InboxInv, TransferInv, PostedInv
    <2>3. LinkTypes'
      BY <1>5 DEF AskRepeat, LinkTypes
    <2>4. FlagTypes'
      BY <1>5 DEF AskRepeat, FlagTypes
    <2> QED
      BY <2>1, <2>2, <2>3, <2>4
  <1>6. CASE RequestState
    <2>1. SlotTypes' /\ SlotsConsistent' /\ FilledInv'
      BY <1>6, SlotsKept DEF RequestState
    <2>2. RunTypes' /\ InboxInv' /\ TransferInv' /\ PostedInv'
      BY <1>6 DEF RequestState, RunTypes, InboxInv, TransferInv, PostedInv
    <2>3. LinkTypes'
      BY <1>6 DEF RequestState, LinkTypes
    <2>4. FlagTypes'
      BY <1>6 DEF RequestState, FlagTypes
    <2> QED
      BY <2>1, <2>2, <2>3, <2>4
  <1> QED
    BY <1>1, <1>2, <1>3, <1>4, <1>5, <1>6 DEF Master

\* Reading the status bytes of both SyncManagers.
LEMMA SeesBoxes ==
  ASSUME MBXstat' = [n \in {0, 1} |-> IF n = 0 THEN inbox # NoMsg ELSE outbox # NoMsg]
  PROVE  (MBXstat'[0] <=> inbox # NoMsg) /\ (MBXstat'[1] <=> outbox # NoMsg)
  <1>1. MBXstat'[0] = (inbox # NoMsg)
    OBVIOUS
  <1>2. MBXstat'[1] = (outbox # NoMsg)
    OBVIOUS
  <1> QED
    BY <1>1, <1>2

\* Stopping forgets everything, starting and checking read the SyncManagers anew.
LEMMA StateKeeps ==
  ASSUME IInv, ESC_stopmbx \/ ESC_startmbx \/ ESC_checkmbx \/ NoEvent
  PROVE  IInv'
  <1> USE DEF IInv, TypeOK, slots, proto, cached, esc, master
  <1>1. CASE ESC_stopmbx
    <2>1. SlotTypes' /\ SlotsConsistent' /\ FilledInv'
      <3>1. state' = [n \in Buffers |-> "idle"] /\ MBX' = MBX /\ txcue' = 0
        BY <1>1 DEF ESC_stopmbx
      <3>2. mbxoutpost' = 0 /\ mbxbackup' = 0
        BY <1>1 DEF ESC_stopmbx
      <3>3. OutBuffers \subseteq Buffers \ {0} /\ 0 \in Buffers
        BY DEF OutBuffers, Buffers
      <3>4. OutReq' = {}
        BY <3>1, <3>3 DEF OutReq
      <3>5. SlotTypes'
        BY <3>1, <3>2, <3>3 DEF SlotTypes, BufferStates
      <3> QED
        BY <3>1, <3>2, <3>3, <3>4, <3>5, FS_EmptySet DEF SlotsConsistent, FilledInv
    <2>2. RunTypes' /\ PostedInv' /\ InboxInv'
      BY <1>1 DEF ESC_stopmbx, RunTypes, PostedInv, InboxInv
    <2>3. LinkTypes'
      BY <1>1 DEF ESC_stopmbx, Messages, LinkTypes
    <2>4. FlagTypes'
      BY <1>1 DEF ESC_stopmbx, FlagTypes
    <2>5. TransferInv'
      BY <1>1 DEF ESC_stopmbx, Buffers, TransferInv
    <2> QED
      BY <2>1, <2>2, <2>3, <2>4, <2>5
  <1>2. CASE ESC_startmbx
    <2>1. SlotTypes' /\ SlotsConsistent' /\ FilledInv'
      BY <1>2, SlotsKept DEF ESC_startmbx
    <2>2. RunTypes' /\ TransferInv'
      BY <1>2 DEF ESC_startmbx, RunTypes, TransferInv
    <2>3. LinkTypes'
      BY <1>2 DEF ESC_startmbx, LinkTypes
    <2>4. FlagTypes'
      BY <1>2 DEF ESC_startmbx, FlagTypes
    <2>5. PostedInv'
      BY <1>2, SeesBoxes DEF ESC_startmbx, PostedInv
    <2>6. InboxInv'
      BY <1>2, SeesBoxes DEF ESC_startmbx, InboxInv
    <2> QED
      BY <2>1, <2>2, <2>3, <2>4, <2>5, <2>6
  <1>3. CASE ESC_checkmbx
    <2>1. SlotTypes' /\ SlotsConsistent' /\ FilledInv'
      BY <1>3, SlotsKept DEF ESC_checkmbx
    <2>2. RunTypes' /\ TransferInv'
      BY <1>3 DEF ESC_checkmbx, RunTypes, TransferInv
    <2>3. LinkTypes'
      BY <1>3 DEF ESC_checkmbx, LinkTypes
    <2>4. FlagTypes'
      BY <1>3 DEF ESC_checkmbx, FlagTypes
    <2>5. PostedInv'
      BY <1>3, SeesBoxes DEF ESC_checkmbx, PostedInv
    <2>6. InboxInv'
      BY <1>3, SeesBoxes DEF ESC_checkmbx, InboxInv
    <2> QED
      BY <2>1, <2>2, <2>3, <2>4, <2>5, <2>6
  <1>4. CASE NoEvent
    <2>1. SlotTypes' /\ SlotsConsistent' /\ FilledInv'
      BY <1>4, SlotsKept DEF NoEvent
    <2>2. RunTypes' /\ TransferInv' /\ PostedInv' /\ InboxInv'
      BY <1>4 DEF NoEvent, RunTypes, TransferInv, PostedInv, InboxInv
    <2>3. LinkTypes'
      BY <1>4 DEF NoEvent, LinkTypes
    <2>4. FlagTypes'
      BY <1>4 DEF NoEvent, FlagTypes
    <2> QED
      BY <2>1, <2>2, <2>3, <2>4
  <1> QED
    BY <1>1, <1>2, <1>3, <1>4

\* A call of ESC_mbxprocess that finds nothing to do.
LEMMA QuietKeeps ==
  ASSUME IInv, MbxStopped \/ MbxIdle
  PROVE  IInv'
  <1> USE DEF IInv, TypeOK, slots, proto, cached, esc, master, Return
  <1>1. CASE MbxStopped
    <2>1. SlotTypes' /\ SlotsConsistent' /\ FilledInv'
      BY <1>1, SlotsKept DEF MbxStopped
    <2>2. RunTypes'
      BY <1>1 DEF MbxStopped, RunTypes
    <2>3. LinkTypes'
      BY <1>1 DEF MbxStopped, LinkTypes
    <2>4. FlagTypes'
      BY <1>1 DEF MbxStopped, FlagTypes
    <2>5. PostedInv' /\ InboxInv' /\ TransferInv'
      BY <1>1 DEF MbxStopped, PostedInv, InboxInv, TransferInv
    <2> QED
      BY <2>1, <2>2, <2>3, <2>4, <2>5
  <1>2. CASE MbxIdle
    <2>1. SlotTypes' /\ SlotsConsistent' /\ FilledInv'
      BY <1>2, SlotsKept DEF MbxIdle
    <2>2. RunTypes'
      BY <1>2, StatSees DEF MbxIdle, RunTypes
    <2>3. LinkTypes'
      BY <1>2 DEF MbxIdle, LinkTypes
    <2>4. FlagTypes'
      BY <1>2 DEF MbxIdle, FlagTypes
    <2>5. PostedInv'
      BY <1>2, StatSees DEF MbxIdle, OutboxRead, PostedInv
    <2>6. InboxInv' /\ TransferInv'
      BY <1>2, StatSees DEF MbxIdle, InboxInv, TransferInv
    <2> QED
      BY <2>1, <2>2, <2>3, <2>4, <2>5, <2>6
  <1> QED
    BY <1>1, <1>2

\* Moving buffers between the roles of the outbox leaves the queue as it is.
LEMMA RolesMoved ==
  ASSUME SlotTypes, SlotsConsistent, FilledInv, UNCHANGED <<MBX, txcue>>,
         state' \in [Buffers -> BufferStates], mbxoutpost' \in Buffers, mbxbackup' \in Buffers,
         state'[0] = state[0],
         \A n \in OutBuffers : /\ state'[n] = "outreq" <=> state[n] = "outreq"
                               /\ state'[n] # "idle" => state[n] # "idle"
                               /\ state'[n] \in {"outpost", "again"} <=> n = mbxoutpost'
                               /\ state'[n] = "backup" <=> n = mbxbackup'
  PROVE  SlotTypes' /\ SlotsConsistent' /\ FilledInv'
  <1>1. SlotTypes'
    BY DEF SlotTypes
  <1>2. OutReq' = OutReq
    BY DEF OutReq
  <1>3. SlotsConsistent'
    BY <1>2 DEF SlotsConsistent
  <1>4. FilledInv'
    BY DEF FilledInv
  <1> QED
    BY <1>1, <1>3, <1>4

\* The buffer that was read becomes the backup, the old backup becomes idle.
LEMMA OutboxReadKeeps ==
  ASSUME IInv, MbxOutboxRead
  PROVE  IInv'
  <1> USE DEF IInv, TypeOK, proto, cached, esc, master, Return
  <1>1. /\ 0 \in Buffers /\ OutBuffers = Buffers \ {0}
        /\ mbxoutpost \in OutBuffers /\ state[mbxoutpost] \in {"outpost", "again"}
    BY DEF MbxOutboxRead, OutboxRead, Buffers, OutBuffers, SlotTypes, SlotsConsistent
  <1>2. /\ state' = [n \in Buffers |-> IF n = mbxoutpost THEN "backup"
                                       ELSE IF n = mbxbackup /\ n # 0 THEN "idle"
                                       ELSE state[n]]
        /\ mbxbackup' = mbxoutpost /\ mbxoutpost' = 0
        /\ UNCHANGED <<MBX, txcue>>
    BY DEF MbxOutboxRead, NewBackup
  <1>3. SlotTypes' /\ SlotsConsistent' /\ FilledInv'
    <2>1. state' \in [Buffers -> BufferStates] /\ state'[0] = state[0]
      BY <1>1, <1>2 DEF SlotTypes, BufferStates
    <2>2. \A n \in OutBuffers : state'[n] = IF n = mbxoutpost THEN "backup"
                                            ELSE IF n = mbxbackup THEN "idle" ELSE state[n]
      BY <1>1, <1>2
    <2>3. \A n \in OutBuffers : /\ state'[n] = "outreq" <=> state[n] = "outreq"
                                /\ state'[n] # "idle" => state[n] # "idle"
      BY <1>1, <2>2 DEF SlotsConsistent
    <2>4. \A n \in OutBuffers : /\ state'[n] \in {"outpost", "again"} <=> n = mbxoutpost'
                                /\ state'[n] = "backup" <=> n = mbxbackup'
      BY <1>1, <1>2, <2>2 DEF SlotsConsistent
    <2> QED
      BY <1>1, <1>2, <2>1, <2>3, <2>4, RolesMoved
  <1>4. RunTypes'
    BY StatSees DEF MbxOutboxRead, RunTypes
  <1>5. LinkTypes'
    <2>1. outbox' \in Messages
      BY <1>1 DEF MbxOutboxRead, Written, LinkTypes, SlotTypes
    <2> QED
      BY <2>1 DEF MbxOutboxRead, LinkTypes
  <1>6. FlagTypes'
    BY DEF MbxOutboxRead, FlagTypes
  <1>7. PostedInv' /\ TransferInv'
    BY <1>1, <1>2 DEF MbxOutboxRead, PostedInv, TransferInv, Buffers
  <1>8. InboxInv'
    BY StatSees DEF MbxOutboxRead, InboxInv
  <1> QED
    BY <1>3, <1>4, <1>5, <1>6, <1>7, <1>8

\* A repeat writes a message the slave has, and postpones the one it replaces.
LEMMA RepeatKeeps ==
  ASSUME IInv, MbxRepeat
  PROVE  IInv'
  <1> USE DEF IInv, TypeOK, proto, cached, esc, master, Return
  <1>1. /\ 0 \in Buffers /\ OutBuffers = Buffers \ {0}
        /\ mbxoutpost \in Buffers /\ mbxbackup \in Buffers
        /\ MBXrun /\ ~(mbxoutpost # 0 /\ evSM1)
    BY DEF MbxRepeat, OutboxRead, Buffers, OutBuffers, SlotTypes
  <1>2. UNCHANGED <<MBX, txcue, mbxoutpost, mbxbackup>> /\ MBXstat' = Stat
    BY DEF MbxRepeat
  <1>3. state' = state \/ (mbxoutpost # 0 /\ state' = [state EXCEPT ![mbxoutpost] = "again"])
    BY DEF MbxRepeat
  <1>4. SlotTypes' /\ SlotsConsistent' /\ FilledInv'
    <2>1. state' \in [Buffers -> BufferStates] /\ state'[0] = state[0]
      BY <1>1, <1>3 DEF SlotTypes, BufferStates
    <2>2. \A n \in OutBuffers : state'[n] = state[n] \/ (n = mbxoutpost /\ state'[n] = "again")
      BY <1>1, <1>3 DEF SlotTypes
    <2>3. \A n \in OutBuffers : /\ state'[n] = "outreq" <=> state[n] = "outreq"
                                /\ state'[n] # "idle" => state[n] # "idle"
      BY <2>2 DEF SlotsConsistent
    <2>4. \A n \in OutBuffers : /\ state'[n] \in {"outpost", "again"} <=> n = mbxoutpost
                                /\ state'[n] = "backup" <=> n = mbxbackup
      BY <2>2 DEF SlotsConsistent
    <2> QED
      BY <1>1, <1>2, <2>1, <2>3, <2>4, RolesMoved
  <1>5. RunTypes'
    BY <1>1, <1>2, StatSees DEF MbxRepeat, RunTypes
  <1>6. LinkTypes'
    <2>1. outbox' \in Messages
      BY <1>1 DEF MbxRepeat, Written, LinkTypes, SlotTypes
    <2> QED
      BY <2>1 DEF MbxRepeat, LinkTypes
  <1>7. FlagTypes'
    BY DEF MbxRepeat, FlagTypes
  <1>8. PostedInv'
    <2> SUFFICES ASSUME mbxoutpost # 0 PROVE PostedInv'
      BY <1>2 DEF PostedInv
    <2>1. outbox' = MBX[mbxbackup] /\ mbxfree' = FALSE
      BY DEF MbxRepeat, Written
    <2>2. MBX[mbxbackup].req # 0
      BY <1>1 DEF FilledInv, SlotsConsistent
    <2>3. Stat[1]
      BY <1>1, StatSees
    <2> QED
      BY <1>2, <2>1, <2>2, <2>3, MessageReq DEF PostedInv
  <1>9. InboxInv' /\ TransferInv'
    BY <1>1, <1>2, <1>3, StatSees DEF MbxRepeat, InboxInv, TransferInv, SlotTypes
  <1> QED
    BY <1>4, <1>5, <1>6, <1>7, <1>8, <1>9

\* Nothing is posted over a message of the slave's own that is still in the outbox.
LEMMA PostKeeps ==
  ASSUME IInv, MbxPost
  PROVE  IInv'
  <1> USE DEF IInv, TypeOK, proto, cached, esc, master, Return
  <1> DEFINE n == Highest(OutReq)
  <1>1. MBXrun /\ ~(mbxoutpost # 0 /\ evSM1) /\ (mbxfree \/ ~Stat[1]) /\ OutReq # {}
    BY DEF MbxPost, OutboxRead, CanPost
  <1>2. mbxoutpost = 0
    BY <1>1, StatSees DEF PostedInv
  <1>3. n \in OutReq
    BY <1>1, HighestIn DEF OutReq
  <1>4. /\ state' = [state EXCEPT ![n] = "outpost"] /\ mbxoutpost' = n
        /\ outbox' = Written(outbox, n) /\ mbxfree' = FALSE /\ txcue' = txcue - 1
        /\ UNCHANGED <<MBX, mbxbackup>>
        /\ MBXstat' = [Stat EXCEPT ![1] = outbox' # NoMsg]
    BY DEF MbxPost
  <1> HIDE DEF n
  <1>5. n \in OutBuffers /\ n \in Buffers /\ n # 0 /\ state[n] = "outreq" /\ 0 \in Buffers
    BY <1>3 DEF OutReq, OutBuffers, Buffers
  <1>6. OutBuffers \subseteq Buffers
    BY DEF OutBuffers, Buffers
  <1>7. \A b \in OutBuffers : state'[b] = IF b = n THEN "outpost" ELSE state[b]
    BY <1>4, <1>5, <1>6 DEF SlotTypes
  <1>8. OutReq' = OutReq \ {n}
    BY <1>7 DEF OutReq
  <1>9. Cardinality(OutReq') = txcue - 1 /\ Cardinality(OutReq') \in Nat
    BY <1>3, <1>8, OutReqFinite, FS_RemoveElement, FS_CardinalityType DEF SlotsConsistent
  <1>10. SlotTypes'
    BY <1>4, <1>5, <1>9 DEF SlotTypes, BufferStates
  <1>11. SlotsConsistent'
    <2>1. \A b \in OutBuffers : state'[b] \in {"outpost", "again"} <=> b = mbxoutpost'
      BY <1>2, <1>4, <1>5, <1>7 DEF SlotsConsistent, OutBuffers
    <2>2. \A b \in OutBuffers : state'[b] = "backup" <=> b = mbxbackup'
      BY <1>4, <1>5, <1>7 DEF SlotsConsistent
    <2>3. state'[0] = state[0]
      BY <1>4, <1>5 DEF SlotTypes
    <2> QED
      BY <1>4, <1>9, <2>1, <2>2, <2>3 DEF SlotsConsistent
  <1>12. FilledInv'
    BY <1>4, <1>5, <1>7 DEF FilledInv
  <1>13. RunTypes'
    <2>1. MBXstat' \in [{0, 1} -> BOOLEAN]
      BY <1>1, <1>4, StatSees
    <2> QED
      BY <2>1 DEF MbxPost, RunTypes
  <1>14. LinkTypes'
    BY <1>4, <1>5 DEF MbxPost, LinkTypes, SlotTypes, Written
  <1>15. FlagTypes'
    BY DEF MbxPost, FlagTypes
  <1>16. PostedInv'
    <2>1. outbox' # NoMsg
      BY <1>4, <1>5, MessageReq DEF Written, FilledInv
    <2>2. MBXstat'[1] = (outbox' # NoMsg)
      BY <1>1, <1>4, StatSees
    <2> QED
      BY <1>4, <2>1, <2>2 DEF PostedInv
  <1>17. InboxInv'
    <2>1. MBXstat'[0] = Stat[0]
      BY <1>1, <1>4, StatSees
    <2> QED
      BY <1>1, <2>1, StatSees DEF MbxPost, InboxInv
  <1>18. TransferInv'
    BY <1>4, <1>5 DEF MbxPost, TransferInv, SlotTypes
  <1> QED
    BY <1>10, <1>11, <1>12, <1>13, <1>14, <1>15, <1>16, <1>17, <1>18

\* A request is read only into a free buffer 0, and an empty one leaves it free.
LEMMA ReadKeeps ==
  ASSUME IInv, MbxRead
  PROVE  IInv'
  <1> USE DEF IInv, TypeOK, proto, cached, esc, master, Return
  <1>1. MBXrun /\ Stat[0] /\ state[0] = "idle" /\ mbxoutpost = 0 /\ xoe = "none"
    BY DEF MbxRead, CanRead
  <1>2. inbox \in RequestSet /\ inbox.req # 0 /\ inbox \in Messages
    BY <1>1, StatSees, MessageReq DEF LinkTypes, Messages
  <1>3. UNCHANGED <<mbxoutpost, mbxbackup, xoe>> /\ MBXstat' = [Stat EXCEPT ![0] = FALSE]
    BY DEF MbxRead
  <1>4. 0 \in Buffers /\ OutBuffers = Buffers \ {0} /\ IdleOut \subseteq OutBuffers
    BY DEF Buffers, OutBuffers, IdleOut
  <1>5. /\ SlotTypes' /\ SlotsConsistent' /\ FilledInv'
        /\ state'[0] = "inclaim" => MBX'[0] \in RequestSet
    <2>1. CASE inbox.kind = "empty" /\ IdleOut # {}
      <3> DEFINE n == Highest(IdleOut)
                 msg == Response(inbox.req, 1)
      <3>1. n \in IdleOut
        BY <1>4, <2>1, HighestIn
      <3>2. /\ state' = [state EXCEPT ![n] = "outreq"]
            /\ MBX' = [MBX EXCEPT ![0] = inbox, ![n] = msg]
            /\ txcue' = txcue + 1
        BY <2>1 DEF MbxRead
      <3>3. msg \in ResponseSet
        BY <1>2, MessageReq, ResponseType
      <3> HIDE DEF n, msg
      <3>4. n \in Buffers /\ n # 0
        BY <1>4, <3>1
      <3>5. state' = [b \in Buffers |-> IF b = n THEN "outreq" ELSE IF b = 0 THEN "idle" ELSE state[b]]
        BY <1>1, <3>2, <3>4 DEF SlotTypes
      <3>6. MBX' = [b \in Buffers |-> IF b = n THEN msg ELSE IF b = 0 THEN inbox ELSE MBX[b]]
        BY <1>4, <3>2, <3>4 DEF SlotTypes
      <3>7. SlotTypes' /\ SlotsConsistent' /\ FilledInv'
        <4>1. UNCHANGED <<mbxoutpost, mbxbackup>> /\ txcue' = txcue + 1
          BY <1>3, <3>2
        <4>2. SlotTypes /\ SlotsConsistent /\ FilledInv
          OBVIOUS
        <4> QED
          BY ONLY <1>2, <3>1, <3>3, <3>5, <3>6, <4>1, <4>2, Claimed
      <3>8. state'[0] = "idle"
        BY <1>4, <3>4, <3>5
      <3> QED
        BY <3>7, <3>8
    <2>2. CASE ~(inbox.kind = "empty" /\ IdleOut # {})
      <3>1. PICK s \in {"idle", "inclaim"} : state' = [state EXCEPT ![0] = s]
        BY <2>2 DEF MbxRead
      <3>2. MBX' = [MBX EXCEPT ![0] = inbox] /\ txcue' = txcue
        BY <2>2 DEF MbxRead
      <3>3. state'[0] = s /\ MBX'[0] = inbox
        BY <1>4, <3>1, <3>2 DEF SlotTypes
      <3>4. \A b \in OutBuffers : state'[b] = state[b] /\ MBX'[b] = MBX[b]
        BY <1>4, <3>1, <3>2 DEF SlotTypes
      <3>5. SlotTypes'
        BY <1>2, <1>3, <1>4, <3>1, <3>2 DEF SlotTypes, BufferStates
      <3>6. OutReq' = OutReq
        BY <3>4 DEF OutReq
      <3>7. SlotsConsistent'
        BY <1>3, <3>2, <3>3, <3>4, <3>6 DEF SlotsConsistent
      <3>8. FilledInv'
        BY <1>2, <3>3, <3>4 DEF FilledInv
      <3> QED
        BY <1>2, <3>3, <3>5, <3>7, <3>8
    <2> QED
      BY <2>1, <2>2
  <1>6. RunTypes'
    <2>1. MBXstat' \in [{0, 1} -> BOOLEAN]
      BY <1>1, <1>3, StatSees
    <2>2. mbxincnt' \in 0 .. MaxReq
      BY <1>2, MessageReq DEF MbxRead
    <2> QED
      BY <2>1, <2>2 DEF MbxRead, RunTypes
  <1>7. LinkTypes'
    BY DEF MbxRead, LinkTypes
  <1>8. FlagTypes'
    BY DEF MbxRead, FlagTypes
  <1>9. PostedInv' /\ TransferInv'
    BY <1>1, <1>3, <1>5 DEF PostedInv, TransferInv
  <1>10. InboxInv'
    <2>1. MBXstat'[0] = FALSE
      BY <1>1, <1>3, StatSees
    <2> QED
      BY <2>1 DEF InboxInv
  <1> QED
    BY <1>5, <1>6, <1>7, <1>8, <1>9, <1>10

\* A CoE handler keeps the request while its transfer goes on, and frees it with the last answer.
LEMMA CoeKeeps ==
  ASSUME IInv, ESC_coeprocess
  PROVE  IInv'
  <1> USE DEF IInv, TypeOK, cached, esc, master, handled
  <1>1. UNCHANGED handled /\ pc' = "xoe"
    BY DEF ESC_coeprocess
  <1>2. /\ SlotTypes' /\ SlotsConsistent' /\ FilledInv' /\ TransferInv'
        /\ xoe' \in {"none", "coe", "odl"} /\ fragsleft' \in 0 .. ListFrags
    <2>1. CASE UNCHANGED <<state, MBX, txcue, produced, proto>>
      BY <1>1, <2>1, SlotsKept DEF slots, proto, RunTypes, TransferInv
    <2> USE DEF proto
    <2>2. ASSUME NEW msg \in ResponseSet, NEW s \in {"idle", "inclaim"}, RespondOrDrop(msg, s),
                 MBX[0] \in RequestSet
          PROVE  /\ SlotTypes' /\ SlotsConsistent' /\ FilledInv'
                 /\ state'[0] = s /\ MBX'[0] \in RequestSet
      BY <1>1, <2>2, Responded
    <2>3. CASE CoeListCont
      <3> DEFINE s == IF fragsleft = 1 /\ IdleOut # {} THEN "idle" ELSE "inclaim"
                 msg == Response(ReqId, ListFrags - fragsleft + 1)
      <3>1. /\ xoe = "odl" /\ RespondOrDrop(msg, s)
            /\ xoe' = IF fragsleft = 1 /\ IdleOut # {} THEN "none" ELSE "odl"
            /\ fragsleft' = IF IdleOut = {} THEN fragsleft ELSE fragsleft - 1
        BY <2>3 DEF CoeListCont
      <3>2. MBX[0] \in RequestSet /\ fragsleft \in 1 .. ListFrags - 1
        BY <3>1 DEF TransferInv
      <3>3. ListFrags - fragsleft + 1 \in 1 .. ListFrags
        BY <3>2
      <3>4. msg \in ResponseSet
        BY <3>2, <3>3, MessageReq, ResponseType DEF ReqId
      <3>5. s \in {"idle", "inclaim"}
        OBVIOUS
      <3> HIDE DEF msg
      <3>6. SlotTypes' /\ SlotsConsistent' /\ FilledInv' /\ state'[0] = s /\ MBX'[0] \in RequestSet
        BY <2>2, <3>1, <3>2, <3>4, <3>5
      <3>7. xoe' \in {"none", "odl"} /\ fragsleft' \in 0 .. ListFrags
        BY <3>1, <3>2
      <3>8. TransferInv'
        BY <3>1, <3>2, <3>6 DEF TransferInv
      <3> QED
        BY <3>6, <3>7, <3>8
    <2>4. CASE CoeShort
      <3>1. MBX[0] \in RequestSet /\ xoe = "none"
        BY <2>4 DEF CoeShort, NewRequest, TransferInv
      <3>2. Response(ReqId, 1) \in ResponseSet
        BY <3>1, MessageReq, ResponseType DEF ReqId
      <3>3. RespondOrDrop(Response(ReqId, 1), "inclaim") /\ UNCHANGED <<xoe, fragsleft>>
        BY <2>4 DEF CoeShort
      <3>4. SlotTypes' /\ SlotsConsistent' /\ FilledInv' /\ MBX'[0] \in RequestSet
        BY <2>2, <3>1, <3>2, <3>3
      <3> QED
        BY <3>1, <3>3, <3>4 DEF TransferInv, RunTypes
    <2>5. CASE (NewRequest \/ xoe = "coe") /\ (CoeSdo \/ CoeInfo \/ CoeList)
      <3>1. MBX[0] \in RequestSet
        BY <2>5 DEF NewRequest, TransferInv
      <3>2. Response(ReqId, 1) \in ResponseSet
        BY <3>1, MessageReq, ResponseType DEF ReqId
      <3>3. CASE CoeSdo
        <4>1. RespondOrDrop(Response(ReqId, 1), "idle") /\ xoe' = "none" /\ fragsleft' = fragsleft
          BY <3>3 DEF CoeSdo
        <4>2. SlotTypes' /\ SlotsConsistent' /\ FilledInv' /\ state'[0] = "idle"
          BY <2>2, <3>1, <3>2, <4>1
        <4> QED
          BY <4>1, <4>2 DEF TransferInv, RunTypes
      <3>4. CASE CoeInfo
        <4> DEFINE s == IF IdleOut = {} THEN "inclaim" ELSE "idle"
        <4>1. /\ RespondOrDrop(Response(ReqId, 1), s) /\ s \in {"idle", "inclaim"}
              /\ xoe' = (IF IdleOut = {} THEN "coe" ELSE "none") /\ fragsleft' = fragsleft
          BY <3>4 DEF CoeInfo
        <4>2. SlotTypes' /\ SlotsConsistent' /\ FilledInv' /\ state'[0] = s /\ MBX'[0] \in RequestSet
          BY <2>2, <3>1, <3>2, <4>1
        <4> QED
          BY <4>1, <4>2 DEF TransferInv, RunTypes
      <3>5. CASE CoeList
        <4>1. /\ RespondOrDrop(Response(ReqId, 1), "inclaim")
              /\ xoe' = IF IdleOut = {} THEN "coe" ELSE "odl"
              /\ fragsleft' = IF IdleOut = {} THEN fragsleft ELSE ListFrags - 1
          BY <3>5 DEF CoeList
        <4>2. SlotTypes' /\ SlotsConsistent' /\ FilledInv' /\ state'[0] = "inclaim" /\ MBX'[0] \in RequestSet
          BY <2>2, <3>1, <3>2, <4>1
        <4> QED
          BY <4>1, <4>2 DEF TransferInv, RunTypes
      <3> QED
        BY <2>5, <3>3, <3>4, <3>5
    <2> QED
      BY <2>1, <2>3, <2>4, <2>5 DEF ESC_coeprocess, CoeWork
  <1>3. RunTypes'
    BY <1>1, <1>2 DEF RunTypes
  <1>4. LinkTypes' /\ FlagTypes'
    BY <1>1 DEF LinkTypes, FlagTypes
  <1>5. PostedInv' /\ InboxInv'
    BY <1>1 DEF PostedInv, InboxInv
  <1> QED
    BY <1>2, <1>3, <1>4, <1>5

\* What no protocol took is answered and freed.
LEMMA XoeKeeps ==
  ASSUME IInv, ESC_xoeprocess
  PROVE  IInv'
  <1> USE DEF IInv, TypeOK, cached, esc, master, handled
  <1>1. UNCHANGED <<handled, proto>> /\ pc' \in {"mbx", "sm"}
    BY DEF ESC_xoeprocess
  <1>2. SlotTypes' /\ SlotsConsistent' /\ FilledInv' /\ TransferInv'
    <2>1. CASE MBXrun /\ NewRequest
      <3>1. MBX[0] \in RequestSet /\ xoe = "none"
        BY <2>1 DEF NewRequest, TransferInv
      <3>2. PICK k \in {1, 2} : RespondOrDrop(Response(ReqId, k), "idle")
        BY <2>1 DEF ESC_xoeprocess
      <3>3. Response(ReqId, k) \in ResponseSet
        BY <3>1, MessageReq, ResponseType DEF ReqId
      <3>4. SlotTypes' /\ SlotsConsistent' /\ FilledInv' /\ state'[0] = "idle"
        BY <1>1, <3>1, <3>2, <3>3, Responded
      <3> QED
        BY <1>1, <3>1, <3>4 DEF TransferInv, proto
    <2>2. CASE ~(MBXrun /\ NewRequest)
      <3>1. UNCHANGED <<state, MBX, txcue>>
        BY <2>2 DEF ESC_xoeprocess
      <3> QED
        BY <1>1, <3>1, SlotsKept DEF slots, proto, TransferInv
    <2> QED
      BY <2>1, <2>2
  <1>3. RunTypes'
    BY <1>1 DEF RunTypes, proto
  <1>4. LinkTypes' /\ FlagTypes'
    BY <1>1 DEF LinkTypes, FlagTypes
  <1>5. PostedInv' /\ InboxInv'
    BY <1>1 DEF PostedInv, InboxInv
  <1> QED
    BY <1>2, <1>3, <1>4, <1>5

---------------------------------------------------------------------------
(***************************************************************************)
(* The theorems.                                                           *)
(***************************************************************************)
LEMMA InitInv == Init => IInv
  <1> SUFFICES ASSUME Init PROVE IInv
    OBVIOUS
  <1> USE DEF Init
  <1>1. SlotTypes
    BY DEF SlotTypes, Buffers, BufferStates, Messages
  <1>2. RunTypes
    BY DEF RunTypes
  <1>3. LinkTypes /\ FlagTypes
    <2>1. LinkTypes
      BY DEF LinkTypes, Messages
    <2>2. repReq \in BOOLEAN /\ repAck \in BOOLEAN
      OBVIOUS
    <2>3. FlagTypes
      BY <2>2 DEF FlagTypes
    <2> QED
      BY <2>1, <2>3
  <1>4. SlotsConsistent
    <2>1. OutReq = {}
      BY DEF OutReq, OutBuffers, Buffers
    <2> QED
      BY <2>1, FS_EmptySet DEF SlotsConsistent, OutBuffers, Buffers
  <1>5. PostedInv /\ FilledInv /\ InboxInv /\ TransferInv
    BY DEF PostedInv, FilledInv, InboxInv, TransferInv, OutBuffers, Buffers
  <1> QED
    BY <1>1, <1>2, <1>3, <1>4, <1>5 DEF IInv, TypeOK

LEMMA StepInv == IInv /\ [Next]_vars => IInv'
  <1>1. ASSUME IInv, UNCHANGED vars PROVE IInv'
    BY <1>1 DEF IInv, TypeOK, SlotTypes, RunTypes, LinkTypes, FlagTypes, SlotsConsistent,
                OutReq, PostedInv, FilledInv, InboxInv, TransferInv, vars
  <1>2. ASSUME IInv, Next PROVE IInv'
    BY <1>2, MasterKeeps, StateKeeps, QuietKeeps, OutboxReadKeeps, RepeatKeeps, PostKeeps,
       ReadKeeps, CoeKeeps, XoeKeeps DEF Next, Slave, ESC_mbxprocess
  <1> QED
    BY <1>1, <1>2

LEMMA Inductive == Spec => []IInv
  BY InitInv, StepInv, PTL DEF Spec

\* Every variable keeps its type: no buffer index leaves the pool and txcue is never
\* decremented below zero.
THEOREM TypeCorrect == Spec => []TypeOK
  <1>1. IInv => TypeOK
    BY DEF IInv
  <1> QED
    BY <1>1, Inductive, PTL

\* The posted buffer, the backup and the queue counter agree with the buffer states after
\* any sequence of calls, repeats, losses and restarts, for any number of buffers.
THEOREM SlotsCorrect == Spec => []SlotsConsistent
  <1>1. IInv => SlotsConsistent
    BY DEF IInv
  <1> QED
    BY <1>1, Inductive, PTL

\* A protocol transfer in progress holds a claimed request.
THEOREM TransferCorrect == Spec => []TransferOwnsRequest
  <1>1. IInv => TransferOwnsRequest
    BY DEF IInv, TransferInv, TransferOwnsRequest
  <1> QED
    BY <1>1, Inductive, PTL

---------------------------------------------------------------------------
(***************************************************************************)
(* Each request is answered once.                                          *)
(***************************************************************************)
\* An empty mailbox is answered before the check for a repetition.
NoEmpty == "empty" \notin Kinds

\* The requests answered are no newer than the last one read, and a request in the inbox
\* is that one again or a newer one.
Numbered ==
  /\ produced \in Seq(ResponseSet)
  /\ \A i \in 1 .. Len(produced) : produced[i].req <= mbxincnt
  /\ mbxincnt <= lastReq
  /\ inbox # NoMsg => mbxincnt <= inbox.req /\ inbox.req <= lastReq

\* The message of its answer that a claimed request gets next.
NextPart ==
  IF xoe = "odl" THEN ListFrags - fragsleft + 1
  ELSE IF xoe = "none" /\ pc = "xoe" /\ Kind = "short" THEN 2 ELSE 1

\* A claimed request is the last one read, a protocol takes it in the same turn of the
\* loop, and only the messages before the next one have been produced for it.
ClaimInv ==
  state[0] = "inclaim" =>
    /\ MBXrun /\ MBX[0].req = mbxincnt
    /\ xoe = "none" => pc \in {"coe", "xoe"}
    /\ \A i \in 1 .. Len(produced) : produced[i].req = mbxincnt => produced[i].n < NextPart

\* Only an empty mailbox is answered again when it is sent again.
Once == NoEmpty => AnsweredOnce

OnceInv == Numbered /\ Once /\ ClaimInv

\* The next message of the answer to the claimed request.
LEMMA ProducedOnce ==
  ASSUME TypeOK, OnceInv, state[0] = "inclaim", NEW m \in ResponseSet, m.req = mbxincnt,
         m.n >= NextPart, NextPart \in Nat, produced' = Append(produced, m),
         UNCHANGED <<mbxincnt, lastReq, inbox>>
  PROVE  /\ Numbered' /\ Once'
         /\ \A i \in 1 .. Len(produced') :
              produced'[i].req = mbxincnt => produced'[i].n <= m.n
  <1> DEFINE k == Len(produced)
  <1>1. /\ k \in Nat /\ Len(produced') = k + 1 /\ produced' \in Seq(ResponseSet)
        /\ produced'[k + 1] = m /\ \A i \in 1 .. k : produced'[i] = produced[i]
    BY DEF OnceInv, Numbered
  <1>2. \A i \in 1 .. k : /\ produced[i] \in ResponseSet /\ produced[i].req <= mbxincnt
                          /\ produced[i].req = mbxincnt => produced[i].n < NextPart
    BY DEF OnceInv, Numbered, ClaimInv
  <1>3. \A r \in ResponseSet : r.n \in Nat /\ r.req \in Nat
    BY DEF ResponseSet
  <1>4. mbxincnt \in Nat
    BY DEF TypeOK, RunTypes
  <1> HIDE DEF k
  <1>5. \A i \in 1 .. k : /\ produced[i] # m
                          /\ produced[i].req = mbxincnt => produced[i].n <= m.n
    BY <1>2, <1>3
  <1>6. \A i \in 1 .. k + 1 : i \in 1 .. k \/ i = k + 1
    BY <1>1
  <1>7. Once'
    <2> SUFFICES ASSUME NoEmpty, NEW i \in 1 .. k + 1, NEW j \in 1 .. k + 1, i # j
                 PROVE  produced'[i] # produced'[j]
      BY <1>1 DEF Once, AnsweredOnce
    <2>1. CASE i \in 1 .. k /\ j \in 1 .. k
      BY <1>1, <2>1 DEF OnceInv, Once, AnsweredOnce, k
    <2>2. CASE i \in 1 .. k /\ j = k + 1
      BY <1>1, <1>5, <2>2
    <2>3. CASE i = k + 1 /\ j \in 1 .. k
      BY <1>1, <1>5, <2>3
    <2> QED
      BY <1>6, <2>1, <2>2, <2>3
  <1>8. Numbered'
    <2>1. \A i \in 1 .. k + 1 : produced'[i].req <= mbxincnt
      BY <1>1, <1>2, <1>4, <1>6
    <2> QED
      BY <1>1, <2>1 DEF OnceInv, Numbered
  <1>9. \A i \in 1 .. k + 1 : produced'[i].req = mbxincnt => produced'[i].n <= m.n
    BY <1>1, <1>3, <1>5, <1>6
  <1> QED
    BY <1>1, <1>7, <1>8, <1>9

\* Steps that produce nothing and leave the request alone.
LEMMA NothingProduced ==
  ASSUME OnceInv, UNCHANGED <<produced, mbxincnt, lastReq, inbox, xoe, fragsleft, MBXrun>>,
         state'[0] = "inclaim" => state[0] = "inclaim" /\ xoe # "none",
         UNCHANGED MBX
  PROVE  OnceInv'
  <1>1. Numbered' /\ Once'
    BY DEF OnceInv, Numbered, Once, AnsweredOnce
  <1>2. xoe # "none" => NextPart' = NextPart
    BY DEF NextPart
  <1>3. ClaimInv'
    BY <1>2 DEF OnceInv, ClaimInv
  <1> QED
    BY <1>1, <1>3 DEF OnceInv

\* Before ESC_mbxprocess no request waits for a protocol to take it.
LEMMA Untaken ==
  ASSUME OnceInv, pc \in {"sm", "mbx"}, state[0] = "inclaim"
  PROVE  xoe # "none"
  BY DEF OnceInv, ClaimInv

\* The master numbers its requests, and sends a second time only the last one.
LEMMA MasterOnce ==
  ASSUME IInv, OnceInv, Master
  PROVE  OnceInv'
  <1> USE DEF IInv, TypeOK, slots, proto, cached, slave
  <1>1. CASE Send \/ Retry
    <2>1. /\ UNCHANGED <<produced, mbxincnt, xoe, fragsleft, MBXrun, pc, state, MBX>>
          /\ lastReq <= lastReq' /\ mbxincnt <= inbox'.req /\ inbox'.req <= lastReq'
      <3>1. CASE Send
        <4>1. lastReq' = lastReq + 1 /\ inbox'.req = lastReq + 1
          BY <3>1 DEF Send, Request
        <4> QED
          BY <3>1, <4>1 DEF Send, LinkTypes, RunTypes, OnceInv, Numbered
      <3>2. CASE Retry
        BY <3>2 DEF Retry, LinkTypes, RunTypes
      <3> QED
        BY <1>1, <3>1, <3>2
    <2>2. mbxincnt \in Nat /\ lastReq \in Nat /\ lastReq' \in Nat
      <3>1. lastReq' = lastReq \/ lastReq' = lastReq + 1
        BY <1>1 DEF Send, Retry
      <3> QED
        BY <3>1 DEF LinkTypes, RunTypes
    <2>3. Numbered'
      BY <2>1, <2>2 DEF OnceInv, Numbered
    <2>4. NextPart' = NextPart
      BY <2>1 DEF NextPart, Kind
    <2> QED
      BY <2>1, <2>3, <2>4 DEF OnceInv, Once, AnsweredOnce, ClaimInv
  <1>2. CASE Read \/ ReadLost \/ AskRepeat \/ RequestState
    <2>1. UNCHANGED <<produced, mbxincnt, xoe, fragsleft, MBXrun, pc, state, MBX, lastReq, inbox>>
      BY <1>2, Zenon DEF Read, ReadLost, AskRepeat, RequestState
    <2>2. NextPart' = NextPart
      BY <2>1 DEF NextPart, Kind
    <2> QED
      BY <2>1, <2>2 DEF OnceInv, Numbered, Once, AnsweredOnce, ClaimInv
  <1> QED
    BY <1>1, <1>2 DEF Master

\* The state requests come before ESC_mbxprocess: stopping forgets every answer.
LEMMA StateOnce ==
  ASSUME IInv, OnceInv, ESC_stopmbx \/ ESC_startmbx \/ ESC_checkmbx \/ NoEvent
  PROVE  OnceInv'
  <1> USE DEF IInv, TypeOK, slots, proto, cached, esc, master
  <1>1. pc = "sm"
    BY DEF ESC_stopmbx, ESC_startmbx, ESC_checkmbx, NoEvent
  <1>2. CASE ESC_stopmbx
    <2>1. /\ produced' = <<>> /\ mbxincnt' = 0 /\ inbox' = NoMsg /\ lastReq' = lastReq
          /\ state'[0] = "idle"
      BY <1>2 DEF ESC_stopmbx, Buffers
    <2>2. lastReq \in Nat
      BY DEF LinkTypes
    <2> QED
      BY <2>1, <2>2 DEF OnceInv, Numbered, Once, AnsweredOnce, ClaimInv
  <1>3. CASE ESC_startmbx
    <2>1. /\ UNCHANGED <<produced, mbxincnt, lastReq, inbox, xoe, fragsleft, state, MBX>>
          /\ MBXrun'
      BY <1>3, Zenon DEF ESC_startmbx
    <2>2. NextPart' = NextPart \/ xoe = "none"
      BY <2>1 DEF NextPart
    <2>3. Numbered' /\ Once'
      BY <2>1 DEF OnceInv, Numbered, Once, AnsweredOnce
    <2> QED
      BY <1>1, <2>1, <2>2, <2>3, Untaken DEF OnceInv, ClaimInv
  <1>4. CASE ESC_checkmbx \/ NoEvent
    <2>1. UNCHANGED <<produced, mbxincnt, lastReq, inbox, xoe, fragsleft, state, MBX, MBXrun>>
      BY <1>4, Zenon DEF ESC_checkmbx, NoEvent
    <2> QED
      BY <1>1, <2>1, Untaken, NothingProduced
  <1> QED
    BY <1>2, <1>3, <1>4

\* What moves messages to and from the outbox leaves the request in buffer 0 alone.
LEMMA OutboxKeepsRequest ==
  ASSUME IInv, MbxStopped \/ MbxOutboxRead \/ MbxRepeat \/ MbxPost \/ MbxIdle
  PROVE  state'[0] = state[0]
  <1> USE DEF IInv, TypeOK, slots
  <1>1. 0 \in Buffers /\ 0 \notin OutBuffers
    BY DEF Buffers, OutBuffers
  <1>2. CASE MbxStopped \/ MbxIdle
    BY <1>2 DEF MbxStopped, MbxIdle
  <1>3. CASE MbxOutboxRead
    BY <1>1, <1>3 DEF MbxOutboxRead, OutboxRead, NewBackup
  <1>4. CASE MbxRepeat
    BY <1>1, <1>4 DEF MbxRepeat, SlotTypes
  <1>5. CASE MbxPost
    <2>1. Highest(OutReq) \in OutReq
      BY <1>5, HighestIn DEF MbxPost, CanPost, OutReq
    <2> QED
      BY <1>1, <1>5, <2>1 DEF MbxPost, OutReq, SlotTypes
  <1> QED
    BY <1>2, <1>3, <1>4, <1>5

\* Moving messages to and from the outbox.
LEMMA OutboxOnce ==
  ASSUME IInv, OnceInv, MbxStopped \/ MbxOutboxRead \/ MbxRepeat \/ MbxPost \/ MbxIdle
  PROVE  OnceInv'
  <1> USE DEF IInv, TypeOK, slots, proto, cached, esc, master
  <1>1. /\ pc = "mbx"
        /\ UNCHANGED <<produced, mbxincnt, lastReq, inbox, xoe, fragsleft, MBX, MBXrun>>
    BY Zenon DEF MbxStopped, MbxOutboxRead, MbxRepeat, MbxPost, MbxIdle
  <1>2. state'[0] = state[0]
    BY OutboxKeepsRequest
  <1> QED
    BY <1>1, <1>2, Untaken, NothingProduced

\* A request read again is dropped, a new one is newer than all that was answered; only an
\* empty one may be answered again.
LEMMA ReadOnce ==
  ASSUME IInv, OnceInv, MbxRead
  PROVE  OnceInv'
  <1> USE DEF IInv, TypeOK, proto, cached, esc, master
  <1>1. MBXrun /\ Stat[0] /\ state[0] = "idle" /\ mbxoutpost = 0 /\ xoe = "none"
    BY DEF MbxRead, CanRead
  <1>2. inbox \in RequestSet /\ inbox # NoMsg
    BY <1>1, StatSees DEF LinkTypes
  <1>3. /\ inbox' = NoMsg /\ mbxincnt' = inbox.req /\ pc' = "coe"
        /\ UNCHANGED <<lastReq, xoe, fragsleft, MBXrun>>
    BY DEF MbxRead, Return
  <1>4. 0 \in Buffers /\ IdleOut \subseteq Buffers \ {0}
    BY DEF Buffers, IdleOut, OutBuffers
  <1>5. mbxincnt <= inbox.req /\ inbox.req <= lastReq /\ inbox.req \in Nat /\ mbxincnt \in Nat
    BY <1>2, MessageReq DEF OnceInv, Numbered, RunTypes
  <1>6. \A i \in 1 .. Len(produced) : /\ produced[i] \in ResponseSet /\ produced[i].req \in Nat
                                      /\ produced[i].req <= mbxincnt
    <2>1. \A m \in ResponseSet : m.req \in Nat
      BY DEF ResponseSet
    <2> QED
      BY <2>1 DEF OnceInv, Numbered
  <1>7. CASE inbox.kind = "empty" /\ IdleOut # {}
    <2> DEFINE n == Highest(IdleOut)
               m == Response(inbox.req, 1)
               k == Len(produced)
    <2>1. /\ state' = [state EXCEPT ![n] = "outreq"] /\ produced' = Append(produced, m)
      BY <1>7 DEF MbxRead
    <2>2. n \in IdleOut
      BY <1>7, HighestIn DEF IdleOut
    <2>3. m \in ResponseSet /\ m.req = inbox.req
      BY <1>2, MessageReq, ResponseType
    <2>4. state'[0] = "idle"
      BY <1>1, <1>4, <2>1, <2>2 DEF SlotTypes
    <2>5. k \in Nat /\ produced \in Seq(ResponseSet)
      BY DEF OnceInv, Numbered
    <2> HIDE DEF m
    <2>6. /\ produced' \in Seq(ResponseSet) /\ Len(produced') = k + 1 /\ produced'[k + 1] = m
          /\ \A i \in 1 .. k : produced'[i] = produced[i]
      BY <2>1, <2>3, <2>5
    <2> HIDE DEF k
    <2>7. \A i \in 1 .. k : produced[i].req <= inbox.req
      BY <1>5, <1>6 DEF k
    <2>8. \A i \in 1 .. k + 1 : produced'[i].req <= inbox.req
      <3>1. \A i \in 1 .. k + 1 : i \in 1 .. k \/ i = k + 1
        BY <2>5 DEF k
      <3> QED
        BY <1>5, <2>3, <2>6, <2>7, <3>1
    <2>9. Numbered'
      BY <1>3, <1>5, <2>6, <2>8 DEF Numbered
    <2>10. ~NoEmpty
      BY <1>2, <1>7 DEF NoEmpty, RequestSet
    <2> QED
      BY <2>4, <2>9, <2>10 DEF OnceInv, Once, ClaimInv
  <1>8. CASE ~(inbox.kind = "empty" /\ IdleOut # {})
    <2>1. /\ produced' = produced /\ MBX' = [MBX EXCEPT ![0] = inbox]
          /\ state' = [state EXCEPT ![0] = IF inbox.req = mbxincnt \/ inbox.kind = "empty"
                                           THEN "idle" ELSE "inclaim"]
      BY <1>8 DEF MbxRead
    <2>2. /\ MBX'[0] = inbox
          /\ state'[0] = "inclaim" => inbox.req # mbxincnt
      BY <1>4, <2>1 DEF SlotTypes
    <2>3. Numbered' /\ Once'
      <3>1. \A i \in 1 .. Len(produced) : produced[i].req <= inbox.req
        BY <1>5, <1>6
      <3> QED
        BY <1>3, <1>5, <2>1, <3>1 DEF OnceInv, Numbered, Once, AnsweredOnce
    <2>4. ClaimInv'
      <3> SUFFICES ASSUME inbox.req # mbxincnt
                   PROVE  \A i \in 1 .. Len(produced) : produced[i].req # inbox.req
        BY <1>1, <1>3, <2>1, <2>2, Zenon DEF ClaimInv
      <3> QED
        BY <1>5, <1>6
    <2> QED
      BY <2>3, <2>4 DEF OnceInv
  <1> QED
    BY <1>7, <1>8

\* The number of the next message, and what it depends on.
LEMMA NextPartType ==
  ASSUME RunTypes, TransferInv
  PROVE  NextPart \in 1 .. ListFrags /\ (xoe # "odl" => NextPart \in {1, 2})
  BY DEF RunTypes, TransferInv, NextPart

\* One message of the answer is produced, or dropped when no buffer is free; the request
\* is left in state s.
LEMMA AnswerOnce ==
  ASSUME IInv, OnceInv, state[0] = "inclaim", NEW k \in 1 .. ListFrags, k >= NextPart,
         NEW s \in {"idle", "inclaim"}, RespondOrDrop(Response(ReqId, k), s),
         UNCHANGED <<mbxoutpost, mbxbackup, mbxincnt, lastReq, inbox, MBXrun>>,
         s = "inclaim" => /\ xoe' = "none" => pc' \in {"coe", "xoe"}
                          /\ NextPart' \in Nat
                          /\ IF IdleOut = {} THEN NextPart <= NextPart' ELSE k < NextPart'
  PROVE  OnceInv'
  <1> USE DEF IInv, TypeOK
  <1> DEFINE m == Response(ReqId, k)
  <1>1. MBX[0] \in RequestSet /\ ReqId = mbxincnt /\ MBXrun
    BY DEF TransferInv, OnceInv, ClaimInv, ReqId
  <1>2. m \in ResponseSet /\ m.req = mbxincnt /\ m.n = k
    <2>1. ReqId \in 1 .. MaxReq
      BY <1>1, MessageReq DEF ReqId
    <2> QED
      BY <1>1, <2>1, ResponseType DEF Response
  <1>3. state'[0] = s /\ MBX'[0] = MBX[0]
    BY <1>1, <1>2, Responded
  <1>4. NextPart \in Nat
    BY NextPartType
  <1>5. \A r \in ResponseSet : r.n \in Nat
    BY DEF ResponseSet
  <1> HIDE DEF m
  <1>6. CASE Respond(m, s)
    <2>1. produced' = Append(produced, m) /\ IdleOut # {}
      BY <1>6 DEF Respond
    <2>2. /\ Numbered' /\ Once'
          /\ \A i \in 1 .. Len(produced') :
               produced'[i].req = mbxincnt => produced'[i].n <= m.n
      BY <1>2, <1>4, <2>1, ProducedOnce
    <2>3. \A i \in 1 .. Len(produced') : produced'[i] \in ResponseSet
      BY <2>2 DEF Numbered
    <2>4. ClaimInv'
      <3> SUFFICES ASSUME s = "inclaim", NEW i \in 1 .. Len(produced'),
                          produced'[i].req = mbxincnt
                   PROVE  produced'[i].n < NextPart'
        BY <1>1, <1>3 DEF ClaimInv, ReqId
      <3>1. produced'[i].n <= k /\ produced'[i].n \in Nat /\ k < NextPart' /\ NextPart' \in Nat
        BY <1>2, <1>5, <2>1, <2>2, <2>3
      <3> QED
        BY <3>1
    <2> QED
      BY <2>2, <2>4 DEF OnceInv
  <1>7. CASE NoBuffer(s)
    <2>1. produced' = produced /\ IdleOut = {}
      BY <1>7 DEF NoBuffer
    <2>2. Numbered' /\ Once'
      BY <2>1 DEF OnceInv, Numbered, Once, AnsweredOnce
    <2>3. ClaimInv'
      <3> SUFFICES ASSUME s = "inclaim", NEW i \in 1 .. Len(produced),
                          produced[i].req = mbxincnt
                   PROVE  produced[i].n < NextPart'
        BY <1>1, <1>3, <2>1 DEF ClaimInv, ReqId
      <3>1. produced[i].n < NextPart /\ produced[i] \in ResponseSet
        BY DEF OnceInv, Numbered, ClaimInv
      <3>2. produced[i].n \in Nat /\ NextPart <= NextPart' /\ NextPart' \in Nat
        BY <1>5, <2>1, <3>1
      <3> QED
        BY <1>4, <3>1, <3>2
    <2> QED
      BY <2>2, <2>3 DEF OnceInv
  <1> QED
    BY <1>6, <1>7 DEF RespondOrDrop, m

\* The CoE handlers produce the messages of an answer one by one.
LEMMA CoeOnce ==
  ASSUME IInv, OnceInv, ESC_coeprocess
  PROVE  OnceInv'
  <1> USE DEF IInv, TypeOK
  <1>1. /\ pc = "coe" /\ pc' = "xoe"
        /\ UNCHANGED <<mbxoutpost, mbxbackup, mbxincnt, lastReq, inbox, MBXrun>>
    BY Zenon DEF ESC_coeprocess, handled, esc, master
  <1>2. CASE (~MBXrun \/ CoeIdle) /\ UNCHANGED <<state, MBX, txcue, produced, proto>>
    <2>1. UNCHANGED <<state, MBX, produced, xoe, fragsleft>>
      BY <1>2, Zenon DEF proto
    <2>2. state[0] = "inclaim" => NextPart' = NextPart
      <3> SUFFICES ASSUME state[0] = "inclaim" PROVE NextPart' = NextPart
        OBVIOUS
      <3>1. CoeIdle
        BY <1>2 DEF OnceInv, ClaimInv
      <3>2. xoe = "none" => Kind # "short"
        BY <3>1 DEF CoeIdle, NewRequest
      <3> QED
        BY <1>1, <2>1, <3>2 DEF NextPart, Kind
    <2> QED
      BY <1>1, <2>1, <2>2 DEF OnceInv, Numbered, Once, AnsweredOnce, ClaimInv
  <1>3. CASE CoeListCont
    <2> DEFINE last == fragsleft = 1 /\ IdleOut # {}
               k == ListFrags - fragsleft + 1
               s == IF last THEN "idle" ELSE "inclaim"
    <2>1. /\ xoe = "odl" /\ RespondOrDrop(Response(ReqId, k), s)
          /\ xoe' = IF last THEN "none" ELSE "odl"
          /\ fragsleft' = IF IdleOut = {} THEN fragsleft ELSE fragsleft - 1
      BY <1>3, Zenon DEF CoeListCont
    <2>2. state[0] = "inclaim" /\ fragsleft \in 1 .. ListFrags - 1
      BY <2>1 DEF TransferInv
    <2>3. k \in 1 .. ListFrags /\ NextPart = k /\ k >= NextPart
      BY <2>1, <2>2 DEF NextPart
    <2>4. s = "inclaim" => /\ xoe' = "odl" /\ NextPart' = ListFrags - fragsleft' + 1
      BY <2>1 DEF NextPart
    <2>5. s = "inclaim" => /\ xoe' = "none" => pc' \in {"coe", "xoe"}
                           /\ NextPart' \in Nat
                           /\ IF IdleOut = {} THEN NextPart <= NextPart' ELSE k < NextPart'
      <3>1. IdleOut # {} => fragsleft' = fragsleft - 1
        BY <2>1
      <3>2. IdleOut = {} => fragsleft' = fragsleft
        BY <2>1
      <3> QED
        BY <2>2, <2>3, <2>4, <3>1, <3>2
    <2>6. s \in {"idle", "inclaim"}
      OBVIOUS
    <2> HIDE DEF k, s
    <2> QED
      BY <1>1, <2>1, <2>2, <2>3, <2>5, <2>6, AnswerOnce
  <1>4. CASE CoeShort
    <2>1. /\ xoe = "none" /\ state[0] = "inclaim" /\ Kind = "short"
          /\ RespondOrDrop(Response(ReqId, 1), "inclaim") /\ xoe' = xoe
      BY <1>4, Zenon DEF CoeShort, NewRequest, proto
    <2>2. NextPart = 1
      BY <1>1, <2>1 DEF NextPart
    <2>3. MBX'[0] = MBX[0]
      <3>1. MBX[0] \in RequestSet /\ Response(ReqId, 1) \in ResponseSet
        BY <2>1, MessageReq, ResponseType DEF TransferInv, ReqId
      <3> QED
        BY <1>1, <2>1, <3>1, Responded
    <2>4. NextPart' = 2
      BY <1>1, <2>1, <2>3 DEF NextPart, Kind
    <2> QED
      BY <1>1, <2>1, <2>2, <2>4, AnswerOnce
  <1>5. CASE (NewRequest \/ xoe = "coe") /\ (CoeSdo \/ CoeInfo \/ CoeList)
    <2>1. state[0] = "inclaim"
      BY <1>5 DEF NewRequest, TransferInv
    <2>2. xoe # "odl" /\ NextPart = 1
      BY <1>1, <1>5 DEF NextPart, NewRequest
    <2>3. CASE CoeSdo
      <3>1. RespondOrDrop(Response(ReqId, 1), "idle")
        BY <2>3, Zenon DEF CoeSdo
      <3> QED
        BY <1>1, <2>1, <2>2, <3>1, AnswerOnce
    <2>4. CASE CoeInfo
      <3> DEFINE s == IF IdleOut = {} THEN "inclaim" ELSE "idle"
      <3>1. RespondOrDrop(Response(ReqId, 1), s) /\ s \in {"idle", "inclaim"}
        BY <2>4, Zenon DEF CoeInfo
      <3>2. s = "inclaim" => /\ xoe' = "coe" /\ NextPart' = 1 /\ IdleOut = {}
        BY <2>4 DEF CoeInfo, NextPart
      <3> HIDE DEF s
      <3> QED
        BY <1>1, <2>1, <2>2, <3>1, <3>2, AnswerOnce
    <2>5. CASE CoeList
      <3>1. /\ RespondOrDrop(Response(ReqId, 1), "inclaim")
            /\ xoe' = IF IdleOut = {} THEN "coe" ELSE "odl"
            /\ fragsleft' = IF IdleOut = {} THEN fragsleft ELSE ListFrags - 1
        BY <2>5, Zenon DEF CoeList
      <3>2. IF IdleOut = {} THEN xoe' = "coe" /\ NextPart' = 1 ELSE xoe' = "odl" /\ NextPart' = 2
        BY <3>1 DEF NextPart
      <3> QED
        BY <1>1, <2>1, <2>2, <3>1, <3>2, AnswerOnce
    <2> QED
      BY <1>5, <2>3, <2>4, <2>5
  <1> QED
    BY <1>2, <1>3, <1>4, <1>5, Zenon DEF ESC_coeprocess, CoeWork

\* ESC_xoeprocess leaves no request that a protocol did not take.
LEMMA XoeOnce ==
  ASSUME IInv, OnceInv, ESC_xoeprocess
  PROVE  OnceInv'
  <1> USE DEF IInv, TypeOK
  <1>1. /\ pc = "xoe" /\ UNCHANGED <<xoe, fragsleft>>
        /\ UNCHANGED <<mbxoutpost, mbxbackup, mbxincnt, lastReq, inbox, MBXrun>>
    BY Zenon DEF ESC_xoeprocess, handled, proto, esc, master
  <1>2. CASE MBXrun /\ NewRequest
    <2> DEFINE k == IF Kind = "short" THEN 2 ELSE 1
    <2>1. RespondOrDrop(Response(ReqId, k), "idle") /\ state[0] = "inclaim" /\ xoe = "none"
      BY <1>2, Zenon DEF ESC_xoeprocess, NewRequest
    <2>2. k \in 1 .. ListFrags /\ NextPart = k /\ k >= NextPart
      BY <1>1, <2>1 DEF NextPart
    <2> HIDE DEF k
    <2> QED
      BY <1>1, <2>1, <2>2, AnswerOnce
  <1>3. CASE ~(MBXrun /\ NewRequest)
    <2>1. UNCHANGED <<state, MBX, produced>>
      BY <1>3, Zenon DEF ESC_xoeprocess
    <2>2. state[0] = "inclaim" => xoe # "none"
      BY <1>3 DEF OnceInv, ClaimInv, NewRequest
    <2> QED
      BY <1>1, <2>1, <2>2, NothingProduced
  <1> QED
    BY <1>2, <1>3

LEMMA InitOnce == Init => OnceInv
  BY DEF Init, OnceInv, Numbered, Once, AnsweredOnce, ClaimInv, Buffers

LEMMA StepOnce == IInv /\ OnceInv /\ [Next]_vars => OnceInv'
  <1> SUFFICES ASSUME IInv, OnceInv, [Next]_vars PROVE OnceInv'
    OBVIOUS
  <1>1. CASE UNCHANGED vars
    <2>1. NextPart' = NextPart
      BY <1>1 DEF vars, NextPart, Kind
    <2> QED
      BY <1>1, <2>1 DEF vars, OnceInv, Numbered, Once, AnsweredOnce, ClaimInv
  <1>2. CASE Next
    BY <1>2, MasterOnce, StateOnce, OutboxOnce, ReadOnce, CoeOnce, XoeOnce
       DEF Next, Slave, ESC_mbxprocess
  <1> QED
    BY <1>1, <1>2

LEMMA OnceInductive == Spec => [](IInv /\ OnceInv)
  BY InitInv, StepInv, InitOnce, StepOnce, PTL DEF Spec

\* A request the master sends again is not answered again, whatever is lost and however
\* often the mailboxes are stopped, and no message of an answer is produced twice.
THEOREM OnceCorrect == NoEmpty => (Spec => []AnsweredOnce)
  <1> SUFFICES ASSUME NoEmpty PROVE Spec => []AnsweredOnce
    OBVIOUS
  <1>1. IInv /\ OnceInv => AnsweredOnce
    BY DEF OnceInv, Once
  <1> QED
    BY <1>1, OnceInductive, PTL

---------------------------------------------------------------------------
(***************************************************************************)
(* Order.                                                                  *)
(***************************************************************************)
\* With the three buffers of the project, and no read lost.
Ordered == N = 3 /\ MaxLoss = 0 /\ NoEmpty

\* Nothing is lost, so no repeat is asked for and none is under way.
CalmInv ==
  /\ ~lost /\ ~smChange /\ repReq = repAck
  /\ MBXrun => ECrep = repReq /\ toggle = repReq
  /\ spent \in [retry : Nat, loss : Nat, restart : Nat]
  /\ \A b \in OutBuffers : state[b] # "again"

\* The message in the outbox is that of the posted buffer, and the event says when it has
\* been read.
OutboxInv ==
  /\ evSM1 => outbox = NoMsg
  /\ outbox # NoMsg => mbxoutpost # 0 /\ outbox = MBX[mbxoutpost]

InOutbox == IF outbox = NoMsg THEN <<>> ELSE <<outbox>>
Queued(b) == IF state[b] = "outreq" THEN <<MBX[b]>> ELSE <<>>

\* Responses wait in the order they are posted in: buffer 2 is claimed first and posted
\* first, and it is not claimed again while buffer 1 waits.
QueueInv ==
  /\ state[1] = "outreq" => state[2] # "idle"
  /\ received \in Seq(Messages)
  /\ produced = received \o InOutbox \o Queued(2) \o Queued(1)

OrderInv == CalmInv /\ OutboxInv /\ QueueInv

\* Of two buffers the search from the end finds buffer 2 first.
LEMMA HighestOfTwo ==
  ASSUME N = 3, NEW S \in SUBSET OutBuffers, 2 \in S
  PROVE  Highest(S) = 2
  <1>1. OutBuffers = {1, 2}
    BY DEF OutBuffers
  <1>2. \A m \in S : m <= 2
    BY <1>1
  <1>3. \A n \in S : (\A m \in S : m <= n) => n = 2
    BY <1>1
  <1> QED
    BY <1>2, <1>3 DEF Highest

\* What moving a message from one part of the queue to the next does.
LEMMA Appended ==
  ASSUME NEW S, NEW r \in Seq(S), NEW x \in S
  PROVE  Append(r, x) = r \o <<x>> /\ Append(r, x) \in Seq(S)
  OBVIOUS

LEMMA ReadMoves ==
  ASSUME NEW S, NEW r \in Seq(S), NEW b \in Seq(S), NEW a \in Seq(S), NEW x \in S
  PROVE  Append(r, x) \o <<>> \o b \o a = r \o <<x>> \o b \o a
  BY Appended, ConcatEmptySeq

LEMMA PostMoves ==
  ASSUME NEW S, NEW r \in Seq(S), NEW a \in Seq(S), NEW x \in S
  PROVE  /\ r \o <<>> \o <<x>> \o a = r \o <<x>> \o <<>> \o a
         /\ r \o <<>> \o <<>> \o <<x>> = r \o <<x>> \o <<>> \o <<>>
  <1>1. r \o <<x>> \in Seq(S)
    OBVIOUS
  <1>2. r \o <<>> = r /\ (r \o <<x>>) \o <<>> = r \o <<x>>
    BY <1>1, ConcatEmptySeq
  <1> QED
    BY <1>2, Zenon

LEMMA ClaimMoves ==
  ASSUME NEW S, NEW q \in Seq(S), NEW x \in S
  PROVE  /\ Append(q \o <<>> \o <<>>, x) = q \o <<x>> \o <<>>
         /\ Append(q \o <<>>, x) = q \o <<x>>
  <1>1. q \o <<>> = q /\ q \o <<x>> \in Seq(S) /\ Append(q, x) = q \o <<x>>
    BY Appended, ConcatEmptySeq
  <1>2. (q \o <<x>>) \o <<>> = q \o <<x>>
    BY <1>1, ConcatEmptySeq
  <1> QED
    BY <1>1, <1>2

Parts(p, r, o) ==
  /\ Len(p) \in Nat /\ Len(r) + Len(o) <= Len(p)
  /\ \A i \in 1 .. Len(r) : p[i] = r[i]
  /\ \A i \in 1 .. Len(o) : p[Len(r) + i] = o[i]

LEMMA QueueParts ==
  ASSUME NEW r \in Seq(Messages), NEW o \in Seq(Messages), NEW b \in Seq(Messages),
         NEW a \in Seq(Messages)
  PROVE  Parts(r \o o \o b \o a, r, o)
  BY DEF Parts

\* The parts of the queue, for three buffers.
LEMMA QueueTypes ==
  ASSUME N = 3, TypeOK
  PROVE  /\ Buffers = {0, 1, 2} /\ OutBuffers = {1, 2}
         /\ InOutbox \in Seq(Messages)
         /\ Queued(1) \in Seq(Messages) /\ Queued(2) \in Seq(Messages)
  <1>1. Buffers = {0, 1, 2} /\ OutBuffers = {1, 2}
    BY DEF Buffers, OutBuffers
  <1>2. outbox \in Messages /\ MBX[1] \in Messages /\ MBX[2] \in Messages
    BY <1>1 DEF TypeOK, LinkTypes, SlotTypes
  <1> QED
    BY <1>1, <1>2 DEF InOutbox, Queued

\* Steps that move no message.
LEMMA NothingMoved ==
  ASSUME N = 3, TypeOK, OutboxInv, QueueInv,
         UNCHANGED <<produced, received, outbox, evSM1, mbxoutpost>>,
         \A b \in OutBuffers : state'[b] = state[b] /\ MBX'[b] = MBX[b]
  PROVE  OutboxInv' /\ QueueInv'
  <1>1. OutBuffers = {1, 2} /\ Buffers = {0, 1, 2}
    BY QueueTypes
  <1>2. state'[1] = state[1] /\ state'[2] = state[2] /\ MBX'[1] = MBX[1] /\ MBX'[2] = MBX[2]
    BY <1>1
  <1>3. InOutbox' = InOutbox /\ Queued(1)' = Queued(1) /\ Queued(2)' = Queued(2)
    BY <1>2 DEF InOutbox, Queued
  <1>4. mbxoutpost # 0 => MBX'[mbxoutpost] = MBX[mbxoutpost]
    BY <1>1, <1>2 DEF TypeOK, SlotTypes
  <1>5. OutboxInv'
    BY <1>4 DEF OutboxInv
  <1>6. QueueInv'
    BY <1>2, <1>3, Zenon DEF QueueInv
  <1> QED
    BY <1>5, <1>6

\* A message the master reads is the next one; it has not been read before.
LEMMA MasterOrder ==
  ASSUME Ordered, IInv, OnceInv, OrderInv, Master
  PROVE  OrderInv'
  <1> USE DEF IInv, slots, proto, cached, slave
  <1>1. CASE Read
    <2>1. /\ outbox # NoMsg /\ outbox' = NoMsg /\ evSM1' = TRUE
          /\ received' = IF received # <<>> /\ received[Len(received)] = outbox
                         THEN received ELSE Append(received, outbox)
          /\ UNCHANGED <<produced, mbxoutpost, state, MBX>>
      BY <1>1, Zenon DEF Read, CanReceive
    <2>2. /\ received \in Seq(Messages) /\ outbox \in Messages
          /\ InOutbox = <<outbox>> /\ InOutbox' = <<>>
          /\ Queued(1)' = Queued(1) /\ Queued(2)' = Queued(2)
          /\ produced = received \o <<outbox>> \o Queued(2) \o Queued(1)
      BY <2>1 DEF OrderInv, QueueInv, InOutbox, Queued, TypeOK, LinkTypes
    <2>3. /\ Queued(1) \in Seq(Messages) /\ Queued(2) \in Seq(Messages)
          /\ <<outbox>> \in Seq(Messages) /\ Len(<<outbox>>) = 1 /\ <<outbox>>[1] = outbox
      BY <2>2, QueueTypes DEF Ordered
    <2>4. received' = Append(received, outbox)
      <3> SUFFICES ASSUME received # <<>>, received[Len(received)] = outbox PROVE FALSE
        BY <2>1
      <3> DEFINE k == Len(received)
      <3>1. k \in Nat /\ k >= 1
        BY <2>2
      <3>2. /\ k + 1 <= Len(produced) /\ produced[k] = received[k]
            /\ produced[k + 1] = outbox
        <4> HIDE DEF k
        <4>1. /\ k + Len(<<outbox>>) <= Len(produced)
              /\ \A i \in 1 .. k : produced[i] = received[i]
              /\ \A i \in 1 .. Len(<<outbox>>) : produced[k + i] = <<outbox>>[i]
          <5>1. Parts(produced, received, <<outbox>>)
            BY ONLY <2>2, <2>3, QueueParts, Zenon
          <5> QED
            BY ONLY <5>1, Zenon DEF k, Parts
        <4> QED
          BY <2>3, <3>1, <4>1
      <3>3. Len(produced) \in Nat
        BY DEF OnceInv, Numbered
      <3>4. k \in 1 .. Len(produced) /\ k + 1 \in 1 .. Len(produced) /\ k # k + 1
        BY <3>1, <3>2, <3>3
      <3>5. produced[k] # produced[k + 1]
        BY <3>4, Zenon DEF Ordered, OnceInv, Once, AnsweredOnce
      <3> QED
        BY <3>2, <3>5
    <2>5. produced' = received' \o InOutbox' \o Queued(2)' \o Queued(1)'
      <3>1. Append(received, outbox) \o <<>> \o Queued(2) \o Queued(1)
              = received \o <<outbox>> \o Queued(2) \o Queued(1)
        BY <2>2, <2>3, ReadMoves
      <3> QED
        BY <2>1, <2>2, <2>4, <3>1, Zenon
    <2>6. QueueInv'
      BY <2>1, <2>2, <2>4, <2>5, Appended DEF OrderInv, QueueInv
    <2>7. CalmInv'
      BY <1>1, <2>1 DEF Read, OrderInv, CalmInv
    <2> QED
      BY <2>1, <2>6, <2>7 DEF OrderInv, OutboxInv
  <1>2. ~ReadLost /\ ~AskRepeat
    <2>1. MaxLoss = 0 /\ spent.loss \in Nat /\ ~lost
      BY DEF Ordered, OrderInv, CalmInv
    <2> QED
      BY <2>1 DEF ReadLost, AskRepeat
  <1>3. CASE Send \/ Retry \/ RequestState
    <2>1. /\ UNCHANGED <<produced, received, outbox, evSM1, mbxoutpost, state, MBX>>
          /\ UNCHANGED <<lost, smChange, repReq, repAck, MBXrun, ECrep, toggle>>
      BY <1>3, Zenon DEF Send, Retry, RequestState
    <2>2. spent' \in [retry : Nat, loss : Nat, restart : Nat]
      BY <1>3 DEF Send, Retry, RequestState, OrderInv, CalmInv
    <2> QED
      BY <2>1, <2>2, NothingMoved DEF Ordered, OrderInv, CalmInv
  <1> QED
    BY <1>1, <1>2, <1>3 DEF Master

\* Stopping forgets the queue and what was read of it.
LEMMA StateOrder ==
  ASSUME Ordered, IInv, OrderInv, ESC_stopmbx \/ ESC_startmbx \/ ESC_checkmbx \/ NoEvent
  PROVE  OrderInv'
  <1> USE DEF IInv, slots, proto, cached, esc, master
  <1>1. OutBuffers = {1, 2} /\ Buffers = {0, 1, 2}
    BY QueueTypes DEF Ordered
  <1>2. CASE ESC_stopmbx
    <2>1. /\ state' = [n \in Buffers |-> "idle"] /\ mbxoutpost' = 0 /\ outbox' = NoMsg
          /\ evSM1' = FALSE /\ received' = <<>> /\ produced' = <<>>
          /\ ~MBXrun' /\ ~smChange' /\ repAck' = repReq /\ ~lost' /\ UNCHANGED <<repReq, spent>>
      BY <1>2 DEF ESC_stopmbx
    <2>2. InOutbox' = <<>> /\ Queued(1)' = <<>> /\ Queued(2)' = <<>>
      BY <1>1, <2>1 DEF InOutbox, Queued
    <2>3. QueueInv'
      <3>1. <<>> \in Seq(Messages)
        OBVIOUS
      <3>2. <<>> = <<>> \o <<>> \o <<>> \o <<>>
        BY <3>1, ConcatEmptySeq, Zenon
      <3> QED
        BY <1>1, <2>1, <2>2, <3>1, <3>2 DEF QueueInv
    <2> QED
      BY <1>1, <2>1, <2>3 DEF OrderInv, CalmInv, OutboxInv
  <1>3. CASE ESC_startmbx
    <2>1. /\ UNCHANGED <<produced, received, outbox, evSM1, mbxoutpost, state, MBX>>
          /\ UNCHANGED <<lost, repReq, repAck, spent>>
          /\ ~smChange' /\ ECrep' = repReq /\ toggle' = repReq
      BY <1>3, Zenon DEF ESC_startmbx
    <2> QED
      BY <2>1, NothingMoved DEF Ordered, OrderInv, CalmInv
  <1>4. CASE NoEvent
    <2>1. /\ UNCHANGED <<produced, received, outbox, evSM1, mbxoutpost, state, MBX>>
          /\ UNCHANGED <<lost, smChange, repReq, repAck, MBXrun, ECrep, toggle, spent>>
      BY <1>4, Zenon DEF NoEvent
    <2> QED
      BY <2>1, NothingMoved DEF Ordered, OrderInv, CalmInv
  <1>5. ~ESC_checkmbx
    BY DEF ESC_checkmbx, OrderInv, CalmInv
  <1> QED
    BY <1>2, <1>3, <1>4, <1>5

\* ESC_mbxprocess posts the older of two responses, and only to a free outbox.
LEMMA PostOrder ==
  ASSUME Ordered, IInv, OrderInv, MbxPost
  PROVE  OutboxInv' /\ QueueInv' /\ (\A b \in OutBuffers : state'[b] # "again")
  <1> USE DEF IInv, proto, cached, esc, master
  <1> DEFINE n == Highest(OutReq)
  <1>1. OutBuffers = {1, 2} /\ Buffers = {0, 1, 2}
        /\ Queued(1) \in Seq(Messages) /\ received \in Seq(Messages)
    BY QueueTypes DEF Ordered, OrderInv, QueueInv
  <1>2. MBXrun /\ ~(mbxoutpost # 0 /\ evSM1) /\ (mbxfree \/ ~Stat[1]) /\ OutReq # {}
    BY DEF MbxPost, OutboxRead, CanPost
  <1>3. mbxoutpost = 0 /\ outbox = NoMsg
    BY <1>2, StatSees DEF PostedInv, OrderInv, OutboxInv
  <1>4. n \in OutReq
    BY <1>2, HighestIn DEF OutReq
  <1>5. /\ state' = [state EXCEPT ![n] = "outpost"] /\ mbxoutpost' = n
        /\ outbox' = MBX[n] /\ ~evSM1'
        /\ UNCHANGED <<MBX, received, produced>>
    BY <1>3 DEF MbxPost, Written
  <1>6. state[2] = "outreq" => n = 2
    BY <1>1, HighestOfTwo DEF Ordered, OutReq
  <1> HIDE DEF n
  <1>7. n \in {1, 2} /\ state[n] = "outreq" /\ MBX[n] # NoMsg /\ MBX[n] \in Messages
    BY <1>1, <1>4, MessageReq DEF OutReq, FilledInv, TypeOK, SlotTypes
  <1>8. \A b \in OutBuffers : state'[b] = IF b = n THEN "outpost" ELSE state[b]
    BY <1>1, <1>5, <1>7 DEF TypeOK, SlotTypes
  <1>9. OutboxInv'
    BY <1>5, <1>7 DEF OutboxInv
  <1>10. InOutbox = <<>> /\ InOutbox' = <<MBX[n]>>
    BY <1>3, <1>5, <1>7 DEF InOutbox
  <1>11. produced = received \o <<>> \o Queued(2) \o Queued(1)
    BY <1>10 DEF OrderInv, QueueInv
  <1>12. produced = received \o <<MBX[n]>> \o Queued(2)' \o Queued(1)'
    <2>1. CASE n = 2
      <3>1. Queued(2) = <<MBX[n]>> /\ Queued(2)' = <<>> /\ Queued(1)' = Queued(1)
        BY <1>1, <1>5, <1>7, <1>8, <2>1 DEF Queued
      <3>2. received \o <<>> \o <<MBX[n]>> \o Queued(1)
              = received \o <<MBX[n]>> \o <<>> \o Queued(1)
        BY <1>1, <1>7, PostMoves
      <3> QED
        BY <1>5, <1>11, <3>1, <3>2, Zenon
    <2>2. CASE n = 1
      <3>1. /\ Queued(2) = <<>> /\ Queued(2)' = <<>>
            /\ Queued(1) = <<MBX[n]>> /\ Queued(1)' = <<>>
        BY <1>1, <1>5, <1>6, <1>7, <1>8, <2>2 DEF Queued
      <3>2. received \o <<>> \o <<>> \o <<MBX[n]>>
              = received \o <<MBX[n]>> \o <<>> \o <<>>
        BY <1>1, <1>7, PostMoves
      <3> QED
        BY <1>5, <1>11, <3>1, <3>2, Zenon
    <2> QED
      BY <1>7, <2>1, <2>2
  <1>13. state'[1] = "outreq" => state'[2] # "idle"
    BY <1>1, <1>7, <1>8 DEF OrderInv, QueueInv
  <1>14. QueueInv'
    BY <1>1, <1>5, <1>10, <1>12, <1>13 DEF QueueInv
  <1>15. \A b \in OutBuffers : state'[b] # "again"
    BY <1>8 DEF OrderInv, CalmInv
  <1> QED
    BY <1>9, <1>14, <1>15

\* Reading the outbox frees buffer 2 only when buffer 1 was posted.
LEMMA ReleaseOrder ==
  ASSUME Ordered, IInv, OrderInv, MbxOutboxRead
  PROVE  OutboxInv' /\ QueueInv' /\ (\A b \in OutBuffers : state'[b] # "again")
  <1> USE DEF IInv, proto, cached, esc, master
  <1>1. OutBuffers = {1, 2} /\ Buffers = {0, 1, 2}
    BY QueueTypes DEF Ordered
  <1>2. mbxoutpost # 0 /\ evSM1 /\ outbox = NoMsg /\ mbxoutpost \in OutBuffers
    BY <1>1 DEF MbxOutboxRead, OutboxRead, OrderInv, OutboxInv, TypeOK, SlotTypes
  <1>3. state[mbxoutpost] = "outpost"
    BY <1>2 DEF SlotsConsistent, OrderInv, CalmInv
  <1>4. /\ outbox' = outbox /\ ~evSM1' /\ mbxoutpost' = 0
        /\ UNCHANGED <<MBX, received, produced>>
        /\ state' = [b \in Buffers |-> IF b = mbxoutpost THEN "backup"
                                       ELSE IF b = mbxbackup /\ b # 0 THEN "idle"
                                       ELSE state[b]]
    BY <1>3 DEF MbxOutboxRead, NewBackup
  <1>5. \A b \in OutBuffers : state'[b] = IF b = mbxoutpost THEN "backup"
                                          ELSE IF b = mbxbackup THEN "idle" ELSE state[b]
    BY <1>1, <1>4
  <1>6. \A b \in OutBuffers : /\ state'[b] = "outreq" <=> state[b] = "outreq"
                              /\ state'[b] # "again"
    BY <1>3, <1>5 DEF SlotsConsistent, OrderInv, CalmInv
  <1>7. state'[1] = "outreq" => state'[2] # "idle"
    <2> SUFFICES ASSUME state'[1] = "outreq", state'[2] = "idle" PROVE FALSE
      OBVIOUS
    <2>1. state[1] = "outreq" /\ state[2] # "idle"
      BY <1>1, <1>6 DEF OrderInv, QueueInv
    <2>2. mbxoutpost = 2
      BY <1>1, <1>2, <1>3, <2>1
    <2> QED
      BY <1>1, <1>5, <2>2
  <1>8. InOutbox' = InOutbox /\ Queued(1)' = Queued(1) /\ Queued(2)' = Queued(2)
    BY <1>1, <1>4, <1>6 DEF InOutbox, Queued
  <1>9. QueueInv'
    BY <1>4, <1>7, <1>8, Zenon DEF OrderInv, QueueInv
  <1>10. OutboxInv'
    BY <1>2, <1>4 DEF OutboxInv
  <1> QED
    BY <1>6, <1>9, <1>10

LEMMA MbxOrder ==
  ASSUME Ordered, IInv, OrderInv, ESC_mbxprocess
  PROVE  OrderInv'
  <1> USE DEF IInv, slots, proto, cached, esc, master
  <1>1. ~MbxRepeat
    BY DEF MbxRepeat, RepeatPending, OrderInv, CalmInv
  <1>2. UNCHANGED <<lost, smChange, repReq, repAck, MBXrun, ECrep, toggle, spent>>
    BY <1>1, Zenon DEF ESC_mbxprocess, MbxStopped, MbxOutboxRead, MbxPost, MbxRead, MbxIdle
  <1>3. (\A b \in OutBuffers : state'[b] # "again") => CalmInv'
    BY <1>2 DEF OrderInv, CalmInv
  <1>4. CASE MbxPost \/ MbxOutboxRead
    BY <1>3, <1>4, PostOrder, ReleaseOrder DEF OrderInv
  <1>5. CASE MbxStopped \/ MbxIdle \/ MbxRead
    <2>1. UNCHANGED <<produced, received, outbox, evSM1, mbxoutpost>>
      <3>1. CASE MbxStopped \/ MbxIdle
        BY <3>1, Zenon DEF MbxStopped, MbxIdle
      <3>2. CASE MbxRead
        <4>1. MBXrun /\ Stat[0]
          BY <3>2 DEF MbxRead, CanRead
        <4>2. inbox.kind # "empty"
          BY <4>1, StatSees DEF TypeOK, LinkTypes, RequestSet, Ordered, NoEmpty
        <4> QED
          BY <3>2, <4>2 DEF MbxRead
      <3> QED
        BY <1>5, <3>1, <3>2
    <2>2. \A b \in OutBuffers : state'[b] = state[b] /\ MBX'[b] = MBX[b]
      <3>1. CASE MbxStopped \/ MbxIdle
        BY <3>1, Zenon DEF MbxStopped, MbxIdle
      <3>2. CASE MbxRead
        <4>1. MBXrun /\ Stat[0]
          BY <3>2 DEF MbxRead, CanRead
        <4>2. inbox.kind # "empty"
          BY <4>1, StatSees DEF TypeOK, LinkTypes, RequestSet, Ordered, NoEmpty
        <4>3. /\ \E s \in BufferStates : state' = [state EXCEPT ![0] = s]
              /\ MBX' = [MBX EXCEPT ![0] = inbox]
          BY <3>2, <4>2 DEF MbxRead, BufferStates
        <4> QED
          BY <4>3 DEF TypeOK, SlotTypes, OutBuffers, Buffers
      <3> QED
        BY <1>5, <3>1, <3>2
    <2>3. OutboxInv' /\ QueueInv'
      BY <2>1, <2>2, NothingMoved DEF Ordered, OrderInv
    <2>4. CalmInv'
      BY <1>3, <2>2 DEF OrderInv, CalmInv
    <2> QED
      BY <2>3, <2>4 DEF OrderInv
  <1> QED
    BY <1>1, <1>4, <1>5 DEF ESC_mbxprocess

\* A response is queued behind those that wait.
LEMMA RespondOrder ==
  ASSUME Ordered, IInv, OrderInv, NEW msg \in ResponseSet, NEW s \in {"idle", "inclaim"},
         RespondOrDrop(msg, s),
         UNCHANGED <<received, outbox, evSM1, mbxoutpost>>
  PROVE  OutboxInv' /\ QueueInv' /\ (\A b \in OutBuffers : state'[b] # "again")
  <1> USE DEF IInv
  <1>1. /\ OutBuffers = {1, 2} /\ Buffers = {0, 1, 2} /\ received \in Seq(Messages)
        /\ InOutbox \in Seq(Messages) /\ Queued(1) \in Seq(Messages)
        /\ Queued(2) \in Seq(Messages) /\ msg \in Messages
    BY QueueTypes DEF Ordered, OrderInv, QueueInv, Messages
  <1>2. produced = received \o InOutbox \o Queued(2) \o Queued(1)
        /\ (state[1] = "outreq" => state[2] # "idle")
    BY DEF OrderInv, QueueInv
  <1>3. CASE NoBuffer(s)
    <2>1. /\ UNCHANGED <<MBX, produced>> /\ state' = [state EXCEPT ![0] = s]
      BY <1>3 DEF NoBuffer
    <2>2. \A b \in OutBuffers : state'[b] = state[b] /\ MBX'[b] = MBX[b]
      BY <1>1, <2>1 DEF TypeOK, SlotTypes
    <2> QED
      BY <2>1, <2>2, NothingMoved DEF Ordered, OrderInv, CalmInv
  <1>4. CASE Respond(msg, s)
    <2> DEFINE n == Highest(IdleOut)
    <2>1. /\ IdleOut # {} /\ state' = [state EXCEPT ![n] = "outreq", ![0] = s]
          /\ MBX' = [MBX EXCEPT ![n] = msg] /\ produced' = Append(produced, msg)
      BY <1>4 DEF Respond
    <2>2. n \in IdleOut
      BY <2>1, HighestIn DEF IdleOut
    <2>3. state[2] = "idle" => n = 2
      BY <1>1, HighestOfTwo DEF Ordered, IdleOut
    <2> HIDE DEF n
    <2>4. n \in {1, 2} /\ state[n] = "idle" /\ n # mbxoutpost
      BY <1>1, <2>2 DEF IdleOut, SlotsConsistent
    <2>5. \A b \in OutBuffers : /\ state'[b] = IF b = n THEN "outreq" ELSE state[b]
                                /\ MBX'[b] = IF b = n THEN msg ELSE MBX[b]
      BY <1>1, <2>1, <2>4 DEF TypeOK, SlotTypes
    <2>6. OutboxInv'
      <3>1. mbxoutpost # 0 => MBX'[mbxoutpost] = MBX[mbxoutpost]
        BY <1>1, <2>4, <2>5 DEF TypeOK, SlotTypes
      <3> QED
        BY <3>1 DEF OrderInv, OutboxInv
    <2>7. InOutbox' = InOutbox
      BY DEF InOutbox
    <2> DEFINE q == received \o InOutbox
    <2>8. q \in Seq(Messages) /\ q \o Queued(2) \in Seq(Messages)
      BY <1>1, ConcatProperties
    <2>9. produced' = received \o InOutbox \o Queued(2)' \o Queued(1)'
      <3>1. CASE n = 2
        <4>1. /\ Queued(2) = <<>> /\ Queued(1) = <<>>
              /\ Queued(2)' = <<msg>> /\ Queued(1)' = <<>>
          BY <1>1, <1>2, <2>4, <2>5, <3>1 DEF Queued
        <4> QED
          BY <1>1, <1>2, <2>1, <2>8, <4>1, ClaimMoves, Zenon
      <3>2. CASE n = 1
        <4>1. Queued(1) = <<>> /\ Queued(1)' = <<msg>> /\ Queued(2)' = Queued(2)
          BY <1>1, <2>4, <2>5, <3>2 DEF Queued
        <4>2. Append((q \o Queued(2)) \o <<>>, msg) = (q \o Queued(2)) \o <<msg>>
          BY <1>1, <2>8, ClaimMoves
        <4> QED
          BY <1>2, <2>1, <4>1, <4>2, Zenon
      <3> QED
        BY <2>4, <3>1, <3>2
    <2>10. state'[1] = "outreq" => state'[2] # "idle"
      BY <1>1, <1>2, <2>3, <2>4, <2>5
    <2>11. QueueInv'
      BY <1>1, <2>7, <2>9, <2>10 DEF QueueInv
    <2>12. \A b \in OutBuffers : state'[b] # "again"
      BY <2>5 DEF OrderInv, CalmInv
    <2> QED
      BY <2>6, <2>11, <2>12
  <1> QED
    BY <1>3, <1>4 DEF RespondOrDrop

\* The protocols only queue responses.
LEMMA ProtocolOrder ==
  ASSUME Ordered, IInv, OrderInv, ESC_coeprocess \/ ESC_xoeprocess
  PROVE  OrderInv'
  <1> USE DEF IInv, TypeOK
  <1>1. /\ UNCHANGED <<received, outbox, evSM1, mbxoutpost>>
        /\ UNCHANGED <<lost, smChange, repReq, repAck, MBXrun, ECrep, toggle, spent>>
    BY Zenon DEF ESC_coeprocess, ESC_xoeprocess, handled, esc, master, cached
  <1>2. (\A b \in OutBuffers : state'[b] # "again") => CalmInv'
    BY <1>1 DEF OrderInv, CalmInv
  <1>3. CASE UNCHANGED <<state, MBX, produced>>
    <2>1. OutboxInv' /\ QueueInv'
      BY <1>1, <1>3, NothingMoved DEF Ordered, OrderInv
    <2> QED
      BY <1>2, <1>3, <2>1 DEF OrderInv, CalmInv
  <1>4. ASSUME NEW k \in 1 .. ListFrags, NEW s \in {"idle", "inclaim"},
               RespondOrDrop(Response(ReqId, k), s), state[0] = "inclaim"
        PROVE  OrderInv'
    <2>1. Response(ReqId, k) \in ResponseSet
      BY <1>4, MessageReq, ResponseType DEF TransferInv, ReqId
    <2> QED
      BY <1>1, <1>2, <1>4, <2>1, RespondOrder DEF OrderInv
  <1>5. CASE ESC_xoeprocess
    <2>1. CASE MBXrun /\ NewRequest
      <3>1. PICK k \in {1, 2} : RespondOrDrop(Response(ReqId, k), "idle")
        BY <1>5, <2>1 DEF ESC_xoeprocess
      <3> QED
        BY <1>4, <2>1, <3>1 DEF NewRequest
    <2>2. CASE ~(MBXrun /\ NewRequest)
      BY <1>3, <1>5, <2>2, Zenon DEF ESC_xoeprocess
    <2> QED
      BY <2>1, <2>2
  <1>6. CASE ESC_coeprocess
    <2>1. CASE CoeListCont
      <3>1. PICK s \in {"idle", "inclaim"} :
              RespondOrDrop(Response(ReqId, ListFrags - fragsleft + 1), s)
        BY <2>1 DEF CoeListCont
      <3>2. state[0] = "inclaim" /\ ListFrags - fragsleft + 1 \in 1 .. ListFrags
        BY <2>1 DEF CoeListCont, TransferInv
      <3> QED
        BY <1>4, <3>1, <3>2
    <2>2. CASE CoeShort \/ ((NewRequest \/ xoe = "coe") /\ (CoeSdo \/ CoeInfo \/ CoeList))
      <3>1. state[0] = "inclaim"
        BY <2>2 DEF CoeShort, NewRequest, TransferInv
      <3>2. PICK s \in {"idle", "inclaim"} : RespondOrDrop(Response(ReqId, 1), s)
        BY <2>2 DEF CoeShort, CoeSdo, CoeInfo, CoeList
      <3> QED
        BY <1>4, <3>1, <3>2
    <2>3. CASE UNCHANGED <<state, MBX, txcue, produced, proto>>
      BY <1>3, <2>3
    <2> QED
      BY <1>6, <2>1, <2>2, <2>3, Zenon DEF ESC_coeprocess, CoeWork
  <1> QED
    BY <1>5, <1>6

LEMMA InitOrder == Ordered => (Init => OrderInv)
  <1> SUFFICES ASSUME Ordered, Init PROVE OrderInv
    OBVIOUS
  <1>1. Buffers = {0, 1, 2} /\ OutBuffers = {1, 2}
    BY DEF Ordered, Buffers, OutBuffers
  <1>2. /\ state = [n \in Buffers |-> "idle"] /\ outbox = NoMsg /\ received = <<>>
        /\ produced = <<>> /\ ~evSM1
    BY DEF Init
  <1>3. InOutbox = <<>> /\ Queued(1) = <<>> /\ Queued(2) = <<>>
    BY <1>1, <1>2 DEF InOutbox, Queued
  <1>4. <<>> \in Seq(Messages)
    OBVIOUS
  <1>5. <<>> = <<>> \o <<>> \o <<>> \o <<>>
    BY <1>4, ConcatEmptySeq, Zenon
  <1>6. QueueInv
    BY <1>1, <1>2, <1>3, <1>4, <1>5 DEF QueueInv
  <1>7. CalmInv
    BY <1>1, <1>2 DEF Init, CalmInv
  <1> QED
    BY <1>2, <1>6, <1>7 DEF OrderInv, OutboxInv

LEMMA StepOrder == Ordered => (IInv /\ OnceInv /\ OrderInv /\ [Next]_vars => OrderInv')
  <1> SUFFICES ASSUME Ordered, IInv, OnceInv, OrderInv, [Next]_vars PROVE OrderInv'
    OBVIOUS
  <1>1. CASE UNCHANGED vars
    <2>1. /\ UNCHANGED <<produced, received, outbox, evSM1, mbxoutpost, state, MBX>>
          /\ UNCHANGED <<lost, smChange, repReq, repAck, MBXrun, ECrep, toggle, spent>>
      BY <1>1, Zenon DEF vars
    <2> QED
      BY <2>1, NothingMoved DEF Ordered, IInv, OrderInv, CalmInv
  <1>2. CASE Next
    BY <1>2, MasterOrder, StateOrder, MbxOrder, ProtocolOrder DEF Next, Slave
  <1> QED
    BY <1>1, <1>2

\* With three buffers, and as long as no read is lost, the master reads the responses in
\* the order they were produced, none twice and none left out.
THEOREM OrderCorrect == Ordered => (Spec => []DeliveredInOrder)
  <1> SUFFICES ASSUME Ordered PROVE Spec => []DeliveredInOrder
    OBVIOUS
  <1>1. IInv /\ OrderInv => DeliveredInOrder
    <2> SUFFICES ASSUME IInv, OrderInv PROVE DeliveredInOrder
      OBVIOUS
    <2>1. /\ received \in Seq(Messages) /\ InOutbox \in Seq(Messages)
          /\ Queued(1) \in Seq(Messages) /\ Queued(2) \in Seq(Messages)
      BY QueueTypes DEF Ordered, IInv, OrderInv, QueueInv
    <2>2. Len(received) \in Nat /\ Len(InOutbox) \in Nat
      BY <2>1
    <2>3. /\ Len(received) + Len(InOutbox) <= Len(produced) /\ Len(produced) \in Nat
          /\ \A i \in 1 .. Len(received) : produced[i] = received[i]
      <3>1. produced = received \o InOutbox \o Queued(2) \o Queued(1)
        BY DEF OrderInv, QueueInv
      <3>2. Parts(produced, received, InOutbox)
        BY ONLY <2>1, <3>1, QueueParts, Zenon
      <3> QED
        BY ONLY <3>2, Zenon DEF Parts
    <2> QED
      BY <2>2, <2>3 DEF DeliveredInOrder
  <1>2. IInv /\ OnceInv /\ OrderInv /\ [Next]_vars => OrderInv'
    BY StepOrder
  <1>3. Init => OrderInv
    BY InitOrder
  <1>4. Spec => [](IInv /\ OnceInv)
    BY OnceInductive
  <1> QED
    BY <1>1, <1>2, <1>3, <1>4, PTL DEF Spec

---------------------------------------------------------------------------
(***************************************************************************)
(* Order, whatever is lost.                                                *)
(***************************************************************************)
\* Of two responses, the one produced first: requests are answered in the order of their
\* numbers, the messages of an answer are numbered.  Only the answer to an empty mailbox may
\* be produced again.
Earlier(a, b) == a.req < b.req \/ (a.req = b.req /\ a.n < b.n)
Upto(a, b) == a = b \/ Earlier(a, b)

Made == {produced[p] : p \in 1 .. Len(produced)}
Ascending == \A i, j \in 1 .. Len(produced) : i < j => Upto(produced[i], produced[j])

\* A response passes through its buffer's states in this order, the higher of two waiting
\* buffers is posted first, and buffer 1 is claimed only while buffer 2 is in use.
Waits == {"outpost", "again", "outreq"}
Ahead(a, b) ==
  \/ state[a] = "backup" /\ state[b] \in Waits
  \/ state[a] \in {"outpost", "again"} /\ state[b] = "outreq"
  \/ state[a] = "outreq" /\ state[b] = "outreq" /\ a > b
HeldInv ==
  /\ MBX[0] \in RequestSet \union {NoMsg}
  /\ \A b \in OutBuffers : state[b] \in Waits \union {"backup"} => MBX[b] \in Made
  /\ \A a, b \in OutBuffers : Ahead(a, b) => Upto(MBX[a], MBX[b])
  /\ state[1] = "outreq" => state[2] # "idle"

\* A response in the outbox is the backup or the posted one.  What else it may hold, the
\* request in buffer 0, is written only as long as there is no backup.
SentInv ==
  /\ evSM1 => outbox = NoMsg
  /\ outbox \in ResponseSet => \/ mbxbackup # 0 /\ outbox = MBX[mbxbackup]
                               \/ mbxoutpost # 0 /\ outbox = MBX[mbxoutpost]
  /\ outbox \notin ResponseSet \union {NoMsg} => mbxbackup = 0

\* A response the master has read is not behind one that waits, nor behind the backup,
\* unless it is the posted one and the slave has not noticed the read.
Noticed(m) == mbxbackup # 0 /\ Upto(m, MBX[mbxbackup])
Unnoticed(m) == evSM1 /\ mbxoutpost # 0 /\ m = MBX[mbxoutpost]
Passed(m) ==
  /\ m \in Made
  /\ \A b \in OutBuffers : state[b] \in Waits => Upto(m, MBX[b])
  /\ Noticed(m) \/ Unnoticed(m)
ReadInv ==
  /\ received \in Seq(Messages)
  /\ \A i \in 1 .. Len(received) : received[i] \in ResponseSet => Passed(received[i])
  /\ \A i, j \in 1 .. Len(received) :
       i < j /\ received[i] \in ResponseSet =>
         received[j] \in ResponseSet /\ Earlier(received[i], received[j])

FollowInv == Ascending /\ HeldInv /\ SentInv /\ ReadInv

\* A request with the number of the last one is that request, and what is answered to an
\* empty mailbox is one message.
EmptyInv ==
  /\ inbox # NoMsg /\ inbox.req = mbxincnt => inbox = MBX[0]
  /\ state[0] = "inclaim" => MBX[0].kind # "empty"
  /\ MBX[0] \in RequestSet /\ MBX[0].kind = "empty" /\ MBX[0].req = mbxincnt =>
       \A i \in 1 .. Len(produced) : produced[i].req = mbxincnt => produced[i].n = 1

LEMMA EarlierOrder ==
  /\ \A a \in ResponseSet : ~Earlier(a, a)
  /\ \A a, b, c \in ResponseSet :
       /\ Earlier(a, b) /\ Earlier(b, c) => Earlier(a, c)
       /\ Upto(a, b) /\ Earlier(b, c) => Earlier(a, c)
       /\ Earlier(a, b) /\ Upto(b, c) => Earlier(a, c)
       /\ Upto(a, b) /\ Upto(b, c) => Upto(a, c)
  <1>1. \A a \in ResponseSet : a.req \in Nat /\ a.n \in Nat
    BY DEF ResponseSet
  <1>2. \A a \in ResponseSet : ~Earlier(a, a)
    BY <1>1 DEF Earlier
  <1>3. \A a, b, c \in ResponseSet : Earlier(a, b) /\ Earlier(b, c) => Earlier(a, c)
    BY <1>1 DEF Earlier
  <1> QED
    BY <1>2, <1>3, Zenon DEF Upto

LEMMA KindsOfMessage ==
  /\ \A m \in RequestSet \union {NoMsg} : m \notin ResponseSet
  /\ NoMsg \notin ResponseSet
  <1>1. \A m \in ResponseSet : DOMAIN m = {"req", "n"}
    BY DEF ResponseSet
  <1>2. \A m \in RequestSet : DOMAIN m = {"req", "kind"}
    BY DEF RequestSet
  <1>3. {"req", "n"} # {"req", "kind"}
    OBVIOUS
  <1>4. \A m \in RequestSet : m \notin ResponseSet
    BY <1>1, <1>2, <1>3
  <1> QED
    BY <1>4, MessageReq

LEMMA MadeKept ==
  ASSUME OnceInv, produced' = produced
  PROVE  Made' = Made /\ Made \subseteq ResponseSet
  BY DEF Made, OnceInv, Numbered

\* Steps between which the master reads nothing.
LEMMA NothingRead ==
  ASSUME ReadInv, received' = received, \A m \in ResponseSet : Passed(m) => Passed(m)'
  PROVE  ReadInv'
  BY DEF ReadInv

\* Steps that move no message.
LEMMA NothingFollows ==
  ASSUME N = 3, TypeOK, OnceInv, FollowInv,
         UNCHANGED <<produced, received, mbxoutpost, mbxbackup>>,
         UNCHANGED <<outbox, evSM1>> \/ (outbox' = NoMsg /\ ~evSM1),
         \A b \in OutBuffers : state'[b] = state[b] /\ MBX'[b] = MBX[b],
         MBX'[0] \in RequestSet \union {NoMsg}
  PROVE  FollowInv'
  <1>1. /\ OutBuffers = {1, 2} /\ Buffers = {0, 1, 2}
        /\ mbxoutpost \in Buffers /\ mbxbackup \in Buffers
    BY QueueTypes DEF TypeOK, SlotTypes
  <1>2. state'[1] = state[1] /\ state'[2] = state[2] /\ MBX'[1] = MBX[1] /\ MBX'[2] = MBX[2]
    BY <1>1
  <1>3. /\ mbxoutpost # 0 => MBX'[mbxoutpost] = MBX[mbxoutpost]
        /\ mbxbackup # 0 => MBX'[mbxbackup] = MBX[mbxbackup]
    BY <1>1, <1>2
  <1>4. Made' = Made
    BY MadeKept
  <1>5. Ascending'
    BY DEF FollowInv, Ascending
  <1>6. HeldInv'
    <2>1. \A a, b \in OutBuffers : Ahead(a, b)' <=> Ahead(a, b)
      BY DEF Ahead
    <2> QED
      BY <1>2, <1>4, <2>1 DEF FollowInv, HeldInv
  <1>7. SentInv'
    BY <1>3, KindsOfMessage DEF FollowInv, SentInv
  <1>8. ReadInv'
    <2>1. \A m \in ResponseSet : Passed(m) => Passed(m)'
      BY <1>3, <1>4 DEF Passed, Noticed, Unnoticed
    <2> QED
      BY <2>1, NothingRead DEF FollowInv
  <1> QED
    BY <1>5, <1>6, <1>7, <1>8 DEF FollowInv

\* What the master reads from the outbox is not behind what it has read before: either it
\* is the last message again, or it is new.
LEMMA ReadFollows ==
  ASSUME N = 3, IInv, OnceInv, FollowInv, Read
  PROVE  FollowInv'
  <1> USE DEF IInv, slots, proto, cached, slave
  <1> DEFINE k == Len(received)
             seen == received # <<>> /\ received[k] = outbox
  <1>1. /\ outbox # NoMsg /\ outbox' = NoMsg /\ evSM1' = TRUE
        /\ received' = IF seen THEN received ELSE Append(received, outbox)
        /\ UNCHANGED <<produced, mbxoutpost, mbxbackup, state, MBX>>
    BY Zenon DEF Read, CanReceive
  <1>2. /\ OutBuffers = {1, 2} /\ Buffers = {0, 1, 2}
        /\ mbxoutpost \in Buffers /\ mbxbackup \in Buffers
        /\ outbox \in Messages /\ received \in Seq(Messages) /\ k \in Nat
    BY QueueTypes DEF TypeOK, SlotTypes, LinkTypes, FollowInv, ReadInv
  <1>3. Made' = Made /\ Made \subseteq ResponseSet
    BY <1>1, MadeKept
  <1>4. Ascending' /\ HeldInv' /\ SentInv'
    <2>1. Ascending' /\ HeldInv'
      BY <1>1, <1>3 DEF FollowInv, Ascending, HeldInv, Ahead
    <2> QED
      BY <1>1, <2>1, KindsOfMessage DEF FollowInv, SentInv
  <1>5. ~evSM1 /\ \A m \in ResponseSet : Passed(m) => Noticed(m)
    BY <1>1 DEF FollowInv, SentInv, Passed, Unnoticed
  <1>6. \A m \in ResponseSet : Passed(m) => Passed(m)'
    BY <1>1, <1>3, <1>5 DEF Passed, Noticed
  <1>7. \A b \in OutBuffers : state[b] \in Waits \union {"backup"} => MBX[b] \in ResponseSet
    BY <1>3 DEF FollowInv, HeldInv
  <1>8. \A i \in 1 .. k : received[i] \in ResponseSet => Passed(received[i])
    BY DEF FollowInv, ReadInv
  <1>9. \A m \in ResponseSet : m = outbox => Passed(m)'
    <2> SUFFICES ASSUME NEW m \in ResponseSet, m = outbox PROVE Passed(m)'
      OBVIOUS
    <2>1. CASE mbxbackup # 0 /\ m = MBX[mbxbackup]
      <3>1. mbxbackup \in OutBuffers /\ state[mbxbackup] = "backup"
        BY <1>2, <2>1 DEF SlotsConsistent
      <3>2. m \in Made
        BY <2>1, <3>1 DEF FollowInv, HeldInv
      <3>3. \A b \in OutBuffers : state[b] \in Waits => Upto(m, MBX[b])
        BY <2>1, <3>1 DEF FollowInv, HeldInv, Ahead, Upto
      <3> QED
        BY <1>1, <1>3, <2>1, <3>2, <3>3 DEF Passed, Noticed, Upto
    <2>2. CASE mbxoutpost # 0 /\ m = MBX[mbxoutpost]
      <3>1. mbxoutpost \in OutBuffers /\ state[mbxoutpost] \in {"outpost", "again"}
        BY <1>2, <2>2 DEF SlotsConsistent
      <3>2. m \in Made
        BY <2>2, <3>1 DEF FollowInv, HeldInv, Waits
      <3>3. \A b \in OutBuffers : state[b] \in Waits => Upto(m, MBX[b])
        <4>1. \A b \in OutBuffers : state[b] \in {"outpost", "again"} => b = mbxoutpost
          BY DEF SlotsConsistent
        <4>2. \A b \in OutBuffers : state[b] = "outreq" => Upto(m, MBX[b])
          BY <2>2, <3>1 DEF FollowInv, HeldInv, Ahead
        <4> QED
          BY <2>2, <4>1, <4>2 DEF Waits, Upto
      <3> QED
        BY <1>1, <1>3, <2>2, <3>2, <3>3 DEF Passed, Unnoticed
    <2> QED
      BY <2>1, <2>2 DEF FollowInv, SentInv
  <1>10. \A m \in ResponseSet : Passed(m) => outbox \in ResponseSet /\ Upto(m, outbox)
    <2> SUFFICES ASSUME NEW m \in ResponseSet, Passed(m)
                 PROVE  outbox \in ResponseSet /\ Upto(m, outbox)
      OBVIOUS
    <2>1. Noticed(m)
      BY <1>5
    <2>2. outbox \in ResponseSet
      BY <1>1, <2>1 DEF Noticed, FollowInv, SentInv
    <2>3. CASE mbxbackup # 0 /\ outbox = MBX[mbxbackup]
      BY <2>1, <2>2, <2>3 DEF Noticed
    <2>4. CASE mbxoutpost # 0 /\ outbox = MBX[mbxoutpost]
      <3>1. mbxoutpost \in OutBuffers /\ state[mbxoutpost] \in Waits
        BY <1>2, <2>4 DEF SlotsConsistent, Waits
      <3> QED
        BY <2>2, <2>4, <3>1 DEF Passed
    <2> QED
      BY <2>2, <2>3, <2>4 DEF FollowInv, SentInv
  <1> HIDE DEF k
  <1>11. CASE seen
    <2>1. received' = received
      BY <1>1, <1>11
    <2> QED
      BY <1>4, <1>6, <2>1, NothingRead DEF FollowInv
  <1>12. CASE ~seen
    <2>1. /\ received' \in Seq(Messages) /\ Len(received') = k + 1
          /\ received'[k + 1] = outbox /\ \A i \in 1 .. k : received'[i] = received[i]
      BY <1>1, <1>2, <1>12 DEF k
    <2>2. \A i \in 1 .. k + 1 : i \in 1 .. k \/ i = k + 1
      BY <1>2
    <2>3. \A i \in 1 .. k + 1 : (received[i] \in ResponseSet => Passed(received[i]))'
      <3> SUFFICES ASSUME NEW i \in 1 .. k + 1, received'[i] \in ResponseSet
                   PROVE  (Passed(received[i]))'
        OBVIOUS
      <3>1. PICK m \in ResponseSet : m = received'[i]
        OBVIOUS
      <3>2. Passed(m)'
        <4>1. CASE i \in 1 .. k
          BY <1>6, <1>8, <2>1, <3>1, <4>1
        <4>2. CASE i = k + 1
          BY <1>9, <2>1, <3>1, <4>2
        <4> QED
          BY <2>2, <4>1, <4>2
      <3> QED
        BY <3>1, <3>2 DEF Passed, Noticed, Unnoticed
    <2>4. \A i \in 1 .. k : received[i] \in ResponseSet =>
             outbox \in ResponseSet /\ Earlier(received[i], outbox)
      <3> SUFFICES ASSUME NEW i \in 1 .. k, received[i] \in ResponseSet
                   PROVE  outbox \in ResponseSet /\ Earlier(received[i], outbox)
        OBVIOUS
      <3>1. outbox \in ResponseSet /\ Upto(received[i], outbox)
        BY <1>8, <1>10
      <3>2. received[i] # outbox
        <4> SUFFICES ASSUME received[i] = outbox PROVE FALSE
          OBVIOUS
        <4>1. received # <<>> /\ k \in 1 .. k
          BY <1>2 DEF k
        <4>2. i < k
          BY <1>2, <1>12, <4>1
        <4>3. received[k] \in ResponseSet /\ Earlier(outbox, received[k])
          BY <1>2, <4>1, <4>2 DEF FollowInv, ReadInv, k
        <4>4. Upto(received[k], outbox)
          BY <1>8, <1>10, <4>1, <4>3
        <4> QED
          BY <3>1, <4>3, <4>4, EarlierOrder
      <3> QED
        BY <3>1, <3>2 DEF Upto
    <2>5. \A i, j \in 1 .. k + 1 :
            i < j /\ received'[i] \in ResponseSet =>
              received'[j] \in ResponseSet /\ Earlier(received'[i], received'[j])
      <3> SUFFICES ASSUME NEW i \in 1 .. k + 1, NEW j \in 1 .. k + 1, i < j,
                          received'[i] \in ResponseSet
                   PROVE  received'[j] \in ResponseSet /\ Earlier(received'[i], received'[j])
        OBVIOUS
      <3>1. i \in 1 .. k
        BY <1>2
      <3>2. CASE j \in 1 .. k
        BY <2>1, <3>1, <3>2 DEF FollowInv, ReadInv, k
      <3>3. CASE j = k + 1
        BY <2>1, <2>4, <3>1, <3>3
      <3> QED
        BY <2>2, <3>2, <3>3
    <2>6. ReadInv'
      BY <2>1, <2>3, <2>5 DEF ReadInv
    <2> QED
      BY <1>4, <2>6 DEF FollowInv
  <1> QED
    BY <1>11, <1>12

\* The master moves no other message; a read that is lost may empty the outbox.
LEMMA MasterFollows ==
  ASSUME N = 3, IInv, OnceInv, FollowInv, Master
  PROVE  FollowInv'
  <1> USE DEF IInv, slots, proto, cached, slave
  <1>1. CASE Read
    BY <1>1, ReadFollows
  <1>2. CASE ReadLost
    <2>1. /\ UNCHANGED <<produced, received, mbxoutpost, mbxbackup, state, MBX>>
          /\ outbox # NoMsg
      BY <1>2, Zenon DEF ReadLost, CanReceive
    <2>2. ~evSM1
      BY <2>1 DEF FollowInv, SentInv
    <2>3. UNCHANGED <<outbox, evSM1>> \/ (outbox' = NoMsg /\ ~evSM1)
      BY <1>2, <2>2, Zenon DEF ReadLost
    <2>4. MBX'[0] \in RequestSet \union {NoMsg}
      BY <2>1 DEF FollowInv, HeldInv
    <2> QED
      BY <2>1, <2>3, <2>4, NothingFollows
  <1>3. CASE Send \/ Retry \/ AskRepeat \/ RequestState
    <2>1. UNCHANGED <<produced, received, mbxoutpost, mbxbackup, state, MBX, outbox, evSM1>>
      BY <1>3, Zenon DEF Send, Retry, AskRepeat, RequestState
    <2>2. MBX'[0] \in RequestSet \union {NoMsg}
      BY <2>1 DEF FollowInv, HeldInv
    <2> QED
      BY <2>1, <2>2, NothingFollows
  <1> QED
    BY <1>1, <1>2, <1>3 DEF Master

\* Stopping forgets what was produced and what was read of it.
LEMMA StateFollows ==
  ASSUME N = 3, IInv, OnceInv, FollowInv,
         ESC_stopmbx \/ ESC_startmbx \/ ESC_checkmbx \/ NoEvent
  PROVE  FollowInv'
  <1> USE DEF IInv, slots, proto, cached, esc, master
  <1>1. CASE ESC_stopmbx
    <2>1. OutBuffers = {1, 2} /\ Buffers = {0, 1, 2}
      BY QueueTypes
    <2>2. /\ state' = [n \in Buffers |-> "idle"] /\ outbox' = NoMsg /\ MBX' = MBX
          /\ received' = <<>> /\ produced' = <<>> /\ ~evSM1'
      BY <1>1 DEF ESC_stopmbx
    <2>3. \A b \in OutBuffers : state'[b] = "idle"
      BY <2>1, <2>2
    <2>4. HeldInv'
      BY <2>1, <2>2, <2>3 DEF FollowInv, HeldInv, Waits, Ahead
    <2>5. Ascending' /\ SentInv' /\ ReadInv'
      BY <2>2, KindsOfMessage DEF Ascending, SentInv, ReadInv
    <2> QED
      BY <2>4, <2>5 DEF FollowInv
  <1>2. CASE ESC_startmbx \/ ESC_checkmbx \/ NoEvent
    <2>1. UNCHANGED <<produced, received, mbxoutpost, mbxbackup, state, MBX, outbox, evSM1>>
      BY <1>2, Zenon DEF ESC_startmbx, ESC_checkmbx, NoEvent
    <2>2. MBX'[0] \in RequestSet \union {NoMsg}
      BY <2>1 DEF FollowInv, HeldInv
    <2> QED
      BY <2>1, <2>2, NothingFollows
  <1> QED
    BY <1>1, <1>2

\* The posted response becomes the backup: the response it replaces is older.
LEMMA ReleaseFollows ==
  ASSUME N = 3, IInv, OnceInv, FollowInv, MbxOutboxRead
  PROVE  FollowInv'
  <1> USE DEF IInv, proto, cached, esc, master
  <1>1. /\ OutBuffers = {1, 2} /\ Buffers = {0, 1, 2}
        /\ mbxoutpost \in OutBuffers /\ mbxbackup \in Buffers
        /\ state[mbxoutpost] \in {"outpost", "again"}
    BY QueueTypes DEF MbxOutboxRead, OutboxRead, TypeOK, SlotTypes, SlotsConsistent
  <1>2. /\ evSM1 /\ ~evSM1' /\ mbxoutpost' = 0 /\ mbxbackup' = mbxoutpost
        /\ UNCHANGED <<MBX, received, produced>>
        /\ state' = [n \in Buffers |-> IF n = mbxoutpost THEN "backup"
                                       ELSE IF n = mbxbackup /\ n # 0 THEN "idle"
                                       ELSE state[n]]
    BY DEF MbxOutboxRead, OutboxRead, NewBackup
  <1>3. outbox' \in {NoMsg, MBX[mbxoutpost]}
    BY <1>2 DEF MbxOutboxRead, Written, FollowInv, SentInv
  <1>4. \A b \in OutBuffers : state'[b] = IF b = mbxoutpost THEN "backup"
                                          ELSE IF b = mbxbackup THEN "idle" ELSE state[b]
    BY <1>1, <1>2
  <1>5. \A b \in OutBuffers : /\ state'[b] \in Waits => state[b] = "outreq" /\ state'[b] = "outreq"
                              /\ state'[b] = "backup" => b = mbxoutpost
    BY <1>4 DEF SlotsConsistent, Waits
  <1>6. Made' = Made /\ Made \subseteq ResponseSet
    BY <1>2, MadeKept
  <1>7. Ascending'
    BY <1>2 DEF FollowInv, Ascending
  <1>8. HeldInv'
    <2>1. \A b \in OutBuffers : state'[b] \in Waits \union {"backup"} => MBX'[b] \in Made'
      BY <1>1, <1>2, <1>5, <1>6 DEF FollowInv, HeldInv, Waits
    <2>2. \A a, b \in OutBuffers : Ahead(a, b)' => Ahead(a, b)
      BY <1>1, <1>5 DEF Ahead, Waits
    <2>3. state'[1] = "outreq" => state'[2] # "idle"
      <3> SUFFICES ASSUME state'[1] = "outreq", state'[2] = "idle" PROVE FALSE
        OBVIOUS
      <3>1. state[1] = "outreq" /\ state[2] # "idle"
        BY <1>1, <1>5, Zenon DEF FollowInv, HeldInv, Waits
      <3>2. mbxoutpost = 2
        BY <1>1, <3>1
      <3> QED
        BY <1>1, <1>4, <3>2
    <2> QED
      BY <1>2, <2>1, <2>2, <2>3 DEF FollowInv, HeldInv
  <1>9. SentInv'
    <2>1. MBX[mbxoutpost] \in ResponseSet
      BY <1>1, <1>6 DEF FollowInv, HeldInv, Waits
    <2> QED
      BY <1>1, <1>2, <1>3, <2>1, KindsOfMessage DEF SentInv
  <1>10. ReadInv'
    <2> SUFFICES ASSUME NEW m \in ResponseSet, Passed(m) PROVE Passed(m)'
      BY <1>2, NothingRead DEF FollowInv
    <2>1. \A b \in OutBuffers : state'[b] \in Waits => Upto(m, MBX'[b])
      BY <1>2, <1>5 DEF Passed, Waits
    <2>2. Upto(m, MBX[mbxoutpost])
      BY <1>1 DEF Passed, Waits
    <2> QED
      BY <1>1, <1>2, <1>6, <2>1, <2>2 DEF Passed, Noticed
  <1> QED
    BY <1>7, <1>8, <1>9, <1>10 DEF FollowInv

\* A repeat writes the backup, or, before there is one, the request in buffer 0.
LEMMA RepeatFollows ==
  ASSUME N = 3, IInv, OnceInv, FollowInv, MbxRepeat
  PROVE  FollowInv'
  <1> USE DEF IInv, proto, cached, esc, master
  <1>1. /\ OutBuffers = {1, 2} /\ Buffers = {0, 1, 2}
        /\ mbxoutpost \in Buffers /\ mbxbackup \in Buffers
    BY QueueTypes DEF TypeOK, SlotTypes
  <1>2. /\ UNCHANGED <<MBX, mbxoutpost, mbxbackup, produced, received>>
        /\ ~(mbxoutpost # 0 /\ evSM1)
    BY DEF MbxRepeat, OutboxRead
  <1>3. CASE mbxoutpost = 0 /\ mbxbackup = 0
    <2>1. UNCHANGED <<state, outbox, evSM1>>
      BY <1>3, Zenon DEF MbxRepeat
    <2>2. MBX'[0] \in RequestSet \union {NoMsg}
      BY <1>2 DEF FollowInv, HeldInv
    <2> QED
      BY <1>2, <2>1, <2>2, NothingFollows
  <1>4. CASE mbxoutpost # 0 \/ mbxbackup # 0
    <2>1. ~evSM1' /\ outbox' \in {outbox, MBX[mbxbackup]}
      BY <1>4 DEF MbxRepeat, Written
    <2>2. mbxoutpost # 0 => outbox' = MBX[mbxbackup]
      BY DEF MbxRepeat, Written
    <2>3. \A b \in OutBuffers : state'[b] = IF b = mbxoutpost THEN "again" ELSE state[b]
      <3>1. state' = IF mbxoutpost = 0 THEN state ELSE [state EXCEPT ![mbxoutpost] = "again"]
        BY <1>4 DEF MbxRepeat
      <3> QED
        BY <1>1, <3>1 DEF TypeOK, SlotTypes
    <2>4. mbxoutpost # 0 => state[mbxoutpost] \in {"outpost", "again"}
      BY <1>1 DEF SlotsConsistent
    <2>5. Made' = Made /\ Made \subseteq ResponseSet
      BY <1>2, MadeKept
    <2>6. Ascending'
      BY <1>2 DEF FollowInv, Ascending
    <2>7. \A b \in OutBuffers : /\ state'[b] \in Waits <=> state[b] \in Waits
                                /\ state'[b] = "outreq" <=> state[b] = "outreq"
                                /\ state'[b] \in {"outpost", "again"} <=> state[b] \in {"outpost", "again"}
                                /\ state'[b] = "backup" <=> state[b] = "backup"
                                /\ state'[b] = "idle" <=> state[b] = "idle"
      BY <1>1, <2>3, <2>4 DEF Waits
    <2>8. HeldInv'
      <3>1. \A b \in OutBuffers : state'[b] \in Waits \union {"backup"} => MBX'[b] \in Made'
        BY <1>2, <2>5, <2>7 DEF FollowInv, HeldInv
      <3>2. \A a, b \in OutBuffers : Ahead(a, b)' => Ahead(a, b)
        BY <2>7 DEF Ahead
      <3>3. state'[1] = "outreq" => state'[2] # "idle"
        BY <1>1, <2>7 DEF FollowInv, HeldInv
      <3> QED
        BY <1>2, <3>1, <3>2, <3>3 DEF FollowInv, HeldInv
    <2>9. SentInv'
      <3>1. mbxbackup # 0 => MBX[mbxbackup] \in ResponseSet
        BY <1>1, <2>5 DEF SlotsConsistent, FollowInv, HeldInv
      <3>2. mbxbackup = 0 => MBX[mbxbackup] \notin ResponseSet
        BY KindsOfMessage DEF FollowInv, HeldInv
      <3> QED
        BY <1>2, <1>4, <2>1, <2>2, <3>1, <3>2 DEF FollowInv, SentInv
    <2>10. ReadInv'
      <3> SUFFICES ASSUME NEW m \in ResponseSet, Passed(m) PROVE Passed(m)'
        BY <1>2, NothingRead DEF FollowInv
      <3>1. \A b \in OutBuffers : state'[b] \in Waits => Upto(m, MBX'[b])
        BY <1>2, <2>7 DEF Passed
      <3> QED
        BY <1>2, <2>5, <3>1 DEF Passed, Noticed, Unnoticed
    <2> QED
      BY <2>6, <2>8, <2>9, <2>10 DEF FollowInv
  <1> QED
    BY <1>3, <1>4

\* What is posted is the oldest response that waits.  When the outbox refuses it, because a
\* repeat is still there, the buffer is marked all the same and the response is lost.
LEMMA PostFollows ==
  ASSUME N = 3, IInv, OnceInv, FollowInv, MbxPost
  PROVE  FollowInv'
  <1> USE DEF IInv, proto, cached, esc, master
  <1> DEFINE n == Highest(OutReq)
  <1>1. /\ OutBuffers = {1, 2} /\ Buffers = {0, 1, 2}
        /\ mbxoutpost \in Buffers /\ mbxbackup \in Buffers
    BY QueueTypes DEF TypeOK, SlotTypes
  <1>2. MBXrun /\ ~(mbxoutpost # 0 /\ evSM1) /\ (mbxfree \/ ~Stat[1]) /\ OutReq # {}
    BY DEF MbxPost, OutboxRead, CanPost
  <1>3. mbxoutpost = 0
    BY <1>2, StatSees DEF PostedInv
  <1>4. n \in OutReq
    BY <1>2, HighestIn DEF OutReq
  <1>5. /\ state' = [state EXCEPT ![n] = "outpost"] /\ mbxoutpost' = n
        /\ outbox' = IF outbox = NoMsg THEN MBX[n] ELSE outbox
        /\ evSM1' = (evSM1 /\ outbox # NoMsg)
        /\ UNCHANGED <<MBX, mbxbackup, received, produced>>
    BY DEF MbxPost, Written
  <1>6. state[2] = "outreq" => n = 2
    BY <1>1, HighestOfTwo DEF OutReq
  <1> HIDE DEF n
  <1>7. n \in OutBuffers /\ n # 0 /\ state[n] = "outreq"
    BY <1>1, <1>4 DEF OutReq
  <1>8. \A b \in OutBuffers : state'[b] = IF b = n THEN "outpost" ELSE state[b]
    BY <1>1, <1>5, <1>7 DEF TypeOK, SlotTypes
  <1>9. \A b \in OutBuffers : state[b] \notin {"outpost", "again"}
    BY <1>1, <1>3 DEF SlotsConsistent
  <1>10. Made' = Made /\ Made \subseteq ResponseSet
    BY <1>5, MadeKept
  <1>11. Ascending'
    BY <1>5 DEF FollowInv, Ascending
  <1>12. \A b \in OutBuffers : state'[b] \in Waits <=> state[b] \in Waits
    BY <1>7, <1>8 DEF Waits
  <1>13. HeldInv'
    <2>1. \A b \in OutBuffers : state'[b] \in Waits \union {"backup"} => MBX'[b] \in Made'
      BY <1>5, <1>7, <1>8, <1>10 DEF FollowInv, HeldInv, Waits
    <2>2. \A a, b \in OutBuffers : Ahead(a, b)' => Ahead(a, b)
      <3> SUFFICES ASSUME NEW a \in OutBuffers, NEW b \in OutBuffers, Ahead(a, b)'
                   PROVE  Ahead(a, b)
        OBVIOUS
      <3>1. CASE a = n
        <4>1. state'[b] = "outreq" /\ b # n /\ state[b] = "outreq"
          BY <1>8, <3>1 DEF Ahead
        <4>2. a = 2 /\ b = 1
          BY <1>1, <1>6, <1>7, <3>1, <4>1
        <4> QED
          BY <1>7, <3>1, <4>1, <4>2 DEF Ahead
      <3>2. CASE a # n
        <4>1. state'[a] = state[a]
          BY <1>8, <3>2
        <4>2. state'[a] = "backup" \/ (state'[a] = "outreq" /\ state'[b] = "outreq" /\ a > b)
          BY <1>9, <4>1 DEF Ahead
        <4> QED
          BY <1>8, <1>12, <4>1, <4>2 DEF Ahead
      <3> QED
        BY <3>1, <3>2
    <2>3. state'[1] = "outreq" => state'[2] # "idle"
      BY <1>1, <1>8 DEF FollowInv, HeldInv
    <2> QED
      BY <1>5, <2>1, <2>2, <2>3 DEF FollowInv, HeldInv
  <1>14. SentInv'
    <2>1. MBX[n] \in ResponseSet
      BY <1>7, <1>10 DEF FollowInv, HeldInv, Waits
    <2> QED
      BY <1>3, <1>5, <1>7, <2>1 DEF FollowInv, SentInv
  <1>15. ReadInv'
    <2> SUFFICES ASSUME NEW m \in ResponseSet, Passed(m) PROVE Passed(m)'
      BY <1>5, NothingRead DEF FollowInv
    <2>1. \A b \in OutBuffers : state'[b] \in Waits => Upto(m, MBX'[b])
      BY <1>5, <1>12 DEF Passed
    <2> QED
      BY <1>3, <1>5, <1>10, <2>1 DEF Passed, Noticed, Unnoticed
  <1> QED
    BY <1>11, <1>13, <1>14, <1>15 DEF FollowInv

\* A response that is behind all others keeps the order of production.
LEMMA MadeLast ==
  ASSUME OnceInv, Ascending, NEW m \in ResponseSet, \A p \in Made : Upto(p, m),
         produced' = Append(produced, m)
  PROVE  Ascending' /\ Made' = Made \union {m} /\ Made \subseteq ResponseSet
  <1> DEFINE k == Len(produced)
  <1>1. /\ k \in Nat /\ Len(produced') = k + 1 /\ produced'[k + 1] = m
        /\ \A i \in 1 .. k : produced'[i] = produced[i]
        /\ \A i \in 1 .. k : produced[i] \in ResponseSet /\ produced[i] \in Made
    BY DEF OnceInv, Numbered, Made
  <1>2. \A i, j \in 1 .. k : i < j => Upto(produced[i], produced[j])
    BY DEF Ascending
  <1>3. Made = {produced[i] : i \in 1 .. k} /\ Made' = {produced'[i] : i \in 1 .. k + 1}
    BY <1>1 DEF Made
  <1> HIDE DEF k
  <1>4. \A i \in 1 .. k + 1 : i \in 1 .. k \/ i = k + 1
    BY <1>1
  <1>5. \A i \in 1 .. k : i \in 1 .. k + 1
    BY <1>1
  <1>6. Ascending'
    <2> SUFFICES ASSUME NEW i \in 1 .. k + 1, NEW j \in 1 .. k + 1, i < j
                 PROVE  Upto(produced'[i], produced'[j])
      BY <1>1 DEF Ascending
    <2>1. i \in 1 .. k
      BY <1>1
    <2> QED
      BY <1>1, <1>2, <1>4, <2>1
  <1>7. Made' = Made \union {m}
    BY <1>1, <1>3, <1>4, <1>5
  <1> QED
    BY <1>1, <1>3, <1>6, <1>7

\* A response that is claimed a buffer is behind those that wait.
LEMMA ClaimFollows ==
  ASSUME N = 3, IInv, OnceInv, FollowInv, NEW msg \in ResponseSet, IdleOut # {},
         produced' = Append(produced, msg), \A p \in Made : Upto(p, msg),
         UNCHANGED <<received, outbox, evSM1, mbxoutpost, mbxbackup>>,
         \A b \in OutBuffers :
           /\ state'[b] = IF b = Highest(IdleOut) THEN "outreq" ELSE state[b]
           /\ MBX'[b] = IF b = Highest(IdleOut) THEN msg ELSE MBX[b],
         MBX'[0] \in RequestSet \union {NoMsg}
  PROVE  FollowInv'
  <1> USE DEF IInv, TypeOK
  <1> DEFINE n == Highest(IdleOut)
  <1>1. /\ OutBuffers = {1, 2} /\ Buffers = {0, 1, 2}
        /\ mbxoutpost \in Buffers /\ mbxbackup \in Buffers
    BY QueueTypes DEF SlotTypes
  <1>2. n \in IdleOut
    BY HighestIn DEF IdleOut
  <1>3. state[2] = "idle" => n = 2
    BY <1>1, HighestOfTwo DEF IdleOut
  <1>4. n \in OutBuffers /\ state[n] = "idle" /\ n # mbxoutpost /\ n # mbxbackup
    BY <1>1, <1>2 DEF IdleOut, SlotsConsistent
  <1>5. \A b \in OutBuffers : /\ state'[b] = IF b = n THEN "outreq" ELSE state[b]
                              /\ MBX'[b] = IF b = n THEN msg ELSE MBX[b]
    OBVIOUS
  <1> HIDE DEF n
  <1>6. /\ mbxoutpost # 0 => MBX'[mbxoutpost] = MBX[mbxoutpost]
        /\ mbxbackup # 0 => MBX'[mbxbackup] = MBX[mbxbackup]
    BY <1>1, <1>4, <1>5
  <1>7. Ascending' /\ Made' = Made \union {msg} /\ Made \subseteq ResponseSet
    BY MadeLast DEF FollowInv
  <1>8. HeldInv'
    <2>1. \A b \in OutBuffers : state'[b] \in Waits \union {"backup"} => MBX'[b] \in Made'
      BY <1>5, <1>7 DEF FollowInv, HeldInv
    <2>2. \A a, b \in OutBuffers : Ahead(a, b)' => Upto(MBX'[a], MBX'[b])
      <3> SUFFICES ASSUME NEW a \in OutBuffers, NEW b \in OutBuffers, Ahead(a, b)'
                   PROVE  Upto(MBX'[a], MBX'[b])
        OBVIOUS
      <3>1. a # n
        <4> SUFFICES ASSUME a = n PROVE FALSE
          OBVIOUS
        <4>1. state'[b] = "outreq" /\ n > b /\ b # n
          BY <1>1, <1>4, <1>5 DEF Ahead
        <4>2. state[1] = "outreq" /\ state[2] = "idle"
          BY <1>1, <1>4, <1>5, <4>1
        <4> QED
          BY <4>2 DEF FollowInv, HeldInv
      <3>2. CASE b = n
        <4>1. state[a] \in Waits \union {"backup"}
          BY <1>5, <3>1 DEF Ahead, Waits
        <4>2. MBX[a] \in Made
          BY <4>1 DEF FollowInv, HeldInv
        <4> QED
          BY <1>5, <3>1, <3>2, <4>2
      <3>3. CASE b # n
        <4>1. Ahead(a, b)
          BY <1>5, <3>1, <3>3 DEF Ahead
        <4> QED
          BY <1>5, <3>1, <3>3, <4>1 DEF FollowInv, HeldInv
      <3> QED
        BY <3>2, <3>3
    <2>3. state'[1] = "outreq" => state'[2] # "idle"
      BY <1>1, <1>3, <1>4, <1>5 DEF FollowInv, HeldInv
    <2> QED
      BY <2>1, <2>2, <2>3 DEF HeldInv
  <1>9. SentInv'
    BY <1>6 DEF FollowInv, SentInv
  <1>10. ReadInv'
    <2> SUFFICES ASSUME NEW m \in ResponseSet, Passed(m) PROVE Passed(m)'
      BY NothingRead DEF FollowInv
    <2>1. \A b \in OutBuffers : state'[b] \in Waits => Upto(m, MBX'[b])
      BY <1>5 DEF Passed
    <2> QED
      BY <1>6, <1>7, <2>1 DEF Passed, Noticed, Unnoticed
  <1> QED
    BY <1>7, <1>8, <1>9, <1>10 DEF FollowInv

\* The response of a handler, queued or dropped.
LEMMA RespondFollows ==
  ASSUME N = 3, IInv, OnceInv, FollowInv, NEW msg \in ResponseSet, NEW s \in {"idle", "inclaim"},
         RespondOrDrop(msg, s), \A p \in Made : Upto(p, msg),
         UNCHANGED <<received, outbox, evSM1, mbxoutpost, mbxbackup>>
  PROVE  FollowInv'
  <1> USE DEF IInv, TypeOK
  <1>1. OutBuffers = {1, 2} /\ Buffers = {0, 1, 2}
    BY QueueTypes
  <1>2. CASE NoBuffer(s)
    <2>1. /\ UNCHANGED <<MBX, produced>> /\ state' = [state EXCEPT ![0] = s]
      BY <1>2 DEF NoBuffer
    <2>2. \A b \in OutBuffers : state'[b] = state[b] /\ MBX'[b] = MBX[b]
      BY <1>1, <2>1 DEF SlotTypes
    <2>3. MBX'[0] \in RequestSet \union {NoMsg}
      BY <2>1 DEF FollowInv, HeldInv
    <2> QED
      BY <2>1, <2>2, <2>3, NothingFollows
  <1>3. CASE Respond(msg, s)
    <2> DEFINE n == Highest(IdleOut)
    <2>1. /\ IdleOut # {} /\ state' = [state EXCEPT ![n] = "outreq", ![0] = s]
          /\ MBX' = [MBX EXCEPT ![n] = msg] /\ produced' = Append(produced, msg)
      BY <1>3 DEF Respond
    <2>2. n \in OutBuffers
      BY <2>1, HighestIn DEF IdleOut
    <2>3. \A b \in OutBuffers : /\ state'[b] = IF b = n THEN "outreq" ELSE state[b]
                                /\ MBX'[b] = IF b = n THEN msg ELSE MBX[b]
      BY <1>1, <2>1, <2>2 DEF SlotTypes
    <2>4. MBX'[0] \in RequestSet \union {NoMsg}
      BY <1>1, <2>1, <2>2 DEF SlotTypes, FollowInv, HeldInv
    <2> QED
      BY <2>1, <2>3, <2>4, ClaimFollows
  <1> QED
    BY <1>2, <1>3 DEF RespondOrDrop

\* A request that is read produces nothing yet, but an empty one is answered at once.
LEMMA InboxFollows ==
  ASSUME N = 3, IInv, OnceInv, FollowInv, EmptyInv, MbxRead
  PROVE  FollowInv'
  <1> USE DEF IInv, TypeOK, proto, cached, esc, master
  <1>1. MBXrun /\ Stat[0]
    BY DEF MbxRead, CanRead
  <1>2. inbox \in RequestSet /\ inbox # NoMsg /\ inbox.req \in 1 .. MaxReq
    BY <1>1, StatSees, MessageReq DEF LinkTypes
  <1>3. UNCHANGED <<received, mbxoutpost, mbxbackup, outbox, evSM1>>
    BY DEF MbxRead
  <1>4. 0 \in Buffers /\ OutBuffers = Buffers \ {0}
    BY DEF Buffers, OutBuffers
  <1>5. CASE inbox.kind = "empty" /\ IdleOut # {}
    <2> DEFINE n == Highest(IdleOut)
               m == Response(inbox.req, 1)
    <2>1. /\ state' = [state EXCEPT ![n] = "outreq"] /\ produced' = Append(produced, m)
          /\ MBX' = [MBX EXCEPT ![0] = inbox, ![n] = m]
      BY <1>5 DEF MbxRead
    <2>2. n \in OutBuffers
      BY <1>5, HighestIn DEF IdleOut
    <2>3. m \in ResponseSet /\ m.req = inbox.req /\ m.n = 1
      BY <1>2, ResponseType DEF Response
    <2> HIDE DEF m
    <2>4. \A b \in OutBuffers : /\ state'[b] = IF b = n THEN "outreq" ELSE state[b]
                                /\ MBX'[b] = IF b = n THEN m ELSE MBX[b]
      BY <1>4, <2>1, <2>2 DEF SlotTypes
    <2>5. MBX'[0] \in RequestSet \union {NoMsg}
      BY <1>2, <1>4, <2>1, <2>2 DEF SlotTypes
    <2>6. ASSUME NEW i \in 1 .. Len(produced) PROVE Upto(produced[i], m)
      <3>1. /\ produced[i] \in ResponseSet /\ produced[i].req <= mbxincnt
            /\ mbxincnt <= inbox.req /\ mbxincnt \in Nat
        BY <1>2 DEF OnceInv, Numbered, RunTypes
      <3>2. produced[i].req \in Nat
        BY <3>1 DEF ResponseSet
      <3>3. CASE produced[i].req < inbox.req
        BY <2>3, <3>3 DEF Upto, Earlier
      <3>4. CASE produced[i].req >= inbox.req
        <4>1. produced[i].req = mbxincnt /\ inbox.req = mbxincnt
          BY <1>2, <3>1, <3>2, <3>4
        <4>2. inbox = MBX[0]
          BY <1>2, <4>1 DEF EmptyInv
        <4>3. produced[i].n = 1
          BY <1>2, <1>5, <4>1, <4>2 DEF EmptyInv
        <4>4. produced[i] = m
          BY <2>3, <3>1, <4>1, <4>3 DEF ResponseSet
        <4> QED
          BY <4>4 DEF Upto
      <3> QED
        BY <1>2, <3>2, <3>3, <3>4
    <2>7. \A p \in Made : Upto(p, m)
      BY <2>6 DEF Made
    <2> QED
      BY <1>3, <1>5, <2>1, <2>3, <2>4, <2>5, <2>7, ClaimFollows
  <1>6. CASE ~(inbox.kind = "empty" /\ IdleOut # {})
    <2>1. /\ \E s \in BufferStates : state' = [state EXCEPT ![0] = s]
          /\ MBX' = [MBX EXCEPT ![0] = inbox] /\ produced' = produced
      BY <1>6 DEF MbxRead, BufferStates
    <2>2. /\ \A b \in OutBuffers : state'[b] = state[b] /\ MBX'[b] = MBX[b]
          /\ MBX'[0] = inbox
      BY <1>4, <2>1 DEF SlotTypes
    <2> QED
      BY <1>2, <1>3, <2>1, <2>2, NothingFollows
  <1> QED
    BY <1>5, <1>6

\* What the protocols may do: answer the claimed request with its next message, or nothing.
LEMMA ProtocolAnswers ==
  ASSUME IInv, ESC_coeprocess \/ ESC_xoeprocess
  PROVE  \/ UNCHANGED <<state, MBX, produced>>
         \/ \E k \in 1 .. ListFrags, s \in {"idle", "inclaim"} :
              /\ k >= NextPart /\ state[0] = "inclaim"
              /\ RespondOrDrop(Response(ReqId, k), s)
  <1> DEFINE Answers(k, s) == /\ k >= NextPart /\ state[0] = "inclaim"
                              /\ RespondOrDrop(Response(ReqId, k), s)
  <1> USE DEF IInv, TypeOK
  <1>1. CASE ESC_xoeprocess
    <2>1. CASE MBXrun /\ NewRequest
      <3> DEFINE k == IF Kind = "short" THEN 2 ELSE 1
      <3>1. RespondOrDrop(Response(ReqId, k), "idle") /\ state[0] = "inclaim" /\ xoe = "none"
        BY <1>1, <2>1, Zenon DEF ESC_xoeprocess, NewRequest
      <3>2. k \in 1 .. ListFrags /\ k >= NextPart
        BY <1>1, <3>1 DEF ESC_xoeprocess, NextPart
      <3> HIDE DEF k
      <3>3. Answers(k, "idle")
        BY <3>1, <3>2
      <3> QED
        BY <3>2, <3>3, Zenon
    <2>2. CASE ~(MBXrun /\ NewRequest)
      BY <1>1, <2>2, Zenon DEF ESC_xoeprocess
    <2> QED
      BY <2>1, <2>2
  <1>2. CASE ESC_coeprocess
    <2>1. pc = "coe"
      BY <1>2 DEF ESC_coeprocess
    <2>2. CASE CoeListCont
      <3> DEFINE k == ListFrags - fragsleft + 1
      <3>1. PICK s \in {"idle", "inclaim"} : RespondOrDrop(Response(ReqId, k), s)
        BY <2>2 DEF CoeListCont
      <3>2. state[0] = "inclaim" /\ k \in 1 .. ListFrags /\ k >= NextPart
        BY <2>2 DEF CoeListCont, TransferInv, NextPart
      <3> HIDE DEF k
      <3>3. Answers(k, s)
        BY <3>1, <3>2
      <3> QED
        BY <3>2, <3>3, Zenon
    <2>3. CASE CoeShort \/ ((NewRequest \/ xoe = "coe") /\ (CoeSdo \/ CoeInfo \/ CoeList))
      <3>1. state[0] = "inclaim" /\ xoe # "odl"
        BY <2>3 DEF CoeShort, NewRequest, TransferInv
      <3>2. 1 >= NextPart /\ 1 \in 1 .. ListFrags
        BY <2>1, <3>1 DEF NextPart
      <3>3. PICK s \in {"idle", "inclaim"} : RespondOrDrop(Response(ReqId, 1), s)
        BY <2>3 DEF CoeShort, CoeSdo, CoeInfo, CoeList
      <3>4. Answers(1, s)
        BY <3>1, <3>2, <3>3
      <3> QED
        BY <3>2, <3>4, Zenon
    <2>4. CASE UNCHANGED <<state, MBX, txcue, produced, proto>>
      BY <2>4
    <2> QED
      BY <1>2, <2>2, <2>3, <2>4, Zenon DEF ESC_coeprocess, CoeWork
  <1> QED
    BY <1>1, <1>2

\* What the claimed request gets next is behind all that was produced.
LEMMA NextLast ==
  ASSUME IInv, OnceInv, state[0] = "inclaim", NEW k \in 1 .. ListFrags, k >= NextPart
  PROVE  Response(ReqId, k) \in ResponseSet /\ \A p \in Made : Upto(p, Response(ReqId, k))
  <1> USE DEF IInv, TypeOK
  <1>1. MBX[0] \in RequestSet /\ ReqId = mbxincnt
    BY DEF TransferInv, OnceInv, ClaimInv, ReqId
  <1>2. Response(ReqId, k) \in ResponseSet /\ Response(ReqId, k).req = mbxincnt
    BY <1>1, MessageReq, ResponseType DEF ReqId
  <1>3. Response(ReqId, k).n = k /\ NextPart \in Nat
    BY NextPartType DEF Response
  <1>4. \A r \in ResponseSet : r.n \in Nat /\ r.req \in Nat
    BY DEF ResponseSet
  <1>5. \A i \in 1 .. Len(produced) : /\ produced[i] \in ResponseSet /\ produced[i].req <= mbxincnt
                                      /\ produced[i].req = mbxincnt => produced[i].n < NextPart
    BY DEF OnceInv, Numbered, ClaimInv
  <1>6. ASSUME NEW i \in 1 .. Len(produced) PROVE Earlier(produced[i], Response(ReqId, k))
    <2>1. CASE produced[i].req = mbxincnt
      <3>1. produced[i].n < k
        BY <1>3, <1>4, <1>5, <2>1
      <3> QED
        BY <1>2, <1>3, <2>1, <3>1 DEF Earlier
    <2>2. CASE produced[i].req # mbxincnt
      <3>1. produced[i].req < mbxincnt
        BY <1>4, <1>5, <2>2 DEF RunTypes
      <3> QED
        BY <1>2, <3>1 DEF Earlier
    <2> QED
      BY <2>1, <2>2
  <1> QED
    BY <1>2, <1>6 DEF Made, Upto

\* The protocols produce the messages of the answers in order.
LEMMA ProtocolFollows ==
  ASSUME N = 3, IInv, OnceInv, FollowInv, ESC_coeprocess \/ ESC_xoeprocess
  PROVE  FollowInv'
  <1> USE DEF IInv, TypeOK
  <1>1. UNCHANGED <<received, outbox, evSM1, mbxoutpost, mbxbackup>>
    BY Zenon DEF ESC_coeprocess, ESC_xoeprocess, handled, esc, master
  <1>2. ASSUME NEW k \in 1 .. ListFrags, NEW s \in {"idle", "inclaim"}, k >= NextPart,
               RespondOrDrop(Response(ReqId, k), s), state[0] = "inclaim"
        PROVE  FollowInv'
    <2>1. Response(ReqId, k) \in ResponseSet /\ \A p \in Made : Upto(p, Response(ReqId, k))
      BY <1>2, NextLast
    <2> QED
      BY <1>1, <1>2, <2>1, RespondFollows
  <1>3. CASE UNCHANGED <<state, MBX, produced>>
    <2>1. MBX'[0] \in RequestSet \union {NoMsg}
      BY <1>3 DEF FollowInv, HeldInv
    <2> QED
      BY <1>1, <1>3, <2>1, NothingFollows
  <1> QED
    BY <1>2, <1>3, ProtocolAnswers

LEMMA MbxFollows ==
  ASSUME N = 3, IInv, OnceInv, FollowInv, EmptyInv, ESC_mbxprocess
  PROVE  FollowInv'
  <1>1. CASE MbxStopped \/ MbxIdle
    <2>1. UNCHANGED <<produced, received, mbxoutpost, mbxbackup, state, MBX, outbox, evSM1>>
      BY <1>1, Zenon DEF MbxStopped, MbxIdle, slots, esc, master
    <2>2. MBX'[0] \in RequestSet \union {NoMsg}
      BY <2>1 DEF FollowInv, HeldInv
    <2> QED
      BY <2>1, <2>2, NothingFollows DEF IInv
  <1> QED
    BY <1>1, ReleaseFollows, RepeatFollows, PostFollows, InboxFollows DEF ESC_mbxprocess

\* Steps that leave the requests alone.
LEMMA NothingEmpty ==
  ASSUME EmptyInv, UNCHANGED <<inbox, mbxincnt, produced>>, MBX'[0] = MBX[0],
         state'[0] = "inclaim" => state[0] = "inclaim"
  PROVE  EmptyInv'
  BY DEF EmptyInv

\* The master sends a new number or the last request; the slave keeps that one.
LEMMA MasterEmpty ==
  ASSUME IInv, OnceInv, EmptyInv, Master
  PROVE  EmptyInv'
  <1> USE DEF IInv, TypeOK, slots, proto, cached, slave
  <1>1. UNCHANGED <<mbxincnt, produced, MBX, state>>
    BY Zenon DEF Master, Send, Retry, Read, ReadLost, AskRepeat, RequestState
  <1>2. CASE Send
    <2>1. inbox'.req = lastReq + 1
      BY <1>2 DEF Send, Request
    <2>2. mbxincnt <= lastReq /\ mbxincnt \in Nat /\ lastReq \in Nat
      BY DEF OnceInv, Numbered, RunTypes, LinkTypes
    <2> QED
      BY <1>1, <2>1, <2>2 DEF EmptyInv
  <1>3. CASE Retry
    <2>1. inbox' = MBX[0]
      BY <1>3 DEF Retry
    <2> QED
      BY <1>1, <2>1 DEF EmptyInv
  <1>4. CASE Read \/ ReadLost \/ AskRepeat \/ RequestState
    <2>1. inbox' = inbox
      BY <1>4, Zenon DEF Read, ReadLost, AskRepeat, RequestState
    <2> QED
      BY <1>1, <2>1, NothingEmpty
  <1> QED
    BY <1>2, <1>3, <1>4 DEF Master

LEMMA StateEmpty ==
  ASSUME IInv, OnceInv, EmptyInv, ESC_stopmbx \/ ESC_startmbx \/ ESC_checkmbx \/ NoEvent
  PROVE  EmptyInv'
  <1> USE DEF IInv, TypeOK, slots, proto, cached, esc, master
  <1>1. CASE ESC_stopmbx
    <2>1. produced' = <<>> /\ inbox' = NoMsg /\ state'[0] = "idle"
      BY <1>1 DEF ESC_stopmbx, Buffers
    <2> QED
      BY <2>1 DEF EmptyInv
  <1>2. CASE ESC_startmbx \/ ESC_checkmbx \/ NoEvent
    <2>1. UNCHANGED <<mbxincnt, produced, MBX, state, inbox>>
      BY <1>2, Zenon DEF ESC_startmbx, ESC_checkmbx, NoEvent
    <2> QED
      BY <2>1, NothingEmpty
  <1> QED
    BY <1>1, <1>2

LEMMA OutboxEmpty ==
  ASSUME IInv, EmptyInv, MbxStopped \/ MbxOutboxRead \/ MbxRepeat \/ MbxPost \/ MbxIdle
  PROVE  EmptyInv'
  <1>1. UNCHANGED <<produced, mbxincnt, inbox, MBX>>
    BY Zenon DEF MbxStopped, MbxOutboxRead, MbxRepeat, MbxPost, MbxIdle, slots, esc
  <1>2. state'[0] = state[0]
    BY OutboxKeepsRequest
  <1> QED
    BY <1>1, <1>2, NothingEmpty

\* A request that is read is either the last one again or newer than every answer.
LEMMA ReadEmpty ==
  ASSUME IInv, OnceInv, EmptyInv, MbxRead
  PROVE  EmptyInv'
  <1> USE DEF IInv, TypeOK, proto, cached, esc, master
  <1>1. MBXrun /\ Stat[0] /\ state[0] = "idle"
    BY DEF MbxRead, CanRead
  <1>2. inbox \in RequestSet /\ inbox # NoMsg /\ inbox.req \in 1 .. MaxReq
    BY <1>1, StatSees, MessageReq DEF LinkTypes
  <1>3. inbox' = NoMsg /\ mbxincnt' = inbox.req
    BY DEF MbxRead
  <1>4. 0 \in Buffers /\ IdleOut \subseteq Buffers \ {0}
    BY DEF Buffers, IdleOut, OutBuffers
  <1>5. ASSUME NEW i \in 1 .. Len(produced), produced[i].req = inbox.req, inbox.kind = "empty"
        PROVE  produced[i].n = 1
    <2>1. /\ produced[i].req <= mbxincnt /\ mbxincnt <= inbox.req /\ mbxincnt \in Nat
      BY <1>2 DEF OnceInv, Numbered, RunTypes
    <2>2. inbox.req = mbxincnt
      BY <1>2, <1>5, <2>1
    <2>3. inbox = MBX[0]
      BY <1>2, <2>2 DEF EmptyInv
    <2> QED
      BY <1>2, <1>5, <2>2, <2>3 DEF EmptyInv
  <1>6. CASE inbox.kind = "empty" /\ IdleOut # {}
    <2> DEFINE n == Highest(IdleOut)
               m == Response(inbox.req, 1)
               k == Len(produced)
    <2>1. /\ state' = [state EXCEPT ![n] = "outreq"] /\ produced' = Append(produced, m)
      BY <1>6 DEF MbxRead
    <2>2. n \in IdleOut
      BY <1>6, HighestIn DEF IdleOut
    <2>3. m.n = 1 /\ m \in ResponseSet
      BY <1>2, ResponseType DEF Response
    <2>4. state'[0] = "idle"
      BY <1>1, <1>4, <2>1, <2>2 DEF SlotTypes
    <2>5. k \in Nat /\ produced \in Seq(ResponseSet)
      BY DEF OnceInv, Numbered
    <2> HIDE DEF m
    <2>6. /\ Len(produced') = k + 1 /\ produced'[k + 1] = m
          /\ \A i \in 1 .. k : produced'[i] = produced[i]
          /\ \A i \in 1 .. k + 1 : i \in 1 .. k \/ i = k + 1
      BY <2>1, <2>3, <2>5
    <2> HIDE DEF k
    <2>7. \A i \in 1 .. k + 1 : produced'[i].req = inbox.req => produced'[i].n = 1
      BY <1>5, <1>6, <2>3, <2>6 DEF k
    <2> QED
      BY <1>3, <2>4, <2>6, <2>7 DEF EmptyInv
  <1>7. CASE ~(inbox.kind = "empty" /\ IdleOut # {})
    <2>1. /\ produced' = produced /\ MBX' = [MBX EXCEPT ![0] = inbox]
          /\ state' = [state EXCEPT ![0] = IF inbox.req = mbxincnt \/ inbox.kind = "empty"
                                           THEN "idle" ELSE "inclaim"]
      BY <1>7 DEF MbxRead
    <2>2. /\ MBX'[0] = inbox
          /\ state'[0] = "inclaim" => inbox.kind # "empty"
      BY <1>4, <2>1 DEF SlotTypes
    <2> QED
      BY <1>3, <1>5, <2>1, <2>2 DEF EmptyInv
  <1> QED
    BY <1>6, <1>7

\* The protocols answer claimed requests only, which are not empty.
LEMMA ProtocolEmpty ==
  ASSUME IInv, EmptyInv, ESC_coeprocess \/ ESC_xoeprocess
  PROVE  EmptyInv'
  <1> USE DEF IInv, TypeOK
  <1>1. UNCHANGED <<inbox, mbxincnt, mbxoutpost, mbxbackup>>
    BY Zenon DEF ESC_coeprocess, ESC_xoeprocess, handled, esc
  <1>2. ASSUME NEW k \in 1 .. ListFrags, NEW s \in {"idle", "inclaim"},
               RespondOrDrop(Response(ReqId, k), s), state[0] = "inclaim"
        PROVE  EmptyInv'
    <2>1. MBX[0] \in RequestSet
      BY <1>2 DEF TransferInv
    <2>2. Response(ReqId, k) \in ResponseSet
      BY <2>1, MessageReq, ResponseType DEF ReqId
    <2>3. MBX'[0] = MBX[0]
      BY <1>1, <1>2, <2>1, <2>2, Responded
    <2> QED
      BY <1>1, <1>2, <2>3 DEF EmptyInv
  <1>3. CASE UNCHANGED <<state, MBX, produced>>
    BY <1>1, <1>3, NothingEmpty
  <1> QED
    BY <1>2, <1>3, ProtocolAnswers

LEMMA InitEmpty == Init => EmptyInv
  BY DEF Init, EmptyInv, Buffers

LEMMA StepEmpty == IInv /\ OnceInv /\ EmptyInv /\ [Next]_vars => EmptyInv'
  <1> SUFFICES ASSUME IInv, OnceInv, EmptyInv, [Next]_vars PROVE EmptyInv'
    OBVIOUS
  <1>1. CASE UNCHANGED vars
    <2>1. UNCHANGED <<mbxincnt, produced, MBX, state, inbox>>
      BY <1>1, Zenon DEF vars
    <2> QED
      BY <2>1, NothingEmpty
  <1>2. CASE Next
    BY <1>2, MasterEmpty, StateEmpty, OutboxEmpty, ReadEmpty, ProtocolEmpty
       DEF Next, Slave, ESC_mbxprocess
  <1> QED
    BY <1>1, <1>2

LEMMA InitFollows == N = 3 => (Init => FollowInv)
  <1> SUFFICES ASSUME N = 3, Init PROVE FollowInv
    OBVIOUS
  <1>1. Buffers = {0, 1, 2} /\ OutBuffers = {1, 2}
    BY DEF Buffers, OutBuffers
  <1>2. /\ \A b \in Buffers : state[b] = "idle" /\ MBX[b] = NoMsg
        /\ outbox = NoMsg /\ received = <<>> /\ produced = <<>> /\ ~evSM1
    BY DEF Init
  <1>3. HeldInv
    BY <1>1, <1>2 DEF HeldInv, Waits, Ahead
  <1>4. Ascending /\ SentInv /\ ReadInv
    BY <1>2, KindsOfMessage DEF Ascending, SentInv, ReadInv
  <1> QED
    BY <1>3, <1>4 DEF FollowInv

LEMMA StepFollows ==
  N = 3 => (IInv /\ OnceInv /\ EmptyInv /\ FollowInv /\ [Next]_vars => FollowInv')
  <1> SUFFICES ASSUME N = 3, IInv, OnceInv, EmptyInv, FollowInv, [Next]_vars PROVE FollowInv'
    OBVIOUS
  <1>1. CASE UNCHANGED vars
    <2>1. UNCHANGED <<produced, received, mbxoutpost, mbxbackup, state, MBX, outbox, evSM1>>
      BY <1>1, Zenon DEF vars
    <2>2. MBX'[0] \in RequestSet \union {NoMsg}
      BY <2>1 DEF FollowInv, HeldInv
    <2> QED
      BY <2>1, <2>2, NothingFollows DEF IInv
  <1>2. CASE Next
    BY <1>2, MasterFollows, StateFollows, MbxFollows, ProtocolFollows DEF Next, Slave
  <1> QED
    BY <1>1, <1>2

\* With three buffers, and whatever is lost, repeated, sent again or stopped, the responses
\* the master receives are some of those produced, in their order, and none twice.
THEOREM OvertakeCorrect == N = 3 => (Spec => []NoneOvertakes)
  <1> SUFFICES ASSUME N = 3 PROVE Spec => []NoneOvertakes
    OBVIOUS
  <1>1. OnceInv /\ FollowInv => NoneOvertakes
    <2> SUFFICES ASSUME OnceInv, FollowInv, NEW i \in 1 .. Len(received),
                        NEW j \in 1 .. Len(received), i <= j,
                        received[i] \in ResponseSet, received[j] \in ResponseSet
                 PROVE  \E p, q \in 1 .. Len(produced) :
                          /\ produced[p] = received[i] /\ produced[q] = received[j]
                          /\ IF i < j THEN p < q ELSE p = q
      BY DEF NoneOvertakes
    <2>1. received[i] \in Made /\ received[j] \in Made
      BY DEF FollowInv, ReadInv, Passed
    <2>2. PICK p \in 1 .. Len(produced), q \in 1 .. Len(produced) :
            produced[p] = received[i] /\ produced[q] = received[j]
      BY <2>1 DEF Made
    <2>3. CASE i < j
      <3>1. Earlier(received[i], received[j])
        BY <2>3 DEF FollowInv, ReadInv
      <3>2. ~(q < p) /\ p # q
        BY <2>2, <3>1, EarlierOrder DEF FollowInv, Ascending
      <3>3. Len(produced) \in Nat
        BY DEF OnceInv, Numbered
      <3>4. p < q
        BY <3>2, <3>3
      <3> QED
        BY <2>2, <2>3, <3>4
    <2>4. CASE ~(i < j)
      <3>1. i = j
        BY <2>4 DEF FollowInv, ReadInv
      <3> QED
        BY <2>2, <2>4, <3>1
    <2> QED
      BY <2>3, <2>4
  <1>2. IInv /\ OnceInv /\ EmptyInv /\ FollowInv /\ [Next]_vars => FollowInv'
    BY StepFollows
  <1>3. Init => FollowInv
    BY InitFollows
  <1>4. Spec => [](IInv /\ OnceInv)
    BY OnceInductive
  <1> QED
    BY <1>1, <1>2, <1>3, <1>4, InitEmpty, StepEmpty, PTL DEF Spec
=============================================================================
