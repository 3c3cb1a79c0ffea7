---------------------------- MODULE PDOMapProofs ----------------------------
(***************************************************************************)
(* Proofs about PDOMap, for any dictionary, any lists the master writes    *)
(* and any limit on mappings.  LayoutCorrect holds for counts beyond the   *)
(* end of a list too; DataCorrect is about lists within the dictionary's.  *)
(***************************************************************************)
EXTENDS PDOMap, TLAPS, WellFoundedInduction

\* A master maps an object with the length the dictionary gives it.
EntriesMatch ==
  \A p \in PDOs : \A e \in Entries[p] : e.obj \in Objects => e.bits = BitLength[e.obj]

---------------------------------------------------------------------------
(***************************************************************************)
(* The strengthening: the part of a table that is already computed.        *)
(***************************************************************************)
Fits(i, bound) == SMmap[sm][i].obj # Pad => Ends(SMmap[sm][i]) <= bound

Progress ==
  pc \in {"assign", "map"} =>
    /\ \A i, j \in 1 .. mapIx : i < j => Fits(i, SMmap[sm][j].offset)
    /\ \A i \in 1 .. mapIx : Fits(i, offset)
    /\ MaxMappings[sm] > 0 => offset <= 255 * mapIx

IInv == LayoutSound /\ Progress

---------------------------------------------------------------------------
(***************************************************************************)
(* What a step of the inner loop reads.                                    *)
(***************************************************************************)
Entry == [obj : Objects \union {Pad, Missing}, bits : 0 .. 255]

LEMMA Sizes ==
  /\ OffsetRange \in Nat \ {0} /\ MaxEdits \in Nat
  /\ ByteRange \in Nat \ {0} /\ ByteRange <= 256
  /\ \A s \in SMs : MaxMappings[s] \in Nat /\ 255 * MaxMappings[s] < OffsetRange
  BY ConstAssumption DEF ConstAssumption

LEMMA EntryTypes == \A p \in PDOs : Entries[p] \subseteq Entry
  BY ConstAssumption, Zenon DEF ConstAssumption, Entry

LEMMA MappedType ==
  ASSUME TypeOK, pc = "map", NEW e \in Mapped(pdo, c)
  PROVE  e \in Entry
  <1>1. pdo \in PDOs /\ pdo \in Lists /\ Values(pdo) = Entries[pdo]
    BY ConstAssumption DEF TypeOK, Lists, SMs, Values, ConstAssumption
  <1>2. Entries[pdo] \subseteq Entry
    BY <1>1, EntryTypes
  <1>3. count[pdo] \in 0 .. 255
    <2>1. count[pdo] \in 0 .. ByteRange - 1
      BY <1>1 DEF TypeOK
    <2> QED
      BY <2>1, Sizes, SMT
  <1>4. slot[pdo] \in Seq(Entries[pdo])
    BY <1>1 DEF TypeOK
  <1>5. \A i \in 1 .. Len(slot[pdo]) : slot[pdo][i] \in Entry
    BY <1>2, <1>4
  <1>6. [obj |-> Pad, bits |-> count[pdo]] \in Entry
    BY <1>3 DEF Entry
  <1> QED
    BY <1>2, <1>5, <1>6, Zenon DEF Mapped

LEMMA MappedMatches ==
  ASSUME TypeOK, EntriesMatch, pc = "map", NEW e \in Mapped(pdo, c), e.obj \in Objects
  PROVE  e.bits = BitLength[e.obj]
  <1>1. pdo \in PDOs /\ pdo \in Lists /\ Values(pdo) = Entries[pdo]
    BY ConstAssumption DEF TypeOK, Lists, SMs, Values, ConstAssumption
  <1>2. slot[pdo] \in Seq(Entries[pdo])
    BY <1>1 DEF TypeOK
  <1>3. e \in Entries[pdo]
    BY <1>2, ConstAssumption DEF Mapped, ConstAssumption
  <1> QED
    BY <1>1, <1>3 DEF EntriesMatch

---------------------------------------------------------------------------
(***************************************************************************)
(* Type correctness.                                                       *)
(***************************************************************************)
ListTypes ==
  /\ count \in [Lists -> 0 .. ByteRange - 1]
  /\ DOMAIN slot = Lists /\ \A l \in Lists : slot[l] \in Seq(Values(l))

TableTypes ==
  /\ DOMAIN SMmap = SMs /\ \A s \in SMs : SMmap[s] \in [1 .. MaxMappings[s] -> Mapping]
  /\ DOMAIN nmappings = SMs /\ \A s \in SMs : nmappings[s] \in -1 .. MaxMappings[s]
  /\ sml \in [SMs -> Nat]

LoopTypes ==
  /\ pc \in {"idle", "assign", "map", "check"}
  /\ sm \in SMs /\ sic \in 0 .. ByteRange /\ c \in 0 .. ByteRange
  /\ pdo \in PDOs \union {Missing} /\ (pc = "map" => pdo \in PDOs)
  /\ mapIx \in 0 .. MaxMappings[sm]
  /\ offset \in 0 .. OffsetRange - 1

StateTypes ==
  /\ al \in {"preop", "safeop", "op"} /\ inputs \in BOOLEAN
  /\ edited \in BOOLEAN /\ edits \in 0 .. MaxEdits

LEMMA TypeParts == TypeOK <=> ListTypes /\ TableTypes /\ LoopTypes /\ StateTypes
  BY DEF TypeOK, ListTypes, TableTypes, LoopTypes, StateTypes

LEMMA TypePartsNext == ListTypes' /\ TableTypes' /\ LoopTypes' /\ StateTypes' => TypeOK'
  BY DEF TypeOK, ListTypes, TableTypes, LoopTypes, StateTypes

LEMMA IdleTypes == ASSUME Stop PROVE LoopTypes'
  BY Sizes, SMT DEF Stop, LoopTypes, SMs

LEMMA StartTypes == ASSUME NEW s \in SMs, Start(s) PROVE LoopTypes'
  BY Sizes, SMT DEF Start, LoopTypes, SMs

\* A failed computation leaves its table marked as no table.
LEMMA IncorrectTypes ==
  ASSUME TypeOK, Incorrect
  PROVE  TableTypes' /\ LoopTypes' /\ al' = "preop"
  <1>1. sm \in SMs /\ MaxMappings[sm] \in Nat
    BY Sizes DEF TypeOK
  <1>2. TableTypes'
    BY <1>1, SMT DEF TypeOK, TableTypes, Incorrect
  <1> QED
    BY <1>2, IdleTypes DEF Incorrect

\* A further entry is within the table.
LEMMA MapTypes ==
  ASSUME TypeOK, pc = "map", NEW e \in Mapped(pdo, c), ~Refused(e), Map(e), UNCHANGED sm
  PROVE  /\ DOMAIN SMmap' = SMs
         /\ \A s \in SMs : SMmap'[s] \in [1 .. MaxMappings[s] -> Mapping]
         /\ mapIx' \in 0 .. MaxMappings[sm]
         /\ offset' \in 0 .. OffsetRange - 1
  <1>1. sm \in SMs /\ MaxMappings[sm] \in Nat /\ OffsetRange \in Nat \ {0}
    BY Sizes DEF TypeOK
  <1>2. e \in Entry /\ e.bits \in Nat /\ offset \in Nat
    <2>1. e \in Entry
      BY MappedType
    <2>2. offset \in Nat
      BY Sizes, SMT DEF TypeOK
    <2> QED
      BY <2>1, <2>2, SMT DEF Entry
  <1>3. offset' \in 0 .. OffsetRange - 1
    <2>1. offset' = (offset + e.bits) % OffsetRange
      BY DEF Map, Advance
    <2> QED
      BY <1>1, <1>2, <2>1, SMT
  <1>4. CASE MaxMappings[sm] = 0
    BY <1>1, <1>3, <1>4 DEF Map, TypeOK
  <1>5. CASE MaxMappings[sm] > 0
    <2>1. mapIx \in 0 .. MaxMappings[sm] - 1 /\ e.obj \in Objects \union {Pad}
      BY <1>1, <1>2, <1>5, SMT DEF Refused, TypeOK, Entry
    <2>2. [obj |-> e.obj, offset |-> offset] \in Mapping
      BY <2>1 DEF TypeOK, Mapping
    <2>3. /\ SMmap' = [SMmap EXCEPT ![sm][mapIx + 1] = [obj |-> e.obj, offset |-> offset]]
          /\ mapIx' = mapIx + 1
      BY <1>1, <1>5, SMT DEF Map
    <2>4. \A s \in SMs : SMmap'[s] \in [1 .. MaxMappings[s] -> Mapping]
      BY <1>1, <2>1, <2>2, <2>3, SMT DEF TypeOK
    <2> QED
      BY <1>1, <1>3, <2>1, <2>3, <2>4, SMT DEF TypeOK
  <1> QED
    BY <1>1, <1>4, <1>5, SMT

LEMMA InitType == Init => TypeOK
  <1> SUFFICES ASSUME Init PROVE TypeOK
    OBVIOUS
  <1>1. \A s \in SMs : MaxMappings[s] \in Nat
    BY ConstAssumption DEF ConstAssumption
  <1>2. ListTypes
    BY ConstAssumption DEF Init, ListTypes, ConstAssumption
  <1>3. TableTypes
    BY <1>1, Sizes, SMT DEF Init, TableTypes, Mapping
  <1>4. LoopTypes
    BY Sizes, SMT DEF Init, LoopTypes, SMs
  <1>5. StateTypes
    <2>1. al \in {"preop", "safeop", "op"} /\ inputs \in BOOLEAN /\ edited \in BOOLEAN
      BY Zenon DEF Init
    <2> QED
      BY <2>1, Sizes, SMT DEF Init, StateTypes
  <1> QED
    BY <1>2, <1>3, <1>4, <1>5, TypeParts

LEMMA TypeStep == TypeOK /\ [Next]_vars => TypeOK'
  <1> SUFFICES ASSUME TypeOK, [Next]_vars PROVE TypeOK'
    OBVIOUS
  <1>0. ListTypes /\ TableTypes /\ LoopTypes /\ StateTypes
    BY TypeParts
  <1>l. UNCHANGED dict => ListTypes'
    BY <1>0, Zenon DEF ListTypes, dict
  <1>t. UNCHANGED table => TableTypes'
    BY <1>0, Zenon DEF TableTypes, table
  <1>p. UNCHANGED loop => LoopTypes'
    BY <1>0, Zenon DEF LoopTypes, loop
  <1>1. CASE RequestSafeop
    <2>1. StateTypes'
      BY <1>0, <1>1, Zenon DEF RequestSafeop, StateTypes
    <2>2. UNCHANGED dict /\ UNCHANGED table /\ Start(2)
      BY <1>1, Zenon DEF RequestSafeop, dict, table
    <2>3. LoopTypes'
      BY <2>2, StartTypes DEF SMs
    <2> QED
      BY <2>1, <2>2, <2>3, <1>l, <1>t, TypePartsNext
  <1>2. CASE NextPDO
    <2>1. LoopTypes'
      BY <1>0, <1>2, Sizes, SMT DEF NextPDO, LoopTypes, Next8
    <2>2. StateTypes'
      BY <1>0, <1>2, Zenon DEF NextPDO, StateTypes
    <2>3. UNCHANGED dict /\ UNCHANGED table
      BY <1>2, Zenon DEF NextPDO, dict, table
    <2> QED
      BY <2>1, <2>2, <2>3, <1>l, <1>t, TypePartsNext
  <1>3. CASE MapEntry
    <2>1. PICK e \in Mapped(pdo, c) :
            IF Refused(e) THEN Incorrect
            ELSE /\ Map(e) /\ c' = Next8(c)
                 /\ UNCHANGED <<al, nmappings, sml, pc, sm, sic, pdo>>
      BY <1>3, Zenon DEF MapEntry
    <2>2. pc = "map" /\ UNCHANGED dict
      BY <1>3, Zenon DEF MapEntry, dict
    <2>3. ListTypes'
      BY <2>2, <1>l
    <2>4. al' \in {"preop", "safeop", "op"} => StateTypes'
      BY <1>0, <1>3, Zenon DEF MapEntry, StateTypes
    <2>5. CASE Refused(e)
      <3>1. Incorrect
        BY <2>1, <2>5, Zenon
      <3>2. TableTypes' /\ LoopTypes' /\ al' = "preop"
        BY <3>1, IncorrectTypes
      <3> QED
        BY <2>3, <2>4, <3>2, TypePartsNext, Zenon
    <2>6. CASE ~Refused(e)
      <3>1. /\ Map(e) /\ c' = Next8(c)
            /\ UNCHANGED <<al, nmappings, sml, pc, sm, sic, pdo>>
        BY <2>1, <2>6, Zenon
      <3>2. UNCHANGED sm /\ UNCHANGED al
        BY <3>1, Zenon
      <3>3. /\ DOMAIN SMmap' = SMs
            /\ \A s \in SMs : SMmap'[s] \in [1 .. MaxMappings[s] -> Mapping]
            /\ mapIx' \in 0 .. MaxMappings[sm]
            /\ offset' \in 0 .. OffsetRange - 1
        BY <2>2, <2>6, <3>1, <3>2, MapTypes
      <3>4. TableTypes'
        BY <1>0, <3>1, <3>3, Zenon DEF TableTypes
      <3>5. c' \in 0 .. ByteRange
        BY <3>1, <1>0, Sizes, SMT DEF Next8, LoopTypes
      <3>6. LoopTypes'
        BY <1>0, <3>1, <3>3, <3>5, Zenon DEF LoopTypes
      <3>7. StateTypes'
        BY <1>0, <2>4, <3>2, Zenon DEF StateTypes
      <3> QED
        BY <2>3, <3>4, <3>6, <3>7, TypePartsNext
    <2> QED
      BY <2>5, <2>6
  <1>4. CASE EndPDO
    <2>1. LoopTypes'
      BY <1>0, <1>4, Sizes, SMT DEF EndPDO, LoopTypes, Next8
    <2>2. StateTypes'
      BY <1>0, <1>4, Zenon DEF EndPDO, StateTypes
    <2>3. UNCHANGED dict /\ UNCHANGED table
      BY <1>4, Zenon DEF EndPDO, dict, table
    <2> QED
      BY <2>1, <2>2, <2>3, <1>l, <1>t, TypePartsNext
  <1>5. CASE EndSize
    <2>1. Size(offset) \in Nat
      <3>1. offset \in Nat
        BY <1>0, Sizes, SMT DEF LoopTypes
      <3> QED
        BY <3>1, SMT DEF Size, BITS2BYTES
    <2>2. TableTypes'
      <3>1. sm \in SMs /\ mapIx \in 0 .. MaxMappings[sm]
        BY <1>0 DEF LoopTypes
      <3>2. MaxMappings[sm] \in Nat
        BY <3>1, Sizes
      <3>3. mapIx \in -1 .. MaxMappings[sm]
        BY <3>1, <3>2, SMT
      <3> HIDE DEF Size
      <3>4. /\ UNCHANGED SMmap
            /\ nmappings' = [nmappings EXCEPT ![sm] = mapIx]
            /\ sml' = [sml EXCEPT ![sm] = Size(offset)]
        BY <1>5, Zenon DEF EndSize
      <3>5. \A s \in SMs : nmappings'[s] \in -1 .. MaxMappings[s]
        <4> TAKE s \in SMs
        <4> QED
          BY <1>0, <3>1, <3>3, <3>4, Zenon DEF TableTypes
      <3> QED
        BY <1>0, <2>1, <3>1, <3>4, <3>5, Zenon DEF TableTypes
    <2>3. LoopTypes'
      <3>1. CASE sm = 2
        <4>1. Start(3)
          BY <1>5, <3>1, Zenon DEF EndSize
        <4> QED
          BY <4>1, StartTypes DEF SMs
      <3>2. CASE sm # 2
        <4>1. pc' = "check" /\ UNCHANGED <<sm, sic, pdo, c, mapIx, offset>>
          BY <1>5, <3>2, Zenon DEF EndSize
        <4> QED
          BY <1>0, <4>1, Zenon DEF LoopTypes
      <3> QED
        BY <3>1, <3>2
    <2>4. StateTypes'
      BY <1>0, <1>5, Zenon DEF EndSize, StateTypes
    <2>5. UNCHANGED dict
      BY <1>5, Zenon DEF EndSize, dict
    <2> QED
      BY <2>2, <2>3, <2>4, <2>5, <1>l, TypePartsNext
  <1>6. CASE Accept
    <2>1. StateTypes'
      BY <1>0, <1>6, Zenon DEF Accept, StateTypes
    <2>2. UNCHANGED dict /\ UNCHANGED table /\ Stop
      BY <1>6, Zenon DEF Accept, dict, table
    <2> QED
      BY <2>1, <2>2, <1>l, <1>t, IdleTypes, TypePartsNext
  <1>7. CASE Reject
    <2>1. StateTypes'
      BY <1>0, <1>7, Zenon DEF Reject, StateTypes
    <2>2. UNCHANGED dict /\ UNCHANGED table /\ Stop
      BY <1>7, Zenon DEF Reject, dict, table
    <2> QED
      BY <2>1, <2>2, <1>l, <1>t, IdleTypes, TypePartsNext
  <1>8. CASE StartOutput \/ StopOutput \/ StopInput
    <2>1. StateTypes'
      BY <1>0, <1>8, Zenon DEF StartOutput, StopOutput, StopInput, StateTypes
    <2>2. UNCHANGED dict /\ UNCHANGED table /\ UNCHANGED loop
      BY <1>8, Zenon DEF StartOutput, StopOutput, StopInput, dict, table, loop
    <2> QED
      BY <2>1, <2>2, <1>l, <1>t, <1>p, TypePartsNext
  <1>9. CASE Restart
    <2>1. StateTypes'
      <3>1. al' = "preop" /\ inputs' \in BOOLEAN /\ edited' \in BOOLEAN /\ edits' = edits
        BY <1>9, Zenon DEF Restart
      <3> QED
        BY <1>0, <3>1, Zenon DEF StateTypes
    <2>2. ListTypes'
      BY <1>9, ConstAssumption, Zenon DEF Restart, ListTypes, ConstAssumption
    <2>3. UNCHANGED table /\ UNCHANGED loop
      BY <1>9, Zenon DEF Restart, table, loop
    <2> QED
      BY <2>1, <2>2, <2>3, <1>t, <1>p, TypePartsNext
  <1>10. ASSUME NEW l \in Lists, Edit(l)
         PROVE  TableTypes' /\ LoopTypes' /\ StateTypes'
    <2>1. edits' \in 0 .. MaxEdits
      <3>1. edits' = edits + 1 /\ edits < MaxEdits
        BY <1>10, Zenon DEF Edit
      <3>2. edits \in 0 .. MaxEdits
        BY <1>0 DEF StateTypes
      <3> QED
        BY <3>1, <3>2, Sizes, SMT
    <2>2. StateTypes'
      BY <1>0, <1>10, <2>1, Zenon DEF Edit, StateTypes
    <2>3. UNCHANGED table /\ UNCHANGED loop
      BY <1>10, Zenon DEF Edit, table, loop
    <2> QED
      BY <2>2, <2>3, <1>t, <1>p
  <1>11. CASE DownloadCount
    <2>0. PICK l \in Lists : \E n \in Counts[l] :
            Edit(l) /\ count' = [count EXCEPT ![l] = n] /\ UNCHANGED slot
      BY <1>11, Zenon DEF DownloadCount
    <2>1. PICK n \in Counts[l] :
            Edit(l) /\ count' = [count EXCEPT ![l] = n] /\ UNCHANGED slot
      BY <2>0, Zenon
    <2>2. Counts[l] \subseteq 0 .. ByteRange - 1
      BY ConstAssumption, Zenon DEF ConstAssumption
    <2>3. ListTypes'
      BY <1>0, <2>1, <2>2, Zenon DEF ListTypes
    <2> QED
      BY <1>10, <2>1, <2>3, TypePartsNext
  <1>12. CASE DownloadEntry
    <2>0. PICK l \in Lists : \E i \in 1 .. Len(slot[l]), v \in Values(l) :
            /\ count[l] = 0
            /\ Edit(l) /\ slot' = [slot EXCEPT ![l][i] = v] /\ UNCHANGED count
      BY <1>12, Zenon DEF DownloadEntry
    <2>1. PICK i \in 1 .. Len(slot[l]), v \in Values(l) :
            Edit(l) /\ slot' = [slot EXCEPT ![l][i] = v] /\ UNCHANGED count
      BY <2>0, Zenon
    <2>2. slot[l] \in Seq(Values(l))
      BY <1>0, Zenon DEF ListTypes
    <2>3. [slot[l] EXCEPT ![i] = v] \in Seq(Values(l))
      BY <2>2
    <2>4. ListTypes'
      BY <1>0, <2>1, <2>3, Zenon DEF ListTypes
    <2> QED
      BY <1>10, <2>1, <2>4, TypePartsNext
  <1>13. CASE TXPDO_update \/ RXPDO_update
    <2>1. \E s \in SMs : Copy(s)
      BY <1>13, Zenon DEF TXPDO_update, RXPDO_update, SMs
    <2>2. StateTypes'
      BY <1>0, <2>1, Zenon DEF Copy, StateTypes
    <2>3. UNCHANGED dict /\ UNCHANGED table /\ UNCHANGED loop
      BY <2>1, Zenon DEF Copy, dict, table, loop
    <2> QED
      BY <2>2, <2>3, <1>l, <1>t, <1>p, TypePartsNext
  <1>14. CASE UNCHANGED vars
    <2>1. StateTypes'
      BY <1>0, <1>14, Zenon DEF vars, StateTypes
    <2>2. UNCHANGED dict /\ UNCHANGED table /\ UNCHANGED loop
      BY <1>14, Zenon DEF vars, dict, table, loop
    <2> QED
      BY <2>1, <2>2, <1>l, <1>t, <1>p, TypePartsNext
  <1> QED
    BY <1>1, <1>2, <1>3, <1>4, <1>5, <1>6, <1>7, <1>8, <1>9, <1>11, <1>12, <1>13, <1>14,
       Zenon DEF Next, Loop

\* The lists, the tables and the loops of sizeOfPDO stay within their types.
THEOREM TypeCorrect == Spec => []TypeOK
  BY InitType, TypeStep, PTL DEF Spec

---------------------------------------------------------------------------
(***************************************************************************)
(* Layout.                                                                 *)
(***************************************************************************)
LEMMA SameLayout ==
  ASSUME NEW s \in SMs, Disjoint(s) /\ Within(s), UNCHANGED table
  PROVE  (Disjoint(s) /\ Within(s))'
  BY Zenon DEF Disjoint, Within, Ends, table

\* A step that leaves the tables and the loops alone.
LEMMA SameInv == ASSUME IInv, UNCHANGED table, UNCHANGED loop PROVE IInv'
  <1>1. LayoutSound'
    <2> SUFFICES ASSUME NEW s \in SMs, ~Sizing(s)'
                 PROVE  (Disjoint(s) /\ Within(s))'
      BY DEF LayoutSound
    <2>1. ~Sizing(s)
      BY Zenon DEF Sizing, loop
    <2> QED
      BY <2>1, SameLayout DEF IInv, LayoutSound
  <1>2. Progress'
    BY Zenon DEF IInv, Progress, Fits, Ends, table, loop
  <1> QED
    BY <1>1, <1>2 DEF IInv

\* A step that starts the loops again, or from outside them ends them.
LEMMA StartInv ==
  ASSUME IInv, UNCHANGED table, pc \in {"idle", "check"}, Start(2) \/ Stop
  PROVE  IInv'
  <1>1. \A s \in SMs : ~Sizing(s)
    BY Zenon DEF Sizing
  <1>2. LayoutSound'
    BY <1>1, SameLayout DEF IInv, LayoutSound
  <1>3. Progress'
    BY SMT DEF Progress, Start, Stop
  <1> QED
    BY <1>2, <1>3 DEF IInv

\* An entry that is taken has room in the table, and no offset wraps.
LEMMA EntryMapped ==
  ASSUME TypeOK, Progress, pc = "map", NEW e \in Mapped(pdo, c), ~Refused(e), Map(e),
         MaxMappings[sm] > 0
  PROVE  /\ SMmap' = [SMmap EXCEPT ![sm][mapIx + 1] = [obj |-> e.obj, offset |-> offset]]
         /\ mapIx' = mapIx + 1 /\ mapIx \in Nat /\ mapIx < MaxMappings[sm]
         /\ e.obj \in Objects \union {Pad}
         /\ offset' = offset + e.bits /\ offset' <= 255 * mapIx' /\ offset' \in Nat
         /\ SMmap'[sm][mapIx + 1] = [obj |-> e.obj, offset |-> offset]
         /\ \A i \in 1 .. MaxMappings[sm] : i # mapIx + 1 => SMmap'[sm][i] = SMmap[sm][i]
  <1>1. /\ sm \in SMs /\ MaxMappings[sm] \in Nat /\ 255 * MaxMappings[sm] < OffsetRange
        /\ OffsetRange \in Nat \ {0}
    BY Sizes DEF TypeOK
  <1>2. e \in Entry /\ e.bits \in 0 .. 255 /\ offset \in Nat
    <2>1. e \in Entry
      BY MappedType
    <2>2. offset \in Nat
      BY Sizes, SMT DEF TypeOK
    <2> QED
      BY <2>1, <2>2, SMT DEF Entry
  <1>3. mapIx \in 0 .. MaxMappings[sm] - 1 /\ e.obj \in Objects \union {Pad}
    BY <1>1, <1>2, SMT DEF Refused, TypeOK, Entry
  <1>4. /\ SMmap' = [SMmap EXCEPT ![sm][mapIx + 1] = [obj |-> e.obj, offset |-> offset]]
        /\ mapIx' = mapIx + 1 /\ offset' = (offset + e.bits) % OffsetRange
    BY <1>1, SMT DEF Map, Advance
  <1>5. offset' = offset + e.bits /\ offset' <= 255 * mapIx' /\ offset' \in Nat
    <2>1. offset + e.bits <= 255 * (mapIx + 1)
      <3>1. offset <= 255 * mapIx
        BY DEF Progress
      <3> QED
        BY <1>2, <1>3, <3>1, SMT
    <2>2. 255 * (mapIx + 1) <= 255 * MaxMappings[sm]
      BY <1>1, <1>3, SMT
    <2>3. offset + e.bits \in 0 .. OffsetRange - 1
      BY <1>1, <1>2, <1>3, <2>1, <2>2, SMT
    <2>4. (offset + e.bits) % OffsetRange = offset + e.bits
      BY <1>1, <2>3, SMT
    <2> QED
      BY <1>2, <1>4, <2>1, <2>3, <2>4, SMT
  <1>6. DOMAIN SMmap = SMs /\ SMmap[sm] \in [1 .. MaxMappings[sm] -> Mapping]
    BY <1>1 DEF TypeOK
  <1>7. SMmap'[sm][mapIx + 1] = [obj |-> e.obj, offset |-> offset]
    BY <1>1, <1>3, <1>4, <1>6, SMT
  <1>8. \A i \in 1 .. MaxMappings[sm] : i # mapIx + 1 => SMmap'[sm][i] = SMmap[sm][i]
    BY <1>1, <1>3, <1>4, <1>6, SMT
  <1> QED
    BY <1>1, <1>3, <1>4, <1>5, <1>7, <1>8

\* A further entry starts where the one before it ends, and no offset wraps.
LEMMA MapInv ==
  ASSUME TypeOK, IInv, EntriesMatch, pc = "map", NEW e \in Mapped(pdo, c),
         ~Refused(e), Map(e), UNCHANGED <<nmappings, sml, pc, sm>>
  PROVE  IInv'
  <1>1. /\ sm \in SMs /\ MaxMappings[sm] \in Nat /\ 255 * MaxMappings[sm] < OffsetRange
        /\ OffsetRange \in Nat \ {0}
    BY Sizes DEF TypeOK
  <1>2. e \in Entry /\ e.bits \in 0 .. 255 /\ offset \in Nat
    <2>1. e \in Entry
      BY MappedType
    <2>2. offset \in Nat
      BY Sizes, SMT DEF TypeOK
    <2> QED
      BY <2>1, <2>2, SMT DEF Entry
  <1>3. Progress
    BY DEF IInv
  <1>4. Progress'
    <2>1. CASE MaxMappings[sm] = 0
      <3>1. mapIx' = 0
        BY <1>1, <2>1, SMT DEF Map, TypeOK
      <3> QED
        BY <1>1, <2>1, <3>1, SMT DEF Progress
    <2>2. CASE MaxMappings[sm] > 0
      <3>1. mapIx \in 0 .. MaxMappings[sm] - 1 /\ e.obj \in Objects \union {Pad}
        BY <1>1, <1>2, <2>2, SMT DEF Refused, TypeOK, Entry
      <3>2. /\ SMmap' = [SMmap EXCEPT ![sm][mapIx + 1] = [obj |-> e.obj, offset |-> offset]]
            /\ mapIx' = mapIx + 1 /\ offset' = (offset + e.bits) % OffsetRange
        BY <1>1, <2>2, SMT DEF Map, Advance
      <3>4. offset' = offset + e.bits /\ offset' <= 255 * mapIx' /\ offset' \in Nat
        BY <1>3, <2>2, EntryMapped
      <3>5. e.obj # Pad => e.bits = BitLength[e.obj]
        BY <3>1, MappedMatches
      <3>6. /\ DOMAIN SMmap = SMs /\ SMmap[sm] \in [1 .. MaxMappings[sm] -> Mapping]
        BY <1>1 DEF TypeOK
      <3>7. SMmap'[sm][mapIx + 1] = [obj |-> e.obj, offset |-> offset]
        BY <1>1, <3>1, <3>2, <3>6, SMT
      <3>8. \A i \in 1 .. mapIx : SMmap'[sm][i] = SMmap[sm][i]
        BY <1>1, <3>1, <3>2, <3>6, SMT
      <3>9. \A i \in 1 .. mapIx :
              /\ SMmap[sm][i].offset \in Nat
              /\ SMmap[sm][i].obj # Pad => BitLength[SMmap[sm][i].obj] \in Nat
        <4> SUFFICES ASSUME NEW i \in 1 .. mapIx
                     PROVE  /\ SMmap[sm][i].offset \in Nat
                            /\ SMmap[sm][i].obj # Pad => BitLength[SMmap[sm][i].obj] \in Nat
          OBVIOUS
        <4>1. i \in 1 .. MaxMappings[sm]
          BY <1>1, <3>1, SMT
        <4>2. SMmap[sm][i] \in Mapping
          BY <3>6, <4>1
        <4>3. BitLength \in [Objects -> Nat \ {0}]
          BY ConstAssumption DEF ConstAssumption
        <4> QED
          BY <1>1, <4>2, <4>3, SMT DEF Mapping
      <3>10. \A i \in 1 .. mapIx' : Fits(i, offset)' 
        <4> SUFFICES ASSUME NEW i \in 1 .. mapIx', (SMmap[sm][i].obj # Pad)'
                     PROVE  Ends(SMmap[sm][i])' <= offset'
          BY DEF Fits
        <4>1. CASE i \in 1 .. mapIx
          <5>1. Ends(SMmap[sm][i]) <= offset
            BY <1>3, <3>8, <4>1 DEF Progress, Fits
          <5> QED
            BY <1>2, <3>4, <3>8, <3>9, <4>1, <5>1, SMT DEF Ends
        <4>2. CASE i = mapIx + 1
          BY <1>2, <3>4, <3>5, <3>7, <4>2, SMT DEF Ends
        <4> QED
          BY <3>1, <3>2, <4>1, <4>2, SMT
      <3>11. \A i, j \in 1 .. mapIx' : i < j => Fits(i, SMmap[sm][j].offset)'
        <4> SUFFICES ASSUME NEW i \in 1 .. mapIx', NEW j \in 1 .. mapIx', i < j,
                            (SMmap[sm][i].obj # Pad)'
                     PROVE  Ends(SMmap[sm][i])' <= SMmap'[sm][j].offset
          BY DEF Fits
        <4>0. i \in 1 .. mapIx
          BY <3>1, <3>2, SMT
        <4>1. CASE j \in 1 .. mapIx
          <5>1. Ends(SMmap[sm][i]) <= SMmap[sm][j].offset
            BY <1>3, <3>8, <4>0, <4>1 DEF Progress, Fits
          <5> QED
            BY <3>8, <4>0, <4>1, <5>1, SMT DEF Ends
        <4>2. CASE j = mapIx + 1
          <5>1. Ends(SMmap[sm][i]) <= offset
            BY <1>3, <3>8, <4>0 DEF Progress, Fits
          <5> QED
            BY <3>7, <3>8, <4>0, <4>2, <5>1, SMT DEF Ends
        <4> QED
          BY <3>1, <3>2, <4>1, <4>2, SMT
      <3> QED
        BY <3>4, <3>10, <3>11 DEF Progress
    <2> QED
      BY <1>1, <2>1, <2>2, SMT
  <1>5. LayoutSound'
    <2> SUFFICES ASSUME NEW s \in SMs, ~Sizing(s)'
                 PROVE  (Disjoint(s) /\ Within(s))'
      BY DEF LayoutSound
    <2>1. s # sm /\ ~Sizing(s)
      BY DEF Sizing
    <2>2. SMmap'[s] = SMmap[s]
      BY <1>1, <2>1 DEF Map, TypeOK
    <2>3. Disjoint(s) /\ Within(s)
      BY <2>1 DEF IInv, LayoutSound
    <2> QED
      BY <2>2, <2>3, Zenon DEF Disjoint, Within, Ends
  <1> QED
    BY <1>4, <1>5 DEF IInv

\* What has been computed is a table; the other one stays.
LEMMA EndInv == ASSUME TypeOK, IInv, EndSize PROVE IInv'
  <1>1. /\ sm \in SMs /\ mapIx \in 0 .. MaxMappings[sm] /\ MaxMappings[sm] \in Nat
        /\ offset \in Nat /\ pc = "assign"
    BY Sizes, SMT DEF TypeOK, EndSize
  <1>2. /\ UNCHANGED SMmap
        /\ nmappings' = [nmappings EXCEPT ![sm] = mapIx]
        /\ sml' = [sml EXCEPT ![sm] = Size(offset)]
    BY Zenon DEF EndSize
  <1>3. Progress
    BY DEF IInv
  <1>5. ASSUME NEW s \in SMs, s = sm
        PROVE  (Disjoint(s) /\ Within(s))'
    <2>1. nmappings'[s] = mapIx /\ sml'[s] = Size(offset)
      BY <1>1, <1>2, <1>5 DEF TypeOK
    <2>2. 8 * Size(offset) >= offset /\ Size(offset) \in Nat
      BY <1>1, SMT DEF Size, BITS2BYTES
    <2>3. Disjoint(s)'
      BY <1>1, <1>2, <1>3, <1>5, <2>1, Zenon DEF Disjoint, Progress, Fits, Ends
    <2>4. Within(s)'
      <3> HIDE DEF Size
      <3> SUFFICES ASSUME NEW i \in 1 .. mapIx, SMmap[s][i].obj # Pad
                   PROVE  Ends(SMmap[s][i]) <= 8 * Size(offset)
        BY <1>2, <2>1, Zenon DEF Within, Ends
      <3>1. Ends(SMmap[s][i]) <= offset
        BY <1>1, <1>3, <1>5, Zenon DEF Progress, Fits
      <3>2. Ends(SMmap[s][i]) \in Nat
        <4>1. i \in 1 .. MaxMappings[s]
          BY <1>1, <1>5, SMT
        <4>2. SMmap[s][i] \in Mapping
          BY <4>1 DEF TypeOK
        <4>3. BitLength \in [Objects -> Nat \ {0}] /\ OffsetRange \in Nat
          BY ConstAssumption DEF ConstAssumption
        <4> QED
          BY <4>2, <4>3, SMT DEF Mapping, Ends
      <3> QED
        BY <1>1, <2>2, <3>1, <3>2, SMT
    <2> QED
      BY <2>3, <2>4
  <1>6. ASSUME NEW s \in SMs, s # sm, Disjoint(s) /\ Within(s)
        PROVE  (Disjoint(s) /\ Within(s))'
    <2>1. nmappings'[s] = nmappings[s] /\ sml'[s] = sml[s]
      BY <1>1, <1>2, <1>6 DEF TypeOK
    <2> QED
      BY <1>2, <1>6, <2>1, Zenon DEF Disjoint, Within, Ends
  <1>7. \A s \in SMs : s # sm => ~Sizing(s)
    BY DEF Sizing
  <1>8. LayoutSound'
    BY <1>5, <1>6, <1>7 DEF IInv, LayoutSound
  <1>9. Progress'
    <2>1. CASE sm = 2
      <3>1. Start(3)
        BY <2>1, Zenon DEF EndSize
      <3> QED
        BY <3>1, SMT DEF Start, Progress
    <2>2. CASE sm # 2
      BY <2>2 DEF EndSize, Progress
    <2> QED
      BY <2>1, <2>2
  <1> QED
    BY <1>8, <1>9 DEF IInv

\* A mapping that is refused leaves no table.
LEMMA IncorrectInv == ASSUME TypeOK, IInv, pc = "map", Incorrect PROVE IInv'
  <1>1. sm \in SMs
    BY DEF TypeOK
  <1>3. Progress'
    BY DEF Incorrect, Stop, Progress
  <1>4. LayoutSound'
    <2> SUFFICES ASSUME NEW s \in SMs PROVE (Disjoint(s) /\ Within(s))'
      BY DEF LayoutSound
    <2>1. CASE s = sm
      <3>1. nmappings'[s] = -1
        BY <1>1, <2>1 DEF Incorrect, TypeOK
      <3>2. 1 .. nmappings'[s] = {}
        BY <3>1, SMT
      <3> QED
        BY <3>2, Zenon DEF Disjoint, Within
    <2>2. CASE s # sm
      <3>1. /\ nmappings'[s] = nmappings[s] /\ sml'[s] = sml[s] /\ UNCHANGED SMmap
        BY <1>1, <2>2 DEF Incorrect, TypeOK
      <3>2. Disjoint(s) /\ Within(s)
        BY <2>2 DEF IInv, LayoutSound, Sizing
      <3> QED
        BY <3>1, <3>2, Zenon DEF Disjoint, Within, Ends
    <2> QED
      BY <2>1, <2>2
  <1> QED
    BY <1>3, <1>4 DEF IInv

LEMMA IndStep == EntriesMatch => (TypeOK /\ IInv /\ [Next]_vars => IInv')
  <1> SUFFICES ASSUME EntriesMatch, TypeOK, IInv, [Next]_vars PROVE IInv'
    OBVIOUS
  <1>1. CASE RequestSafeop
    <2>1. pc = "idle" /\ Start(2) /\ UNCHANGED table
      BY <1>1, Zenon DEF RequestSafeop, table
    <2> QED
      BY <2>1, StartInv
  <1>2. CASE NextPDO \/ EndPDO
    <2>1. /\ UNCHANGED table /\ UNCHANGED <<sm, mapIx, offset>>
          /\ pc \in {"assign", "map"} /\ pc' \in {"assign", "map"}
      BY <1>2, Zenon DEF NextPDO, EndPDO, table
    <2>2. \A s \in SMs : ~Sizing(s)' => ~Sizing(s)
      BY <2>1, Zenon DEF Sizing
    <2>3. LayoutSound'
      BY <2>1, <2>2, SameLayout DEF IInv, LayoutSound
    <2>4. Progress'
      BY <2>1, Zenon DEF IInv, Progress, Fits, Ends, table
    <2> QED
      BY <2>3, <2>4 DEF IInv
  <1>3. CASE MapEntry
    <2>1. PICK e \in Mapped(pdo, c) :
            IF Refused(e) THEN Incorrect
            ELSE /\ Map(e) /\ c' = Next8(c)
                 /\ UNCHANGED <<al, nmappings, sml, pc, sm, sic, pdo>>
      BY <1>3, Zenon DEF MapEntry
    <2>2. pc = "map"
      BY <1>3, Zenon DEF MapEntry
    <2>3. CASE Refused(e)
      <3>1. Incorrect
        BY <2>1, <2>3, Zenon
      <3> QED
        BY <2>2, <3>1, IncorrectInv
    <2>4. CASE ~Refused(e)
      <3>1. Map(e) /\ UNCHANGED <<nmappings, sml, pc, sm>>
        BY <2>1, <2>4, Zenon
      <3> QED
        BY <2>2, <2>4, <3>1, MapInv
    <2> QED
      BY <2>3, <2>4
  <1>4. CASE EndSize
    BY <1>4, EndInv
  <1>5. CASE Accept \/ Reject
    <2>1. pc = "check" /\ Stop /\ UNCHANGED table
      BY <1>5, Zenon DEF Accept, Reject, table
    <2> QED
      BY <2>1, StartInv
  <1>6. CASE \/ StartOutput \/ StopOutput \/ StopInput \/ Restart
             \/ DownloadCount \/ DownloadEntry \/ TXPDO_update \/ RXPDO_update
             \/ UNCHANGED vars
    <2>1. UNCHANGED table /\ UNCHANGED loop
      BY <1>6, Zenon DEF StartOutput, StopOutput, StopInput, Restart, DownloadCount,
         DownloadEntry, Edit, TXPDO_update, RXPDO_update, Copy, vars, table, loop
    <2> QED
      BY <2>1, SameInv
  <1> QED
    BY <1>1, <1>2, <1>3, <1>4, <1>5, <1>6, Zenon DEF Next, Loop

LEMMA InitInv == Init => IInv
  <1> SUFFICES ASSUME Init PROVE IInv
    OBVIOUS
  <1>1. \A s \in SMs : nmappings[s] = 0
    BY Zenon DEF Init
  <1>2. \A s \in SMs : 1 .. nmappings[s] = {}
    BY <1>1, SMT
  <1>3. LayoutSound
    BY <1>2, Zenon DEF LayoutSound, Disjoint, Within
  <1>4. Progress
    BY Zenon DEF Init, Progress
  <1> QED
    BY <1>3, <1>4 DEF IInv

\* When masters map every object with its own length, the objects of a table share
\* no bit and lie within the octets SM2 or SM3 is checked for, whatever else the
\* lists hold: ghosts, gaps, counts past the end.
THEOREM LayoutCorrect == EntriesMatch => (Spec => []LayoutSound)
  <1> SUFFICES ASSUME EntriesMatch PROVE Spec => []LayoutSound
    OBVIOUS
  <1>1. IInv => LayoutSound
    BY DEF IInv
  <1>2. TypeOK /\ IInv /\ [Next]_vars => IInv'
    BY IndStep
  <1> QED
    BY <1>1, <1>2, InitInv, TypeCorrect, PTL DEF Spec

---------------------------------------------------------------------------
(***************************************************************************)
(* Induction over the naturals, for sets, from the library's least         *)
(* element of a well-founded relation.                                     *)
(***************************************************************************)
LEMMA LeastNat ==
  ASSUME NEW T, T \subseteq Nat, T # {}
  PROVE  \E m \in T : \A k \in T : m <= k
  <1> DEFINE R == {p \in Nat \X Nat : p[1] < p[2]}
  <1>1. IsWellFoundedOn(R, Nat)
    BY NatLessThanWellFounded, Zenon DEF OpToRel
  <1>2. \A x, y \in T : <<y, x>> \in R <=> y < x
    OBVIOUS
  <1> HIDE DEF R
  <1>3. PICK m \in T : \A k \in T : ~(<<k, m>> \in R)
    BY <1>1, WFMin
  <1>4. \A k \in T : ~(k < m)
    BY <1>2, <1>3
  <1> QED
    BY <1>4

LEMMA Induction ==
  ASSUME NEW S, 0 \in S, \A n \in Nat : n \in S => n + 1 \in S
  PROVE  Nat \subseteq S
  <1> SUFFICES ASSUME NEW n \in Nat, n \notin S PROVE FALSE
    OBVIOUS
  <1>1. PICK m \in {k \in Nat : k \notin S} : \A k \in {j \in Nat : j \notin S} : m <= k
    BY LeastNat
  <1> QED
    BY <1>1

---------------------------------------------------------------------------
(***************************************************************************)
(* The lists as the master reads them: what Flat and Expected compute.     *)
(***************************************************************************)
\* The pieces x[1] to x[n], one behind the other.
LEMMA JoinExists ==
  ASSUME NEW n \in Nat, NEW x
  PROVE  \E f : f = [i \in 0 .. n |-> IF i = 0 THEN <<>> ELSE f[i - 1] \o x[i]]
  <1> DEFINE S == {k \in Nat : \E f : f = [i \in 0 .. k |-> IF i = 0 THEN <<>>
                                                          ELSE f[i - 1] \o x[i]]}
  <1>1. 0 \in S
    <2> DEFINE f == [i \in 0 .. 0 |-> <<>>]
    <2>1. f = [i \in 0 .. 0 |-> IF i = 0 THEN <<>> ELSE f[i - 1] \o x[i]]
      OBVIOUS
    <2> HIDE DEF f
    <2> QED
      BY <2>1
  <1>2. ASSUME NEW k \in Nat, k \in S PROVE k + 1 \in S
    <2>1. PICK f : f = [i \in 0 .. k |-> IF i = 0 THEN <<>> ELSE f[i - 1] \o x[i]]
      BY <1>2
    <2> DEFINE g == [i \in 0 .. k + 1 |-> IF i = k + 1 THEN f[k] \o x[k + 1] ELSE f[i]]
    <2>2. ASSUME NEW i \in 0 .. k + 1
          PROVE  g[i] = IF i = 0 THEN <<>> ELSE g[i - 1] \o x[i]
      <3>1. CASE i = k + 1
        <4>1. k \in 0 .. k + 1 /\ k # k + 1 /\ i # 0 /\ i - 1 = k
          BY <3>1
        <4> QED
          BY <3>1, <4>1
      <3>2. CASE i # k + 1
        <4>1. i \in 0 .. k
          BY <3>2
        <4>2. g[i] = f[i] /\ f[i] = IF i = 0 THEN <<>> ELSE f[i - 1] \o x[i]
          BY <2>1, <3>2, <4>1
        <4>3. i # 0 => i - 1 \in 0 .. k + 1 /\ i - 1 # k + 1
          BY <4>1
        <4>4. i # 0 => g[i - 1] = f[i - 1]
          BY <4>3
        <4> QED
          BY <4>2, <4>4
      <3> QED
        BY <3>1, <3>2
    <2>3. g = [i \in 0 .. k + 1 |-> g[i]]
      OBVIOUS
    <2> HIDE DEF g
    <2>4. g = [i \in 0 .. k + 1 |-> IF i = 0 THEN <<>> ELSE g[i - 1] \o x[i]]
      BY <2>2, <2>3
    <2>5. k + 1 \in Nat
      OBVIOUS
    <2> QED
      BY <2>4, <2>5, Zenon
  <1> HIDE DEF S
  <1>3. n \in S
    BY <1>1, <1>2, Induction
  <1> QED
    BY <1>3 DEF S

\* The sums of the lengths x[1], x[2], ... before each.
LEMMA SumExists ==
  ASSUME NEW n \in Nat, NEW e
  PROVE  \E f : f = [k \in 1 .. n + 1 |-> IF k = 1 THEN 0 ELSE f[k - 1] + e[k - 1].bits]
  <1> DEFINE S == {m \in Nat : \E f : f = [k \in 1 .. m + 1 |-> IF k = 1 THEN 0
                                              ELSE f[k - 1] + e[k - 1].bits]}
  <1>1. 0 \in S
    <2> DEFINE f == [k \in 1 .. 0 + 1 |-> 0]
    <2>1. f = [k \in 1 .. 0 + 1 |-> IF k = 1 THEN 0 ELSE f[k - 1] + e[k - 1].bits]
      OBVIOUS
    <2> HIDE DEF f
    <2> QED
      BY <2>1
  <1>2. ASSUME NEW m \in Nat, m \in S PROVE m + 1 \in S
    <2>1. PICK f : f = [k \in 1 .. m + 1 |-> IF k = 1 THEN 0 ELSE f[k - 1] + e[k - 1].bits]
      BY <1>2
    <2> DEFINE g == [k \in 1 .. m + 1 + 1 |->
                       IF k = m + 2 THEN f[m + 1] + e[m + 1].bits ELSE f[k]]
    <2>2. ASSUME NEW k \in 1 .. m + 1 + 1
          PROVE  g[k] = IF k = 1 THEN 0 ELSE g[k - 1] + e[k - 1].bits
      <3>1. CASE k = m + 2
        <4>1. m + 1 \in 1 .. m + 1 + 1 /\ m + 1 # m + 2 /\ k # 1 /\ k - 1 = m + 1
          BY <3>1
        <4> QED
          BY <3>1, <4>1
      <3>2. CASE k # m + 2
        <4>1. k \in 1 .. m + 1
          BY <3>2
        <4>2. g[k] = f[k] /\ f[k] = IF k = 1 THEN 0 ELSE f[k - 1] + e[k - 1].bits
          BY <2>1, <3>2, <4>1
        <4>3. k # 1 => k - 1 \in 1 .. m + 1 + 1 /\ k - 1 # m + 2
          BY <4>1
        <4>4. k # 1 => g[k - 1] = f[k - 1]
          BY <4>3
        <4> QED
          BY <4>2, <4>4
      <3> QED
        BY <3>1, <3>2
    <2>3. g = [k \in 1 .. m + 1 + 1 |-> g[k]]
      OBVIOUS
    <2> HIDE DEF g
    <2>4. g = [k \in 1 .. m + 1 + 1 |-> IF k = 1 THEN 0 ELSE g[k - 1] + e[k - 1].bits]
      BY <2>2, <2>3
    <2> QED
      BY <2>4
  <1> HIDE DEF S
  <1>3. n \in S
    BY <1>1, <1>2, Induction
  <1> QED
    BY <1>3 DEF S

Piece(s, i) ==
  IF slot[s][i] \in PDOs THEN SubSeq(slot[slot[s][i]], 1, count[slot[s][i]]) ELSE <<>>
Listing(s) ==
  LET all[i \in 0 .. count[s]] ==
        IF i = 0 THEN <<>>
        ELSE all[i - 1] \o (IF slot[s][i] \in PDOs
                            THEN SubSeq(slot[slot[s][i]], 1, count[slot[s][i]])
                            ELSE <<>>)
  IN  all
Offsets(e) ==
  LET at[k \in 1 .. Len(e) + 1] == IF k = 1 THEN 0 ELSE at[k - 1] + e[k - 1].bits
  IN  at

LEMMA FlatIs == \A s : Flat(s) = Listing(s)[count[s]]
  BY DEF Flat, Listing

LEMMA ExpectedIs ==
  \A s : Expected(s) = {[obj |-> Flat(s)[k].obj, first |-> Offsets(Flat(s))[k],
                         bits |-> Flat(s)[k].bits] :
                          k \in {i \in 1 .. Len(Flat(s)) : Flat(s)[i].obj # Pad}}
  BY DEF Expected, Offsets

LEMMA ListingDef ==
  ASSUME NEW s, count[s] \in Nat
  PROVE  /\ Listing(s)[0] = <<>>
         /\ \A i \in 1 .. count[s] : Listing(s)[i] = Listing(s)[i - 1] \o Piece(s, i)
  <1> DEFINE x == [i \in 0 .. count[s] |-> Piece(s, i)]
             Is(f) == f = [i \in 0 .. count[s] |-> IF i = 0 THEN <<>> ELSE f[i - 1] \o Piece(s, i)]
  <1>1. PICK f : f = [i \in 0 .. count[s] |-> IF i = 0 THEN <<>> ELSE f[i - 1] \o x[i]]
    BY JoinExists
  <1>2. \A i \in 0 .. count[s] : x[i] = Piece(s, i)
    OBVIOUS
  <1> HIDE DEF x
  <1>3. Is(f)
    BY <1>1, <1>2
  <1>4. Listing(s) = CHOOSE g : Is(g)
    BY DEF Listing, Piece
  <1>5. Is(Listing(s))
    <2> HIDE DEF Is
    <2> QED
      BY <1>3, <1>4
  <1>6. 0 \in 0 .. count[s] /\ \A i \in 1 .. count[s] : i \in 0 .. count[s] /\ i # 0
    OBVIOUS
  <1> QED
    BY <1>5, <1>6, Zenon

LEMMA OffsetsDef ==
  ASSUME NEW e, Len(e) \in Nat
  PROVE  /\ Offsets(e)[1] = 0
         /\ \A k \in 1 .. Len(e) : Offsets(e)[k + 1] = Offsets(e)[k] + e[k].bits
  <1> DEFINE n == Len(e)
             Is(f) == f = [k \in 1 .. n + 1 |-> IF k = 1 THEN 0 ELSE f[k - 1] + e[k - 1].bits]
  <1>1. \E f : Is(f)
    BY SumExists
  <1>2. Offsets(e) = CHOOSE g : Is(g)
    BY DEF Offsets
  <1>3. Is(Offsets(e))
    <2> HIDE DEF Is
    <2> QED
      BY <1>1, <1>2
  <1>4. 1 \in 1 .. n + 1
    OBVIOUS
  <1>5. \A k \in 1 .. n : k + 1 \in 1 .. n + 1 /\ k + 1 # 1 /\ (k + 1) - 1 = k
    OBVIOUS
  <1>6. \A j \in 1 .. n + 1 :
          Offsets(e)[j] = IF j = 1 THEN 0 ELSE Offsets(e)[j - 1] + e[j - 1].bits
    BY <1>3, Zenon
  <1>7. Offsets(e)[1] = 0
    BY <1>4, <1>6
  <1>8. ASSUME NEW k \in 1 .. n PROVE Offsets(e)[k + 1] = Offsets(e)[k] + e[k].bits
    <2>1. Offsets(e)[k + 1] = Offsets(e)[(k + 1) - 1] + e[(k + 1) - 1].bits
      BY <1>5, <1>6, Zenon
    <2> QED
      BY <1>5, <2>1, Zenon
  <1> QED
    BY <1>7, <1>8

\* Counts never reach beyond the lists, and the lists end before a counter wraps.
ListsHold ==
  \A l \in Lists : Len(slot[l]) = Len(Defaults[l].slot) /\ count[l] <= Len(slot[l])

Mappable == UNION {Entries[p] : p \in PDOs}

LEMMA ListFacts ==
  ASSUME TypeOK, ListsHold, NEW l \in Lists
  PROVE  count[l] \in Nat /\ slot[l] \in Seq(Values(l)) /\ count[l] <= Len(slot[l])
  <1>1. count[l] \in 0 .. ByteRange - 1
    BY DEF TypeOK
  <1>2. count[l] \in Nat
    BY <1>1, Sizes
  <1> QED
    BY <1>2 DEF TypeOK, ListsHold

\* A piece is the part of the mapping object that counts.
LEMMA PieceFacts ==
  ASSUME TypeOK, ListsHold, NEW s \in SMs, NEW i
  PROVE  /\ Piece(s, i) \in Seq(Mappable)
         /\ slot[s][i] \in PDOs =>
              /\ Len(Piece(s, i)) = count[slot[s][i]]
              /\ \A j \in 1 .. count[slot[s][i]] : Piece(s, i)[j] = slot[slot[s][i]][j]
         /\ slot[s][i] \notin PDOs => Piece(s, i) = <<>>
  <1>1. CASE slot[s][i] \in PDOs
    <2> DEFINE p == slot[s][i]
    <2>1. p \in Lists /\ p \notin SMs
      BY <1>1, ConstAssumption DEF ConstAssumption, Lists
    <2>2. count[p] \in Nat /\ slot[p] \in Seq(Entries[p]) /\ count[p] <= Len(slot[p])
      BY <2>1, ListFacts DEF Values
    <2>3. slot[p] \in Seq(Mappable)
      <3>1. Entries[p] \subseteq Mappable
        BY <1>1 DEF Mappable
      <3> HIDE DEF p
      <3> QED
        BY <2>2, <3>1
    <2>4. Piece(s, i) = SubSeq(slot[p], 1, count[p])
      BY <1>1 DEF Piece
    <2> HIDE DEF p
    <2>5. /\ SubSeq(slot[p], 1, count[p]) \in Seq(Mappable)
          /\ Len(SubSeq(slot[p], 1, count[p])) = count[p]
          /\ \A j \in 1 .. count[p] : SubSeq(slot[p], 1, count[p])[j] = slot[p][j]
      BY <2>2, <2>3
    <2> QED
      BY <1>1, <2>4, <2>5, Zenon DEF p
  <1>2. CASE slot[s][i] \notin PDOs
    BY <1>2 DEF Piece
  <1> QED
    BY <1>1, <1>2

LEMMA ListingTyped ==
  ASSUME TypeOK, ListsHold, NEW s \in SMs
  PROVE  \A i \in 0 .. count[s] : Listing(s)[i] \in Seq(Mappable)
  <1> DEFINE S == {i \in Nat : i <= count[s] => Listing(s)[i] \in Seq(Mappable)}
  <1>1. count[s] \in Nat
    BY ListFacts DEF Lists
  <1>2. 0 \in S
    <2>1. Listing(s)[0] = <<>>
      BY <1>1, ListingDef, Zenon
    <2>2. <<>> \in Seq(Mappable) /\ 0 \in Nat
      OBVIOUS
    <2> QED
      BY <2>1, <2>2, Zenon
  <1>3. ASSUME NEW i \in Nat, i \in S PROVE i + 1 \in S
    <2> SUFFICES ASSUME i + 1 <= count[s] PROVE Listing(s)[i + 1] \in Seq(Mappable)
      OBVIOUS
    <2>1. Listing(s)[i] \in Seq(Mappable)
      BY <1>1, <1>3
    <2>2. Listing(s)[i + 1] = Listing(s)[i] \o Piece(s, i + 1)
      <3>1. i + 1 \in 1 .. count[s] /\ (i + 1) - 1 = i
        BY <1>1
      <3>2. Listing(s)[i + 1] = Listing(s)[(i + 1) - 1] \o Piece(s, i + 1)
        BY <1>1, <3>1, ListingDef, Zenon
      <3> QED
        BY <3>1, <3>2, Zenon
    <2>3. Piece(s, i + 1) \in Seq(Mappable)
      BY PieceFacts
    <2> QED
      BY <2>1, <2>2, <2>3
  <1>4. Nat \subseteq S
    <2> HIDE DEF S
    <2> QED
      BY <1>2, <1>3, Induction
  <1> QED
    BY <1>1, <1>4

LEMMA Joined ==
  ASSUME NEW a \in Seq(Mappable), NEW b \in Seq(Mappable)
  PROVE  /\ Len(a \o b) = Len(a) + Len(b) /\ Len(a) <= Len(a \o b)
         /\ Len(a) \in Nat /\ Len(a \o b) \in Nat
         /\ \A k \in 1 .. Len(a) : (a \o b)[k] = a[k]
         /\ \A k \in 1 .. Len(b) : (a \o b)[Len(a) + k] = b[k]
  OBVIOUS

\* What is read first is the beginning of what is read in the end.
LEMMA Beginnings ==
  ASSUME TypeOK, ListsHold, NEW s \in SMs, NEW i \in 0 .. count[s]
  PROVE  /\ Flat(s) \in Seq(Mappable) /\ Len(Listing(s)[i]) <= Len(Flat(s))
         /\ \A k \in 1 .. Len(Listing(s)[i]) : Flat(s)[k] = Listing(s)[i][k]
  <1> DEFINE L == Listing(s)
             Begins(m) == /\ Len(L[i]) <= Len(L[m])
                          /\ \A k \in 1 .. Len(L[i]) : L[m][k] = L[i][k]
             S == {d \in Nat : i + d <= count[s] => Begins(i + d)}
  <1>1. count[s] \in Nat /\ i \in Nat
    BY ListFacts DEF Lists
  <1>2. \A m \in 0 .. count[s] : L[m] \in Seq(Mappable) /\ Len(L[m]) \in Nat
    BY ListingTyped
  <1>3. 0 \in S
    <2>1. i + 0 = i /\ Len(L[i]) \in Nat
      BY <1>1, <1>2
    <2> HIDE DEF L
    <2> QED
      BY <2>1
  <1>4. ASSUME NEW d \in Nat, d \in S PROVE d + 1 \in S
    <2> SUFFICES ASSUME i + (d + 1) <= count[s] PROVE Begins(i + (d + 1))
      OBVIOUS
    <2> DEFINE m == i + d
    <2>1. m \in Nat /\ m <= count[s] /\ m \in 0 .. count[s] /\ m + 1 = i + (d + 1)
          /\ m + 1 \in 1 .. count[s] /\ (m + 1) - 1 = m
      BY <1>1
    <2>2. Begins(m)
      BY <1>4, <2>1
    <2>3. L[m + 1] = L[m] \o Piece(s, m + 1)
      <3>1. L[m + 1] = L[(m + 1) - 1] \o Piece(s, m + 1)
        BY <1>1, <2>1, ListingDef, Zenon
      <3> QED
        BY <2>1, <3>1, Zenon
    <2>4. L[m] \in Seq(Mappable) /\ Piece(s, m + 1) \in Seq(Mappable) /\ L[i] \in Seq(Mappable)
      BY <1>2, <2>1, PieceFacts
    <2> HIDE DEF m, L
    <2>6. /\ Len(L[m]) <= Len(L[m + 1])
          /\ \A k \in 1 .. Len(L[m]) : L[m + 1][k] = L[m][k]
      <3>1. LET a == L[m]
                b == Piece(s, m + 1)
            IN  /\ Len(a) <= Len(a \o b)
                /\ \A k \in 1 .. Len(a) : (a \o b)[k] = a[k]
        BY <2>4, Joined, Zenon
      <3> QED
        BY <2>3, <3>1, Zenon
    <2>7. Len(L[i]) \in Nat /\ Len(L[m]) \in Nat /\ Len(L[m + 1]) \in Nat
      BY <2>3, <2>4, Joined, Zenon
    <2>8. Len(L[i]) <= Len(L[m + 1]) /\ 1 .. Len(L[i]) \subseteq 1 .. Len(L[m])
      BY <2>2, <2>6, <2>7
    <2>5. Begins(m + 1)
      BY <2>2, <2>6, <2>8
    <2> HIDE DEF Begins
    <2> QED
      BY <2>1, <2>5
  <1>5. Nat \subseteq S
    <2> HIDE DEF S
    <2> QED
      BY <1>3, <1>4, Induction
  <1>6. Begins(count[s])
    <2>1. count[s] - i \in Nat /\ i + (count[s] - i) = count[s] /\ count[s] <= count[s]
      BY <1>1
    <2>2. count[s] - i \in S
      BY <1>5, <2>1
    <2> HIDE DEF Begins
    <2> QED
      BY <2>1, <2>2
  <1>7. Flat(s) = L[count[s]] /\ Flat(s) \in Seq(Mappable)
    BY <1>1, <1>2, FlatIs
  <1> QED
    BY <1>6, <1>7

\* Entry j of the i-th assigned PDO is where the PDOs before it end.
LEMMA PieceAt ==
  ASSUME TypeOK, ListsHold, NEW s \in SMs, NEW i \in 1 .. count[s]
  PROVE  LET base == Len(Listing(s)[i - 1])
             n == Len(Piece(s, i))
         IN  /\ base \in Nat /\ n \in Nat /\ Len(Listing(s)[i]) = base + n
             /\ base + n <= Len(Flat(s))
             /\ \A j \in 1 .. n : Flat(s)[base + j] = Piece(s, i)[j]
  <1> DEFINE L == Listing(s)
             base == Len(Listing(s)[i - 1])
             n == Len(Piece(s, i))
  <1>1. count[s] \in Nat /\ i \in 0 .. count[s] /\ i - 1 \in 0 .. count[s]
    BY ListFacts DEF Lists
  <1>2. L[i] = L[i - 1] \o Piece(s, i)
    BY <1>1, ListingDef
  <1>3. L[i - 1] \in Seq(Mappable) /\ Piece(s, i) \in Seq(Mappable)
    BY <1>1, ListingTyped, PieceFacts
  <1>4. Flat(s) \in Seq(Mappable) /\ Len(L[i]) <= Len(Flat(s))
        /\ \A k \in 1 .. Len(L[i]) : Flat(s)[k] = L[i][k]
    BY <1>1, Beginnings
  <1> HIDE DEF L
  <1>5. /\ Len(L[i - 1]) \in Nat /\ Len(Piece(s, i)) \in Nat
        /\ Len(L[i]) = Len(L[i - 1]) + Len(Piece(s, i))
        /\ \A j \in 1 .. Len(Piece(s, i)) : L[i][Len(L[i - 1]) + j] = Piece(s, i)[j]
    BY <1>2, <1>3
  <1>6. \A j \in 1 .. Len(Piece(s, i)) : Len(L[i - 1]) + j \in 1 .. Len(L[i])
    BY <1>5
  <1> QED
    BY <1>4, <1>5, <1>6 DEF L

---------------------------------------------------------------------------
(***************************************************************************)
(* The second invariant: the tables are the lists.                         *)
(***************************************************************************)
\* The master counts no further than a list goes, lists end before their counter wraps,
\* and both SyncManagers have a table (dynamic mapping).
Conforming ==
  /\ \A l \in Lists : /\ Counts[l] \subseteq 0 .. Len(Defaults[l].slot)
                      /\ Defaults[l].count <= Len(Defaults[l].slot)
                      /\ Len(Defaults[l].slot) < ByteRange - 1
  /\ \A s \in SMs : MaxMappings[s] > 0

\* Entry k of table s is entry k of the lists.
Same(s, k) ==
  SMmap[s][k] = [obj |-> Flat(s)[k].obj, offset |-> Offsets(Flat(s))[k]]

Stored(s) ==
  /\ nmappings[s] = Len(Flat(s))
  /\ \A k \in 1 .. Len(Flat(s)) : Same(s, k)

\* How far the loops are in the lists.
Reached ==
  /\ sm = 3 => Stored(2)
  /\ sic >= 1
  /\ mapIx = Len(Listing(sm)[sic - 1]) + (IF pc = "map" THEN c - 1 ELSE 0)
  /\ pc = "assign" => sic <= count[sm] + 1
  /\ pc = "map" => /\ sic <= count[sm] /\ pdo = slot[sm][sic]
                   /\ c >= 1 /\ c <= count[pdo] + 1
  /\ offset = Offsets(Flat(sm))[mapIx + 1]
  /\ \A k \in 1 .. mapIx : Same(sm, k)

Followed ==
  /\ ~edited => Stored(2) /\ Stored(3)
  /\ pc \in {"assign", "map"} => Reached
  /\ pc = "check" => Stored(2) /\ Stored(3)

\* What was copied last is what the tables say.
Shown == image # NoImage => image.sm \in SMs /\ image.places = Copied(image.sm)

MInv == ListsHold /\ Followed /\ Shown

LEMMA SameLists ==
  ASSUME UNCHANGED dict, NEW s
  PROVE  /\ Flat(s)' = Flat(s) /\ Listing(s)' = Listing(s)
         /\ count' = count /\ slot' = slot
  <1>1. count' = count /\ slot' = slot
    BY DEF dict
  <1> QED
    BY <1>1, Zenon DEF Flat, Listing

LEMMA SameStored ==
  ASSUME UNCHANGED dict, UNCHANGED table, NEW s
  PROVE  Stored(s)' <=> Stored(s)
  <1>1. SMmap' = SMmap /\ nmappings' = nmappings /\ Flat(s)' = Flat(s)
    BY SameLists DEF table
  <1> QED
    BY <1>1, Zenon DEF Stored, Same

LEMMA ListsHoldStep ==
  ASSUME Conforming, TypeOK, ListsHold, [Next]_vars
  PROVE  ListsHold'
  <1>1. CASE UNCHANGED dict
    BY <1>1, Zenon DEF dict, ListsHold
  <1>2. CASE Restart
    <2>1. \A l \in Lists : count'[l] = Defaults[l].count /\ slot'[l] = Defaults[l].slot
      BY <1>2 DEF Restart
    <2> QED
      BY <2>1, Zenon DEF ListsHold, Conforming
  <1>3. CASE DownloadCount
    <2>1. PICK l \in Lists : \E n \in Counts[l] :
            count' = [count EXCEPT ![l] = n] /\ UNCHANGED slot
      BY <1>3, Zenon DEF DownloadCount
    <2>2. PICK n \in Counts[l] : count' = [count EXCEPT ![l] = n] /\ UNCHANGED slot
      BY <2>1, Zenon
    <2>3. Len(slot[l]) = Len(Defaults[l].slot)
      BY DEF ListsHold
    <2>4. n <= Len(slot[l])
      <3>1. n \in 0 .. Len(Defaults[l].slot)
        BY DEF Conforming
      <3>2. slot[l] \in Seq(Values(l))
        BY ListFacts
      <3> QED
        BY <2>3, <3>1, <3>2
    <2>5. \A k \in Lists : count'[k] = IF k = l THEN n ELSE count[k]
      BY <2>2 DEF TypeOK
    <2> QED
      BY <2>2, <2>4, <2>5, Zenon DEF ListsHold
  <1>4. CASE DownloadEntry
    <2>1. PICK l \in Lists : \E i \in 1 .. Len(slot[l]), v \in Values(l) :
            slot' = [slot EXCEPT ![l][i] = v] /\ UNCHANGED count
      BY <1>4, Zenon DEF DownloadEntry
    <2>2. PICK i \in 1 .. Len(slot[l]), v \in Values(l) :
            slot' = [slot EXCEPT ![l][i] = v] /\ UNCHANGED count
      BY <2>1, Zenon
    <2>3. slot[l] \in Seq(Values(l)) /\ DOMAIN slot = Lists
      BY ListFacts DEF TypeOK
    <2>4. Len([slot[l] EXCEPT ![i] = v]) = Len(slot[l])
      BY <2>3
    <2>5. \A k \in Lists : slot'[k] = IF k = l THEN [slot[l] EXCEPT ![i] = v] ELSE slot[k]
      BY <2>2, <2>3, Zenon
    <2>6. \A k \in Lists : Len(slot'[k]) = Len(slot[k])
      BY <2>4, <2>5, Zenon
    <2> QED
      BY <2>2, <2>6, Zenon DEF ListsHold
  <1> QED
    BY <1>1, <1>2, <1>3, <1>4, Zenon DEF Next, Loop, RequestSafeop, NextPDO, MapEntry, EndPDO,
       EndSize, Accept, Reject, StartOutput, StopOutput, StopInput, TXPDO_update,
       RXPDO_update, Copy, vars, dict

\* At the start of a list nothing of it has been read.
LEMMA StartReached ==
  ASSUME TypeOK, ListsHold, UNCHANGED dict, NEW s \in SMs, Start(s), s = 3 => Stored(2)'
  PROVE  Reached' /\ pc' = "assign"
  <1>1. /\ pc' = "assign" /\ sm' = s /\ sic' = 1 /\ c' = 1 /\ mapIx' = 0 /\ offset' = 0
    BY DEF Start
  <1>2. count[s] \in Nat /\ s \in Lists
    BY ListFacts DEF Lists
  <1>3. Listing(s)[0] = <<>> /\ Flat(s) \in Seq(Mappable)
    <2>1. 0 \in 0 .. count[s]
      BY <1>2
    <2> QED
      BY <1>2, <2>1, ListingDef, Beginnings, Zenon
  <1>4. Len(Flat(s)) \in Nat
    BY <1>3
  <1>5. Offsets(Flat(s))[1] = 0
    BY <1>4, OffsetsDef, Zenon
  <1>6. /\ Flat(s)' = Flat(s) /\ Listing(s)' = Listing(s) /\ count' = count
    BY SameLists
  <1>7. mapIx' = Len(Listing(sm)'[sic' - 1]) + 0
    <2>1. sic' - 1 = 0 /\ Listing(sm)' = Listing(s)
      BY <1>1, <1>6
    <2>2. Len(<<>>) + 0 = 0
      OBVIOUS
    <2> QED
      BY <1>1, <1>3, <2>1, <2>2, Zenon
  <1>8. offset' = Offsets(Flat(sm)')[mapIx' + 1]
    <2>1. mapIx' + 1 = 1 /\ Flat(sm)' = Flat(s)
      BY <1>1, <1>6
    <2> QED
      BY <1>1, <1>5, <2>1, Zenon
  <1>9. sic' >= 1 /\ sic' <= count'[sm'] + 1 /\ 1 .. mapIx' = {}
    BY <1>1, <1>2, <1>6
  <1> QED
    BY <1>1, <1>7, <1>8, <1>9, Zenon DEF Reached

\* What the loops have written stays, while they go on.
LEMMA SameReached ==
  ASSUME Reached, UNCHANGED dict, UNCHANGED table, UNCHANGED <<sm, mapIx, offset>>
  PROVE  /\ sm' = 3 => Stored(2)'
         /\ offset' = Offsets(Flat(sm)')[mapIx' + 1]
         /\ \A k \in 1 .. mapIx' : Same(sm, k)'
         /\ Listing(sm)' = Listing(sm) /\ count' = count /\ slot' = slot
  <1>1. Flat(sm)' = Flat(sm) /\ Listing(sm)' = Listing(sm) /\ count' = count /\ slot' = slot
    <2>1. \A s : Flat(s)' = Flat(s) /\ Listing(s)' = Listing(s)
      BY SameLists
    <2> QED
      BY <2>1, SameLists
  <1>2. Stored(2)' <=> Stored(2)
    BY SameStored
  <1>3. SMmap' = SMmap
    BY DEF table
  <1> QED
    BY <1>1, <1>2, <1>3, Zenon DEF Reached, Same

\* In the loops, the counters are within the lists.
LEMMA LoopFacts ==
  ASSUME Conforming, TypeOK, ListsHold, Reached
  PROVE  /\ sm \in SMs /\ sm \in Lists /\ count[sm] \in Nat /\ sic \in Nat /\ c \in Nat
         /\ sic <= count[sm] => sic \in 1 .. count[sm] /\ Next8(sic) = sic + 1
                                /\ Assigned(sm, sic) = {slot[sm][sic]}
         /\ Len(Flat(sm)) \in Nat
         /\ pc = "map" /\ c <= count[pdo] =>
              c \in 1 .. count[pdo] /\ Next8(c) = c + 1 /\ Mapped(pdo, c) = {slot[pdo][c]}
         /\ pc = "map" => pdo \in PDOs /\ pdo \in Lists /\ count[pdo] \in Nat
  <1>1. /\ sm \in SMs /\ sm \in Lists /\ sic \in Nat /\ c \in Nat
        /\ pc = "map" => pdo \in PDOs /\ pdo \in Lists
    BY Sizes DEF TypeOK, Lists
  <1>2. count[sm] \in Nat /\ count[sm] <= Len(slot[sm]) /\ slot[sm] \in Seq(Values(sm))
    BY <1>1, ListFacts
  <1>3. ByteRange \in Nat /\ \A l \in Lists : Len(slot[l]) < ByteRange - 1
    BY Sizes DEF ListsHold, Conforming
  <1>4. ASSUME sic <= count[sm]
        PROVE  sic \in 1 .. count[sm] /\ Next8(sic) = sic + 1
               /\ Assigned(sm, sic) = {slot[sm][sic]}
    <2>1. sic >= 1
      BY DEF Reached
    <2>2. Len(slot[sm]) \in Nat /\ Len(slot[sm]) < ByteRange - 1
      BY <1>1, <1>2, <1>3
    <2>3. sic \in 1 .. count[sm] /\ sic \in 1 .. Len(slot[sm]) /\ sic + 1 \in 0 .. ByteRange - 1
      BY <1>1, <1>2, <1>3, <1>4, <2>1, <2>2
    <2>4. (sic + 1) % ByteRange = sic + 1
      BY <1>3, <2>3
    <2> QED
      BY <2>3, <2>4 DEF Next8, Assigned
  <1>5. Len(Flat(sm)) \in Nat
    <2>1. 0 \in 0 .. count[sm]
      BY <1>2
    <2>2. Flat(sm) \in Seq(Mappable)
      BY <1>1, <2>1, Beginnings
    <2> QED
      BY <2>2
  <1>6. ASSUME pc = "map" PROVE count[pdo] \in Nat
    BY <1>1, <1>6, ListFacts
  <1>7. ASSUME pc = "map", c <= count[pdo]
        PROVE  c \in 1 .. count[pdo] /\ Next8(c) = c + 1 /\ Mapped(pdo, c) = {slot[pdo][c]}
    <2>1. c >= 1
      BY <1>7 DEF Reached
    <2>2. pdo \in Lists /\ count[pdo] <= Len(slot[pdo]) /\ slot[pdo] \in Seq(Values(pdo))
          /\ count[pdo] \in Nat
      BY <1>1, <1>7, ListFacts
    <2>3. Len(slot[pdo]) \in Nat /\ Len(slot[pdo]) < ByteRange - 1
      BY <1>3, <2>2
    <2>4. c \in 1 .. count[pdo] /\ c \in 1 .. Len(slot[pdo]) /\ c + 1 \in 0 .. ByteRange - 1
      BY <1>1, <1>3, <1>7, <2>1, <2>2, <2>3
    <2>5. (c + 1) % ByteRange = c + 1
      BY <1>3, <2>4
    <2> QED
      BY <2>4, <2>5 DEF Next8, Mapped
  <1> QED
    BY <1>1, <1>2, <1>4, <1>5, <1>6, <1>7

\* A step that leaves lists and tables alone.
LEMMA FollowedOn ==
  ASSUME Followed, UNCHANGED dict, UNCHANGED table, edited => edited',
         pc' \in {"assign", "map"} => Reached', pc' # "check"
  PROVE  Followed'
  <1>1. \A s : Stored(s)' <=> Stored(s)
    BY SameStored
  <1> QED
    BY <1>1, Zenon DEF Followed

LEMMA NextFollowed ==
  ASSUME Conforming, TypeOK, ListsHold, Followed, NextPDO
  PROVE  Followed'
  <1>1. /\ pc = "assign" /\ sic <= count[sm] /\ UNCHANGED dict /\ UNCHANGED table
        /\ UNCHANGED <<sm, mapIx, offset, edited>>
    BY Zenon DEF NextPDO, dict, table
  <1>2. Reached
    BY <1>1 DEF Followed
  <1>3. /\ sm \in SMs /\ count[sm] \in Nat /\ sic \in 1 .. count[sm] /\ Next8(sic) = sic + 1
        /\ Assigned(sm, sic) = {slot[sm][sic]}
    BY <1>1, <1>2, LoopFacts
  <1> DEFINE p == slot[sm][sic]
  <1>4. IF p \in PDOs THEN pc' = "map" /\ pdo' = p /\ c' = 1 /\ UNCHANGED sic
        ELSE sic' = sic + 1 /\ UNCHANGED <<pc, pdo, c>>
    <2>1. \E q \in {p} : IF q \in PDOs THEN pc' = "map" /\ pdo' = q /\ c' = 1 /\ UNCHANGED sic
                         ELSE sic' = Next8(sic) /\ UNCHANGED <<pc, pdo, c>>
      BY <1>3, Zenon DEF NextPDO
    <2> QED
      BY <1>3, <2>1, Zenon
  <1>5. mapIx = Len(Listing(sm)[sic - 1]) + 0 /\ Len(Listing(sm)[sic - 1]) \in Nat
    BY <1>1, <1>2, <1>3, PieceAt DEF Reached
  <1>6. /\ sm' = 3 => Stored(2)'
        /\ offset' = Offsets(Flat(sm)')[mapIx' + 1]
        /\ \A k \in 1 .. mapIx' : Same(sm, k)'
        /\ Listing(sm)' = Listing(sm) /\ count' = count /\ slot' = slot
    BY <1>1, <1>2, SameReached
  <1>7. pc' \in {"assign", "map"} /\ Reached'
    <2>1. CASE p \in PDOs
      <3>1. /\ pc' = "map" /\ pdo' = p /\ c' = 1 /\ sic' = sic
        BY <1>4, <2>1
      <3>2. count[p] \in Nat
        BY <2>1, ListFacts DEF Lists
      <3>3. mapIx' = Len(Listing(sm)'[sic' - 1]) + (c' - 1)
        <4>1. c' - 1 = 0
          BY <3>1
        <4> QED
          BY <1>1, <1>5, <1>6, <3>1, <4>1, Zenon
      <3>4. /\ sic' >= 1 /\ sic' <= count'[sm'] /\ pdo' = slot'[sm'][sic'] /\ c' >= 1
            /\ c' <= count'[pdo'] + 1
        BY <1>1, <1>3, <1>6, <3>1, <3>2
      <3> QED
        BY <1>6, <3>1, <3>3, <3>4, Zenon DEF Reached
    <2>2. CASE p \notin PDOs
      <3>1. sic' = sic + 1 /\ pc' = "assign"
        BY <1>1, <1>4, <2>2
      <3>2. Len(Listing(sm)[sic]) = Len(Listing(sm)[sic - 1])
        <4>1. Piece(sm, sic) = <<>>
          BY <1>3, <2>2, PieceFacts
        <4>2. Len(Listing(sm)[sic]) = Len(Listing(sm)[sic - 1]) + Len(Piece(sm, sic))
          BY <1>3, PieceAt
        <4> QED
          BY <1>5, <4>1, <4>2
      <3>3. mapIx' = Len(Listing(sm)'[sic' - 1]) + 0
        <4>1. sic' - 1 = sic
          BY <1>3, <3>1
        <4> QED
          BY <1>1, <1>5, <1>6, <3>2, <4>1, Zenon
      <3>4. sic' >= 1 /\ sic' <= count'[sm'] + 1
        BY <1>1, <1>3, <1>6, <3>1
      <3> QED
        BY <1>6, <3>1, <3>3, <3>4, Zenon DEF Reached
    <2> QED
      BY <2>1, <2>2
  <1> QED
    BY <1>1, <1>7, FollowedOn

LEMMA EndPDOFollowed ==
  ASSUME Conforming, TypeOK, ListsHold, Followed, EndPDO
  PROVE  Followed'
  <1>1. /\ pc = "map" /\ c > count[pdo] /\ UNCHANGED dict /\ UNCHANGED table
        /\ UNCHANGED <<sm, mapIx, offset, edited>>
        /\ pc' = "assign" /\ sic' = Next8(sic)
    BY Zenon DEF EndPDO, dict, table
  <1>2. Reached
    BY <1>1 DEF Followed
  <1>3. /\ sic <= count[sm] /\ pdo = slot[sm][sic] /\ c <= count[pdo] + 1
        /\ mapIx = Len(Listing(sm)[sic - 1]) + (c - 1)
    BY <1>1, <1>2 DEF Reached
  <1>4. /\ sm \in SMs /\ count[sm] \in Nat /\ sic \in 1 .. count[sm] /\ Next8(sic) = sic + 1
        /\ pdo \in PDOs /\ count[pdo] \in Nat /\ c \in Nat
    BY <1>1, <1>2, <1>3, LoopFacts
  <1>5. Len(Piece(sm, sic)) = count[pdo]
    BY <1>3, <1>4, PieceFacts
  <1>6. /\ Len(Listing(sm)[sic]) = Len(Listing(sm)[sic - 1]) + Len(Piece(sm, sic))
        /\ Len(Listing(sm)[sic - 1]) \in Nat
    BY <1>4, PieceAt
  <1>7. c - 1 = count[pdo]
    BY <1>1, <1>3, <1>4
  <1>8. mapIx = Len(Listing(sm)[sic]) + 0
    BY <1>3, <1>4, <1>5, <1>6, <1>7
  <1>9. /\ sm' = 3 => Stored(2)'
        /\ offset' = Offsets(Flat(sm)')[mapIx' + 1]
        /\ \A k \in 1 .. mapIx' : Same(sm, k)'
        /\ Listing(sm)' = Listing(sm) /\ count' = count /\ slot' = slot
    BY <1>1, <1>2, SameReached
  <1>10. sic' - 1 = sic /\ sic' >= 1 /\ sic' <= count'[sm'] + 1
    BY <1>1, <1>4, <1>9
  <1>11. mapIx' = Len(Listing(sm)'[sic' - 1]) + 0
    BY <1>1, <1>8, <1>9, <1>10, Zenon
  <1>12. Reached'
    BY <1>1, <1>9, <1>10, <1>11, Zenon DEF Reached
  <1> QED
    BY <1>1, <1>12, FollowedOn

\* A list that has been read to its end is in its table.
LEMMA EndFollowed ==
  ASSUME Conforming, TypeOK, ListsHold, Followed, EndSize
  PROVE  Followed'
  <1>1. /\ pc = "assign" /\ sic > count[sm] /\ UNCHANGED <<SMmap, edited>> /\ UNCHANGED dict
        /\ nmappings' = [nmappings EXCEPT ![sm] = mapIx]
        /\ IF sm = 2 THEN Start(3) ELSE pc' = "check"
    BY Zenon DEF EndSize, dict
  <1>2. Reached
    BY <1>1 DEF Followed
  <1>3. /\ sic <= count[sm] + 1 /\ mapIx = Len(Listing(sm)[sic - 1]) + 0
        /\ \A k \in 1 .. mapIx : Same(sm, k)
        /\ sm = 3 => Stored(2)
    BY <1>1, <1>2 DEF Reached
  <1>4. sm \in SMs /\ count[sm] \in Nat /\ sic \in Nat /\ Len(Flat(sm)) \in Nat
    BY <1>2, LoopFacts
  <1>5. sic - 1 = count[sm]
    BY <1>1, <1>3, <1>4
  <1>6. mapIx = Len(Flat(sm))
    BY <1>3, <1>4, <1>5, FlatIs
  <1>7. \A s \in SMs : nmappings'[s] = IF s = sm THEN mapIx ELSE nmappings[s]
    BY <1>1 DEF TypeOK
  <1>8. \A s : Flat(s)' = Flat(s)
    BY <1>1, SameLists
  <1>9. \A s \in SMs : s # sm => (Stored(s)' <=> Stored(s))
    BY <1>1, <1>7, <1>8, Zenon DEF Stored, Same
  <1>10. \A s \in SMs : s = sm => Stored(s)'
    BY <1>1, <1>3, <1>6, <1>7, <1>8, Zenon DEF Stored, Same
  <1>11. ~edited' => Stored(2)' /\ Stored(3)'
    BY <1>1, <1>9, <1>10 DEF Followed, SMs
  <1>12. CASE sm = 2
    <2>1. Start(3) /\ Stored(2)'
      BY <1>1, <1>10, <1>12 DEF SMs
    <2>2. Reached' /\ pc' = "assign"
      BY <1>1, <2>1, StartReached DEF SMs
    <2> QED
      BY <1>11, <2>2 DEF Followed
  <1>13. CASE sm = 3
    <2>1. pc' = "check" /\ Stored(3)' /\ Stored(2)'
      BY <1>1, <1>3, <1>9, <1>10, <1>13 DEF SMs
    <2> QED
      BY <1>11, <2>1 DEF Followed
  <1> QED
    BY <1>4, <1>12, <1>13 DEF SMs

\* The entry read is the next of the lists.
LEMMA NextEntry ==
  ASSUME Conforming, TypeOK, ListsHold, Reached, pc = "map", c <= count[pdo],
         NEW e \in Mapped(pdo, c)
  PROVE  /\ mapIx \in Nat /\ mapIx + 1 \in 1 .. Len(Flat(sm)) /\ Flat(sm)[mapIx + 1] = e
         /\ mapIx + 1 = Len(Listing(sm)[sic - 1]) + c
         /\ Offsets(Flat(sm))[(mapIx + 1) + 1] = offset + e.bits
  <1>1. /\ sic <= count[sm] /\ pdo = slot[sm][sic]
        /\ mapIx = Len(Listing(sm)[sic - 1]) + (c - 1)
        /\ offset = Offsets(Flat(sm))[mapIx + 1]
    BY DEF Reached
  <1>2. /\ sm \in SMs /\ sic \in 1 .. count[sm] /\ c \in 1 .. count[pdo]
        /\ Mapped(pdo, c) = {slot[pdo][c]} /\ pdo \in PDOs /\ count[pdo] \in Nat
        /\ Len(Flat(sm)) \in Nat
    BY <1>1, LoopFacts
  <1> DEFINE base == Len(Listing(sm)[sic - 1])
             n == Len(Piece(sm, sic))
  <1>3. n = count[pdo] /\ Piece(sm, sic)[c] = slot[pdo][c]
    BY <1>1, <1>2, PieceFacts
  <1>4. /\ base \in Nat /\ base + n <= Len(Flat(sm))
        /\ \A j \in 1 .. n : Flat(sm)[base + j] = Piece(sm, sic)[j]
    BY <1>2, PieceAt
  <1>5. c \in 1 .. n
    BY <1>2, <1>3
  <1>6. Flat(sm)[base + c] = e
    BY <1>2, <1>3, <1>4, <1>5, Zenon
  <1> HIDE DEF base, n
  <1>7. mapIx + 1 = base + c /\ mapIx \in Nat /\ mapIx + 1 \in 1 .. Len(Flat(sm))
    BY <1>1, <1>2, <1>3, <1>4, <1>5 DEF base
  <1>8. Flat(sm)[mapIx + 1] = e
    BY <1>6, <1>7
  <1>9. Offsets(Flat(sm))[(mapIx + 1) + 1] = Offsets(Flat(sm))[mapIx + 1] + Flat(sm)[mapIx + 1].bits
    BY <1>2, <1>7, OffsetsDef, Zenon
  <1> QED
    BY <1>1, <1>7, <1>8, <1>9 DEF base

\* Lists that were accepted are not refused when they are read again.
LEMMA RefusedNew ==
  ASSUME Conforming, TypeOK, ListsHold, Followed, pc = "map", c <= count[pdo],
         NEW e \in Mapped(pdo, c), Refused(e)
  PROVE  edited
  <1> SUFFICES ASSUME ~edited PROVE FALSE
    OBVIOUS
  <1>1. Reached /\ sm \in SMs /\ Stored(sm)
    BY DEF Followed, TypeOK, SMs
  <1>2. mapIx \in Nat /\ mapIx + 1 \in 1 .. Len(Flat(sm)) /\ Flat(sm)[mapIx + 1] = e
    BY <1>1, NextEntry
  <1>3. nmappings[sm] = Len(Flat(sm)) /\ Same(sm, mapIx + 1)
    BY <1>1, <1>2 DEF Stored
  <1>4. nmappings[sm] \in -1 .. MaxMappings[sm] /\ MaxMappings[sm] \in Nat
    BY <1>1, Sizes DEF TypeOK
  <1>5. mapIx + 1 \in 1 .. MaxMappings[sm] /\ mapIx # MaxMappings[sm]
    BY <1>2, <1>3, <1>4
  <1>6. SMmap[sm][mapIx + 1] \in Mapping
    BY <1>1, <1>5 DEF TypeOK
  <1>7. e.obj \in Objects \union {Pad}
    BY <1>2, <1>3, <1>6 DEF Same, Mapping
  <1> QED
    BY <1>5, <1>7, ConstAssumption DEF Refused, ConstAssumption

LEMMA MapFollowed ==
  ASSUME Conforming, TypeOK, ListsHold, IInv, Followed, MapEntry
  PROVE  Followed'
  <1>1. PICK e \in Mapped(pdo, c) :
          IF Refused(e) THEN Incorrect
          ELSE Map(e) /\ c' = Next8(c) /\ UNCHANGED <<al, nmappings, sml, pc, sm, sic, pdo>>
    BY Zenon DEF MapEntry
  <1>2. pc = "map" /\ c <= count[pdo] /\ UNCHANGED dict /\ UNCHANGED edited
    BY Zenon DEF MapEntry, dict
  <1>3. Reached /\ Progress
    BY <1>2 DEF Followed, IInv
  <1>4. CASE Refused(e)
    <2>1. edited' /\ pc' = "idle"
      BY <1>1, <1>2, <1>4, RefusedNew DEF Incorrect, Stop
    <2> QED
      BY <2>1 DEF Followed
  <1>5. CASE ~Refused(e)
    <2>1. /\ Map(e) /\ c' = Next8(c) /\ UNCHANGED <<nmappings, pc, sm, sic, pdo>>
      BY <1>1, <1>5
    <2>2. /\ sm \in SMs /\ count[pdo] \in Nat /\ c' = c + 1 /\ c \in 1 .. count[pdo]
          /\ sic \in 1 .. count[sm] /\ MaxMappings[sm] > 0
      <3>1. sic <= count[sm]
        BY <1>2, <1>3 DEF Reached
      <3> QED
        BY <1>2, <1>3, <2>1, <3>1, LoopFacts DEF Conforming
    <2>3. /\ mapIx \in Nat /\ mapIx + 1 \in 1 .. Len(Flat(sm)) /\ Flat(sm)[mapIx + 1] = e
          /\ mapIx + 1 = Len(Listing(sm)[sic - 1]) + c
          /\ Offsets(Flat(sm))[(mapIx + 1) + 1] = offset + e.bits
      BY <1>2, <1>3, NextEntry
    <2>4. /\ SMmap' = [SMmap EXCEPT ![sm][mapIx + 1] = [obj |-> e.obj, offset |-> offset]]
          /\ mapIx' = mapIx + 1 /\ offset' = offset + e.bits
          /\ SMmap'[sm][mapIx + 1] = [obj |-> e.obj, offset |-> offset]
          /\ \A i \in 1 .. MaxMappings[sm] : i # mapIx + 1 => SMmap'[sm][i] = SMmap[sm][i]
          /\ mapIx < MaxMappings[sm]
      BY <1>2, <1>3, <1>5, <2>1, <2>2, EntryMapped
    <2>5. /\ offset = Offsets(Flat(sm))[mapIx + 1] /\ \A k \in 1 .. mapIx : Same(sm, k)
          /\ sm = 3 => Stored(2)
          /\ sic <= count[sm] /\ pdo = slot[sm][sic]
      BY <1>2, <1>3 DEF Reached
    <2>6. /\ \A s : Flat(s)' = Flat(s) /\ Listing(s)' = Listing(s)
          /\ count' = count /\ slot' = slot
      BY <1>2, SameLists
    <2>7. ASSUME NEW k, k = mapIx + 1 PROVE Same(sm, k)'
      <3>1. /\ SMmap'[sm][k] = [obj |-> e.obj, offset |-> offset] /\ Flat(sm)[k] = e
            /\ offset = Offsets(Flat(sm))[k]
        BY <2>3, <2>4, <2>5, <2>7, Zenon
      <3> QED
        BY <2>1, <2>6, <3>1, Zenon DEF Same
    <2>8. \A k \in 1 .. mapIx : Same(sm, k)'
      <3>1. MaxMappings[sm] \in Nat
        BY <2>2, Sizes
      <3>2. \A k \in 1 .. mapIx : k \in 1 .. MaxMappings[sm] /\ k # mapIx + 1
        BY <2>3, <2>4, <3>1
      <3> QED
        BY <2>1, <2>4, <2>5, <2>6, <3>2, Zenon DEF Same
    <2>9. \A s \in SMs : s # sm => (Stored(s)' <=> Stored(s))
      <3>1. \A s \in SMs : s # sm => SMmap'[s] = SMmap[s]
        BY <2>2, <2>4 DEF TypeOK
      <3> QED
        BY <2>1, <2>6, <3>1, Zenon DEF Stored, Same
    <2>10. \A k \in 1 .. mapIx' : Same(sm, k)'
      <3>1. \A k \in 1 .. mapIx' : k \in 1 .. mapIx \/ k = mapIx + 1
        BY <2>3, <2>4
      <3> QED
        BY <2>7, <2>8, <3>1, Zenon
    <2>11. Reached'
      <3>1. sm' = 3 => Stored(2)'
        BY <2>1, <2>5, <2>9 DEF SMs
      <3>2. /\ sic' >= 1 /\ sic' <= count'[sm'] /\ pdo' = slot'[sm'][sic'] /\ c' >= 1
            /\ c' <= count'[pdo'] + 1 /\ c' - 1 = c /\ pc' = "map"
        BY <1>2, <2>1, <2>2, <2>5, <2>6
      <3>3. mapIx' = Len(Listing(sm)'[sic' - 1]) + (c' - 1)
        BY <2>1, <2>3, <2>4, <2>6, <3>2, Zenon
      <3>4. offset' = Offsets(Flat(sm)')[mapIx' + 1]
        BY <2>1, <2>3, <2>4, <2>6, Zenon
      <3> QED
        BY <2>10, <3>1, <3>2, <3>3, <3>4, Zenon DEF Reached
    <2>12. ASSUME ~edited, NEW s \in SMs, s = sm PROVE Stored(s)'
      <3>1. nmappings[sm] = Len(Flat(sm)) /\ \A k \in 1 .. Len(Flat(sm)) : Same(sm, k)
        BY <2>2, <2>12 DEF Followed, Stored, SMs
      <3>2. nmappings[sm] \in -1 .. MaxMappings[sm] /\ MaxMappings[sm] \in Nat
        BY <2>2, Sizes DEF TypeOK
      <3>3. \A k \in 1 .. Len(Flat(sm)) : k \in 1 .. MaxMappings[sm]
        BY <3>1, <3>2
      <3>4. \A k \in 1 .. Len(Flat(sm)) : k # mapIx + 1 => Same(sm, k)'
        BY <2>1, <2>4, <2>6, <3>1, <3>3, Zenon DEF Same
      <3>5. \A k \in 1 .. Len(Flat(sm)) : Same(sm, k)'
        BY <2>7, <3>4, Zenon
      <3> QED
        BY <2>1, <2>6, <2>12, <3>1, <3>5, Zenon DEF Stored
    <2>13. ~edited' => Stored(2)' /\ Stored(3)'
      BY <1>2, <2>9, <2>12 DEF Followed, SMs
    <2> QED
      BY <1>2, <2>1, <2>11, <2>13 DEF Followed
  <1> QED
    BY <1>4, <1>5

LEMMA FollowedStep ==
  ASSUME Conforming, TypeOK, ListsHold, IInv, Followed, [Next]_vars
  PROVE  Followed'
  <1>1. CASE RequestSafeop
    <2>1. Start(2) /\ UNCHANGED dict /\ UNCHANGED table /\ UNCHANGED edited
      BY <1>1, Zenon DEF RequestSafeop, dict, table
    <2>2. Reached' /\ pc' = "assign"
      BY <2>1, StartReached DEF SMs
    <2> QED
      BY <2>1, <2>2, FollowedOn
  <1>2. CASE NextPDO
    BY <1>2, NextFollowed
  <1>3. CASE MapEntry
    BY <1>3, MapFollowed
  <1>4. CASE EndPDO
    BY <1>4, EndPDOFollowed
  <1>5. CASE EndSize
    BY <1>5, EndFollowed
  <1>6. CASE Accept
    <2>1. pc = "check" /\ pc' = "idle" /\ UNCHANGED dict /\ UNCHANGED table
      BY <1>6, Zenon DEF Accept, Stop, dict, table
    <2>2. Stored(2)' /\ Stored(3)'
      BY <2>1, SameStored DEF Followed
    <2> QED
      BY <2>1, <2>2 DEF Followed
  <1>7. CASE Reject
    <2>1. pc' = "idle" /\ UNCHANGED dict /\ UNCHANGED table /\ UNCHANGED edited
      BY <1>7, Zenon DEF Reject, Stop, dict, table
    <2> QED
      BY <2>1, FollowedOn
  <1>8. CASE Restart \/ DownloadCount \/ DownloadEntry
    <2>1. edited' /\ pc' = "idle"
      BY <1>8, Zenon DEF Restart, DownloadCount, DownloadEntry, Edit, loop
    <2> QED
      BY <2>1 DEF Followed
  <1>9. CASE \/ StartOutput \/ StopOutput \/ StopInput \/ TXPDO_update \/ RXPDO_update
             \/ UNCHANGED vars
    <2>1. UNCHANGED dict /\ UNCHANGED table /\ UNCHANGED loop /\ UNCHANGED edited
      BY <1>9, Zenon DEF StartOutput, StopOutput, StopInput, TXPDO_update, RXPDO_update, Copy,
         vars, dict, table, loop
    <2>2. \A s : Stored(s)' <=> Stored(s)
      BY <2>1, SameStored
    <2>3. pc' = pc /\ sic' = sic /\ c' = c /\ pdo' = pdo /\ UNCHANGED <<sm, mapIx, offset>>
      BY <2>1 DEF loop
    <2>4. pc \in {"assign", "map"} => Reached'
      <3> SUFFICES ASSUME Reached PROVE Reached'
        BY DEF Followed
      <3>1. /\ sm' = 3 => Stored(2)'
            /\ offset' = Offsets(Flat(sm)')[mapIx' + 1]
            /\ \A k \in 1 .. mapIx' : Same(sm, k)'
            /\ Listing(sm)' = Listing(sm) /\ count' = count /\ slot' = slot
        BY <2>1, <2>3, SameReached
      <3> QED
        BY <2>3, <3>1, Zenon DEF Reached
    <2> QED
      BY <2>1, <2>2, <2>3, <2>4, Zenon DEF Followed
  <1> QED
    BY <1>1, <1>2, <1>3, <1>4, <1>5, <1>6, <1>7, <1>8, <1>9, Zenon DEF Next, Loop

---------------------------------------------------------------------------
(***************************************************************************)
(* What DIG_process copies.                                                *)
(***************************************************************************)
LEMMA ShownStep == Shown /\ [Next]_vars => Shown'
  <1> SUFFICES ASSUME Shown, [Next]_vars PROVE Shown'
    OBVIOUS
  <1>1. ASSUME NEW s \in SMs, Copy(s) PROVE Shown'
    <2>1. image' = [sm |-> s, places |-> Copied(s)] /\ UNCHANGED table
      BY <1>1 DEF Copy
    <2>2. \A t : Copied(t)' = Copied(t)
      BY <2>1, Zenon DEF Copied, table
    <2>3. image'.sm = s /\ image'.places = Copied(s)
      BY <2>1
    <2> QED
      BY <2>2, <2>3, Zenon DEF Shown
  <1>2. CASE UNCHANGED vars
    <2>1. image' = image /\ \A t : Copied(t)' = Copied(t)
      BY <1>2, Zenon DEF vars, Copied
    <2> QED
      BY <2>1, Zenon DEF Shown
  <1>3. CASE image' = NoImage
    BY <1>3 DEF Shown
  <1>4. CASE TXPDO_update \/ RXPDO_update
    BY <1>1, <1>4 DEF TXPDO_update, RXPDO_update, SMs
  <1> QED
    BY <1>2, <1>3, <1>4, Zenon DEF Next, Loop, RequestSafeop, NextPDO, MapEntry, EndPDO,
       EndSize, Accept, Reject, StartOutput, StopOutput, StopInput, Restart, DownloadCount,
       DownloadEntry, Edit

LEMMA InitMapped == Conforming => (Init => MInv)
  <1> SUFFICES ASSUME Conforming, Init PROVE MInv
    OBVIOUS
  <1>1. edited /\ pc = "idle" /\ image = NoImage
    BY DEF Init
  <1>2. \A l \in Lists : count[l] = Defaults[l].count /\ slot[l] = Defaults[l].slot
    BY DEF Init
  <1>3. ListsHold
    BY <1>2, Zenon DEF ListsHold, Conforming
  <1> QED
    BY <1>1, <1>3 DEF MInv, Followed, Shown

LEMMA MappedStep ==
  Conforming => (TypeOK /\ IInv /\ MInv /\ [Next]_vars => MInv')
  BY ListsHoldStep, FollowedStep, ShownStep DEF MInv

\* Objects longer than a word begin on an octet.
WideAligned ==
  \A s \in SMs : \A m \in Expected(s) : BitLength[m.obj] > WordBits => m.first % 8 = 0

LEMMA Octets == \A n \in Nat : n % 8 = 0 => 8 * BITS2BYTES(n) = n
  BY SMT DEF BITS2BYTES

\* An entry of a table that is the lists is copied where the lists say.
LEMMA PlaceAt ==
  ASSUME EntriesMatch, TypeOK, ListsHold, WideAligned, NEW s \in SMs, Stored(s),
         NEW k \in 1 .. Len(Flat(s)), Flat(s)[k].obj # Pad
  PROVE  Place(SMmap[s][k]) = [obj |-> Flat(s)[k].obj, first |-> Offsets(Flat(s))[k],
                               bits |-> Flat(s)[k].bits]
  <1> DEFINE e == Flat(s)[k]
             m == SMmap[s][k]
             at == Offsets(Flat(s))[k]
  <1>1. m = [obj |-> e.obj, offset |-> at]
    BY DEF Stored, Same
  <1>2. Flat(s) \in Seq(Mappable)
    <2>1. count[s] \in Nat
      BY ListFacts DEF Lists
    <2>2. 0 \in 0 .. count[s]
      BY <2>1
    <2> QED
      BY <2>2, Beginnings
  <1>3. k \in 1 .. MaxMappings[s]
    <2>1. nmappings[s] \in -1 .. MaxMappings[s] /\ MaxMappings[s] \in Nat
      BY Sizes DEF TypeOK
    <2>2. nmappings[s] = Len(Flat(s))
      BY DEF Stored
    <2> QED
      BY <2>1, <2>2
  <1>4. m \in Mapping
    BY <1>3 DEF TypeOK
  <1>5. e.obj \in Objects /\ at \in Nat
    BY <1>1, <1>4, Sizes DEF Mapping
  <1>6. e \in Mappable
    BY <1>2
  <1>7. e.bits = BitLength[e.obj]
    BY <1>5, <1>6 DEF Mappable, EntriesMatch
  <1>8. [obj |-> e.obj, first |-> at, bits |-> e.bits] \in Expected(s)
    BY ExpectedIs
  <1> HIDE DEF e, m, at
  <1>9. BitLength[e.obj] > WordBits => at % 8 = 0
    BY <1>8 DEF WideAligned
  <1>10. m.obj = e.obj /\ m.offset = at
    BY <1>1
  <1>11. (IF BitLength[m.obj] > WordBits THEN 8 * BITS2BYTES(m.offset) ELSE m.offset) = at
    BY <1>5, <1>9, <1>10, Octets, Zenon
  <1>12. Place(m) = [obj |-> e.obj, first |-> at, bits |-> e.bits]
    BY <1>7, <1>10, <1>11, Zenon DEF Place
  <1> QED
    BY <1>12 DEF e, m, at

LEMMA CopiedRight ==
  ASSUME EntriesMatch, TypeOK, ListsHold, WideAligned, NEW s \in SMs, Stored(s)
  PROVE  Copied(s) = Expected(s)
  <1> DEFINE K == {i \in 1 .. Len(Flat(s)) : Flat(s)[i].obj # Pad}
             Right(k) == [obj |-> Flat(s)[k].obj, first |-> Offsets(Flat(s))[k],
                          bits |-> Flat(s)[k].bits]
  <1>1. nmappings[s] = Len(Flat(s)) /\ \A k \in 1 .. Len(Flat(s)) : SMmap[s][k].obj = Flat(s)[k].obj
    <2> SUFFICES ASSUME NEW k \in 1 .. Len(Flat(s)) PROVE SMmap[s][k].obj = Flat(s)[k].obj
      BY DEF Stored
    <2>1. SMmap[s][k] = [obj |-> Flat(s)[k].obj, offset |-> Offsets(Flat(s))[k]]
      BY DEF Stored, Same
    <2> QED
      BY <2>1
  <1>2. {i \in 1 .. nmappings[s] : SMmap[s][i].obj # Pad} = K
    BY <1>1
  <1>3. \A k \in K : Place(SMmap[s][k]) = Right(k)
    BY PlaceAt
  <1>4. Expected(s) = {Right(k) : k \in K}
    BY ExpectedIs, Zenon
  <1>5. Copied(s) = {Place(SMmap[s][k]) : k \in K}
    BY <1>2, Zenon DEF Copied
  <1> HIDE DEF K, Right
  <1> QED
    BY <1>3, <1>4, <1>5

\* For lists that are as the dictionary says, whatever the master maps, edits and asks
\* for again, under any interrupt: process data are where the lists accepted say,
\* unless an object longer than a word begins within an octet.
THEOREM DataCorrect ==
  EntriesMatch /\ Conforming => (Spec => [](WideAligned => DataWhereMapped))
  <1> SUFFICES ASSUME EntriesMatch, Conforming
               PROVE  Spec => [](WideAligned => DataWhereMapped)
    OBVIOUS
  <1>1. TypeOK /\ MInv => (WideAligned => DataWhereMapped)
    <2> SUFFICES ASSUME TypeOK, MInv, WideAligned, image # NoImage, ~edited
                 PROVE  image.places = Expected(image.sm)
      BY DEF DataWhereMapped
    <2>1. image.sm \in SMs /\ image.places = Copied(image.sm)
      BY DEF MInv, Shown
    <2>2. Stored(image.sm)
      BY <2>1 DEF MInv, Followed, SMs
    <2> QED
      BY <2>1, <2>2, CopiedRight DEF MInv
  <1>2. Init => MInv
    BY InitMapped
  <1>3. TypeOK /\ IInv /\ MInv /\ [Next]_vars => MInv'
    BY MappedStep
  <1>4. TypeOK /\ IInv /\ [Next]_vars => IInv'
    BY IndStep
  <1> QED
    BY <1>1, <1>2, <1>3, <1>4, InitInv, TypeCorrect, PTL DEF Spec
=============================================================================
