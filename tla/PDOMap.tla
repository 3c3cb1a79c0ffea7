------------------------------- MODULE PDOMap -------------------------------
(***************************************************************************)
(* PDO assignment and mapping (src/templates/esc_coe.c, ecat_slv.c): the   *)
(* master edits 0x1C12, 0x1C13 and the mapping objects through SDO         *)
(* downloads, a request for SAFEOP turns them into the tables SMmap2 and   *)
(* SMmap3 and the lengths of SM2 and SM3, and DIG_process copies process   *)
(* data by those tables.  sizeOfPDO is one step per turn of its loops,     *)
(* because with interrupts DIG_process may run between any two of them.    *)
(*                                                                         *)
(* Of the AL states only preop, safeop and op matter; init is part of      *)
(* Restart.  Whether the master acknowledged an error is left to ALState:  *)
(* a slave that failed is in preop.                                        *)
(*                                                                         *)
(* An operator named X_Y is operator X with a plausible mistake, Y, that   *)
(* breaks one of the properties.                                           *)
(***************************************************************************)
EXTENDS Integers, Sequences

CONSTANTS
  PDOs,          \* the mapping objects 0x16nn and 0x1Ann of the dictionary
  Ghosts,        \* indexes a master may assign that name no mapping object
  Objects,       \* the objects that can be mapped
  BitLength,     \* BitLength[o]: bitlength of its entry in the dictionary
  Pad,           \* index 0, subindex 0: a gap
  Missing,       \* an index or subindex the dictionary does not have
  Entries,       \* Entries[p]: entries [obj, bits] a master may map in p
  Defaults,      \* Defaults[l]: [count, slot], the default value of list l
  Editable,      \* the lists that are writable, in the states
  EditStates,
  Counts,        \* Counts[l]: values written to subindex 0 of list l
  MaxMappings,   \* MaxMappings[sm]: MAX_MAPPINGS_SM2 and MAX_MAPPINGS_SM3
  ByteRange,     \* 256, values of a uint8_t
  OffsetRange,   \* 65536, values of a uint16_t
  WordBits,      \* 64: longer objects are copied as octets
  Room,          \* octets from SM2 to SM3
  UseInterrupt,  \* DIG_process runs in interrupts
  MaxEdits       \* bound on the downloads of a behaviour

SMs == {2, 3}           \* the lists 0x1C12 and 0x1C13
Lists == SMs \union PDOs
Values(l) == IF l \in SMs THEN PDOs \union Ghosts ELSE Entries[l]
Mapping == [obj : Objects \union {Pad}, offset : 0 .. OffsetRange - 1]

ASSUME ConstAssumption ==
  /\ SMs \intersect PDOs = {} /\ Ghosts \intersect Lists = {}
  /\ Pad \notin Objects /\ Missing \notin Objects \union {Pad}
  /\ BitLength \in [Objects -> Nat \ {0}]
  /\ OffsetRange \in Nat \ {0} /\ ByteRange \in Nat \ {0} /\ WordBits \in Nat
  /\ Room \in Nat /\ MaxEdits \in Nat /\ UseInterrupt \in BOOLEAN
  /\ ByteRange <= 256
  /\ MaxMappings \in [SMs -> Nat]
  /\ \A s \in SMs : 255 * MaxMappings[s] < OffsetRange
  /\ \A p \in PDOs : Entries[p] \subseteq
       [obj : Objects \union {Pad, Missing}, bits : 0 .. 255]
  /\ \A l \in Lists : /\ Counts[l] \subseteq 0 .. ByteRange - 1
                      /\ Defaults[l].count \in 0 .. ByteRange - 1
                      /\ Defaults[l].slot \in Seq(Values(l))
  /\ Editable \subseteq Lists

VARIABLES
  al,          \* ESCvar.ALstatus: "preop", "safeop" or "op", which drives outputs
  inputs,      \* APPSTATE_INPUT: TXPDO_update runs
  count,       \* count[l]: subindex 0 of list l
  slot,        \* slot[l]: its other subindexes
  SMmap,       \* SMmap[sm]: the table SMmap2 or SMmap3
  nmappings,   \* ESCvar.sm2mappings, sm3mappings: its length, or -1
  sml,         \* ESCvar.ESC_SM2_sml, ESC_SM3_sml: octets of process data
  \* sizeOfPDO
  pc,          \* "idle", "assign" (outer loop), "map" (inner loop), "check"
  sm, sic, pdo, c, mapIx, offset,   \* its index, counters and locals
  \* histories
  edited,      \* the lists have changed since a mapping was last accepted
  edits,       \* downloads so far
  image        \* objects the last step copied to or from process data, and where

dict  == <<count, slot>>
table == <<SMmap, nmappings, sml>>
loop  == <<pc, sm, sic, pdo, c, mapIx, offset>>
vars  == <<al, inputs, count, slot, SMmap, nmappings, sml, pc, sm, sic, pdo, c,
           mapIx, offset, edited, edits, image>>

NoImage == [sm |-> 0, places |-> {}]

---------------------------------------------------------------------------
(***************************************************************************)
(* sizeOfPDO.  A subindex past the end of a list is whatever the memory    *)
(* behind it holds; subindex 0 is reached when a counter wraps.            *)
(***************************************************************************)
BITS2BYTES(b) == (b + 7) \div 8
Next8(n) == (n + 1) % ByteRange

Assigned(s, i) ==
  IF i \in 1 .. Len(slot[s]) THEN {slot[s][i]} ELSE IF i = 0 THEN {Missing}
  ELSE PDOs \union {Missing}
Mapped(p, i) ==
  IF i \in 1 .. Len(slot[p]) THEN {slot[p][i]}
  ELSE IF i = 0 THEN {[obj |-> Pad, bits |-> count[p]]}
  ELSE Entries[p]

Start(s) ==
  /\ pc' = "assign" /\ sm' = s /\ sic' = 1 /\ c' = 1
  /\ pdo' = Missing /\ mapIx' = 0 /\ offset' = 0

Stop == /\ pc' = "idle" /\ sm' = 2 /\ sic' = 1 /\ c' = 1
        /\ pdo' = Missing /\ mapIx' = 0 /\ offset' = 0

\* PREOP_TO_SAFEOP, SAFEOP_TO_SAFEOP
RequestSafeop ==
  /\ pc = "idle" /\ al \in {"preop", "safeop"}
  /\ Start(2)
  /\ image' = NoImage
  /\ UNCHANGED <<al, inputs, dict, table, edited, edits>>

NextPDO_StopsAtGhost ==
  /\ pc = "assign" /\ sic <= count[sm]
  /\ \E p \in Assigned(sm, sic) :
       IF p \in PDOs
       THEN pc' = "map" /\ pdo' = p /\ c' = 1 /\ UNCHANGED sic
       ELSE UNCHANGED <<pc, sic, pdo, c>>
  /\ image' = NoImage
  /\ UNCHANGED <<al, inputs, dict, table, sm, mapIx, offset, edited, edits>>

\* An assigned PDO that does not exist is passed over.
NextPDO ==
  /\ pc = "assign" /\ sic <= count[sm]
  /\ \E p \in Assigned(sm, sic) :
       IF p \in PDOs
       THEN pc' = "map" /\ pdo' = p /\ c' = 1 /\ UNCHANGED sic
       ELSE sic' = Next8(sic) /\ UNCHANGED <<pc, pdo, c>>
  /\ image' = NoImage
  /\ UNCHANGED <<al, inputs, dict, table, sm, mapIx, offset, edited, edits>>

\* The mapping is incorrect: back to PREOP, the inputs stay as they are.
Incorrect ==
  /\ nmappings' = [nmappings EXCEPT ![sm] = -1]
  /\ sml' = [sml EXCEPT ![sm] = 0]
  /\ al' = "preop"
  /\ Stop
  /\ UNCHANGED SMmap

Advance(e) == offset' = (offset + e.bits) % OffsetRange

\* mappings[mapIx] gets the object and the offset so far.
Map(e) ==
  /\ IF MaxMappings[sm] = 0 THEN UNCHANGED <<SMmap, mapIx>>
     ELSE /\ SMmap' = [SMmap EXCEPT ![sm][mapIx + 1] = [obj |-> e.obj, offset |-> offset]]
          /\ mapIx' = mapIx + 1
  /\ Advance(e)

Refused(e) ==
  MaxMappings[sm] > 0 /\ (mapIx = MaxMappings[sm] \/ e.obj = Missing)

MapEntry ==
  /\ pc = "map" /\ c <= count[pdo]
  /\ \E e \in Mapped(pdo, c) :
       IF Refused(e) THEN Incorrect
       ELSE /\ Map(e)
            /\ c' = Next8(c)
            /\ UNCHANGED <<al, nmappings, sml, pc, sm, sic, pdo>>
  /\ image' = NoImage
  /\ UNCHANGED <<inputs, dict, edited, edits>>

EndPDO ==
  /\ pc = "map" /\ c > count[pdo]
  /\ pc' = "assign" /\ sic' = Next8(sic) /\ pdo' = Missing /\ c' = 1
  /\ image' = NoImage
  /\ UNCHANGED <<al, inputs, dict, table, sm, mapIx, offset, edited, edits>>

Size_RoundsDown(o) == o \div 8
Size(o) == BITS2BYTES(o)

\* The end of sizeOfPDO: of SM2, which SM3 follows, or of SM3.
EndSize ==
  /\ pc = "assign" /\ sic > count[sm]
  /\ nmappings' = [nmappings EXCEPT ![sm] = mapIx]
  /\ sml' = [sml EXCEPT ![sm] = Size(offset)]
  /\ IF sm = 2 THEN Start(3)
     ELSE pc' = "check" /\ UNCHANGED <<sm, sic, pdo, c, mapIx, offset>>
  /\ image' = NoImage
  /\ UNCHANGED <<al, inputs, dict, SMmap, edited, edits>>

\* ESC_startinput: the master may have set SM2 and SM3 up rightly, with these
\* lengths, only when SM2 and its two copies end before SM3.
Accept ==
  /\ pc = "check" /\ 3 * sml[2] <= Room
  /\ al' = "safeop" /\ inputs' = TRUE /\ edited' = FALSE
  /\ Stop
  /\ image' = NoImage
  /\ UNCHANGED <<dict, table, edits>>

\* SM2 or SM3 is wrong, and the inputs stay as they are, or the clocks are, and they
\* stop.
Reject ==
  /\ pc = "check"
  /\ al' = "preop"
  /\ inputs' \in IF UseInterrupt THEN {inputs, FALSE} ELSE {inputs}
  /\ Stop
  /\ image' = NoImage
  /\ UNCHANGED <<dict, table, edited, edits>>

---------------------------------------------------------------------------
(***************************************************************************)
(* The other transitions, and SDO downloads to the lists.                  *)
(***************************************************************************)
StartOutput ==
  /\ pc = "idle" /\ al = "safeop" /\ al' = "op"
  /\ image' = NoImage
  /\ UNCHANGED <<inputs, dict, table, loop, edited, edits>>

StopOutput ==
  /\ pc = "idle" /\ al = "op" /\ al' = "safeop"
  /\ image' = NoImage
  /\ UNCHANGED <<inputs, dict, table, loop, edited, edits>>

StopInput ==
  /\ pc = "idle" /\ al \in {"safeop", "op"}
  /\ al' = "preop" /\ inputs' = FALSE
  /\ image' = NoImage
  /\ UNCHANGED <<dict, table, loop, edited, edits>>

\* To INIT and back to PREOP, with COE_initDefaultValues.  From PREOP nothing
\* stops the inputs.
Restart ==
  /\ pc = "idle"
  /\ al' = "preop" /\ inputs' = (inputs /\ al = "preop")
  /\ count' = [l \in Lists |-> Defaults[l].count]
  /\ slot' = [l \in Lists |-> Defaults[l].slot]
  /\ edited' = TRUE
  /\ image' = NoImage
  /\ UNCHANGED <<table, loop, edits>>

Edit(l) ==
  /\ pc = "idle" /\ al \in EditStates /\ l \in Editable /\ edits < MaxEdits
  /\ edited' = TRUE /\ edits' = edits + 1
  /\ image' = NoImage
  /\ UNCHANGED <<al, inputs, table, loop>>

DownloadCount ==
  \E l \in Lists : \E n \in Counts[l] :
    Edit(l) /\ count' = [count EXCEPT ![l] = n] /\ UNCHANGED slot

\* ESC_pre_objecthandler: only while subindex 0 is 0.
DownloadEntry ==
  \E l \in Lists : \E i \in 1 .. Len(slot[l]), v \in Values(l) :
    /\ count[l] = 0
    /\ Edit(l) /\ slot' = [slot EXCEPT ![l][i] = v] /\ UNCHANGED count

---------------------------------------------------------------------------
(***************************************************************************)
(* Process data.                                                           *)
(***************************************************************************)
Place_InOctets(m) ==
  [obj |-> m.obj, first |-> 8 * (m.offset \div 8), bits |-> BitLength[m.obj]]

\* Where COE_pdoPack and COE_pdoUnpack find the bits of an object.
Place(m) ==
  [obj   |-> m.obj,
   first |-> IF BitLength[m.obj] > WordBits THEN 8 * BITS2BYTES(m.offset) ELSE m.offset,
   bits  |-> BitLength[m.obj]]

Copied(s) == {Place(SMmap[s][k]) :
                k \in {i \in 1 .. nmappings[s] : SMmap[s][i].obj # Pad}}

Copy(s) ==
  /\ pc = "idle" \/ UseInterrupt
  /\ image' = [sm |-> s, places |-> Copied(s)]
  /\ UNCHANGED <<al, inputs, dict, table, loop, edited, edits>>

\* Outputs are unpacked whenever the master has written SM2, in every state; only
\* setting them is left to OP.
TXPDO_update == inputs /\ Copy(3)
RXPDO_update == Copy(2)

---------------------------------------------------------------------------
Init ==
  /\ al = "preop" /\ inputs = FALSE
  /\ count = [l \in Lists |-> Defaults[l].count]
  /\ slot = [l \in Lists |-> Defaults[l].slot]
  /\ SMmap = [s \in SMs |-> [i \in 1 .. MaxMappings[s] |-> [obj |-> Pad, offset |-> 0]]]
  /\ nmappings = [s \in SMs |-> 0]
  /\ sml = [s \in SMs |-> 0]
  /\ pc = "idle" /\ sm = 2 /\ sic = 1 /\ pdo = Missing /\ c = 1 /\ mapIx = 0 /\ offset = 0
  /\ edited = TRUE /\ edits = 0 /\ image = NoImage

Loop == NextPDO \/ MapEntry \/ EndPDO \/ EndSize \/ Accept \/ Reject

Next ==
  \/ RequestSafeop \/ Loop
  \/ StartOutput \/ StopOutput \/ StopInput \/ Restart
  \/ DownloadCount \/ DownloadEntry
  \/ TXPDO_update \/ RXPDO_update

Spec == Init /\ [][Next]_vars

\* The loops of sizeOfPDO wait for nobody.
FairSpec == Spec /\ WF_vars(Loop)

---------------------------------------------------------------------------
(***************************************************************************)
(* Properties.                                                             *)
(***************************************************************************)
TypeOK ==
  /\ al \in {"preop", "safeop", "op"} /\ inputs \in BOOLEAN
  /\ count \in [Lists -> 0 .. ByteRange - 1]
  /\ DOMAIN slot = Lists /\ \A l \in Lists : slot[l] \in Seq(Values(l))
  /\ DOMAIN SMmap = SMs /\ \A s \in SMs : SMmap[s] \in [1 .. MaxMappings[s] -> Mapping]
  /\ DOMAIN nmappings = SMs /\ \A s \in SMs : nmappings[s] \in -1 .. MaxMappings[s]
  /\ sml \in [SMs -> Nat]
  /\ pc \in {"idle", "assign", "map", "check"}
  /\ sm \in SMs /\ sic \in 0 .. ByteRange /\ c \in 0 .. ByteRange
  /\ pdo \in PDOs \union {Missing} /\ (pc = "map" => pdo \in PDOs)
  /\ mapIx \in 0 .. MaxMappings[sm]
  /\ offset \in 0 .. OffsetRange - 1
  /\ edited \in BOOLEAN /\ edits \in 0 .. MaxEdits

\* The entries of list sm as the master reads them: those of its PDOs, one PDO
\* behind the other, each at the sum of the bits before it.
Flat(s) ==
  LET all[i \in 0 .. count[s]] ==
        IF i = 0 THEN <<>>
        ELSE all[i - 1] \o (IF slot[s][i] \in PDOs
                            THEN SubSeq(slot[slot[s][i]], 1, count[slot[s][i]])
                            ELSE <<>>)
  IN  all[count[s]]

Expected(s) ==
  LET e == Flat(s)
      at[k \in 1 .. Len(e) + 1] == IF k = 1 THEN 0 ELSE at[k - 1] + e[k - 1].bits
  IN  {[obj |-> e[k].obj, first |-> at[k], bits |-> e[k].bits] :
         k \in {i \in 1 .. Len(e) : e[i].obj # Pad}}

\* While the lists are those the accepted mapping was computed from, process data
\* are exactly where the lists say, for every object, also while a further request
\* for SAFEOP computes the tables again under a running DIG_process.
DataWhereMapped ==
  image # NoImage /\ ~edited => image.places = Expected(image.sm)

\* No two objects of a table share a bit, and all of them are within the octets that
\* SM2 or SM3 was checked for; so for any table that is not being computed, after a
\* failed computation as well.
Sizing(s) == pc # "idle" /\ sm = s /\ pc # "check"
Ends(m) == m.offset + BitLength[m.obj]

Disjoint(s) ==
  \A i, j \in 1 .. nmappings[s] :
    i < j /\ SMmap[s][i].obj # Pad => Ends(SMmap[s][i]) <= SMmap[s][j].offset
Within(s) ==
  \A i \in 1 .. nmappings[s] :
    SMmap[s][i].obj # Pad => Ends(SMmap[s][i]) <= 8 * sml[s]

LayoutSound == \A s \in SMs : ~Sizing(s) => Disjoint(s) /\ Within(s)

\* A request for SAFEOP is answered.
SafeopAnswered == pc # "idle" ~> pc = "idle"
=============================================================================
