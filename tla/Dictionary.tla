----------------------------- MODULE Dictionary -----------------------------
(***************************************************************************)
(* The object dictionary: the generator reads the rows of a sheet, makes   *)
(* objects of them, maps those of process data in 0x1600 and 0x1A00        *)
(* (src/src/ecatGenerator/SlaveReader.java, DictObject.java) and prints    *)
(* the list the slave searches at run time (src/templates/esc_coe.c).      *)
(* The search relies on an order and on numbers that nothing in the        *)
(* generator checks.                                                       *)
(*                                                                         *)
(* Of an entry its subindex, bitlength and default value matter; names,    *)
(* access rights and the wording of C and XML do not.                      *)
(*                                                                         *)
(* An operator named X_Y is operator X with a plausible mistake, Y, that   *)
(* breaks one of the properties.                                           *)
(***************************************************************************)
EXTENDS Integers, Sequences, FiniteSetsExt

CONSTANTS
  Rows,      \* the rows a sheet may have: [index, si, code, bits, default]
  Blank,     \* an empty cell, a number that is nothing else
  MaxRows,   \* bound on the rows of a sheet
  Orderly,   \* objects are in ascending order, a VARIABLE is one row, and no object
             \*   has more than MaxSub subindexes
  Fixed      \* Fixed[k]: the index of the k-th object of slave_objectlist.tmp

Rx == 1      \* objRxPdo, 0x1600
Tx == 2      \* objTxPdo, 0x1A00
TxPdoIndex == 6656
Sentinel == 65535
MaxSub == 255    \* a subindex of the mapping, and maxsub of _objectlist, is an octet
Indexes16 == 65536   \* and an index is 16 bits

ASSUME SheetAssumption ==
  MaxRows \in Nat /\ Orderly \in BOOLEAN /\ Blank \in Int \ Nat

ASSUME RowAssumption ==
  \A r \in Rows : /\ r.index \in {Blank} \union 0 .. Sentinel - 1
                  /\ r.si \in {Blank} \union 0 .. 255
                  /\ r.code \in {"VARIABLE", "RECORD", "ARRAY"}
                  /\ r.bits \in 1 .. 64 /\ r.default \in Int

ASSUME FixedAssumption == Fixed \in Seq(4096 .. 24575)

ASSUME FixedOrderAssumption ==
  \A i, j \in 1 .. Len(Fixed) : i < j => Fixed[i] < Fixed[j]

VARIABLES
  phase,    \* "sheet", "pdo" (generatePdo), "print", "done", "exception"
  rows,     \* rows read
  lObject,  \* objects of the sheet: [index, code, entries], entries [si, bits, default]
  next,     \* the object generatePdo is at
  pdo,      \* pdo[d]: mapping entries [index, sub, bits, ref], ref the subindex of
            \*   pdoRefEntry, which the ESI file is printed from
  bitSize   \* nRxPdoBitSize, nTxPdoBitSize

sheetVars == <<phase, rows, lObject, next, pdo, bitSize>>

---------------------------------------------------------------------------
(***************************************************************************)
(* Reading the sheet.                                                      *)
(***************************************************************************)
LastIndex == IF lObject = <<>> THEN TxPdoIndex ELSE lObject[Len(lObject)].index

Entry(r, si) == [si |-> si, bits |-> r.bits, default |-> r.default]

\* A row of neither index nor subindex is passed over.
SkipRow(r) ==
  /\ r.index = Blank /\ r.si = Blank
  /\ UNCHANGED <<phase, lObject>>

\* Subindexes count up by one, whatever the sheet says.
Numbered_AsInSheet(last, r) == Entry(r, r.si)
Numbered(last, r) == Entry(r, last.si + 1)

\* No index, or that of the row before: one more entry.  Before the first object of
\* the sheet that is one of 0x1A00, which has none yet to number it from.
AppendRow(r) ==
  /\ r.index = LastIndex \/ (r.index = Blank /\ r.si # Blank)
  /\ Orderly => /\ lObject # <<>> /\ lObject[Len(lObject)].code # "VARIABLE"
                /\ Len(lObject[Len(lObject)].entries) <= MaxSub
  /\ IF lObject = <<>> THEN phase' = "exception" /\ UNCHANGED lObject
     ELSE /\ lObject' = [lObject EXCEPT ![Len(lObject)].entries =
                           Append(@, Numbered(@[Len(@)], r))]
          /\ UNCHANGED phase

\* A negative length of an array becomes 1.
NewObject(r) ==
  /\ r.index \notin {Blank, LastIndex}
  /\ Orderly => r.index > LastIndex /\ (r.code = "ARRAY" => r.default <= MaxSub)
  /\ LET length == IF r.code = "ARRAY" /\ r.default < 0 THEN 1 ELSE r.default
         first  == [Entry(r, 0) EXCEPT !.default = length]
     IN  lObject' = Append(lObject, [index |-> r.index, code |-> r.code, entries |-> <<first>>])
  /\ UNCHANGED phase

ReadRow(r) ==
  /\ phase = "sheet" /\ rows < MaxRows
  /\ SkipRow(r) \/ AppendRow(r) \/ NewObject(r)
  /\ rows' = rows + 1
  /\ UNCHANGED <<next, pdo, bitSize>>

EndSheet ==
  /\ phase = "sheet" /\ phase' = "pdo"
  /\ UNCHANGED <<rows, lObject, next, pdo, bitSize>>

---------------------------------------------------------------------------
(***************************************************************************)
(* generatePdo.                                                            *)
(***************************************************************************)
Direction(o) ==
  CASE o.index \in 24576 .. 27033 -> {Tx}     \* 0x6000 to 0x6999
    [] o.index \in 28672 .. 31129 -> {Rx}     \* 0x7000 to 0x7999
    [] OTHER -> {}

\* An array is read at its entry 1 even when the sheet gives it none.
Broken(o) == o.code = "ARRAY" /\ Len(o.entries) < 2

\* The entries of s at the places in T, in their order.
Picked(s, T) ==
  LET kept[k \in 0 .. Len(s)] ==
        IF k = 0 THEN <<>>
        ELSE IF k \in T THEN Append(kept[k - 1], s[k]) ELSE kept[k - 1]
  IN  kept[Len(s)]

\* An entry of the mapping is one number, of which the slave reads 16 bits as the index
\* and 8 as the subindex: what the subindex has more of has gone into the index.
Mapped(o, si, e) ==
  [index |-> (o.index + si \div 256) % Indexes16, sub |-> si % 256, bits |-> e.bits, ref |-> e.si]

Elements(o) ==
  CASE o.code = "VARIABLE" -> <<Mapped(o, 0, o.entries[1])>>
    [] o.code = "RECORD"   -> LET e == Picked(o.entries, {k \in 1 .. Len(o.entries) : o.entries[k].si # 0})
                              IN  [k \in 1 .. Len(e) |-> Mapped(o, e[k].si, e[k])]
    [] o.code = "ARRAY"    -> [i \in 1 .. o.entries[1].default |-> Mapped(o, i, o.entries[2])]

\* What fills a word of 16 bits, or crosses one, starts at a word.
calLengthPadding(bitOffset, bitLen) ==
  IF bitLen >= 16 \/ (bitOffset % 16) + bitLen > 16
  THEN ((bitOffset + 15) \div 16) * 16 + bitLen
  ELSE bitOffset + bitLen

\* The size of process data of size bits with the entries e behind them.
Extended(size, e) ==
  LET total[k \in 0 .. Len(e)] ==
        IF k = 0 THEN size ELSE calLengthPadding(total[k - 1], e[k].bits)
  IN  total[Len(e)]

\* One turn of the loop over the objects of the sheet.
MapObject ==
  /\ phase = "pdo" /\ next <= Len(lObject)
  /\ LET o == lObject[next] IN
     IF Direction(o) # {} /\ Broken(o) /\ o.entries[1].default > 0
     THEN phase' = "exception" /\ UNCHANGED <<next, pdo, bitSize>>
     ELSE /\ pdo' = [d \in {Rx, Tx} |->
                       IF d \in Direction(o) THEN pdo[d] \o Elements(o) ELSE pdo[d]]
          /\ bitSize' = [d \in {Rx, Tx} |->
                           IF d \in Direction(o) THEN Extended(bitSize[d], Elements(o))
                           ELSE bitSize[d]]
          /\ next' = next + 1 /\ UNCHANGED phase
  /\ UNCHANGED <<rows, lObject>>

EndPdo ==
  /\ phase = "pdo" /\ next > Len(lObject)
  /\ phase' = IF \E k \in 1 .. Len(lObject) : Broken(lObject[k]) THEN "exception" ELSE "done"
  /\ UNCHANGED <<rows, lObject, next, pdo, bitSize>>

---------------------------------------------------------------------------
(***************************************************************************)
(* What is printed: generateSDO, generateObjList and generateMapC.         *)
(***************************************************************************)
Descriptor(si, bits) == [subindex |-> si, bitlength |-> bits]

objdesc(o) ==
  CASE o.code = "VARIABLE" -> <<Descriptor(0, o.entries[1].bits)>>
    [] o.code = "RECORD"   -> [k \in 1 .. Len(o.entries) |->
                                 LET e == o.entries[k]
                                 IN  Descriptor(e.si, IF e.si = 0 THEN 8 ELSE e.bits)]
    [] o.code = "ARRAY"    -> <<Descriptor(0, 8)>> \o
                              [i \in 1 .. o.entries[1].default |-> Descriptor(i, o.entries[2].bits)]

maxsub_Entries(o) == Len(o.entries) - 1
maxsub(o) == IF o.code = "ARRAY" THEN o.entries[1].default ELSE Len(o.entries) - 1

Printed(o) == [index |-> o.index, maxsub |-> maxsub(o) % 256, objdesc |-> objdesc(o)]
Other(index) == [index |-> index, maxsub |-> 0, objdesc |-> <<Descriptor(0, 32)>>]

\* Objects below 0x6000 are defined and not listed.
Custom == Picked(lObject, {k \in 1 .. Len(lObject) : lObject[k].index >= 24576})
SDOobjects ==
  [k \in 1 .. Len(Fixed) |-> Other(Fixed[k])] \o
  [k \in 1 .. Len(Custom) |-> Printed(Custom[k])] \o
  <<Other(Sentinel)>>

\* MAX_RXPDO_SIZE and MAX_TXPDO_SIZE.
PdoByteSize_Exact(d) == bitSize[d] \div 8
PdoByteSize(d) == (bitSize[d] + 15) \div 8

---------------------------------------------------------------------------
(***************************************************************************)
(* The search of the slave.                                                *)
(***************************************************************************)
SDO_findobject(index) ==
  LET n == Min({k \in 1 .. Len(SDOobjects) : SDOobjects[k].index >= index})
  IN  IF SDOobjects[n].index # index THEN -1 ELSE n

\* Behind the descriptors the search sees what does not match.
SDO_findsubindex(n, subindex) ==
  LET o == SDOobjects[n]
      last == Min({o.maxsub, Len(o.objdesc) - 1})
      k == Min({i \in 0 .. last : o.objdesc[i + 1].subindex >= subindex \/ i = last})
  IN  IF o.objdesc[k + 1].subindex # subindex THEN -1 ELSE k

Found(index, subindex, bits) ==
  LET n == SDO_findobject(index) IN
  /\ n # -1
  /\ LET k == SDO_findsubindex(n, subindex) IN
     k # -1 /\ SDOobjects[n].objdesc[k + 1].bitlength = bits

---------------------------------------------------------------------------
SheetInit ==
  /\ phase = "sheet" /\ rows = 0 /\ lObject = <<>> /\ next = 1
  /\ pdo = [d \in {Rx, Tx} |-> <<>>] /\ bitSize = [d \in {Rx, Tx} |-> 0]

GeneratorNext == (\E r \in Rows : ReadRow(r)) \/ EndSheet \/ MapObject \/ EndPdo

GeneratorSpec == SheetInit /\ [][GeneratorNext]_sheetVars

---------------------------------------------------------------------------
(***************************************************************************)
(* Properties.                                                             *)
(***************************************************************************)
\* Whatever the sheet maps, the slave finds when it computes the mapping: the object,
\* its subindex and the length the mapping gives it, each of them once.
MappingFound ==
  phase = "done" => \A d \in {Rx, Tx} : \A i \in 1 .. Len(pdo[d]) :
    /\ Found(pdo[d][i].index, pdo[d][i].sub, pdo[d][i].bits)
    /\ \A j \in 1 .. i - 1 : <<pdo[d][j].index, pdo[d][j].sub>> # <<pdo[d][i].index, pdo[d][i].sub>>

\* Every subindex an object of the list announces is found, and COE_initDefaultValues,
\* which goes by the same number, sees all of its descriptors and nothing else.
ListSearchable ==
  phase = "done" => \A k \in 1 .. Len(Custom) :
    LET o == Printed(Custom[k]) IN
    /\ Len(o.objdesc) = o.maxsub + 1
    /\ \A s \in 0 .. o.maxsub : Found(o.index, s, o.objdesc[s + 1].bitlength)

\* The sum of the lengths, as sizeOfPDO of the slave counts without padding.
Bits(e) ==
  LET sum[k \in 0 .. Len(e)] == IF k = 0 THEN 0 ELSE sum[k - 1] + e[k].bits
  IN  sum[Len(e)]

\* The buffers rxpdo and txpdo, sized by one way to count, hold the process data as
\* sizeOfPDO counts them.
BuffersHold ==
  phase = "done" => \A d \in {Rx, Tx} : Bits(pdo[d]) <= 8 * PdoByteSize(d)

\* Two that do not hold.  The ESI file the master configures the slave from names the
\* same entries: of an array it names the first element every time.
DescriptionAgrees ==
  \A d \in {Rx, Tx} : \A i \in 1 .. Len(pdo[d]) : pdo[d][i].ref = pdo[d][i].sub

\* "Input Data of the Module (0x6000 - 0x6FFF)" and "Output Data of the Module (0x7000
\* - 0x7FFF)", say the headings of src/examples/STMCAT.xlsx: all of them are mapped.
ModuleDataMapped ==
  phase = "done" => \A k \in 1 .. Len(lObject) :
    lObject[k].index \in 24576 .. 32767 /\ Elements(lObject[k]) # <<>> =>
      \E d \in {Rx, Tx} : \E i \in 1 .. Len(pdo[d]) : pdo[d][i].index = lObject[k].index
=============================================================================
