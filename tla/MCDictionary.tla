---------------------------- MODULE MCDictionary ----------------------------
(* Constants of Dictionary for TLC: rows that begin an object of each kind, of  *)
(* process data and not, and rows that go on with one; lengths of 1, 8 and 16   *)
(* bits; arrays of a negative length, of none, of two and of 255, the longest an *)
(* orderly sheet may have.                                                      *)
EXTENDS Dictionary

MCBlank == -1
Row(i, s, c, b, d) == [index |-> i, si |-> s, code |-> c, bits |-> b, default |-> d]

\* 0x2000, 0x6000, 0x6999, 0x699A, 0x7000 and 0x8000.
MCIndexes == {8192, 24576, 27033, 27034, 28672, 32768}
MCHeads ==
  {Row(i, 0, "VARIABLE", b, 0) : i \in MCIndexes, b \in {1, 16}} \union
  {Row(i, 0, "RECORD", 8, 0) : i \in MCIndexes} \union
  {Row(i, 0, "ARRAY", 8, d) : i \in MCIndexes, d \in {-1, 0, 2}} \union
  {Row(32768, 0, "ARRAY", 8, 255)}
MCMore ==
  {Row(i, s, "VARIABLE", b, 0) : i \in {Blank, 24576}, s \in {1, 3}, b \in {1, 16}}
MCRows == MCHeads \union MCMore \union {Row(Blank, Blank, "VARIABLE", 8, 0)}

\* The objects of slave_objectlist.tmp: 0x1000, 0x1008, 0x1009, 0x100A, 0x1018,
\* 0x1600, 0x1A00, 0x1C00, 0x1C12 and 0x1C13.
MCFixed == <<4096, 4104, 4105, 4106, 4120, 5632, 6656, 7168, 7186, 7187>>

\* A sheet with the long array is of three rows at most: what the search costs for it is
\* 255 times that of another.
MCLong ==
  (\E k \in 1 .. Len(lObject) : lObject[k].entries[1].default = MaxSub) => rows <= 3
=============================================================================
