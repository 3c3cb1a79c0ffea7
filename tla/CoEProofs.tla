----------------------------- MODULE CoEProofs -----------------------------
(***************************************************************************)
(* Proofs about CoE, for any dictionary, any sizes of its objects and any  *)
(* size of the mailbox; and, in the second half, about Dictionary, where   *)
(* the objects these services search come from, for any rows of a sheet    *)
(* and any number of them.  The two have no state in common.               *)
(***************************************************************************)
EXTENDS CoE, Dictionary, WellFoundedInduction, TLAPS

---------------------------------------------------------------------------
(***************************************************************************)
(* The strengthening: what the counters shared by uploads and lists mean   *)
(* while one of them is in progress.                                       *)
(***************************************************************************)
\* An upload the master is in the middle of is the one the counters are about.
UploadInv ==
  upload # Nothing =>
    /\ upload \in [op : {"upload"}, obj : Objects, sent : Nat]
    /\ segmented /\ data = upload.obj
    /\ frags = Size[upload.obj] /\ fragsleft = upload.sent
    /\ upload.sent < Size[upload.obj]

\* While a list is sent its request is kept, no upload is expected to go on, and
\* fragsleft of its fragments are to come.
ListInv ==
  /\ xoe = "odl" =>
       /\ req # Nothing /\ req.op = "list" /\ upload = Nothing
       /\ entries = count /\ frags = ListFrags
       /\ fragsleft \in 1 .. frags - 1
       /\ listed = (frags - fragsleft) * ListRoom
  /\ xoe # "odl" => listed = 0

IInv == TypeOK /\ UploadInv /\ ListInv

---------------------------------------------------------------------------
(***************************************************************************)
(* Arithmetic of fragments.                                                *)
(***************************************************************************)
\* The quotient of a division by a positive number, and that nothing else is one.
LEMMA DivBounds ==
  ASSUME NEW a \in Nat, NEW b \in Nat, b > 0
  PROVE  /\ a \div b \in Int
         /\ b * (a \div b) <= a
         /\ a < b * (a \div b) + b
  <1>1. a \div b \in Int
    BY SMT
  <1>2. b * (a \div b) <= a
    BY SMT
  <1>3. a < b * (a \div b) + b
    BY SMT
  <1> QED
    BY <1>1, <1>2, <1>3

LEMMA DivUnique ==
  ASSUME NEW a \in Nat, NEW b \in Nat, b > 0, NEW q \in Int, b * q <= a, a < b * q + b
  PROVE  a \div b = q
  <1> DEFINE p == a \div b
  <1>1. p \in Int /\ b * p <= a /\ a < b * p + b
    BY DivBounds
  <1> HIDE DEF p
  <1>2. b * p < b * (q + 1) /\ b * q < b * (p + 1)
    BY <1>1, SMT
  <1>3. p < q + 1
    BY <1>1, <1>2, SMT
  <1>4. q < p + 1
    BY <1>1, <1>2, SMT
  <1> QED
    BY <1>1, <1>3, <1>4 DEF p

\* Every message has room.
LEMMA Rooms ==
  /\ UploadRoom \in Nat /\ UploadRoom >= 4
  /\ SegmentRoom \in Nat /\ SegmentRoom > 0
  /\ ListRoom \in Nat /\ ListRoom > 0
  BY ConstAssumption, SMT DEF ConstAssumption, UploadRoom, SegmentRoom, ListRoom

\* ListFrags is the least number of fragments that hold the list.
LEMMA FragsHold ==
  ASSUME count \in Nat, count > 0
  PROVE  /\ ListFrags \in Nat /\ ListFrags > 0
         /\ count <= ListFrags * ListRoom
         /\ (ListFrags - 1) * ListRoom < count
  <1> DEFINE R == ListRoom
             F == ListFrags
             a == 2 * count + 2 * R - 1
             b == 2 * R
  <1>1. R \in Nat /\ R > 0
    BY Rooms
  <1>2. a \in Nat /\ b \in Nat /\ b > 0
    BY <1>1
  <1>3. F = a \div b
    BY DEF ListFrags
  <1> HIDE DEF R, F
  <1>4. F \in Int /\ b * F <= a /\ a < b * F + b
    <2> HIDE DEF a, b
    <2> QED BY <1>2, <1>3, DivBounds
  <1>5. R * F < count + R /\ count <= R * F
    BY <1>1, <1>4, SMT
  <1>6. F > 0
    BY <1>1, <1>4, <1>5, SMT
  <1>7. R * F = F * R /\ (F - 1) * R = R * F - R
    BY <1>1, <1>4, SMT
  <1> QED
    BY <1>1, <1>4, <1>5, <1>6, <1>7 DEF R, F

\* Fragment k of the list, counted from 0: all but the last are full, the last is not
\* empty, and what is left behind it takes the fragments that follow.
LEMMA Fragment ==
  ASSUME count \in Nat, count > 0, NEW k \in 0 .. ListFrags - 1
  PROVE  /\ k * ListRoom \in Nat
         /\ k < ListFrags - 1 =>
              /\ k * ListRoom + ListRoom < count
              /\ (count - k * ListRoom - ListRoom + ListRoom - 1) \div ListRoom
                   = ListFrags - k - 1
         /\ k = ListFrags - 1 => count - k * ListRoom \in 1 .. ListRoom
         /\ (ListRoom - 1) \div ListRoom = 0
  <1> DEFINE R == ListRoom
             F == ListFrags
             q == F - k - 1
             n == count - k * R - R + R - 1
  <1>1. R \in Nat /\ R > 0
    BY Rooms
  <1>2. F \in Nat /\ F > 0 /\ count <= F * R /\ (F - 1) * R < count
    BY FragsHold
  <1> HIDE DEF R, F
  <1>3. k \in Nat /\ k < F
    BY <1>2 DEF F
  <1>4. k * R \in Nat /\ F * R = R * F /\ (F - 1) * R = R * F - R
    BY <1>1, <1>2, <1>3, SMT
  <1>5. R * q = R * F - k * R - R
    BY <1>1, <1>2, <1>3, SMT
  <1>6. CASE k < F - 1
    <2>1. R * k + 2 * R <= R * F
      BY <1>1, <1>2, <1>3, <1>6, SMT
    <2>2. R * k = k * R
      BY <1>1, <1>3, SMT
    <2>3. k * R + R < count
      BY <1>1, <1>2, <1>4, <2>1, <2>2, SMT
    <2>4. n \in Nat /\ R * q <= n /\ n < R * q + R /\ q \in Int
      BY <1>1, <1>2, <1>3, <1>4, <1>5, <2>3, SMT
    <2>5. n \div R = q
      <3> HIDE DEF n, q
      <3> QED BY <1>1, <2>4, DivUnique
    <2>6. (R - 1) \div R = 0
      BY <1>1, DivUnique
    <2> QED
      BY <1>4, <1>6, <2>3, <2>5, <2>6 DEF R, F
  <1>7. CASE k = F - 1
    <2>1. count - k * R \in 1 .. R
      BY <1>1, <1>2, <1>4, <1>7, SMT
    <2>2. (R - 1) \div R = 0
      BY <1>1, DivUnique
    <2> QED
      BY <1>4, <1>7, <2>1, <2>2 DEF R, F
  <1> QED
    BY <1>2, <1>3, <1>6, <1>7

---------------------------------------------------------------------------
(***************************************************************************)
(* Every step keeps the invariant.                                         *)
(***************************************************************************)
LEMMA InitInv == Init => IInv
  <1> SUFFICES ASSUME Init PROVE IInv
    OBVIOUS
  <1> USE DEF Init
  <1>1. TypeOK
    BY DEF TypeOK
  <1>2. UploadInv /\ ListInv
    BY DEF UploadInv, ListInv
  <1> QED
    BY <1>1, <1>2 DEF IInv

\* The count of objects is positive, in every state.
LEMMA Counted == TypeOK => count \in Nat /\ count > 0
  BY ConstAssumption DEF TypeOK, ConstAssumption

\* The request in buffer 0 is one of the master's.
LEMMA Requested ==
  ASSUME TypeOK, req # Nothing
  PROVE  /\ req \in Requests
         /\ req.op \in {"upload", "describe", "download"} => req.obj \in Objects \union {Absent}
         /\ req.op = "download" => req.value \in Values
  BY DEF TypeOK, Requests

\* SDO_upload: what it answers, and that the counters are about it.
LEMMA UploadKeeps ==
  ASSUME IInv, req # Nothing, xoe # "odl", NEW free \in BOOLEAN, SDO_upload(free), Sees,
         UNCHANGED <<ALstate, count>>
  PROVE  IInv'
  <1> USE DEF IInv, SDO_upload
  <1>1. req.obj \in Objects \union {Absent} /\ req.op = "upload"
    BY Requested
  <1>2. CASE answer' \in {Nothing, Abort} /\ NoTransfer
    <2>1. UNCHANGED <<upload, listed>>
      BY <1>1, <1>2 DEF Sees, Nothing, Abort, Info
    <2>2. TypeOK'
      BY <1>2 DEF TypeOK, Done, NoTransfer, transfer
    <2>3. UploadInv'
      BY <1>2, <2>1 DEF UploadInv, NoTransfer, transfer
    <2>4. ListInv'
      BY <2>1 DEF ListInv, Done
    <2> QED
      BY <2>2, <2>3, <2>4
  <1>3. ASSUME req.obj \in Objects, free, Expedited(req.obj) \/ Normal(req.obj)
        PROVE  IInv'
    <2>1. answer' = Octets("upload", req.obj, 0, Size[req.obj], TRUE)
      BY <1>3 DEF Expedited, Normal
    <2>2. upload' = Nothing /\ listed' = listed
      BY <2>1 DEF Sees, Octets
    <2>3. TypeOK'
      BY <1>3 DEF TypeOK, Done, NoTransfer, transfer, Expedited, Normal
    <2>4. UploadInv'
      BY <2>2 DEF UploadInv
    <2>5. ListInv'
      BY <2>2 DEF ListInv, Done
    <2> QED
      BY <2>3, <2>4, <2>5
  <1>4. ASSUME req.obj \in Objects, free, FirstPart(req.obj)
        PROVE  IInv'
    <2>1. answer' = Octets("upload", req.obj, 0, UploadRoom, FALSE)
      BY <1>4 DEF FirstPart
    <2>2. upload' = [op |-> "upload", obj |-> req.obj, sent |-> UploadRoom] /\ listed' = listed
      BY <2>1 DEF Sees, Octets
    <2>3. Size[req.obj] \in Nat /\ UploadRoom \in Nat
      BY <1>4, Rooms, ConstAssumption DEF ConstAssumption
    <2>4. TypeOK'
      BY <1>4, <2>3 DEF TypeOK, Done, FirstPart
    <2>5. UploadInv'
      BY <1>4, <2>2, <2>3 DEF UploadInv, FirstPart
    <2>6. ListInv'
      BY <2>2 DEF ListInv, Done
    <2> QED
      BY <2>4, <2>5, <2>6
  <1> QED
    BY <1>1, <1>2, <1>3, <1>4 DEF Reply

\* SDO_uploadsegment, with an upload the master is in the middle of or without.
LEMMA SegmentKeeps ==
  ASSUME IInv, req # Nothing, xoe # "odl", NEW free \in BOOLEAN, SDO_uploadsegment(free), Sees,
         UNCHANGED <<ALstate, count>>
  PROVE  IInv'
  <1> USE DEF IInv, SDO_uploadsegment
  <1>1. req.op = "segment"
    OBVIOUS
  <1>2. CASE answer' = Nothing /\ NoTransfer
    <2>1. UNCHANGED <<upload, listed>>
      BY <1>1, <1>2 DEF Sees, Nothing, Info
    <2>2. TypeOK'
      BY <1>2 DEF TypeOK, Done, NoTransfer, transfer
    <2>3. UploadInv'
      BY <1>2, <2>1 DEF UploadInv, NoTransfer, transfer
    <2>4. ListInv'
      BY <2>1 DEF ListInv, Done
    <2> QED
      BY <2>2, <2>3, <2>4
  <1>3. CASE NextSegment
    <2> DEFINE size == frags - fragsleft
    <2>1. SegmentRoom \in Nat /\ SegmentRoom > 0 /\ frags \in Nat /\ fragsleft \in Nat
      BY Rooms DEF TypeOK
    <2>2. CASE size > SegmentRoom
      <3> ~(size <= SegmentRoom)
        BY <2>1, <2>2
      <3>1. answer' = Octets("segment", data, fragsleft, SegmentRoom, FALSE)
        BY <1>3 DEF NextSegment
      <3>2. fragsleft' = fragsleft + SegmentRoom /\ UNCHANGED <<segmented, frags, data>>
        BY <1>3 DEF NextSegment
      <3>3. /\ upload' = IF upload # Nothing
                         THEN [upload EXCEPT !.sent = @ + SegmentRoom] ELSE upload
            /\ listed' = listed
        BY <3>1 DEF Sees, Octets, Info
      <3>4. TypeOK'
        BY <2>1, <3>2 DEF TypeOK, Done
      <3>5. UploadInv'
        <4>1. CASE upload = Nothing
          BY <3>3, <4>1 DEF UploadInv
        <4>2. CASE upload # Nothing
          <5>1. upload \in [op : {"upload"}, obj : Objects, sent : Nat]
            BY <4>2 DEF UploadInv
          <5>2. upload' = [upload EXCEPT !.sent = upload.sent + SegmentRoom]
            BY <3>3, <4>2
          <5>3. /\ upload' \in [op : {"upload"}, obj : Objects, sent : Nat]
                /\ upload'.obj = upload.obj /\ upload'.sent = upload.sent + SegmentRoom
            BY <2>1, <5>1, <5>2
          <5>4. Size[upload.obj] \in Nat
            BY <5>1, ConstAssumption DEF ConstAssumption
          <5> QED
            BY <2>1, <2>2, <3>2, <4>2, <5>1, <5>3, <5>4 DEF UploadInv
        <4> QED
          BY <4>1, <4>2
      <3>6. ListInv'
        BY <3>3 DEF ListInv, Done
      <3> QED
        BY <3>4, <3>5, <3>6
    <2>3. CASE ~(size > SegmentRoom)
      <3>1. /\ answer' = Octets("segment", data, fragsleft, size, TRUE)
            /\ segmented' = FALSE /\ frags' = 0 /\ fragsleft' = 0 /\ data' = data
        BY <1>3, <2>1, <2>3 DEF NextSegment
      <3>2. upload' = Nothing /\ listed' = listed
        BY <3>1 DEF Sees, Octets, Info
      <3>3. TypeOK'
        BY <3>1 DEF TypeOK, Done
      <3>4. UploadInv' /\ ListInv'
        BY <3>2 DEF UploadInv, ListInv, Done
      <3> QED
        BY <3>3, <3>4
    <2> QED
      BY <2>2, <2>3
  <1> QED
    BY <1>2, <1>3

\* SDO_download changes no counter.
LEMMA DownloadKeeps ==
  ASSUME IInv, req # Nothing, xoe # "odl", NEW free \in BOOLEAN, SDO_download(free), Sees,
         UNCHANGED <<ALstate, count>>
  PROVE  IInv'
  <1> USE DEF IInv, SDO_download
  <1>1. req.op = "download" /\ answer' \in {Nothing, Abort, Ack}
    BY DEF Reply
  <1>2. UNCHANGED <<upload, listed>>
    BY <1>1 DEF Sees, Nothing, Abort, Ack, Info
  <1>3. req.obj \in Objects \union {Absent} /\ req.value \in Values
    BY <1>1, Requested
  <1>4. od' \in [Objects -> [value : Values \union {0}, whole : BOOLEAN]]
    <2> DEFINE T == [value : Values \union {0}, whole : BOOLEAN]
    <2>1. od \in [Objects -> T]
      BY DEF TypeOK
    <2>2. (req.obj # Absent => req.obj \in Objects) /\ Stored(req.value, req.obj) \in T
      BY <1>3 DEF Stored
    <2>3. \/ od' = od
          \/ req.obj # Absent /\ od' = [od EXCEPT ![req.obj] = Stored(req.value, req.obj)]
      OBVIOUS
    <2> HIDE DEF T
    <2>4. od' \in [Objects -> T]
      BY <2>1, <2>2, <2>3
    <2> QED
      BY <2>4 DEF T
  <1>5. TypeOK'
    BY <1>4 DEF TypeOK, Done, NoTransfer, transfer
  <1>6. UploadInv'
    BY <1>2 DEF UploadInv, NoTransfer, transfer
  <1>7. ListInv'
    BY <1>2 DEF ListInv, Done
  <1> QED
    BY <1>5, <1>6, <1>7

\* Nor do the descriptions and what is not recognised.
LEMMA OtherServiceKeeps ==
  ASSUME IInv, req # Nothing, xoe # "odl", NEW free \in BOOLEAN,
         Unrecognised(free) \/ Describe(free), Sees, UNCHANGED <<ALstate, count>>
  PROVE  IInv'
  <1> USE DEF IInv
  <1>1. /\ req.op \in {"unknown", "segment", "describe"}
        /\ answer' \in {Nothing, Abort, Info}
        /\ NoTransfer /\ UNCHANGED <<entries, od>>
        /\ xoe' \in {"none", "coe"} /\ req' \in {Nothing, req}
    BY DEF Unrecognised, Describe, Done, Answered, Reply
  <1>2. UNCHANGED <<upload, listed>>
    BY <1>1 DEF Sees, Nothing, Abort, Info
  <1>3. TypeOK'
    BY <1>1 DEF TypeOK, NoTransfer, transfer
  <1>4. UploadInv'
    BY <1>1, <1>2 DEF UploadInv, NoTransfer, transfer
  <1>5. ListInv'
    BY <1>1, <1>2 DEF ListInv
  <1> QED
    BY <1>3, <1>4, <1>5

\* The start of a list, which the first fragment may end.
LEMMA ListKeeps ==
  ASSUME IInv, req # Nothing, xoe # "odl", NEW free \in BOOLEAN, SDO_getodlist(free), Sees,
         UNCHANGED <<ALstate, count>>
  PROVE  IInv'
  <1> USE DEF IInv, SDO_getodlist
  <1>1. count \in Nat /\ count > 0 /\ listed = 0
    BY Counted DEF ListInv
  <1>2. ListFrags \in Nat /\ ListFrags > 0 /\ ListRoom \in Nat
    BY <1>1, FragsHold, Rooms
  <1>3. ASSUME answer' \in {Nothing, Abort}, NoTransfer, xoe' \in {"none", "coe"},
               req' \in {Nothing, req}
        PROVE  IInv'
    <2>1. UNCHANGED <<upload, listed>>
      BY <1>3 DEF Sees, Nothing, Abort, Info
    <2>2. TypeOK'
      BY <1>1, <1>3 DEF TypeOK, NoTransfer, transfer
    <2>3. UploadInv' /\ ListInv'
      BY <1>3, <2>1 DEF UploadInv, ListInv, NoTransfer, transfer
    <2> QED
      BY <2>2, <2>3
  <1>4. CASE req.op = "badlist" \/ ~free
    BY <1>3, <1>4 DEF Answered, Done
  <1>5. ASSUME req.op = "number", free
        PROVE  IInv'
    <2>1. answer' = Info /\ Done /\ frags' = ListFrags /\ fragsleft' = ListFrags - 1
      BY <1>5
    <2>2. upload' = Nothing /\ listed' = listed
      BY <1>5, <2>1 DEF Sees, Info
    <2>3. TypeOK'
      BY <1>1, <1>2, <1>5, <2>1 DEF TypeOK, Done
    <2>4. UploadInv' /\ ListInv'
      BY <2>1, <2>2 DEF UploadInv, ListInv, Done
    <2> QED
      BY <2>3, <2>4
  <1>6. ASSUME req.op = "list", free, ListFrags > 1
        PROVE  IInv'
    <2>1. /\ answer' = Listing(0, ListRoom, TRUE, ListFrags - 1)
          /\ xoe' = "odl" /\ req' = req
          /\ frags' = ListFrags /\ fragsleft' = ListFrags - 1
      BY <1>6 DEF FirstListing
    <2>2. upload' = Nothing /\ listed' = listed + ListRoom
      BY <2>1 DEF Sees, Listing
    <2>3. TypeOK'
      BY <1>1, <1>2, <1>6, <2>1 DEF TypeOK
    <2>4. ListFrags' = ListFrags
      BY count' = count DEF ListFrags
    <2>5. listed' = (frags' - fragsleft') * ListRoom
      BY <1>1, <1>2, <2>1, <2>2, SMT
    <2>6. UploadInv' /\ ListInv'
      BY <1>2, <1>6, <2>1, <2>2, <2>4, <2>5 DEF UploadInv, ListInv
    <2> QED
      BY <2>3, <2>6
  <1>7. ASSUME req.op = "list", free, ~(ListFrags > 1)
        PROVE  IInv'
    <2>1. /\ answer' = Listing(0, count, FALSE, ListFrags - 1) /\ Done
          /\ frags' = ListFrags /\ fragsleft' = ListFrags - 1
      BY <1>7 DEF FirstListing
    <2>2. upload' = Nothing /\ listed' = 0
      BY <2>1 DEF Sees, Listing
    <2>3. TypeOK'
      BY <1>1, <1>2, <1>7, <2>1 DEF TypeOK, Done
    <2>4. UploadInv' /\ ListInv'
      BY <2>1, <2>2 DEF UploadInv, ListInv, Done
    <2> QED
      BY <2>3, <2>4
  <1> QED
    BY <1>4, <1>5, <1>6, <1>7

\* The next fragment of a list, and its last.
LEMMA ListContKeeps ==
  ASSUME IInv, xoe = "odl", SDO_getodlistcont, Sees, UNCHANGED <<ALstate, count>>
  PROVE  IInv'
  <1> USE DEF IInv, SDO_getodlistcont
  <1>1. /\ req # Nothing /\ req.op = "list" /\ upload = Nothing
        /\ entries = count /\ frags = ListFrags /\ fragsleft \in 1 .. frags - 1
        /\ listed = (frags - fragsleft) * ListRoom
    BY DEF ListInv
  <1>2. ListFrags \in Nat /\ ListFrags > 0 /\ ListRoom \in Nat
    BY Counted, FragsHold, Rooms
  <1>3. fragsleft' = fragsleft - 1 /\ fragsleft' \in Nat
    BY <1>1, <1>2
  <1>4. ListFrags' = ListFrags
    BY count' = count DEF ListFrags
  <1>5. CASE fragsleft > 1
    <2>1. /\ answer'.op = "list" /\ answer'.more /\ answer'.len = ListRoom
          /\ UNCHANGED <<xoe, req>>
      BY <1>5 DEF Listing
    <2>2. upload' = Nothing /\ listed' = listed + ListRoom
      BY <2>1 DEF Sees
    <2>3. TypeOK'
      BY <1>3, <2>1 DEF TypeOK
    <2>4. listed' = (frags' - fragsleft') * ListRoom
      BY <1>1, <1>2, <1>3, <2>2, SMT
    <2>5. UploadInv' /\ ListInv'
      BY <1>1, <1>2, <1>3, <1>4, <1>5, <2>1, <2>2, <2>4 DEF UploadInv, ListInv
    <2> QED
      BY <2>3, <2>5
  <1>6. CASE ~(fragsleft > 1)
    <2>1. answer'.op = "list" /\ ~answer'.more /\ Done
      BY <1>6 DEF Listing
    <2>2. upload' = Nothing /\ listed' = 0
      BY <2>1 DEF Sees
    <2>3. TypeOK'
      BY <1>3, <2>1 DEF TypeOK, Done
    <2>4. UploadInv' /\ ListInv'
      BY <2>1, <2>2 DEF UploadInv, ListInv, Done
    <2> QED
      BY <2>3, <2>4
  <1> QED
    BY <1>5, <1>6

LEMMA ProcessKeeps == IInv /\ ESC_coeprocess => IInv'
  <1> SUFFICES ASSUME IInv, ESC_coeprocess PROVE IInv'
    OBVIOUS
  <1>1. CASE xoe = "odl"
    BY <1>1, ListContKeeps DEF ESC_coeprocess
  <1>2. ASSUME xoe # "odl", NEW free \in BOOLEAN, Service(free)
        PROVE  IInv'
    <2>1. req # Nothing /\ Sees /\ UNCHANGED <<ALstate, count>>
      BY DEF ESC_coeprocess
    <2> QED
      BY <1>2, <2>1, UploadKeeps, SegmentKeeps, DownloadKeeps, OtherServiceKeeps, ListKeeps
         DEF Service
  <1> QED
    BY <1>1, <1>2 DEF ESC_coeprocess

\* What the master and the AL state machine do, and a step that changes nothing here.
LEMMA OthersKeep == IInv /\ (ReadRequest \/ ChangeState \/ ESC_stopmbx \/ UNCHANGED vars) => IInv'
  <1> SUFFICES ASSUME IInv, ReadRequest \/ ChangeState \/ ESC_stopmbx \/ UNCHANGED vars
               PROVE  IInv'
    OBVIOUS
  <1> USE DEF IInv
  <1>1. CASE ESC_stopmbx
    BY <1>1 DEF ESC_stopmbx, TypeOK, UploadInv, ListInv
  <1>2. ASSUME ReadRequest \/ ChangeState \/ UNCHANGED vars
        PROVE  IInv'
    <2>1. UNCHANGED <<xoe, transfer, entries, od, count, upload, listed>>
      BY <1>2 DEF ReadRequest, ChangeState, vars
    <2>2. /\ req' = req \/ (req = Nothing /\ req' \in Requests)
          /\ ALstate' \in {"preop", "safeop", "op", ALstate}
      BY <1>2 DEF ReadRequest, ChangeState, vars
    <2>3. TypeOK'
      BY <2>1, <2>2 DEF TypeOK, transfer
    <2>4. UploadInv'
      BY <2>1 DEF UploadInv, transfer
    <2>5. ListFrags' = ListFrags
      BY <2>1 DEF ListFrags
    <2>6. ListInv'
      BY <2>1, <2>2, <2>5 DEF ListInv, transfer
    <2> QED
      BY <2>3, <2>4, <2>6
  <1> QED
    BY <1>1, <1>2

LEMMA Inductive == Spec => []IInv
  <1>1. IInv /\ [Next]_vars => IInv'
    BY ProcessKeeps, OthersKeep DEF Next
  <1> QED
    BY InitInv, <1>1, PTL DEF Spec

---------------------------------------------------------------------------
(***************************************************************************)
(* What the master relies on.                                              *)
(***************************************************************************)
\* Every variable keeps its type; in particular fragsleft never goes below zero.
THEOREM TypeCorrect == Spec => []TypeOK
  <1>1. IInv => TypeOK
    BY DEF IInv
  <1> QED
    BY <1>1, Inductive, PTL

\* Which step answers with a segment, and which with a fragment of the list.
LEMMA AnswerFrom ==
  ASSUME Next, IInv
  PROVE  /\ answer'.op = "segment" => xoe # "odl" /\ SDO_uploadsegment(TRUE)
         /\ answer'.op = "list" =>
              \/ xoe = "odl" /\ SDO_getodlistcont
              \/ xoe # "odl" /\ req.op = "list" /\ FirstListing
  <1> USE DEF Nothing, Abort, Ack, Info, Octets, Listing
  <1>1. CASE ESC_coeprocess
    <2>1. ASSUME xoe = "odl", SDO_getodlistcont
          PROVE  answer'.op = "list"
      BY <2>1 DEF SDO_getodlistcont
    <2>2. ASSUME NEW free \in BOOLEAN, SDO_upload(free)
          PROVE  answer'.op \in {"none", "abort", "upload"}
      BY <2>2 DEF SDO_upload, Reply, Expedited, Normal, FirstPart
    <2>3. ASSUME NEW free \in BOOLEAN, SDO_uploadsegment(free)
          PROVE  answer'.op = "none" \/ (answer'.op = "segment" /\ free = TRUE)
      <3>1. CASE free /\ NextSegment
        <4>1. \E from, len, last : answer' = Octets("segment", data, from, len, last)
          BY <3>1 DEF NextSegment
        <4>2. answer'.op = "segment"
          BY <4>1
        <4> QED
          BY <3>1, <4>2
      <3>2. CASE answer' = Nothing
        BY <3>2
      <3> QED
        BY <2>3, <3>1, <3>2 DEF SDO_uploadsegment
    <2>4. ASSUME NEW free \in BOOLEAN, SDO_download(free) \/ Unrecognised(free) \/ Describe(free)
          PROVE  answer'.op \in {"none", "abort", "ack", "info"}
      BY <2>4 DEF SDO_download, Unrecognised, Describe, Answered, Reply
    <2>5. ASSUME NEW free \in BOOLEAN, SDO_getodlist(free)
          PROVE  \/ answer'.op \in {"none", "abort", "info"}
                 \/ answer'.op = "list" /\ req.op = "list" /\ FirstListing
      <3>1. CASE req.op = "list" /\ free
        <4>1. FirstListing
          BY <2>5, <3>1 DEF SDO_getodlist
        <4>2. answer'.op = "list"
          BY <4>1 DEF FirstListing
        <4> QED
          BY <3>1, <4>1, <4>2
      <3>2. CASE ~(req.op = "list" /\ free)
        BY <2>5, <3>2 DEF SDO_getodlist, Answered
      <3> QED
        BY <3>1, <3>2
    <2>6. CASE xoe = "odl"
      BY <1>1, <2>1, <2>6 DEF ESC_coeprocess
    <2>7. CASE xoe # "odl"
      <3>1. PICK free \in BOOLEAN : Service(free)
        BY <1>1, <2>7 DEF ESC_coeprocess
      <3>2. CASE SDO_uploadsegment(free)
        <4>1. CASE answer'.op = "segment"
          <5>1. free = TRUE
            BY <2>3, <3>2, <4>1
          <5> QED
            BY <2>7, <3>2, <4>1, <5>1
        <4> QED
          BY <2>3, <3>2, <4>1
      <3>3. CASE SDO_upload(free)
        BY <2>2, <3>3
      <3>4. CASE SDO_download(free) \/ Unrecognised(free) \/ Describe(free)
        BY <2>4, <3>4
      <3>5. CASE SDO_getodlist(free)
        BY <2>5, <2>7, <3>5
      <3> QED
        BY <3>1, <3>2, <3>3, <3>4, <3>5 DEF Service
    <2> QED
      BY <2>6, <2>7
  <1>2. CASE ReadRequest \/ ChangeState \/ ESC_stopmbx
    <2>1. answer' = Nothing
      BY <1>2 DEF ReadRequest, ChangeState, ESC_stopmbx
    <2>2. answer'.op = "none"
      BY <2>1
    <2> QED
      BY <2>2
  <1> QED
    BY <1>1, <1>2 DEF Next

\* The segments of an upload carry it in order, for objects and mailboxes of any size.
THEOREM UploadCorrect == Spec => UploadInOrder
  <1>1. ASSUME IInv, Next, answer'.op = "segment", upload # Nothing
        PROVE  /\ answer'.obj = upload.obj
               /\ answer'.from = upload.sent
               /\ answer'.len > 0
               /\ answer'.last <=> answer'.from + answer'.len = Size[upload.obj]
    <2>1. NextSegment
      <3>1. SDO_uploadsegment(TRUE)
        BY <1>1, AnswerFrom
      <3>2. answer' # Nothing
        BY <1>1 DEF Nothing
      <3> QED
        BY <3>1, <3>2 DEF SDO_uploadsegment
    <2>2. /\ data = upload.obj /\ frags = Size[upload.obj]
          /\ fragsleft = upload.sent /\ fragsleft < frags
          /\ frags \in Nat /\ fragsleft \in Nat
      BY <1>1 DEF IInv, UploadInv, TypeOK
    <2>3. SegmentRoom \in Nat /\ SegmentRoom > 0
      BY Rooms
    <2>4. CASE frags - fragsleft > SegmentRoom
      <3> ~(frags - fragsleft <= SegmentRoom)
        BY <2>2, <2>3, <2>4
      <3>1. answer' = Octets("segment", data, fragsleft, SegmentRoom, FALSE)
        BY <2>1 DEF NextSegment
      <3>2. /\ answer'.obj = data /\ answer'.from = fragsleft
            /\ answer'.len = SegmentRoom /\ answer'.last = FALSE
        BY <3>1 DEF Octets
      <3>3. fragsleft + SegmentRoom # frags
        BY <2>2, <2>3, <2>4
      <3> QED
        BY <2>2, <2>3, <3>2, <3>3
    <2>5. CASE ~(frags - fragsleft > SegmentRoom)
      <3>1. answer' = Octets("segment", data, fragsleft, frags - fragsleft, TRUE)
        BY <2>1, <2>2, <2>3, <2>5 DEF NextSegment
      <3>2. /\ answer'.obj = data /\ answer'.from = fragsleft
            /\ answer'.len = frags - fragsleft /\ answer'.last = TRUE
        BY <3>1 DEF Octets
      <3>3. fragsleft + (frags - fragsleft) = frags /\ frags - fragsleft > 0
        BY <2>2
      <3> QED
        BY <2>2, <3>2, <3>3
    <2> QED
      BY <2>4, <2>5
  <1>2. IInv /\ [Next]_vars =>
          [answer'.op = "segment" /\ upload # Nothing =>
             /\ answer'.obj = upload.obj
             /\ answer'.from = upload.sent
             /\ answer'.len > 0
             /\ answer'.last <=> answer'.from + answer'.len = Size[upload.obj]]_vars
    BY <1>1
  <1> QED
    BY <1>2, Inductive, PTL DEF Spec, UploadInOrder

\* What a message of the list must say, as ListInOrder has it.
InOrder(a) ==
  /\ a.from = listed
  /\ a.len \in 1 .. ListRoom
  /\ a.more <=> a.from + a.len < count
  /\ a.more => a.len = ListRoom
  /\ a.left = (count - a.from - a.len + ListRoom - 1) \div ListRoom

\* Fragment k of ListFrags, behind k full ones, is in order.
LEMMA FragmentInOrder ==
  ASSUME count \in Nat, count > 0, NEW k \in 0 .. ListFrags - 1,
         listed = k * ListRoom
  PROVE  /\ k < ListFrags - 1 =>
              InOrder(Listing(k * ListRoom, ListRoom, TRUE, ListFrags - k - 1))
         /\ k = ListFrags - 1 =>
              InOrder(Listing(k * ListRoom, count - k * ListRoom, FALSE, 0))
  <1> DEFINE R == ListRoom
             n == k * R
  <1>1. R \in Nat /\ R > 0
    BY Rooms
  <1>2. /\ n \in Nat
        /\ k < ListFrags - 1 =>
             /\ n + R < count
             /\ (count - n - R + R - 1) \div R = ListFrags - k - 1
        /\ k = ListFrags - 1 => count - n \in 1 .. R
        /\ (R - 1) \div R = 0
    BY Fragment
  <1> HIDE DEF R, n
  <1>3. ASSUME k < ListFrags - 1
        PROVE  InOrder(Listing(n, R, TRUE, ListFrags - k - 1))
    <2>1. R \in 1 .. R
      BY <1>1
    <2> QED
      BY <1>2, <1>3, <2>1 DEF InOrder, Listing, R, n
  <1>4. ASSUME k = ListFrags - 1
        PROVE  InOrder(Listing(n, count - n, FALSE, 0))
    <2>1. ~(n + (count - n) < count)
      BY <1>2
    <2>2. count - n - (count - n) + R - 1 = R - 1
      BY <1>1, <1>2
    <2> QED
      BY <1>2, <1>4, <2>1, <2>2 DEF InOrder, Listing, R, n
  <1> QED
    BY <1>3, <1>4 DEF R, n

\* The fragments of the list are in order and complete, for a dictionary and a mailbox
\* of any size.
THEOREM ListCorrect == Spec => ListInOrder
  <1>1. ASSUME IInv, Next, answer'.op = "list"
        PROVE  InOrder(answer')
    <2>1. count \in Nat /\ count > 0
      BY <1>1, Counted DEF IInv
    <2>2. ListFrags \in Nat /\ ListFrags > 0 /\ ListRoom \in Nat
      BY <2>1, FragsHold, Rooms
    <2>3. CASE xoe = "odl" /\ SDO_getodlistcont
      <3> DEFINE k == frags - fragsleft
      <3>1. /\ frags = ListFrags /\ fragsleft \in 1 .. frags - 1 /\ entries = count
            /\ listed = k * ListRoom
        BY <1>1, <2>3 DEF IInv, ListInv
      <3>2. k \in 0 .. ListFrags - 1 /\ fragsleft - 1 = ListFrags - k - 1
        BY <2>2, <3>1
      <3>3. CASE fragsleft > 1
        <4>1. answer' = Listing(k * ListRoom, ListRoom, TRUE, ListFrags - k - 1)
          BY <2>3, <3>2, <3>3 DEF SDO_getodlistcont
        <4>2. k < ListFrags - 1
          BY <2>2, <3>1, <3>3
        <4> HIDE DEF k
        <4> QED
          BY <2>1, <3>1, <3>2, <4>1, <4>2, FragmentInOrder
      <3>4. CASE ~(fragsleft > 1)
        <4>1. fragsleft - 1 = 0 /\ k = ListFrags - 1
          BY <2>2, <3>1, <3>4
        <4>2. answer' = Listing(k * ListRoom, count - k * ListRoom, FALSE, 0)
          BY <2>3, <3>1, <3>4, <4>1 DEF SDO_getodlistcont
        <4> HIDE DEF k
        <4> QED
          BY <2>1, <3>1, <3>2, <4>1, <4>2, FragmentInOrder
      <3> QED
        BY <3>3, <3>4
    <2>4. CASE xoe # "odl" /\ FirstListing
      <3>1. listed = 0 /\ 0 * ListRoom = 0 /\ 0 \in 0 .. ListFrags - 1
        BY <1>1, <2>2, <2>4 DEF IInv, ListInv
      <3>2. CASE ListFrags > 1
        <4>1. answer' = Listing(0, ListRoom, TRUE, ListFrags - 1)
          BY <2>4, <3>2 DEF FirstListing
        <4>2. 0 < ListFrags - 1 /\ ListFrags - 0 - 1 = ListFrags - 1
          BY <2>2, <3>2
        <4>3. InOrder(Listing(0 * ListRoom, ListRoom, TRUE, ListFrags - 0 - 1))
          <5> listed = 0 * ListRoom
            BY <3>1
          <5> QED
            BY <2>1, <3>1, <4>2, FragmentInOrder
        <4> QED
          BY <3>1, <4>1, <4>2, <4>3
      <3>3. CASE ~(ListFrags > 1)
        <4>1. ListFrags - 1 = 0 /\ count - 0 * ListRoom = count
          BY <2>1, <2>2, <3>1, <3>3
        <4>2. answer' = Listing(0, count, FALSE, ListFrags - 1)
          BY <2>4, <3>3 DEF FirstListing
        <4>3. InOrder(Listing(0 * ListRoom, count - 0 * ListRoom, FALSE, 0))
          <5> 0 = ListFrags - 1 /\ listed = 0 * ListRoom
            BY <3>1, <4>1
          <5> QED
            BY <2>1, <3>1, FragmentInOrder
        <4> QED
          BY <3>1, <4>1, <4>2, <4>3
      <3> QED
        BY <3>2, <3>3
    <2> QED
      BY <1>1, <2>3, <2>4, AnswerFrom
  <1>2. IInv /\ [Next]_vars =>
          [answer'.op = "list" =>
             /\ answer'.from = listed
             /\ answer'.len \in 1 .. ListRoom
             /\ answer'.more <=> answer'.from + answer'.len < count
             /\ answer'.more => answer'.len = ListRoom
             /\ answer'.left
                  = (count - answer'.from - answer'.len + ListRoom - 1) \div ListRoom]_vars
    BY <1>1 DEF InOrder
  <1> QED
    BY <1>2, Inductive, PTL DEF Spec, ListInOrder

\* Only an acknowledged download, or one whose answer finds no buffer, changes the
\* dictionary, and then as the master asked.
THEOREM DownloadCorrect == Spec => DownloadAsAnswered
  <1> USE DEF Nothing, Abort, Ack, Info, Octets, Listing
  <1>1. ASSUME IInv, Next
        PROVE  /\ od' # od => answer' # Abort /\ req.op = "download" /\ Writable(req.obj)
               /\ answer' = Ack => od'[req.obj].value = req.value
    <2>1. CASE \E free \in BOOLEAN : xoe # "odl" /\ req # Nothing /\ SDO_download(free)
      <3>1. PICK free \in BOOLEAN : req # Nothing /\ SDO_download(free)
        BY <2>1
      <3>2. CASE Reply(free, Abort) /\ UNCHANGED od
        BY <3>2 DEF Reply
      <3>3. CASE /\ req.obj # Absent /\ Writable(req.obj) /\ req.fits
                 /\ Reply(free, Ack)
                 /\ od' = [od EXCEPT ![req.obj] = Stored(req.value, req.obj)]
        <4>1. req.op = "download" /\ req \in Requests
          BY <1>1, <3>1 DEF SDO_download, IInv, TypeOK
        <4>2. req.obj \in Objects
          BY <4>1, <3>3 DEF Requests
        <4>3. od'[req.obj] = Stored(req.value, req.obj)
          BY <1>1, <3>3, <4>2 DEF IInv, TypeOK
        <4>4. od'[req.obj].value = req.value
          BY <4>3 DEF Stored
        <4>5. answer' # Abort
          BY <3>3 DEF Reply
        <4> QED
          BY <3>3, <4>1, <4>4, <4>5
      <3> QED
        BY <3>1, <3>2, <3>3 DEF SDO_download
    <2>2. CASE ~(\E free \in BOOLEAN : xoe # "odl" /\ req # Nothing /\ SDO_download(free))
      <3>1. ASSUME ESC_coeprocess
            PROVE  od' = od /\ answer'.op # "ack"
        <4>1. ASSUME SDO_getodlistcont
              PROVE  od' = od /\ answer'.op # "ack"
          BY <4>1 DEF SDO_getodlistcont
        <4>2. ASSUME NEW free \in BOOLEAN, SDO_upload(free) \/ SDO_uploadsegment(free)
              PROVE  od' = od /\ answer'.op # "ack"
          <5>1. od' = od
            BY <4>2 DEF SDO_upload, SDO_uploadsegment
          <5>2. ASSUME SDO_upload(free) PROVE answer'.op # "ack"
            BY <5>2 DEF SDO_upload, Reply, Expedited, Normal, FirstPart
          <5>3. ASSUME SDO_uploadsegment(free) PROVE answer'.op # "ack"
            <6>1. \/ answer' = Nothing
                  \/ \E from, len, last : answer' = Octets("segment", data, from, len, last)
              BY <5>3 DEF SDO_uploadsegment, NextSegment
            <6> QED
              BY <6>1
          <5> QED
            BY <4>2, <5>1, <5>2, <5>3
        <4>3. ASSUME NEW free \in BOOLEAN, Unrecognised(free) \/ Describe(free)
              PROVE  od' = od /\ answer'.op # "ack"
          BY <4>3 DEF Unrecognised, Describe, Answered, Reply
        <4>4. ASSUME NEW free \in BOOLEAN, SDO_getodlist(free)
              PROVE  od' = od /\ answer'.op # "ack"
          BY <4>4 DEF SDO_getodlist, FirstListing, Answered
        <4> QED
          BY <2>2, <3>1, <4>1, <4>2, <4>3, <4>4 DEF ESC_coeprocess, Service
      <3>2. ASSUME ReadRequest \/ ChangeState \/ ESC_stopmbx
            PROVE  od' = od /\ answer'.op # "ack"
        <4>1. od' = od /\ answer' = Nothing
          BY <3>2 DEF ReadRequest, ChangeState, ESC_stopmbx
        <4> QED
          BY <4>1
      <3>3. od' = od /\ answer'.op # "ack"
        BY <1>1, <3>1, <3>2 DEF Next
      <3> QED
        BY <3>3
    <2> QED
      BY <2>1, <2>2
  <1>2. IInv /\ [Next]_vars =>
          [/\ od' # od => answer' # Abort /\ req.op = "download" /\ Writable(req.obj)
           /\ answer' = Ack => od'[req.obj].value = req.value]_vars
    BY <1>1
  <1> QED
    BY <1>2, Inductive, PTL DEF Spec, DownloadAsAnswered

\* An information request is kept until it is answered, at any number of turns without
\* a buffer.
THEOREM InfoCorrect == Spec => InfoNotDropped
  <1> USE DEF Nothing, Abort, Info, Listing
  <1>1. ASSUME ESC_coeprocess, req.op \in InfoOps
        PROVE  answer' # Nothing \/ req' = req
    <2>1. ASSUME SDO_getodlistcont
          PROVE  answer'.op = "list"
      BY <2>1 DEF SDO_getodlistcont
    <2>2. ASSUME NEW free \in BOOLEAN, Service(free)
          PROVE  Describe(free) \/ SDO_getodlist(free)
      BY <1>1, <2>2 DEF Service, SDO_upload, SDO_uploadsegment, SDO_download,
         Unrecognised, InfoOps
    <2>3. ASSUME NEW free \in BOOLEAN, Describe(free)
          PROVE  answer'.op # "none" \/ req' = req
      BY <2>3 DEF Describe, Answered
    <2>4. ASSUME NEW free \in BOOLEAN, SDO_getodlist(free)
          PROVE  answer'.op # "none" \/ req' = req
      <3>1. CASE FirstListing
        BY <3>1 DEF FirstListing
      <3>2. CASE ~FirstListing
        BY <2>4, <3>2 DEF SDO_getodlist, Answered
      <3> QED
        BY <3>1, <3>2
    <2>5. answer'.op # "none" \/ req' = req
      BY <1>1, <2>1, <2>2, <2>3, <2>4 DEF ESC_coeprocess
    <2> QED
      BY <2>5
  <1>2. [Next]_vars =>
          [ESC_coeprocess /\ req.op \in InfoOps => answer' # Nothing \/ req' = req]_vars
    BY <1>1
  <1> QED
    BY <1>2, PTL DEF Spec, InfoNotDropped
---------------------------------------------------------------------------
(***************************************************************************)
(* What Picked, Extended and Bits compute.  Each is a recursive function;  *)
(* that one exists is proved by induction over its domain.                 *)
(***************************************************************************)
LEMMA LeastNat ==
  ASSUME NEW T, T \subseteq Nat, T # {}
  PROVE  \E m \in T : \A k \in T : m <= k
  <1> DEFINE R == {p \in Nat \X Nat : p[1] < p[2]}
  <1>1. IsWellFoundedOn(R, Nat)
    BY NatLessThanWellFounded, Zenon DEF OpToRel
  <1>2. \A x, y \in T : <<y, x>> \in R <=> y < x
    OBVIOUS
  <1> HIDE DEF R
  <1>3. PICK m \in T : \A k \in T : ~(<<k, m>> \in R)
    BY <1>1, WFMin
  <1>4. \A k \in T : ~(k < m)
    BY <1>2, <1>3
  <1> QED
    BY <1>4

LEMMA Induction ==
  ASSUME NEW S, 0 \in S, \A n \in Nat : n \in S => n + 1 \in S
  PROVE  Nat \subseteq S
  <1> SUFFICES ASSUME NEW n \in Nat, n \notin S PROVE FALSE
    OBVIOUS
  <1>1. PICK m \in {k \in Nat : k \notin S} : \A k \in {j \in Nat : j \notin S} : m <= k
    BY LeastNat
  <1> QED
    BY <1>1

LEMMA Upto ==
  ASSUME NEW n \in Nat, NEW S, 0 \in S, \A k \in 0 .. n - 1 : k \in S => k + 1 \in S
  PROVE  \A k \in 0 .. n : k \in S
  <1> DEFINE T == {k \in Nat : k <= n => k \in S}
  <1>1. 0 \in T
    OBVIOUS
  <1>2. ASSUME NEW k \in Nat, k \in T PROVE k + 1 \in T
    <2>1. CASE k + 1 <= n
      <3>1. k \in 0 .. n - 1 /\ k <= n
        BY <2>1
      <3> QED
        BY <1>2, <3>1
    <2>2. CASE ~(k + 1 <= n)
      BY <2>2
    <2> QED
      BY <2>1, <2>2
  <1> HIDE DEF T
  <1>3. Nat \subseteq T
    BY <1>1, <1>2, Induction
  <1> QED
    BY <1>3 DEF T

\* A function that begins with first and that step takes from its value at i - 1 to
\* that at i.
Runs(f, n, first, step) ==
  f[0] = first /\ \A i \in 1 .. n : f[i] = step[<<i, f[i - 1]>>]

LEMMA StepsExist ==
  ASSUME NEW n \in Nat, NEW V, NEW first \in V, NEW step \in [(1 .. n) \X V -> V]
  PROVE  \E f \in [0 .. n -> V] : Runs(f, n, first, step)
  <1> DEFINE Steps(f, k) == Runs(f, k, first, step)
             S == {k \in 0 .. n : \E f \in [0 .. n -> V] : Steps(f, k)}
  <1>1. 0 \in S
    <2> DEFINE f == [i \in 0 .. n |-> first]
    <2>1. f \in [0 .. n -> V] /\ Steps(f, 0)
      BY DEF Runs
    <2> HIDE DEF f, Steps
    <2> QED
      BY <2>1
  <1>2. ASSUME NEW k \in 0 .. n - 1, k \in S PROVE k + 1 \in S
    <2>1. PICK f \in [0 .. n -> V] : Steps(f, k)
      BY <1>2
    <2>2. k + 1 \in 1 .. n /\ k \in 0 .. n /\ k + 1 \in 0 .. n
      OBVIOUS
    <2> DEFINE v == step[<<k + 1, f[k]>>]
               g == [f EXCEPT ![k + 1] = v]
    <2>3. <<k + 1, f[k]>> \in (1 .. n) \X V
      BY <2>2
    <2>4. v \in V
      BY <2>3
    <2>5. g \in [0 .. n -> V]
      BY <2>4
    <2>6. g[k + 1] = v /\ \A i \in 0 .. k : g[i] = f[i]
      BY <2>2
    <2>7. g[0] = first
      BY <2>1, <2>6 DEF Runs
    <2>8. ASSUME NEW i \in 1 .. k + 1 PROVE g[i] = step[<<i, g[i - 1]>>]
      <3>1. CASE i = k + 1
        <4>1. i - 1 = k /\ k \in 0 .. k
          BY <3>1
        <4> HIDE DEF g
        <4>2. g[i - 1] = f[k] /\ g[i] = v
          BY <2>6, <3>1, <4>1, Zenon
        <4> QED
          BY <3>1, <4>2
      <3>2. CASE i # k + 1
        <4>1. i \in 1 .. k /\ i \in 0 .. k /\ i - 1 \in 0 .. k
          BY <3>2
        <4> HIDE DEF g
        <4> QED
          BY <2>1, <2>6, <4>1 DEF Runs
      <3> QED
        BY <3>1, <3>2
    <2> HIDE DEF g
    <2>9. Steps(g, k + 1)
      BY <2>7, <2>8 DEF Runs
    <2> QED
      BY <2>2, <2>5, <2>9
  <1> HIDE DEF S
  <1>3. \A k \in 0 .. n : k \in S
    BY <1>1, <1>2, Upto
  <1>4. n \in S
    BY <1>3
  <1> QED
    BY <1>4 DEF S

\* The function Picked runs through s with.
Keeping(s, T) ==
  CHOOSE f : f = [k \in 0 .. Len(s) |->
                    IF k = 0 THEN <<>>
                    ELSE IF k \in T THEN Append(f[k - 1], s[k]) ELSE f[k - 1]]

LEMMA KeepingDef ==
  ASSUME NEW X, NEW s \in Seq(X), NEW T
  PROVE  /\ Keeping(s, T)[0] = <<>>
         /\ \A k \in 1 .. Len(s) :
              Keeping(s, T)[k] = IF k \in T THEN Append(Keeping(s, T)[k - 1], s[k])
                                 ELSE Keeping(s, T)[k - 1]
         /\ Picked(s, T) = Keeping(s, T)[Len(s)]
  <1> DEFINE n == Len(s)
             V == Seq(X)
             step == [p \in (1 .. n) \X V |->
                        IF p[1] \in T THEN Append(p[2], s[p[1]]) ELSE p[2]]
             Is(f) == f = [k \in 0 .. n |->
                             IF k = 0 THEN <<>>
                             ELSE IF k \in T THEN Append(f[k - 1], s[k]) ELSE f[k - 1]]
  <1>1. n \in Nat /\ <<>> \in V
    OBVIOUS
  <1>2. step \in [(1 .. n) \X V -> V]
    OBVIOUS
  <1>3. \A k \in 1 .. n : \A v \in V :
          step[<<k, v>>] = IF k \in T THEN Append(v, s[k]) ELSE v
    OBVIOUS
  <1> HIDE DEF step
  <1>4. PICK f \in [0 .. n -> V] : Runs(f, n, <<>>, step)
    <2> HIDE DEF n, V, Is
    <2> QED
      BY <1>1, <1>2, StepsExist, Zenon
  <1>5. ASSUME NEW k \in 0 .. n
        PROVE  f[k] = IF k = 0 THEN <<>>
                      ELSE IF k \in T THEN Append(f[k - 1], s[k]) ELSE f[k - 1]
    <2>1. CASE k = 0
      BY <1>4, <2>1 DEF Runs
    <2>2. CASE k # 0
      <3>1. k \in 1 .. n /\ k - 1 \in 0 .. n
        BY <2>2
      <3>2. f[k - 1] \in V
        BY <3>1
      <3> HIDE DEF V, n
      <3> QED
        BY <1>3, <1>4, <2>2, <3>1, <3>2 DEF Runs
    <2> QED
      BY <2>1, <2>2
  <1>6. Is(f)
    <2>1. f = [k \in 0 .. n |-> f[k]]
      OBVIOUS
    <2> HIDE DEF n
    <2> QED
      BY <1>5, <2>1
  <1>7. Keeping(s, T) = CHOOSE g : Is(g)
    BY DEF Keeping
  <1>8. Is(Keeping(s, T))
    <2> HIDE DEF Is
    <2> QED
      BY <1>6, <1>7
  <1>9. 0 \in 0 .. n /\ \A k \in 1 .. n : k \in 0 .. n /\ k # 0
    OBVIOUS
  <1>10. Picked(s, T) = Keeping(s, T)[n]
    BY DEF Picked, Keeping
  <1> QED
    BY <1>8, <1>9, <1>10, Zenon

\* Entries whose lengths are those of data types.
Measured(e) == Len(e) \in Nat /\ \A k \in 1 .. Len(e) : e[k].bits \in 1 .. 64

LEMMA Lengths == \A x \in 1 .. 64 : x \in Nat
  OBVIOUS

LEMMA Padding ==
  ASSUME NEW n \in Nat, NEW b \in 1 .. 64
  PROVE  calLengthPadding(n, b) \in Nat /\ calLengthPadding(n, b) >= n + b
  BY DEF calLengthPadding

\* The functions Extended and Bits run through e with.
Totals(size, e) ==
  CHOOSE f : f = [k \in 0 .. Len(e) |->
                    IF k = 0 THEN size ELSE calLengthPadding(f[k - 1], e[k].bits)]

Sums(e) ==
  CHOOSE f : f = [k \in 0 .. Len(e) |-> IF k = 0 THEN 0 ELSE f[k - 1] + e[k].bits]

LEMMA TotalsDef ==
  ASSUME NEW size \in Nat, NEW e, Measured(e)
  PROVE  /\ Totals(size, e)[0] = size
         /\ \A k \in 1 .. Len(e) :
              Totals(size, e)[k] = calLengthPadding(Totals(size, e)[k - 1], e[k].bits)
         /\ Extended(size, e) = Totals(size, e)[Len(e)]
  <1> DEFINE n == Len(e)
             step == [p \in (1 .. n) \X Nat |-> calLengthPadding(p[2], e[p[1]].bits)]
             Is(f) == f = [k \in 0 .. n |->
                             IF k = 0 THEN size ELSE calLengthPadding(f[k - 1], e[k].bits)]
  <1>1. n \in Nat
    BY DEF Measured
  <1>2. step \in [(1 .. n) \X Nat -> Nat]
    <2>1. \A p \in (1 .. n) \X Nat : p[2] \in Nat /\ e[p[1]].bits \in 1 .. 64
      BY DEF Measured
    <2> QED
      BY <2>1, Padding
  <1>3. \A k \in 1 .. n : \A v \in Nat : step[<<k, v>>] = calLengthPadding(v, e[k].bits)
    OBVIOUS
  <1> HIDE DEF step
  <1>4. PICK f \in [0 .. n -> Nat] : Runs(f, n, size, step)
    <2> HIDE DEF n, Is
    <2> QED
      BY <1>1, <1>2, StepsExist, Zenon
  <1>5. ASSUME NEW k \in 0 .. n
        PROVE  f[k] = IF k = 0 THEN size ELSE calLengthPadding(f[k - 1], e[k].bits)
    <2>1. CASE k = 0
      BY <1>4, <2>1 DEF Runs
    <2>2. CASE k # 0
      <3>1. k \in 1 .. n /\ k - 1 \in 0 .. n
        BY <1>1, <2>2
      <3>2. f[k - 1] \in Nat
        BY <3>1
      <3> HIDE DEF n
      <3> QED
        BY <1>3, <1>4, <2>2, <3>1, <3>2 DEF Runs
    <2> QED
      BY <2>1, <2>2
  <1>6. Is(f)
    <2>1. f = [k \in 0 .. n |-> f[k]]
      OBVIOUS
    <2> HIDE DEF n
    <2> QED
      BY <1>5, <2>1
  <1>7. Totals(size, e) = CHOOSE g : Is(g)
    BY DEF Totals
  <1>8. Is(Totals(size, e))
    <2> HIDE DEF Is
    <2> QED
      BY <1>6, <1>7
  <1>9. 0 \in 0 .. n /\ \A k \in 1 .. n : k \in 0 .. n /\ k # 0
    BY <1>1
  <1>10. Extended(size, e) = Totals(size, e)[n]
    BY DEF Extended, Totals
  <1> QED
    BY <1>8, <1>9, <1>10, Zenon

LEMMA SumsDef ==
  ASSUME NEW e, Measured(e)
  PROVE  /\ Sums(e)[0] = 0
         /\ \A k \in 1 .. Len(e) : Sums(e)[k] = Sums(e)[k - 1] + e[k].bits
         /\ \A k \in 0 .. Len(e) : Sums(e)[k] \in Nat
         /\ Bits(e) = Sums(e)[Len(e)]
  <1> DEFINE n == Len(e)
             step == [p \in (1 .. n) \X Nat |-> p[2] + e[p[1]].bits]
             Is(f) == f = [k \in 0 .. n |-> IF k = 0 THEN 0 ELSE f[k - 1] + e[k].bits]
  <1>1. n \in Nat
    BY DEF Measured
  <1>2. step \in [(1 .. n) \X Nat -> Nat]
    <2>1. \A p \in (1 .. n) \X Nat : p[1] \in 1 .. n /\ p[2] \in Nat
      OBVIOUS
    <2>2. \A k \in 1 .. n : e[k].bits \in 1 .. 64
      BY DEF Measured
    <2>3. \A p \in (1 .. n) \X Nat : p[2] + e[p[1]].bits \in Nat
      <3> HIDE DEF n
      <3> QED
        BY <2>1, <2>2
    <2> QED
      BY <2>3
  <1>3. \A k \in 1 .. n : \A v \in Nat : step[<<k, v>>] = v + e[k].bits
    OBVIOUS
  <1> HIDE DEF step
  <1>4. PICK f \in [0 .. n -> Nat] : Runs(f, n, 0, step)
    <2>1. 0 \in Nat
      OBVIOUS
    <2> HIDE DEF n, Is
    <2> QED
      BY <1>1, <1>2, <2>1, StepsExist, Zenon
  <1>5. ASSUME NEW k \in 0 .. n
        PROVE  f[k] = IF k = 0 THEN 0 ELSE f[k - 1] + e[k].bits
    <2>1. CASE k = 0
      BY <1>4, <2>1 DEF Runs
    <2>2. CASE k # 0
      <3>1. k \in 1 .. n /\ k - 1 \in 0 .. n
        BY <1>1, <2>2
      <3>2. f[k - 1] \in Nat
        BY <3>1
      <3> HIDE DEF n
      <3> QED
        BY <1>3, <1>4, <2>2, <3>1, <3>2 DEF Runs
    <2> QED
      BY <2>1, <2>2
  <1>6. Is(f)
    <2>1. f = [k \in 0 .. n |-> f[k]]
      OBVIOUS
    <2> HIDE DEF n
    <2> QED
      BY <1>5, <2>1
  <1>7. Sums(e) = CHOOSE g : Is(g)
    BY DEF Sums
  <1>8. Is(Sums(e))
    <2> HIDE DEF Is
    <2> QED
      BY <1>6, <1>7
  <1>9. 0 \in 0 .. n /\ \A k \in 1 .. n : k \in 0 .. n /\ k # 0
    BY <1>1
  <1>10. Bits(e) = Sums(e)[n]
    BY DEF Bits, Sums
  <1>11. Sums(e)[0] = 0 /\ \A k \in 1 .. n : Sums(e)[k] = Sums(e)[k - 1] + e[k].bits
    BY <1>8, <1>9, Zenon
  <1>12. \A k \in 0 .. n : Sums(e)[k] \in Nat
    <2> DEFINE S == {k \in 0 .. n : Sums(e)[k] \in Nat}
    <2>1. 0 \in S
      BY <1>9, <1>11
    <2>2. ASSUME NEW k \in 0 .. n - 1, k \in S PROVE k + 1 \in S
      <3>1. k + 1 \in 1 .. n /\ (k + 1) - 1 = k /\ k + 1 \in 0 .. n
        BY <1>1
      <3>2. e[k + 1].bits \in 1 .. 64
        BY <3>1 DEF Measured
      <3>3. Sums(e)[k + 1] = Sums(e)[k] + e[k + 1].bits
        BY <1>11, <3>1
      <3>4. Sums(e)[k] \in Nat
        BY <2>2
      <3>5. e[k + 1].bits \in Nat
        BY <3>2, Lengths, Zenon
      <3>6. \A x, y \in Nat : x + y \in Nat
        OBVIOUS
      <3>7. Sums(e)[k + 1] \in Nat
        BY ONLY <3>3, <3>4, <3>5, <3>6, Zenon
      <3> QED
        BY <3>1, <3>7
    <2> HIDE DEF S
    <2>3. \A k \in 0 .. n : k \in S
      BY <1>1, <2>1, <2>2, Upto
    <2> QED
      BY <2>3 DEF S
  <1> QED
    BY <1>10, <1>11, <1>12

\* The way the generator counts never counts less than the sum.
LEMMA ExtendedHolds ==
  ASSUME NEW size \in Nat, NEW e, Measured(e)
  PROVE  /\ Extended(size, e) \in Nat /\ Bits(e) \in Nat
         /\ Extended(size, e) >= size + Bits(e)
  <1> DEFINE n == Len(e)
             T == Totals(size, e)
             B == Sums(e)
             S == {k \in 0 .. n : T[k] \in Nat /\ B[k] \in Nat /\ T[k] >= size + B[k]}
  <1>1. n \in Nat
    BY DEF Measured
  <1>2. /\ T[0] = size /\ Extended(size, e) = T[n]
        /\ \A k \in 1 .. n : T[k] = calLengthPadding(T[k - 1], e[k].bits)
    BY TotalsDef
  <1>3. /\ B[0] = 0 /\ Bits(e) = B[n]
        /\ \A k \in 1 .. n : B[k] = B[k - 1] + e[k].bits
    BY SumsDef
  <1> HIDE DEF T, B
  <1>4. 0 \in S
    BY <1>1, <1>2, <1>3
  <1>5. ASSUME NEW k \in 0 .. n - 1, k \in S PROVE k + 1 \in S
    <2>1. k + 1 \in 1 .. n /\ (k + 1) - 1 = k /\ k + 1 \in 0 .. n
      BY <1>1
    <2>2. e[k + 1].bits \in 1 .. 64
      BY <2>1 DEF Measured
    <2>3. T[k + 1] = calLengthPadding(T[k], e[k + 1].bits) /\ B[k + 1] = B[k] + e[k + 1].bits
      BY <1>2, <1>3, <2>1
    <2>4. T[k] \in Nat /\ B[k] \in Nat /\ T[k] >= size + B[k]
      BY <1>5
    <2>5. T[k + 1] \in Nat /\ T[k + 1] >= T[k] + e[k + 1].bits
      BY <2>2, <2>3, <2>4, Padding
    <2> HIDE DEF n
    <2> QED
      BY <2>1, <2>2, <2>3, <2>4, <2>5
  <1> HIDE DEF S, n
  <1>6. \A k \in 0 .. n : k \in S
    BY <1>1, <1>4, <1>5, Upto
  <1>7. n \in S
    BY <1>1, <1>6
  <1> QED
    BY <1>2, <1>3, <1>7 DEF S

LEMMA BitsJoined ==
  ASSUME NEW X, NEW s \in Seq(X), NEW t \in Seq(X), Measured(s), Measured(t)
  PROVE  Measured(s \o t) /\ Bits(s \o t) = Bits(s) + Bits(t)
  <1> DEFINE j == s \o t
             n == Len(s)
             m == Len(t)
  <1>1. /\ n \in Nat /\ m \in Nat /\ Len(j) = n + m
        /\ \A k \in 1 .. n : j[k] = s[k]
        /\ \A k \in 1 .. m : j[n + k] = t[k]
    OBVIOUS
  <1> HIDE DEF j
  <1>2. Measured(j)
    <2>1. ASSUME NEW k \in 1 .. n + m PROVE j[k].bits \in 1 .. 64
      <3>1. CASE k <= n
        <4>1. k \in 1 .. n
          BY <1>1, <3>1
        <4>2. j[k] = s[k]
          BY <1>1, <4>1
        <4> QED
          BY <4>1, <4>2 DEF Measured
      <3>2. CASE k > n
        <4>1. k - n \in 1 .. m /\ n + (k - n) = k
          BY <1>1, <3>2
        <4>2. j[k] = t[k - n]
          BY <1>1, <4>1
        <4> QED
          BY <4>1, <4>2 DEF Measured
      <3> QED
        BY <1>1, <3>1, <3>2
    <2> QED
      BY <1>1, <2>1 DEF Measured
  <1> DEFINE J == Sums(j)
             A == Sums(s)
             B == Sums(t)
  <1>3. /\ J[0] = 0 /\ Bits(j) = J[n + m]
        /\ \A k \in 1 .. n + m : J[k] = J[k - 1] + j[k].bits
    BY <1>1, <1>2, SumsDef
  <1>4. /\ A[0] = 0 /\ Bits(s) = A[n] /\ \A k \in 0 .. n : A[k] \in Nat
        /\ \A k \in 1 .. n : A[k] = A[k - 1] + s[k].bits
    BY SumsDef
  <1>5. /\ B[0] = 0 /\ Bits(t) = B[m] /\ \A k \in 0 .. m : B[k] \in Nat
        /\ \A k \in 1 .. m : B[k] = B[k - 1] + t[k].bits
    BY SumsDef
  <1> HIDE DEF J, A, B, n, m
  <1>6. \A k \in 0 .. n : J[k] = A[k]
    <2> DEFINE S == {k \in 0 .. n : J[k] = A[k]}
    <2>1. 0 \in S
      BY <1>1, <1>3, <1>4
    <2>2. ASSUME NEW k \in 0 .. n - 1, k \in S PROVE k + 1 \in S
      <3>1. k + 1 \in 1 .. n /\ k + 1 \in 1 .. n + m /\ (k + 1) - 1 = k /\ k + 1 \in 0 .. n
        BY <1>1
      <3>2. J[k + 1] = J[k] + j[k + 1].bits /\ A[k + 1] = A[k] + s[k + 1].bits
        BY <1>3, <1>4, <3>1
      <3> QED
        BY <1>1, <2>2, <3>1, <3>2
    <2> HIDE DEF S
    <2>3. \A k \in 0 .. n : k \in S
      BY <1>1, <2>1, <2>2, Upto
    <2> QED
      BY <2>3 DEF S
  <1>7. \A k \in 0 .. m : J[n + k] = A[n] + B[k]
    <2> DEFINE S == {k \in 0 .. m : J[n + k] = A[n] + B[k]}
    <2>1. 0 \in S
      <3>1. n \in 0 .. n /\ n + 0 = n /\ 0 \in 0 .. m
        BY <1>1
      <3> QED
        BY <1>4, <1>5, <1>6, <3>1
    <2>2. ASSUME NEW k \in 0 .. m - 1, k \in S PROVE k + 1 \in S
      <3>1. /\ k + 1 \in 1 .. m /\ n + (k + 1) \in 1 .. n + m /\ (n + (k + 1)) - 1 = n + k
            /\ (k + 1) - 1 = k /\ k + 1 \in 0 .. m /\ k \in 0 .. m /\ n \in 0 .. n
        BY <1>1
      <3>2. J[n + (k + 1)] = J[n + k] + j[n + (k + 1)].bits /\ B[k + 1] = B[k] + t[k + 1].bits
        BY <1>3, <1>5, <3>1
      <3>3. j[n + (k + 1)] = t[k + 1]
        BY <1>1, <3>1
      <3>4. t[k + 1].bits \in Nat /\ A[n] \in Nat /\ B[k] \in Nat
        <4>1. t[k + 1].bits \in 1 .. 64
          BY <3>1 DEF Measured, m
        <4>2. t[k + 1].bits \in Nat
          BY <4>1, Lengths, Zenon
        <4>3. A[n] \in Nat
          BY <1>4, <3>1
        <4>4. B[k] \in Nat
          BY <1>5, <3>1
        <4> QED
          BY <4>2, <4>3, <4>4
      <3>5. J[n + k] = A[n] + B[k]
        BY <2>2
      <3> QED
        BY <3>1, <3>2, <3>3, <3>4, <3>5
    <2> HIDE DEF S
    <2>3. \A k \in 0 .. m : k \in S
      BY <1>1, <2>1, <2>2, Upto
    <2> QED
      BY <2>3 DEF S
  <1>8. m \in 0 .. m
    BY <1>1
  <1> QED
    BY <1>2, <1>3, <1>4, <1>5, <1>7, <1>8 DEF j

\* The entries of p are those of s at the places in T, in their order: the i-th is at g[i].
Selects(g, p, s, T) ==
  /\ g \in [1 .. Len(p) -> T]
  /\ \A i \in 1 .. Len(p) : p[i] = s[g[i]]
  /\ \A i, j \in 1 .. Len(p) : i < j => g[i] < g[j]
  /\ \A k \in T : \E i \in 1 .. Len(p) : g[i] = k

LEMMA SelectsMore ==
  ASSUME NEW X, NEW s \in Seq(X), NEW T, NEW k \in 1 .. Len(s), k \in T,
         NEW p \in Seq(X), NEW g, Selects(g, p, s, T \intersect 1 .. k - 1)
  PROVE  \E h : Selects(h, Append(p, s[k]), s, T \intersect 1 .. k)
  <1> DEFINE L == Len(p)
             q == Append(p, s[k])
             h == [i \in 1 .. L + 1 |-> IF i = L + 1 THEN k ELSE g[i]]
             U == T \intersect 1 .. k
  <1>1. /\ L \in Nat /\ Len(q) = L + 1 /\ q[L + 1] = s[k]
        /\ \A i \in 1 .. L : q[i] = p[i]
    OBVIOUS
  <1>2. /\ g \in [1 .. L -> T \intersect 1 .. k - 1]
        /\ \A i \in 1 .. L : p[i] = s[g[i]]
        /\ \A i, j \in 1 .. L : i < j => g[i] < g[j]
        /\ \A m \in T \intersect 1 .. k - 1 : \E i \in 1 .. L : g[i] = m
    BY DEF Selects
  <1>3. \A i \in 1 .. L : g[i] \in T /\ g[i] \in 1 .. k - 1
    BY <1>2
  <1>4. k \in 1 .. k /\ k \in Nat /\ \A m \in 1 .. k - 1 : m \in 1 .. k /\ m < k
    OBVIOUS
  <1> HIDE DEF L, q
  <1>5. \A i \in 1 .. L + 1 : i = L + 1 \/ i \in 1 .. L
    BY <1>1
  <1>6. /\ h[L + 1] = k
        /\ \A i \in 1 .. L : h[i] = g[i] /\ i \in 1 .. L + 1 /\ i # L + 1
    BY <1>1
  <1>7. h \in [1 .. L + 1 -> U]
    BY <1>3, <1>4, <1>5
  <1> HIDE DEF h
  <1>8. \A i \in 1 .. L + 1 : q[i] = s[h[i]]
    BY <1>1, <1>2, <1>5, <1>6
  <1>9. ASSUME NEW i \in 1 .. L + 1, NEW j \in 1 .. L + 1, i < j PROVE h[i] < h[j]
    <2>1. i \in 1 .. L
      BY <1>1, <1>9
    <2>2. CASE j \in 1 .. L
      BY <1>2, <1>6, <1>9, <2>1, <2>2
    <2>3. CASE j = L + 1
      BY <1>3, <1>4, <1>6, <2>1, <2>3
    <2> QED
      BY <1>5, <2>2, <2>3
  <1>10. ASSUME NEW m \in U PROVE \E i \in 1 .. L + 1 : h[i] = m
    <2>1. CASE m = k
      <3>1. L + 1 \in 1 .. L + 1
        BY <1>1
      <3> QED
        BY <1>6, <2>1, <3>1
    <2>2. CASE m # k
      <3>1. m \in T \intersect 1 .. k - 1
        BY <2>2
      <3> QED
        BY <1>2, <1>6, <3>1
    <2> QED
      BY <2>1, <2>2
  <1> HIDE DEF U
  <1>11. Selects(h, q, s, U)
    BY <1>1, <1>7, <1>8, <1>9, <1>10 DEF Selects
  <1> QED
    BY <1>11 DEF q, U

LEMMA PickedFacts ==
  ASSUME NEW X, NEW s \in Seq(X), NEW T \in SUBSET (1 .. Len(s))
  PROVE  Picked(s, T) \in Seq(X) /\ \E g : Selects(g, Picked(s, T), s, T)
  <1> DEFINE n == Len(s)
             K == Keeping(s, T)
             S == {k \in 0 .. n : /\ K[k] \in Seq(X)
                                  /\ \E g : Selects(g, K[k], s, T \intersect 1 .. k)}
  <1>1. n \in Nat
    OBVIOUS
  <1>2. /\ K[0] = <<>> /\ Picked(s, T) = K[n]
        /\ \A k \in 1 .. n : K[k] = IF k \in T THEN Append(K[k - 1], s[k]) ELSE K[k - 1]
    BY KeepingDef
  <1> HIDE DEF K
  <1>3. 0 \in S
    <2> DEFINE g == [i \in 1 .. 0 |-> 0]
    <2>1. K[0] \in Seq(X) /\ Len(K[0]) = 0 /\ T \intersect 1 .. 0 = {} /\ 1 .. 0 = {}
      BY <1>2
    <2>2. Selects(g, K[0], s, T \intersect 1 .. 0)
      BY <2>1 DEF Selects
    <2> HIDE DEF g
    <2> QED
      BY <1>1, <2>1, <2>2
  <1>4. ASSUME NEW k \in 0 .. n - 1, k \in S PROVE k + 1 \in S
    <2>1. k + 1 \in 1 .. n /\ (k + 1) - 1 = k /\ k + 1 \in 0 .. n
      BY <1>1
    <2>2. K[k] \in Seq(X)
      BY <1>4
    <2>3. PICK g : Selects(g, K[k], s, T \intersect 1 .. k)
      BY <1>4
    <2>4. CASE k + 1 \in T
      <3>1. K[k + 1] = Append(K[k], s[k + 1])
        BY <1>2, <2>1, <2>4
      <3>2. Selects(g, K[k], s, T \intersect 1 .. (k + 1) - 1)
        BY <2>1, <2>3
      <3>3. \E h : Selects(h, Append(K[k], s[k + 1]), s, T \intersect 1 .. k + 1)
        BY <2>1, <2>2, <2>4, <3>2, SelectsMore
      <3>4. Append(K[k], s[k + 1]) \in Seq(X)
        BY <2>1, <2>2
      <3> QED
        BY <2>1, <3>1, <3>3, <3>4
    <2>5. CASE k + 1 \notin T
      <3>1. K[k + 1] = K[k]
        BY <1>2, <2>1, <2>5
      <3>2. T \intersect 1 .. k + 1 = T \intersect 1 .. k
        BY <2>5
      <3> QED
        BY <2>1, <2>2, <2>3, <3>1, <3>2
    <2> QED
      BY <2>4, <2>5
  <1> HIDE DEF S
  <1>5. \A k \in 0 .. n : k \in S
    <2> HIDE DEF n
    <2> QED
      BY <1>1, <1>3, <1>4, Upto
  <1>6. n \in S
    BY <1>1, <1>5
  <1>7. T \intersect 1 .. n = T
    OBVIOUS
  <1> QED
    BY <1>2, <1>6, <1>7 DEF S

---------------------------------------------------------------------------
(***************************************************************************)
(* Objects of the sheet, and what is mapped of one.                        *)
(***************************************************************************)
Item == [si : Nat, bits : 1 .. 64, default : Int]
SheetObject == [index : 0 .. Sentinel - 1, code : {"VARIABLE", "RECORD", "ARRAY"},
                entries : Seq(Item)]
MapEntry == [index : 0 .. Sentinel, sub : 0 .. MaxSub, bits : 1 .. 64, ref : Nat]

\* Entries are numbered from 0 and an array has no negative length.  Of an orderly sheet a
\* variable is one row, and no subindex is above MaxSub.
Shaped(o) ==
  /\ Len(o.entries) > 0
  /\ \A k \in 1 .. Len(o.entries) : o.entries[k].si = k - 1
  /\ o.code = "ARRAY" => o.entries[1].default >= 0
  /\ Orderly => /\ o.code = "VARIABLE" => Len(o.entries) = 1
                /\ Len(o.entries) <= MaxSub + 1
                /\ o.code = "ARRAY" => o.entries[1].default <= MaxSub

\* An array that is mapped has the entry it is mapped from.
Usable(o) == ~(Broken(o) /\ o.entries[1].default > 0)

\* What is printed of the object has the entry that is mapped.
Announced(o, e) ==
  /\ e.index = o.index /\ e.sub \in 0 .. maxsub(o)
  /\ e.bits = objdesc(o)[e.sub + 1].bitlength

ElementsOK(o) ==
  /\ Elements(o) \in Seq(MapEntry)
  /\ Orderly =>
       /\ \A i \in 1 .. Len(Elements(o)) : Announced(o, Elements(o)[i])
       /\ \A i, j \in 1 .. Len(Elements(o)) : i < j => Elements(o)[i].sub < Elements(o)[j].sub

LEMMA SeqOf ==
  ASSUME NEW X, NEW n \in Nat, NEW f \in [1 .. n -> X]
  PROVE  f \in Seq(X) /\ Len(f) = n
  OBVIOUS

LEMMA SeqParts ==
  ASSUME NEW X, NEW s \in Seq(X)
  PROVE  Len(s) \in Nat /\ \A k \in 1 .. Len(s) : s[k] \in X
  OBVIOUS

LEMMA Behind ==
  ASSUME NEW X, NEW x \in X, NEW s \in Seq(X)
  PROVE  /\ Len(<<x>> \o s) = Len(s) + 1 /\ (<<x>> \o s)[1] = x
         /\ \A i \in 1 .. Len(s) : (<<x>> \o s)[i + 1] = s[i]
  OBVIOUS

LEMMA ObjectParts ==
  ASSUME NEW o \in SheetObject
  PROVE  /\ o.index \in 0 .. Sentinel - 1 /\ o.entries \in Seq(Item)
         /\ Len(o.entries) \in Nat
         /\ \A k \in 1 .. Len(o.entries) :
              /\ o.entries[k] \in Item
              /\ o.entries[k].si \in Nat /\ o.entries[k].bits \in 1 .. 64
              /\ o.entries[k].default \in Int
  <1>1. o.index \in 0 .. Sentinel - 1 /\ o.entries \in Seq(Item)
    BY DEF SheetObject
  <1>2. Len(o.entries) \in Nat /\ \A k \in 1 .. Len(o.entries) : o.entries[k] \in Item
    BY <1>1
  <1>3. \A e \in Item : e.si \in Nat /\ e.bits \in 1 .. 64 /\ e.default \in Int
    BY DEF Item
  <1> QED
    BY <1>1, <1>2, <1>3

LEMMA SplitNumber ==
  ASSUME NEW x \in 0 .. Sentinel - 1, NEW n \in Nat
  PROVE  /\ (x + n \div 256) % Indexes16 \in 0 .. Sentinel /\ n % 256 \in 0 .. MaxSub
         /\ n <= MaxSub => (x + n \div 256) % Indexes16 = x /\ n % 256 = n
  <1> DEFINE q == n \div 256
             r == n % 256
  <1>1. q \in Nat /\ r \in 0 .. MaxSub
    BY DEF MaxSub
  <1>2. n <= MaxSub => q = 0 /\ r = n
    BY DEF MaxSub
  <1> HIDE DEF q, r
  <1>3. x + q \in Nat
    BY <1>1 DEF Sentinel
  <1>4. \A y \in Nat : y % Indexes16 \in 0 .. Sentinel
    BY DEF Indexes16, Sentinel
  <1>5. (x + q) % Indexes16 \in 0 .. Sentinel
    BY <1>3, <1>4
  <1>6. x % Indexes16 = x /\ x + 0 = x
    <2>1. x \in Nat /\ x < Indexes16
      BY DEF Indexes16, Sentinel
    <2>2. \A y \in Nat : y < Indexes16 => y % Indexes16 = y /\ y + 0 = y
      BY DEF Indexes16
    <2> QED
      BY <2>1, <2>2, Zenon
  <1>7. q = 0 => (x + q) % Indexes16 = x
    BY <1>6, Zenon
  <1> QED
    BY <1>1, <1>2, <1>5, <1>7, Zenon DEF q, r

LEMMA MappedParts ==
  ASSUME NEW o \in SheetObject, NEW si \in Nat, NEW e \in Item
  PROVE  /\ Mapped(o, si, e) \in MapEntry /\ Mapped(o, si, e).bits = e.bits
         /\ si <= MaxSub => Mapped(o, si, e).index = o.index /\ Mapped(o, si, e).sub = si
  <1> DEFINE i == (o.index + si \div 256) % Indexes16
             s == si % 256
  <1>1. o.index \in 0 .. Sentinel - 1
    BY DEF SheetObject
  <1>2. e.bits \in 1 .. 64 /\ e.si \in Nat
    BY DEF Item
  <1>3. Mapped(o, si, e) = [index |-> i, sub |-> s, bits |-> e.bits, ref |-> e.si]
    BY DEF Mapped
  <1>4. i \in 0 .. Sentinel /\ s \in 0 .. MaxSub /\ (si <= MaxSub => i = o.index /\ s = si)
    BY <1>1, SplitNumber, Zenon
  <1> HIDE DEF i, s
  <1>5. Mapped(o, si, e) \in MapEntry
    BY <1>2, <1>3, <1>4 DEF MapEntry
  <1> QED
    BY <1>3, <1>4, <1>5

LEMMA VariableElements ==
  ASSUME NEW o \in SheetObject, Shaped(o), o.code = "VARIABLE"
  PROVE  ElementsOK(o)
  <1> DEFINE e == o.entries[1]
             m == Mapped(o, 0, e)
  <1>1. 1 \in 1 .. Len(o.entries) /\ Len(o.entries) \in Nat /\ Len(o.entries) > 0
    BY ObjectParts DEF Shaped
  <1>2. e \in Item
    BY <1>1, ObjectParts
  <1>3. m \in MapEntry /\ m.index = o.index /\ m.sub = 0 /\ m.bits = e.bits
    BY <1>2, MappedParts DEF MaxSub
  <1>4. Elements(o) = <<m>>
    BY DEF Elements
  <1>5. maxsub(o) = Len(o.entries) - 1 /\ objdesc(o) = <<Descriptor(0, e.bits)>>
    BY DEF maxsub, objdesc
  <1>6. objdesc(o)[0 + 1].bitlength = e.bits
    BY <1>5 DEF Descriptor
  <1> HIDE DEF m, e
  <1>7. 0 \in 0 .. maxsub(o)
    BY <1>1, <1>5
  <1>8. Announced(o, m)
    BY <1>3, <1>6, <1>7 DEF Announced
  <1> QED
    BY <1>3, <1>4, <1>8 DEF ElementsOK

LEMMA RecordElements ==
  ASSUME NEW o \in SheetObject, Shaped(o), o.code = "RECORD"
  PROVE  ElementsOK(o)
  <1> DEFINE s == o.entries
             T == {k \in 1 .. Len(s) : s[k].si # 0}
             p == Picked(s, T)
             E == Elements(o)
  <1>1. s \in Seq(Item) /\ Len(s) \in Nat /\ Len(s) > 0
    BY ObjectParts DEF Shaped
  <1>2. \A k \in 1 .. Len(s) : s[k] \in Item /\ s[k].si = k - 1
    BY ObjectParts DEF Shaped
  <1>3. p \in Seq(Item) /\ \E g : Selects(g, p, s, T)
    BY <1>1, PickedFacts
  <1>4. PICK g : Selects(g, p, s, T)
    BY <1>3
  <1>5. E = [k \in 1 .. Len(p) |-> Mapped(o, p[k].si, p[k])]
    BY DEF Elements
  <1>6. maxsub(o) = Len(s) - 1
        /\ objdesc(o) = [k \in 1 .. Len(s) |->
                           Descriptor(s[k].si, IF s[k].si = 0 THEN 8 ELSE s[k].bits)]
    BY DEF maxsub, objdesc
  <1> HIDE DEF p, E
  <1>7. Len(p) \in Nat /\ \A i \in 1 .. Len(p) : p[i] \in Item
    BY <1>3
  <1>8. \A i \in 1 .. Len(p) : /\ g[i] \in 1 .. Len(s) /\ p[i] = s[g[i]]
                               /\ p[i].si = g[i] - 1 /\ p[i].si # 0
    BY <1>2, <1>4 DEF Selects
  <1>9. \A i \in 1 .. Len(p) : p[i].si \in Nat
    BY <1>1, <1>8
  <1>10. \A i \in 1 .. Len(p) : Mapped(o, p[i].si, p[i]) \in MapEntry
    BY <1>7, <1>9, MappedParts
  <1>11. E \in Seq(MapEntry) /\ Len(E) = Len(p)
    BY <1>5, <1>7, <1>10, SeqOf
  <1>12. ASSUME Orderly, NEW i \in 1 .. Len(p)
         PROVE  E[i].index = o.index /\ E[i].sub = p[i].si /\ E[i].bits = p[i].bits
    <2>1. p[i].si <= MaxSub
      <3>1. g[i] \in 1 .. Len(s) /\ p[i].si = g[i] - 1 /\ Len(s) <= MaxSub + 1
        BY <1>8, <1>12 DEF Shaped
      <3> HIDE DEF s
      <3> QED
        BY <1>1, <3>1 DEF MaxSub
    <2> QED
      BY <1>5, <1>7, <1>9, <2>1, MappedParts
  <1>13. ASSUME Orderly, NEW i \in 1 .. Len(p) PROVE Announced(o, E[i])
    <2>1. g[i] \in 1 .. Len(s) /\ E[i].sub = g[i] - 1 /\ s[g[i]].si # 0
      BY <1>8, <1>12, <1>13
    <2>2. E[i].sub \in 0 .. maxsub(o) /\ E[i].sub + 1 = g[i]
      BY <1>1, <1>6, <2>1
    <2>3. objdesc(o)[g[i]].bitlength = s[g[i]].bits
      BY <1>6, <2>1 DEF Descriptor
    <2>4. E[i].bits = s[g[i]].bits /\ E[i].index = o.index
      BY <1>8, <1>12, <1>13
    <2> QED
      BY <2>2, <2>3, <2>4 DEF Announced
  <1>14. ASSUME Orderly, NEW i \in 1 .. Len(p), NEW j \in 1 .. Len(p), i < j
         PROVE  E[i].sub < E[j].sub
    <2>1. g[i] < g[j]
      BY <1>4, <1>14 DEF Selects
    <2>2. E[i].sub = g[i] - 1 /\ E[j].sub = g[j] - 1 /\ g[i] \in Int /\ g[j] \in Int
      BY <1>8, <1>12, <1>14
    <2> QED
      BY <2>1, <2>2
  <1> QED
    BY <1>11, <1>13, <1>14 DEF ElementsOK, E

LEMMA ArrayElements ==
  ASSUME NEW o \in SheetObject, Shaped(o), Usable(o), o.code = "ARRAY"
  PROVE  ElementsOK(o)
  <1> DEFINE n == o.entries[1].default
             e == o.entries[2]
             E == Elements(o)
  <1>1. 1 \in 1 .. Len(o.entries) /\ Len(o.entries) \in Nat /\ Len(o.entries) > 0
    BY ObjectParts DEF Shaped
  <1>2. n \in Nat
    <2>1. n \in Int /\ n >= 0
      BY <1>1, ObjectParts DEF Shaped
    <2> QED
      BY <2>1
  <1>3. E = [i \in 1 .. n |-> Mapped(o, i, e)]
    BY DEF Elements
  <1>4. maxsub(o) = n
        /\ objdesc(o) = <<Descriptor(0, 8)>> \o [i \in 1 .. n |-> Descriptor(i, e.bits)]
    BY DEF maxsub, objdesc
  <1>5. n > 0 => e \in Item
    <2>1. n > 0 => 2 \in 1 .. Len(o.entries)
      BY <1>1 DEF Usable, Broken
    <2> QED
      BY <2>1, ObjectParts
  <1>6. Orderly => n <= MaxSub
    BY DEF Shaped
  <1> HIDE DEF n, e, E
  <1>7. ASSUME NEW i \in 1 .. n
        PROVE  /\ Mapped(o, i, e) \in MapEntry /\ E[i] = Mapped(o, i, e) /\ E[i].bits = e.bits
               /\ Orderly => E[i].index = o.index /\ E[i].sub = i
    <2>1. i \in Nat /\ e \in Item
      BY <1>2, <1>5
    <2>2. Orderly => i <= MaxSub
      BY <1>2, <1>6 DEF MaxSub
    <2> QED
      BY <1>3, <2>1, <2>2, MappedParts
  <1>8. E \in Seq(MapEntry) /\ Len(E) = n
    BY <1>2, <1>3, <1>7, SeqOf
  <1>9. ASSUME NEW i \in 1 .. n PROVE objdesc(o)[i + 1].bitlength = e.bits
    <2> DEFINE D == [x \in 1 .. n |-> Descriptor(x, e.bits)]
               X == {Descriptor(0, 8)} \union {Descriptor(x, e.bits) : x \in 1 .. n}
    <2>1. D \in [1 .. n -> X] /\ Descriptor(0, 8) \in X
      OBVIOUS
    <2>2. D[i] = Descriptor(i, e.bits)
      OBVIOUS
    <2>3. objdesc(o) = <<Descriptor(0, 8)>> \o D
      BY <1>4
    <2> HIDE DEF D, X
    <2>4. D \in Seq(X) /\ Len(D) = n /\ Descriptor(0, 8) \in X
      BY <1>2, <2>1, SeqOf
    <2>5. (<<Descriptor(0, 8)>> \o D)[i + 1] = D[i]
      BY <2>4, Behind
    <2>6. objdesc(o)[i + 1] = Descriptor(i, e.bits)
      BY ONLY <2>2, <2>3, <2>5, Zenon
    <2>7. Descriptor(i, e.bits).bitlength = e.bits
      BY DEF Descriptor
    <2> QED
      BY <2>6, <2>7, Zenon
  <1>10. ASSUME Orderly, NEW i \in 1 .. n PROVE Announced(o, E[i])
    <2>1. i \in 0 .. maxsub(o)
      BY <1>2, <1>4
    <2> QED
      BY <1>7, <1>9, <1>10, <2>1 DEF Announced
  <1>11. Orderly => \A i, j \in 1 .. n : i < j => E[i].sub < E[j].sub
    BY <1>7
  <1> QED
    BY <1>8, <1>10, <1>11 DEF ElementsOK, E

LEMMA ElementsFacts ==
  ASSUME NEW o \in SheetObject, Shaped(o), Usable(o)
  PROVE  ElementsOK(o)
  <1>1. o.code \in {"VARIABLE", "RECORD", "ARRAY"}
    BY DEF SheetObject
  <1> QED
    BY <1>1, VariableElements, RecordElements, ArrayElements

---------------------------------------------------------------------------
(***************************************************************************)
(* The strengthening: what the sheet has become so far, and what has been  *)
(* mapped of it.                                                           *)
(***************************************************************************)
GeneratorTypes ==
  /\ phase \in {"sheet", "pdo", "done", "exception"}
  /\ rows \in 0 .. MaxRows
  /\ lObject \in Seq(SheetObject)
  /\ next \in 1 .. Len(lObject) + 1
  /\ pdo \in [{Rx, Tx} -> Seq(MapEntry)]
  /\ bitSize \in [{Rx, Tx} -> Nat]

\* Objects are what their rows say, in ascending order if the sheet is orderly.
SheetInv ==
  /\ \A k \in 1 .. Len(lObject) : Shaped(lObject[k])
  /\ Orderly => \A j, k \in 1 .. Len(lObject) : j < k => lObject[j].index < lObject[k].index

\* Nothing is mapped while the sheet is read, and what is printed can be.
PhaseInv ==
  /\ phase = "sheet" => next = 1 /\ \A d \in {Rx, Tx} : pdo[d] = <<>>
  /\ phase = "done" => \A k \in 1 .. Len(lObject) : ~Broken(lObject[k])

\* What is mapped of an orderly sheet is of an object the loop has passed, in the order of
\* index and subindex, so each once.
Passed(d, e) ==
  \E k \in 1 .. next - 1 : d \in Direction(lObject[k]) /\ Announced(lObject[k], e)
Before(e, f) == e.index < f.index \/ (e.index = f.index /\ e.sub < f.sub)

PdoInv ==
  Orderly => \A d \in {Rx, Tx} : \A i \in 1 .. Len(pdo[d]) :
    /\ Passed(d, pdo[d][i])
    /\ \A j \in 1 .. i - 1 : Before(pdo[d][j], pdo[d][i])

SizeInv == \A d \in {Rx, Tx} : Bits(pdo[d]) <= bitSize[d]

GeneratorInv == GeneratorTypes /\ SheetInv /\ PhaseInv /\ PdoInv /\ SizeInv

---------------------------------------------------------------------------
(***************************************************************************)
(* Reading a row.                                                          *)
(***************************************************************************)
LEMMA RowParts ==
  ASSUME NEW r \in Rows
  PROVE  /\ r.index \in {Blank} \union 0 .. Sentinel - 1
         /\ r.code \in {"VARIABLE", "RECORD", "ARRAY"}
         /\ r.bits \in 1 .. 64 /\ r.default \in Int
  BY RowAssumption DEF RowAssumption

LEMMA EntryParts ==
  ASSUME NEW r \in Rows, NEW si \in Nat
  PROVE  Entry(r, si) \in Item /\ Entry(r, si).si = si /\ Entry(r, si).default = r.default
  <1>1. r.bits \in 1 .. 64 /\ r.default \in Int
    BY RowParts
  <1>2. Entry(r, si) \in Item
    BY <1>1 DEF Entry, Item
  <1> QED
    BY <1>2 DEF Entry

\* One more row of an object that is no variable.
LEMMA GrownObject ==
  ASSUME NEW o \in SheetObject, Shaped(o),
         Orderly => o.code # "VARIABLE" /\ Len(o.entries) <= MaxSub, NEW r \in Rows,
         NEW e, e = Append(o.entries, Numbered(o.entries[Len(o.entries)], r)),
         NEW p, p = [o EXCEPT !.entries = e]
  PROVE  p \in SheetObject /\ Shaped(p) /\ p.index = o.index
  <1> DEFINE n == Len(o.entries)
             last == o.entries[n]
  <1>1. n \in Nat /\ n > 0 /\ n \in 1 .. n /\ o.entries \in Seq(Item)
    BY ObjectParts DEF Shaped
  <1>2. last.si = n - 1
    BY <1>1 DEF Shaped
  <1>3. Numbered(last, r) \in Item /\ Numbered(last, r).si = n
    <2>1. last.si + 1 = n
      BY <1>1, <1>2
    <2> HIDE DEF last, n
    <2> QED
      BY <1>1, <2>1, EntryParts DEF Numbered
  <1>4. /\ e \in Seq(Item) /\ Len(e) = n + 1 /\ e[n + 1] = Numbered(last, r)
        /\ \A k \in 1 .. n : e[k] = o.entries[k]
    BY <1>1, <1>3
  <1>5. p \in SheetObject /\ p.index = o.index /\ p.entries = e /\ p.code = o.code
    BY <1>4 DEF SheetObject
  <1>6. \A k \in 1 .. n : o.entries[k].si = k - 1
    BY DEF Shaped
  <1> HIDE DEF n, last
  <1>7. ASSUME NEW k \in 1 .. n + 1 PROVE e[k].si = k - 1
    <2>1. CASE k = n + 1
      BY <1>1, <1>3, <1>4, <2>1
    <2>2. CASE k # n + 1
      <3>1. k \in 1 .. n
        BY <1>1, <2>2
      <3> QED
        BY <1>4, <1>6, <3>1
    <2> QED
      BY <2>1, <2>2
  <1>8. e[1] = o.entries[1]
    BY <1>1, <1>4
  <1>9. p.code = "ARRAY" => /\ p.entries[1].default >= 0
                            /\ Orderly => p.entries[1].default <= MaxSub
    BY <1>5, <1>8 DEF Shaped
  <1>10. Len(p.entries) = n + 1 /\ n + 1 > 0
    BY <1>1, <1>4, <1>5
  <1>11. Orderly => p.code # "VARIABLE" /\ n + 1 <= MaxSub + 1
    BY <1>1, <1>5 DEF n, MaxSub
  <1> QED
    BY <1>5, <1>7, <1>9, <1>10, <1>11 DEF Shaped

LEMMA AppendSheet ==
  ASSUME GeneratorTypes, SheetInv, NEW r \in Rows, AppendRow(r)
  PROVE  lObject' \in Seq(SheetObject) /\ SheetInv' /\ Len(lObject') = Len(lObject)
  <1> DEFINE n == Len(lObject)
  <1>1. lObject \in Seq(SheetObject) /\ n \in Nat
    BY DEF GeneratorTypes
  <1>2. CASE lObject = <<>>
    <2>1. lObject' = lObject
      BY <1>2 DEF AppendRow
    <2> QED
      BY <1>1, <2>1 DEF SheetInv
  <1>3. CASE lObject # <<>>
    <2> DEFINE o == lObject[n]
               e == Append(o.entries, Numbered(o.entries[Len(o.entries)], r))
               p == [o EXCEPT !.entries = e]
    <2>1. n \in 1 .. n /\ o \in SheetObject /\ Shaped(o)
      BY <1>1, <1>3 DEF SheetInv
    <2>2. Orderly => o.code # "VARIABLE" /\ Len(o.entries) <= MaxSub
      BY DEF AppendRow
    <2>3. lObject' = [lObject EXCEPT ![n] = p]
      BY <1>3 DEF AppendRow
    <2>4. p \in SheetObject /\ Shaped(p) /\ p.index = o.index
      <3> HIDE DEF o
      <3> QED
        BY <2>1, <2>2, GrownObject
    <2> HIDE DEF p
    <2>5. /\ lObject' \in Seq(SheetObject) /\ Len(lObject') = n
          /\ lObject'[n] = p /\ \A k \in 1 .. n : k # n => lObject'[k] = lObject[k]
      BY <1>1, <2>1, <2>3, <2>4
    <2> HIDE DEF n
    <2>6. \A k \in 1 .. n : Shaped(lObject'[k]) /\ lObject'[k].index = lObject[k].index
      BY <2>4, <2>5 DEF SheetInv, n
    <2>7. \A k \in 1 .. Len(lObject') : Shaped(lObject'[k])
      BY <2>5, <2>6
    <2>8. Orderly => \A j, k \in 1 .. Len(lObject') :
                       j < k => lObject'[j].index < lObject'[k].index
      BY <2>5, <2>6 DEF SheetInv, n
    <2> QED
      BY <2>5, <2>7, <2>8 DEF SheetInv, Shaped, n
  <1> QED
    BY <1>2, <1>3

LEMMA NewSheet ==
  ASSUME GeneratorTypes, SheetInv, NEW r \in Rows, NewObject(r)
  PROVE  lObject' \in Seq(SheetObject) /\ SheetInv' /\ Len(lObject') = Len(lObject) + 1
  <1> DEFINE n == Len(lObject)
             length == IF r.code = "ARRAY" /\ r.default < 0 THEN 1 ELSE r.default
             first == [Entry(r, 0) EXCEPT !.default = length]
             o == [index |-> r.index, code |-> r.code, entries |-> <<first>>]
  <1>1. lObject \in Seq(SheetObject) /\ n \in Nat
    BY DEF GeneratorTypes
  <1>2. /\ r.index \in 0 .. Sentinel - 1 /\ r.default \in Int
        /\ r.code \in {"VARIABLE", "RECORD", "ARRAY"}
    BY RowParts DEF NewObject
  <1>3. lObject' = Append(lObject, o)
    BY DEF NewObject
  <1>4. /\ length \in Int
        /\ r.code = "ARRAY" => length >= 0 /\ (Orderly => length <= MaxSub)
    BY <1>2 DEF NewObject, MaxSub
  <1> HIDE DEF length
  <1>5. Entry(r, 0) \in Item /\ Entry(r, 0).si = 0
    BY EntryParts
  <1>6. first \in Item /\ first.si = 0 /\ first.default = length
    BY <1>4, <1>5 DEF Item
  <1> HIDE DEF first
  <1>7. o \in SheetObject
    BY <1>2, <1>6 DEF SheetObject
  <1>8. Shaped(o)
    <2>1. /\ Len(o.entries) = 1 /\ o.entries[1] = first /\ o.code = r.code
          /\ \A k \in 1 .. Len(o.entries) : k = 1
      OBVIOUS
    <2> HIDE DEF o
    <2> QED
      BY <1>4, <1>6, <2>1 DEF Shaped, MaxSub
  <1>9. o.index = r.index
    OBVIOUS
  <1> HIDE DEF o
  <1>10. /\ lObject' \in Seq(SheetObject) /\ Len(lObject') = n + 1 /\ lObject'[n + 1] = o
         /\ \A k \in 1 .. n : lObject'[k] = lObject[k]
    BY <1>1, <1>3, <1>7
  <1>11. \A k \in 1 .. n + 1 : k = n + 1 \/ k \in 1 .. n
    BY <1>1
  <1>12. ASSUME Orderly, NEW k \in 1 .. n PROVE lObject[k].index < o.index
    <2>1. lObject # <<>> /\ n \in 1 .. n /\ n > 0
      BY <1>1, <1>12
    <2>2. lObject[n].index < o.index
      BY <1>9, <1>12, <2>1 DEF NewObject, LastIndex
    <2>3. lObject[k].index \in Int /\ lObject[n].index \in Int /\ o.index \in Int
      <3>1. \A x \in SheetObject : x.index \in Int
        BY DEF SheetObject
      <3>2. lObject[k] \in SheetObject /\ lObject[n] \in SheetObject
        BY <1>1, <1>12, <2>1
      <3> QED
        BY <1>7, <3>1, <3>2, Zenon
    <2>4. k = n \/ lObject[k].index < lObject[n].index
      BY <1>1, <1>12, <2>1 DEF SheetInv
    <2> HIDE DEF n
    <2> QED
      BY <2>2, <2>3, <2>4
  <1>13. \A k \in 1 .. n + 1 : Shaped(lObject'[k])
    BY <1>8, <1>10, <1>11 DEF SheetInv
  <1>14. Orderly => \A j, k \in 1 .. n + 1 : j < k => lObject'[j].index < lObject'[k].index
    <2> SUFFICES ASSUME Orderly, NEW j \in 1 .. n + 1, NEW k \in 1 .. n + 1, j < k
                 PROVE  lObject'[j].index < lObject'[k].index
      OBVIOUS
    <2>1. j \in 1 .. n
      BY <1>1
    <2>2. CASE k = n + 1
      BY <1>10, <1>12, <2>1, <2>2
    <2>3. CASE k \in 1 .. n
      BY <1>10, <2>1, <2>3 DEF SheetInv
    <2> QED
      BY <1>11, <2>2, <2>3
  <1> QED
    BY <1>10, <1>13, <1>14 DEF SheetInv, Shaped

LEMMA ReadStep == ASSUME GeneratorInv, NEW r \in Rows, ReadRow(r) PROVE GeneratorInv'
  <1> USE DEF GeneratorInv
  <1>1. phase = "sheet" /\ rows < MaxRows /\ rows' = rows + 1
        /\ next' = next /\ pdo' = pdo /\ bitSize' = bitSize
    BY DEF ReadRow
  <1>2. phase' \in {"sheet", "exception"}
    BY <1>1 DEF ReadRow, SkipRow, AppendRow, NewObject
  <1>3. lObject' \in Seq(SheetObject) /\ SheetInv' /\ Len(lObject') \in Nat
    <2>1. CASE SkipRow(r)
      <3>1. lObject' = lObject
        BY <2>1 DEF SkipRow
      <3> QED
        BY <3>1 DEF SheetInv, GeneratorTypes
    <2>2. CASE AppendRow(r)
      BY <2>2, AppendSheet DEF GeneratorTypes
    <2>3. CASE NewObject(r)
      BY <2>3, NewSheet DEF GeneratorTypes
    <2> QED
      BY <2>1, <2>2, <2>3 DEF ReadRow
  <1>4. rows' \in 0 .. MaxRows
    <2>1. MaxRows \in Nat
      BY SheetAssumption DEF SheetAssumption
    <2> QED
      BY <1>1, <2>1 DEF GeneratorTypes
  <1>5. next = 1 /\ \A d \in {Rx, Tx} : pdo[d] = <<>>
    BY <1>1 DEF PhaseInv
  <1>6. next' \in 1 .. Len(lObject') + 1
    BY <1>1, <1>3, <1>5
  <1>7. GeneratorTypes'
    BY <1>1, <1>2, <1>3, <1>4, <1>6 DEF GeneratorTypes
  <1>8. PhaseInv'
    BY <1>1, <1>2, <1>5 DEF PhaseInv
  <1>9. PdoInv'
    BY <1>1, <1>5 DEF PdoInv
  <1>10. SizeInv'
    BY <1>1 DEF SizeInv
  <1> QED
    BY <1>3, <1>7, <1>8, <1>9, <1>10

---------------------------------------------------------------------------
(***************************************************************************)
(* Mapping an object.                                                      *)
(***************************************************************************)
LEMMA EntryMeasured == ASSUME NEW e \in Seq(MapEntry) PROVE Measured(e)
  <1>1. \A k \in 1 .. Len(e) : e[k] \in MapEntry
    OBVIOUS
  <1>2. \A m \in MapEntry : m.bits \in 1 .. 64
    BY DEF MapEntry
  <1> QED
    BY <1>1, <1>2 DEF Measured

\* One list grows by what is mapped of the object the loop is at.
LEMMA GrownPdo ==
  ASSUME GeneratorInv, next <= Len(lObject), NEW d \in {Rx, Tx},
         d \in Direction(lObject[next]), ElementsOK(lObject[next]),
         NEW q, q = pdo[d] \o Elements(lObject[next]), NEW m, m = next + 1
  PROVE  /\ q \in Seq(MapEntry)
         /\ Orderly => \A i \in 1 .. Len(q) :
              /\ \E k \in 1 .. m - 1 : d \in Direction(lObject[k]) /\ Announced(lObject[k], q[i])
              /\ \A j \in 1 .. i - 1 : Before(q[j], q[i])
         /\ Extended(bitSize[d], Elements(lObject[next])) \in Nat
         /\ Bits(q) <= Extended(bitSize[d], Elements(lObject[next]))
  <1> DEFINE s == pdo[d]
             o == lObject[next]
             t == Elements(o)
             n == Len(s)
  <1>1. next \in Nat /\ next > 0 /\ next \in 1 .. Len(lObject) /\ Len(lObject) \in Nat
    BY DEF GeneratorInv, GeneratorTypes
  <1>2. s \in Seq(MapEntry) /\ bitSize[d] \in Nat
    BY DEF GeneratorInv, GeneratorTypes
  <1>3. /\ t \in Seq(MapEntry)
        /\ Orderly => /\ \A i \in 1 .. Len(t) : Announced(o, t[i])
                      /\ \A i, j \in 1 .. Len(t) : i < j => t[i].sub < t[j].sub
    BY DEF ElementsOK
  <1>4. d \in Direction(o)
    OBVIOUS
  <1>5. /\ Orderly => \A i \in 1 .. n : /\ Passed(d, s[i])
                                       /\ \A j \in 1 .. i - 1 : Before(s[j], s[i])
        /\ Bits(s) <= bitSize[d]
    BY DEF GeneratorInv, PdoInv, SizeInv
  <1>6. Orderly => \A k \in 1 .. next - 1 : lObject[k].index < o.index
    BY <1>1 DEF GeneratorInv, SheetInv
  <1>7. q = s \o t
    OBVIOUS
  <1> HIDE DEF s, t, o
  <1>8. /\ q \in Seq(MapEntry) /\ n \in Nat /\ Len(t) \in Nat /\ Len(q) = n + Len(t)
        /\ \A i \in 1 .. n : q[i] = s[i]
        /\ \A i \in 1 .. Len(t) : q[n + i] = t[i]
    BY <1>2, <1>3, <1>7
  <1>9. Extended(bitSize[d], t) \in Nat /\ Bits(q) <= Extended(bitSize[d], t)
    <2>1. Measured(s) /\ Measured(t)
      BY <1>2, <1>3, EntryMeasured
    <2>2. Bits(q) = Bits(s) + Bits(t)
      BY <1>2, <1>3, <1>7, <2>1, BitsJoined
    <2>3. /\ Extended(bitSize[d], t) \in Nat /\ Bits(t) \in Nat
          /\ Extended(bitSize[d], t) >= bitSize[d] + Bits(t)
      BY <1>2, <2>1, ExtendedHolds
    <2>4. Bits(s) \in Nat
      BY <2>1, ExtendedHolds
    <2> QED
      BY <1>2, <1>5, <2>2, <2>3, <2>4
  <1>10. \A i \in 1 .. Len(q) : i \in 1 .. n \/ (i - n \in 1 .. Len(t) /\ q[i] = t[i - n])
    <2> SUFFICES ASSUME NEW i \in 1 .. Len(q), i \notin 1 .. n
                 PROVE  i - n \in 1 .. Len(t) /\ q[i] = t[i - n]
      OBVIOUS
    <2>1. i - n \in 1 .. Len(t) /\ n + (i - n) = i
      BY <1>8
    <2> QED
      BY <1>8, <2>1
  <1> HIDE DEF n
  <1>11. ASSUME Orderly, NEW i \in 1 .. Len(q)
         PROVE  \E k \in 1 .. m - 1 : d \in Direction(lObject[k]) /\ Announced(lObject[k], q[i])
    <2>1. CASE i \in 1 .. n
      <3>1. PICK k \in 1 .. next - 1 : d \in Direction(lObject[k]) /\ Announced(lObject[k], s[i])
        BY <1>5, <1>11, <2>1 DEF Passed
      <3>2. k \in 1 .. m - 1
        BY <1>1
      <3>3. q[i] = s[i]
        BY <1>8, <2>1
      <3> QED
        BY <3>1, <3>2, <3>3, Zenon
    <2>2. CASE i \notin 1 .. n
      <3>1. Announced(o, q[i])
        BY <1>3, <1>10, <1>11, <2>2
      <3>2. next \in 1 .. m - 1
        BY <1>1
      <3> QED
        BY <1>4, <3>1, <3>2 DEF o
    <2> QED
      BY <2>1, <2>2
  <1>12. ASSUME Orderly, NEW i \in 1 .. Len(q), NEW j \in 1 .. i - 1 PROVE Before(q[j], q[i])
    <2>1. i \in Nat /\ j \in Nat /\ j < i /\ j \in 1 .. Len(q)
      BY <1>8
    <2>2. CASE i \in 1 .. n
      <3>1. j \in 1 .. n
        BY <1>8, <2>1, <2>2
      <3> QED
        BY <1>5, <1>8, <1>12, <2>2, <3>1
    <2>3. CASE i \notin 1 .. n /\ j \in 1 .. n
      <3>1. PICK k \in 1 .. next - 1 : Announced(lObject[k], s[j])
        BY <1>5, <1>12, <2>3 DEF Passed
      <3>2. q[j].index = lObject[k].index /\ q[i].index = o.index
        BY <1>3, <1>8, <1>10, <1>12, <2>3, <3>1 DEF Announced
      <3> QED
        BY <1>6, <1>12, <3>2 DEF Before
    <2>4. CASE i \notin 1 .. n /\ j \notin 1 .. n
      <3>1. /\ i - n \in 1 .. Len(t) /\ q[i] = t[i - n]
            /\ j - n \in 1 .. Len(t) /\ q[j] = t[j - n] /\ j - n < i - n
        <4>1. /\ i - n \in 1 .. Len(t) /\ q[i] = t[i - n]
              /\ j - n \in 1 .. Len(t) /\ q[j] = t[j - n]
          BY <1>10, <2>1, <2>4, Zenon
        <4>2. j - n < i - n
          BY <1>8, <2>1
        <4> QED
          BY <4>1, <4>2, Zenon
      <3>2. q[j].sub < q[i].sub
        BY <1>3, <1>12, <3>1
      <3>3. q[j].index = o.index /\ q[i].index = o.index
        BY <1>3, <1>12, <3>1 DEF Announced
      <3> QED
        BY <3>2, <3>3 DEF Before
    <2> QED
      BY <2>2, <2>3, <2>4
  <1> QED
    BY <1>8, <1>9, <1>11, <1>12 DEF t, o

LEMMA MapStep == ASSUME GeneratorInv, MapObject PROVE GeneratorInv'
  <1> DEFINE o == lObject[next]
  <1>1. /\ phase = "pdo" /\ next <= Len(lObject)
        /\ rows' = rows /\ lObject' = lObject
    BY DEF MapObject
  <1>2. /\ lObject \in Seq(SheetObject) /\ next \in 1 .. Len(lObject)
        /\ Len(lObject) \in Nat /\ next \in Nat
    BY <1>1 DEF GeneratorInv, GeneratorTypes
  <1>3. o \in SheetObject /\ Shaped(o)
    BY <1>2 DEF GeneratorInv, SheetInv
  <1>4. SheetInv'
    BY <1>1 DEF GeneratorInv, SheetInv, Shaped
  <1>5. CASE Direction(o) # {} /\ Broken(o) /\ o.entries[1].default > 0
    <2>1. phase' = "exception" /\ next' = next /\ pdo' = pdo /\ bitSize' = bitSize
      BY <1>5 DEF MapObject
    <2>2. GeneratorTypes'
      BY <1>1, <2>1 DEF GeneratorInv, GeneratorTypes
    <2>3. PhaseInv'
      BY <2>1 DEF PhaseInv
    <2>4. PdoInv'
      BY <1>1, <2>1 DEF GeneratorInv, PdoInv, Passed
    <2>5. SizeInv'
      BY <2>1 DEF GeneratorInv, SizeInv
    <2> QED
      BY <1>4, <2>2, <2>3, <2>4, <2>5 DEF GeneratorInv
  <1>6. CASE ~(Direction(o) # {} /\ Broken(o) /\ o.entries[1].default > 0)
    <2>1. /\ pdo' = [d \in {Rx, Tx} |->
                       IF d \in Direction(o) THEN pdo[d] \o Elements(o) ELSE pdo[d]]
          /\ bitSize' = [d \in {Rx, Tx} |->
                           IF d \in Direction(o) THEN Extended(bitSize[d], Elements(o))
                           ELSE bitSize[d]]
          /\ next' = next + 1 /\ phase' = phase
      BY <1>6 DEF MapObject
    <2>2. Direction(o) # {} => ElementsOK(o)
      <3>1. Direction(o) # {} => Usable(o)
        BY <1>6 DEF Usable
      <3> HIDE DEF o
      <3> QED
        BY <1>3, <3>1, ElementsFacts
    <2>3. ASSUME NEW d \in {Rx, Tx}
          PROVE  /\ pdo'[d] \in Seq(MapEntry) /\ bitSize'[d] \in Nat
                 /\ Orderly => \A i \in 1 .. Len(pdo'[d]) :
                      /\ \E k \in 1 .. next' - 1 : /\ d \in Direction(lObject[k])
                                                   /\ Announced(lObject[k], pdo'[d][i])
                      /\ \A j \in 1 .. i - 1 : Before(pdo'[d][j], pdo'[d][i])
                 /\ Bits(pdo'[d]) <= bitSize'[d]
      <3>1. CASE d \in Direction(o)
        <4>1. pdo'[d] = pdo[d] \o Elements(o) /\ bitSize'[d] = Extended(bitSize[d], Elements(o))
          BY <2>1, <3>1
        <4>2. ElementsOK(o)
          BY <2>2, <3>1
        <4> QED
          BY <1>1, <2>1, <3>1, <4>1, <4>2, GrownPdo
      <3>2. CASE d \notin Direction(o)
        <4>1. pdo'[d] = pdo[d] /\ bitSize'[d] = bitSize[d]
          BY <2>1, <3>2
        <4>2. \A k \in 1 .. next - 1 : k \in 1 .. next' - 1
          BY <1>2, <2>1
        <4>3. pdo[d] \in Seq(MapEntry) /\ bitSize[d] \in Nat
          BY DEF GeneratorInv, GeneratorTypes
        <4>4. Orderly => \A i \in 1 .. Len(pdo[d]) :
                /\ \E k \in 1 .. next - 1 : /\ d \in Direction(lObject[k])
                                            /\ Announced(lObject[k], pdo[d][i])
                /\ \A j \in 1 .. i - 1 : Before(pdo[d][j], pdo[d][i])
          BY DEF GeneratorInv, PdoInv, Passed
        <4>5. Bits(pdo[d]) <= bitSize[d]
          BY DEF GeneratorInv, SizeInv
        <4> QED
          BY <4>1, <4>2, <4>3, <4>4, <4>5, Zenon
      <3> QED
        BY <3>1, <3>2
    <2>4. pdo' \in [{Rx, Tx} -> Seq(MapEntry)] /\ bitSize' \in [{Rx, Tx} -> Nat]
      BY <2>1, <2>3
    <2>5. next' \in 1 .. Len(lObject') + 1
      BY <1>1, <1>2, <2>1
    <2>6. GeneratorTypes'
      BY <1>1, <2>1, <2>4, <2>5 DEF GeneratorInv, GeneratorTypes
    <2>7. PhaseInv'
      BY <1>1, <2>1 DEF PhaseInv
    <2>8. PdoInv'
      BY <1>1, <2>3 DEF PdoInv, Passed
    <2>9. SizeInv'
      BY <2>3 DEF SizeInv
    <2> QED
      BY <1>4, <2>6, <2>7, <2>8, <2>9 DEF GeneratorInv
  <1> QED
    BY <1>5, <1>6

LEMMA EndSheetStep == ASSUME GeneratorInv, EndSheet PROVE GeneratorInv'
  <1>1. phase' = "pdo" /\ UNCHANGED <<rows, lObject, next, pdo, bitSize>>
    BY DEF EndSheet
  <1>2. GeneratorTypes'
    BY <1>1 DEF GeneratorInv, GeneratorTypes
  <1>3. SheetInv' /\ PhaseInv' /\ PdoInv' /\ SizeInv'
    BY <1>1 DEF GeneratorInv, SheetInv, Shaped, PhaseInv, PdoInv, Passed, SizeInv
  <1> QED
    BY <1>2, <1>3 DEF GeneratorInv

LEMMA EndPdoStep == ASSUME GeneratorInv, EndPdo PROVE GeneratorInv'
  <1>1. /\ phase' = IF \E k \in 1 .. Len(lObject) : Broken(lObject[k]) THEN "exception" ELSE "done"
        /\ UNCHANGED <<rows, lObject, next, pdo, bitSize>>
    BY DEF EndPdo
  <1>2. GeneratorTypes'
    BY <1>1 DEF GeneratorInv, GeneratorTypes
  <1>3. SheetInv' /\ PdoInv' /\ SizeInv'
    BY <1>1 DEF GeneratorInv, SheetInv, Shaped, PdoInv, Passed, SizeInv
  <1>4. PhaseInv'
    BY <1>1 DEF PhaseInv, Broken
  <1> QED
    BY <1>2, <1>3, <1>4 DEF GeneratorInv

LEMMA GeneratorStep == GeneratorInv /\ [GeneratorNext]_sheetVars => GeneratorInv'
  <1> SUFFICES ASSUME GeneratorInv, [GeneratorNext]_sheetVars PROVE GeneratorInv'
    OBVIOUS
  <1>1. CASE \E r \in Rows : ReadRow(r)
    BY <1>1, ReadStep
  <1>2. CASE EndSheet
    BY <1>2, EndSheetStep
  <1>3. CASE MapObject
    BY <1>3, MapStep
  <1>4. CASE EndPdo
    BY <1>4, EndPdoStep
  <1>5. CASE UNCHANGED sheetVars
    <2>1. UNCHANGED <<phase, rows, lObject, next, pdo, bitSize>>
      BY <1>5 DEF sheetVars
    <2>2. GeneratorTypes'
      BY <2>1 DEF GeneratorInv, GeneratorTypes
    <2>3. SheetInv' /\ PhaseInv' /\ PdoInv' /\ SizeInv'
      BY <2>1 DEF GeneratorInv, SheetInv, Shaped, PhaseInv, Broken, PdoInv, Passed, SizeInv
    <2> QED
      BY <2>2, <2>3 DEF GeneratorInv
  <1> QED
    BY <1>1, <1>2, <1>3, <1>4, <1>5 DEF GeneratorNext

LEMMA GeneratorStart == SheetInit => GeneratorInv
  <1> SUFFICES ASSUME SheetInit PROVE GeneratorInv
    OBVIOUS
  <1>1. /\ phase = "sheet" /\ rows = 0 /\ lObject = <<>> /\ next = 1
        /\ pdo = [d \in {Rx, Tx} |-> <<>>] /\ bitSize = [d \in {Rx, Tx} |-> 0]
    BY DEF SheetInit
  <1>2. 0 \in 0 .. MaxRows
    BY SheetAssumption DEF SheetAssumption
  <1>3. lObject \in Seq(SheetObject) /\ Len(lObject) = 0
    BY <1>1
  <1>4. \A d \in {Rx, Tx} : pdo[d] = <<>> /\ bitSize[d] = 0 /\ pdo[d] \in Seq(MapEntry)
                            /\ Len(pdo[d]) = 0
    BY <1>1
  <1>5. pdo \in [{Rx, Tx} -> Seq(MapEntry)] /\ bitSize \in [{Rx, Tx} -> Nat]
    BY <1>1
  <1>6. next \in 1 .. Len(lObject) + 1
    BY <1>1
  <1>7. GeneratorTypes
    BY <1>1, <1>2, <1>3, <1>5, <1>6 DEF GeneratorTypes
  <1>8. SheetInv /\ PhaseInv /\ PdoInv
    BY <1>1, <1>3, <1>4 DEF SheetInv, PhaseInv, PdoInv
  <1>9. SizeInv
    <2> SUFFICES ASSUME NEW d \in {Rx, Tx} PROVE Bits(pdo[d]) <= bitSize[d]
      BY DEF SizeInv
    <2>1. Measured(pdo[d])
      BY <1>4, EntryMeasured
    <2>2. Bits(pdo[d]) = Sums(pdo[d])[0] /\ Sums(pdo[d])[0] = 0
      BY <1>4, <2>1, SumsDef
    <2> QED
      BY <1>4, <2>2
  <1> QED
    BY <1>7, <1>8, <1>9 DEF GeneratorInv

\* Every variable of the generator keeps its type and objects keep their shape; those of an
\* orderly sheet keep their order too, and what is mapped of it is printed.
THEOREM GeneratorCorrect == GeneratorSpec => []GeneratorInv
  BY GeneratorStart, GeneratorStep, PTL DEF GeneratorSpec

\* For any sheet, orderly or not: the buffers hold the process data.
THEOREM BuffersCorrect == GeneratorSpec => []BuffersHold
  <1>1. GeneratorInv => BuffersHold
    <2> SUFFICES ASSUME GeneratorInv, NEW d \in {Rx, Tx} PROVE Bits(pdo[d]) <= 8 * PdoByteSize(d)
      BY DEF BuffersHold
    <2>1. pdo[d] \in Seq(MapEntry) /\ bitSize[d] \in Nat /\ Bits(pdo[d]) <= bitSize[d]
      BY DEF GeneratorInv, GeneratorTypes, SizeInv
    <2>2. Bits(pdo[d]) \in Nat
      BY <2>1, EntryMeasured, ExtendedHolds
    <2>3. PdoByteSize(d) = (bitSize[d] + 15) \div 8
      BY DEF PdoByteSize
    <2>4. \A n \in Nat : n <= 8 * ((n + 15) \div 8) /\ (n + 15) \div 8 \in Nat
      OBVIOUS
    <2> QED
      BY <2>1, <2>2, <2>3, <2>4
  <1> QED
    BY <1>1, GeneratorCorrect, PTL

---------------------------------------------------------------------------
(***************************************************************************)
(* The search of the slave in what is printed.                             *)
(***************************************************************************)
LEMMA MinIs ==
  ASSUME NEW S, S \subseteq Int, NEW x \in S, \A y \in S : x <= y
  PROVE  Min(S) = x
  <1>1. \A z \in S : (\A y \in S : z <= y) => z = x
    OBVIOUS
  <1> QED
    BY <1>1 DEF Min

\* The descriptors of an object are as many as it announces, each with its number, and an
\* octet numbers them all.
Described(o) ==
  /\ maxsub(o) \in 0 .. MaxSub /\ Len(objdesc(o)) = maxsub(o) + 1
  /\ \A s \in 0 .. maxsub(o) : objdesc(o)[s + 1].subindex = s

LEMMA DescribedFacts ==
  ASSUME Orderly, NEW o \in SheetObject, Shaped(o), ~Broken(o)
  PROVE  Described(o)
  <1>1. /\ 1 \in 1 .. Len(o.entries) /\ Len(o.entries) \in Nat /\ Len(o.entries) > 0
        /\ \A k \in 1 .. Len(o.entries) : o.entries[k].si = k - 1
        /\ Len(o.entries) <= 256
    BY ObjectParts DEF Shaped, MaxSub
  <1>2. CASE o.code = "VARIABLE"
    <2>1. maxsub(o) = 0
      BY <1>2 DEF maxsub, Shaped
    <2>2. objdesc(o) = <<Descriptor(0, o.entries[1].bits)>>
      BY <1>2 DEF objdesc
    <2>3. Len(objdesc(o)) = 1 /\ objdesc(o)[0 + 1].subindex = 0
      BY <2>2 DEF Descriptor
    <2> QED
      BY <2>1, <2>3 DEF Described, MaxSub
  <1>3. CASE o.code = "RECORD"
    <2> DEFINE n == Len(o.entries)
               D == [k \in 1 .. n |-> LET e == o.entries[k]
                                      IN  Descriptor(e.si, IF e.si = 0 THEN 8 ELSE e.bits)]
    <2>1. maxsub(o) = n - 1 /\ objdesc(o) = D
      BY <1>3 DEF maxsub, objdesc
    <2>2. Len(D) = n
      BY <1>1
    <2>3. ASSUME NEW s \in 0 .. n - 1 PROVE D[s + 1].subindex = s
      <3>1. s + 1 \in 1 .. n /\ (s + 1) - 1 = s
        BY <1>1
      <3>2. D[s + 1].subindex = o.entries[s + 1].si
        BY <3>1 DEF Descriptor
      <3> QED
        BY <1>1, <3>1, <3>2
    <2>4. n - 1 \in 0 .. MaxSub /\ (n - 1) + 1 = n
      <3>1. n \in Nat /\ n > 0 /\ n <= 256
        BY <1>1
      <3> HIDE DEF n
      <3> QED
        BY <3>1 DEF MaxSub
    <2> HIDE DEF D, n
    <2> QED
      BY <2>1, <2>2, <2>3, <2>4 DEF Described
  <1>4. CASE o.code = "ARRAY"
    <2> DEFINE n == o.entries[1].default
               b == o.entries[2].bits
               D == [i \in 1 .. n |-> Descriptor(i, b)]
               X == {Descriptor(0, 8)} \union {Descriptor(x, b) : x \in 1 .. n}
    <2>1. n \in Int /\ n >= 0 /\ n <= 255
      BY <1>1, <1>4, ObjectParts DEF Shaped, MaxSub
    <2>2. maxsub(o) = n /\ objdesc(o) = <<Descriptor(0, 8)>> \o D
      BY <1>4 DEF maxsub, objdesc
    <2>3. D \in [1 .. n -> X] /\ Descriptor(0, 8) \in X
      OBVIOUS
    <2>4. \A i \in 1 .. n : D[i].subindex = i
      BY DEF Descriptor
    <2>5. Descriptor(0, 8).subindex = 0
      BY DEF Descriptor
    <2> HIDE DEF n, b, D, X
    <2>6. n \in Nat
      BY <2>1
    <2>7. D \in Seq(X) /\ Len(D) = n
      BY <2>3, <2>6, SeqOf
    <2>8. /\ Len(objdesc(o)) = n + 1 /\ objdesc(o)[1] = Descriptor(0, 8)
          /\ \A i \in 1 .. n : objdesc(o)[i + 1] = D[i]
      BY <2>2, <2>3, <2>7, Behind
    <2>9. ASSUME NEW s \in 0 .. n PROVE objdesc(o)[s + 1].subindex = s
      <3>1. CASE s = 0
        BY <2>5, <2>8, <3>1
      <3>2. CASE s # 0
        <4>1. s \in 1 .. n
          BY <2>6, <3>2
        <4> QED
          BY <2>4, <2>8, <4>1
      <3> QED
        BY <3>1, <3>2
    <2> QED
      BY <2>1, <2>2, <2>8, <2>9 DEF Described, MaxSub
  <1> QED
    BY <1>2, <1>3, <1>4 DEF SheetObject

LEMMA OctetAnnounced ==
  ASSUME NEW o, Described(o)
  PROVE  maxsub(o) \in Nat /\ Printed(o).maxsub = maxsub(o)
  <1>1. \A n \in 0 .. 255 : n \in Nat /\ n % 256 = n
    OBVIOUS
  <1>2. maxsub(o) \in Nat /\ maxsub(o) % 256 = maxsub(o)
    BY <1>1 DEF Described, MaxSub
  <1> QED
    BY <1>2 DEF Printed

LEMMA SubindexFound ==
  ASSUME NEW o, Described(o), NEW n, SDOobjects[n] = Printed(o), NEW s \in 0 .. maxsub(o)
  PROVE  SDO_findsubindex(n, s) = s
  <1> DEFINE p == SDOobjects[n]
             last == Min({p.maxsub, Len(p.objdesc) - 1})
             S == {i \in 0 .. last : p.objdesc[i + 1].subindex >= s \/ i = last}
             k == Min(S)
  <1>1. /\ p.maxsub = maxsub(o) /\ p.objdesc = objdesc(o)
        /\ maxsub(o) \in Nat /\ Len(p.objdesc) - 1 = maxsub(o)
        /\ \A i \in 0 .. maxsub(o) : p.objdesc[i + 1].subindex = i
    <2>1. maxsub(o) \in Nat /\ Printed(o).maxsub = maxsub(o)
      BY OctetAnnounced
    <2>2. /\ Len(objdesc(o)) = maxsub(o) + 1
          /\ \A i \in 0 .. maxsub(o) : objdesc(o)[i + 1].subindex = i
      BY DEF Described
    <2>3. p = Printed(o) /\ Printed(o).objdesc = objdesc(o)
      BY DEF Printed
    <2> HIDE DEF p
    <2> QED
      BY <2>1, <2>2, <2>3
  <1>2. SDO_findsubindex(n, s) = IF p.objdesc[k + 1].subindex # s THEN -1 ELSE k
    BY DEF SDO_findsubindex
  <1> HIDE DEF p
  <1>3. last = maxsub(o)
    <2> DEFINE U == {p.maxsub, Len(p.objdesc) - 1}
    <2>1. U \subseteq Int /\ maxsub(o) \in U /\ \A x \in U : maxsub(o) <= x
      BY <1>1
    <2> HIDE DEF U
    <2>2. Min(U) = maxsub(o)
      BY <2>1, MinIs, Zenon
    <2> QED
      BY <2>2 DEF U
  <1> HIDE DEF last
  <1>4. s \in S /\ S \subseteq Int
    BY <1>1, <1>3
  <1>5. \A i \in S : s <= i
    BY <1>1, <1>3
  <1> HIDE DEF S
  <1>6. k = s
    BY <1>4, <1>5, MinIs
  <1> QED
    BY <1>1, <1>2, <1>6

\* The list: the fixed objects, those of the sheet from 0x6000 on, the sentinel.
Ascending(L) == \A j, k \in 1 .. Len(L) : j < k => L[j].index < L[k].index

LEMMA JoinedAscending ==
  ASSUME NEW X, \A x \in X : x.index \in Int,
         NEW s \in Seq(X), NEW t \in Seq(X), Ascending(s), Ascending(t), NEW b \in Int,
         \A j \in 1 .. Len(s) : s[j].index < b, \A k \in 1 .. Len(t) : t[k].index >= b
  PROVE  /\ s \o t \in Seq(X) /\ Len(s \o t) = Len(s) + Len(t) /\ Ascending(s \o t)
         /\ \A k \in 1 .. Len(s) : (s \o t)[k] = s[k]
         /\ \A k \in 1 .. Len(t) : (s \o t)[Len(s) + k] = t[k]
  <1> DEFINE q == s \o t
             n == Len(s)
             m == Len(t)
  <1>1. /\ q \in Seq(X) /\ n \in Nat /\ m \in Nat /\ Len(q) = n + m
        /\ \A k \in 1 .. n : q[k] = s[k]
        /\ \A k \in 1 .. m : q[n + k] = t[k]
    OBVIOUS
  <1>2. /\ \A j \in 1 .. n : s[j].index \in Int /\ s[j].index < b
        /\ \A j \in 1 .. m : t[j].index \in Int /\ t[j].index >= b
    OBVIOUS
  <1>3. /\ \A j, k \in 1 .. n : j < k => s[j].index < s[k].index
        /\ \A j, k \in 1 .. m : j < k => t[j].index < t[k].index
    BY DEF Ascending
  <1> HIDE DEF q, n, m
  <1>4. \A k \in 1 .. n + m : k \in 1 .. n \/ (k - n \in 1 .. m /\ q[k] = t[k - n])
    <2> SUFFICES ASSUME NEW k \in 1 .. n + m, k \notin 1 .. n
                 PROVE  k - n \in 1 .. m /\ q[k] = t[k - n]
      OBVIOUS
    <2>1. k - n \in 1 .. m /\ n + (k - n) = k
      BY <1>1
    <2> QED
      BY <1>1, <2>1
  <1>5. ASSUME NEW j \in 1 .. n + m, NEW k \in 1 .. n + m, j < k
        PROVE  q[j].index < q[k].index
    <2>1. CASE k \in 1 .. n
      <3>1. j \in 1 .. n
        BY <1>1, <1>5, <2>1
      <3> QED
        BY <1>1, <1>3, <1>5, <2>1, <3>1
    <2>2. CASE k \notin 1 .. n /\ j \in 1 .. n
      <3>1. k - n \in 1 .. m /\ q[k] = t[k - n] /\ q[j] = s[j]
        BY <1>1, <1>4, <2>2
      <3>2. s[j].index \in Int /\ s[j].index < b /\ t[k - n].index \in Int /\ t[k - n].index >= b
        BY <1>2, <2>2, <3>1
      <3>3. s[j].index < t[k - n].index
        BY <3>2
      <3> QED
        BY <3>1, <3>3
    <2>3. CASE k \notin 1 .. n /\ j \notin 1 .. n
      <3>1. /\ k - n \in 1 .. m /\ q[k] = t[k - n] /\ j - n \in 1 .. m /\ q[j] = t[j - n]
        BY <1>4, <2>3
      <3>2. j - n < k - n
        BY <1>1, <1>5
      <3> QED
        BY <1>3, <3>1, <3>2
    <2> QED
      BY <2>1, <2>2, <2>3
  <1>6. Ascending(q)
    BY <1>1, <1>5 DEF Ascending
  <1> QED
    BY <1>1, <1>6 DEF q, n, m

LEMMA CustomFacts ==
  ASSUME GeneratorInv
  PROVE  /\ Custom \in Seq(SheetObject)
         /\ \A k \in 1 .. Len(Custom) :
              /\ \E m \in 1 .. Len(lObject) : Custom[k] = lObject[m]
              /\ Custom[k].index >= 24576
         /\ \A m \in 1 .. Len(lObject) :
              lObject[m].index >= 24576 => \E k \in 1 .. Len(Custom) : Custom[k] = lObject[m]
         /\ Orderly => Ascending(Custom)
  <1> DEFINE T == {k \in 1 .. Len(lObject) : lObject[k].index >= 24576}
  <1>1. lObject \in Seq(SheetObject)
    BY DEF GeneratorInv, GeneratorTypes
  <1>2. T \in SUBSET (1 .. Len(lObject))
    OBVIOUS
  <1>3. Custom \in Seq(SheetObject) /\ \E g : Selects(g, Custom, lObject, T)
    <2>1. Custom = Picked(lObject, T)
      BY DEF Custom
    <2> HIDE DEF T
    <2> QED
      BY <1>1, <1>2, <2>1, PickedFacts
  <1>4. PICK g : Selects(g, Custom, lObject, T)
    BY <1>3
  <1>5. \A k \in 1 .. Len(Custom) : g[k] \in T /\ Custom[k] = lObject[g[k]]
    BY <1>4 DEF Selects
  <1>6. \A m \in T : \E k \in 1 .. Len(Custom) : g[k] = m
    BY <1>4 DEF Selects
  <1>7. Orderly => Ascending(Custom)
    <2> SUFFICES ASSUME Orderly, NEW j \in 1 .. Len(Custom), NEW k \in 1 .. Len(Custom), j < k
                 PROVE  Custom[j].index < Custom[k].index
      BY DEF Ascending
    <2>1. g[j] < g[k] /\ g[j] \in 1 .. Len(lObject) /\ g[k] \in 1 .. Len(lObject)
      BY <1>4, <1>5 DEF Selects
    <2>2. lObject[g[j]].index < lObject[g[k]].index
      BY <2>1 DEF GeneratorInv, SheetInv
    <2> QED
      BY <1>5, <2>2
  <1>8. \A m \in 1 .. Len(lObject) :
          lObject[m].index >= 24576 => \E k \in 1 .. Len(Custom) : Custom[k] = lObject[m]
    BY <1>5, <1>6
  <1>9. \A k \in 1 .. Len(Custom) : /\ \E m \in 1 .. Len(lObject) : Custom[k] = lObject[m]
                                    /\ Custom[k].index >= 24576
    BY <1>5
  <1> QED
    BY <1>3, <1>7, <1>8, <1>9

\* The indexes of the fixed objects, below those of the sheet that are listed.
FixedIndexes == 4096 .. 24575
FirstListed == 24576

LEMMA Indexes ==
  /\ \A i \in FixedIndexes : i \in 0 .. Sentinel /\ i < FirstListed /\ i < Sentinel
  /\ \A i \in 0 .. Sentinel - 1 : i \in 0 .. Sentinel /\ i < Sentinel
  /\ \A i \in 0 .. Sentinel : i \in Int
  /\ FirstListed \in Int /\ Sentinel \in 0 .. Sentinel /\ Sentinel >= Sentinel
  <1>1. \A i \in FixedIndexes : i \in 0 .. Sentinel
    BY DEF FixedIndexes, Sentinel
  <1>2. \A i \in FixedIndexes : i < FirstListed /\ i < Sentinel
    BY DEF FixedIndexes, FirstListed, Sentinel
  <1>3. ASSUME NEW i \in 0 .. Sentinel - 1
        PROVE  i \in 0 .. Sentinel /\ i < Sentinel
    <2>1. Sentinel \in Int
      BY DEF Sentinel
    <2> QED
      BY <1>3, <2>1
  <1>4. \A i \in 0 .. Sentinel : i \in Int
    OBVIOUS
  <1>5. FirstListed \in Int /\ Sentinel \in 0 .. Sentinel /\ Sentinel >= Sentinel
    BY DEF FirstListed, Sentinel
  <1> QED
    BY <1>1, <1>2, <1>3, <1>4, <1>5, Zenon

LEMMA FixedFacts ==
  /\ Len(Fixed) \in Nat /\ \A k \in 1 .. Len(Fixed) : Fixed[k] \in FixedIndexes
  /\ \A i, j \in 1 .. Len(Fixed) : i < j => Fixed[i] < Fixed[j]
  <1>1. Fixed \in Seq(FixedIndexes)
    BY FixedAssumption DEF FixedAssumption, FixedIndexes
  <1>2. ASSUME NEW i \in 1 .. Len(Fixed), NEW j \in 1 .. Len(Fixed), i < j
        PROVE  Fixed[i] < Fixed[j]
    BY <1>2, FixedOrderAssumption
  <1> QED
    BY <1>1, <1>2, SeqParts, Zenon

LEMMA ListAscending ==
  ASSUME Orderly, GeneratorInv
  PROVE  /\ Len(SDOobjects) \in Nat /\ Len(Fixed) \in Nat /\ Ascending(SDOobjects)
         /\ \A k \in 1 .. Len(SDOobjects) : SDOobjects[k].index \in Int
         /\ \A k \in 1 .. Len(Custom) : /\ Len(Fixed) + k \in 1 .. Len(SDOobjects)
                                        /\ SDOobjects[Len(Fixed) + k] = Printed(Custom[k])
  <1> DEFINE A == [k \in 1 .. Len(Fixed) |-> Other(Fixed[k])]
             B == [k \in 1 .. Len(Custom) |-> Printed(Custom[k])]
             C == <<Other(Sentinel)>>
             X == {Other(i) : i \in 0 .. Sentinel} \union {Printed(o) : o \in SheetObject}
             F == Len(Fixed)
             n == Len(Custom)
  <1>1. F \in Nat /\ \A k \in 1 .. F : Fixed[k] \in FixedIndexes
    BY FixedFacts
  <1>2. n \in Nat /\ \A k \in 1 .. n : Custom[k] \in SheetObject /\ Custom[k].index >= FirstListed
    BY CustomFacts, SeqParts DEF FirstListed
  <1>3. \A i : Other(i).index = i
    BY DEF Other
  <1>4. \A o \in SheetObject : Printed(o).index = o.index /\ o.index \in 0 .. Sentinel - 1
    BY DEF Printed, SheetObject
  <1>5. \A x \in X : x.index \in Int
    <2>1. \A i \in 0 .. Sentinel : Other(i).index \in Int
      BY <1>3, Indexes, Zenon
    <2>2. \A o \in SheetObject : Printed(o).index \in Int
      BY <1>4, Indexes, Zenon
    <2> QED
      BY <2>1, <2>2
  <1>6. \A k \in 1 .. F : Other(Fixed[k]) \in X
    <2>1. \A k \in 1 .. F : Fixed[k] \in 0 .. Sentinel
      BY <1>1, Indexes, Zenon
    <2> QED
      BY <2>1, Zenon
  <1>7. \A k \in 1 .. n : Printed(Custom[k]) \in X
    BY <1>2
  <1>8. Other(Sentinel) \in X
    BY Indexes, Zenon
  <1> HIDE DEF X, F, n
  <1>9. A \in Seq(X) /\ Len(A) = F
    BY <1>1, <1>6, SeqOf DEF F
  <1>10. B \in Seq(X) /\ Len(B) = n
    BY <1>2, <1>7, SeqOf DEF n
  <1>11. C \in Seq(X) /\ Len(C) = 1 /\ C[1] = Other(Sentinel)
    BY <1>8
  <1>12. \A k \in 1 .. F : A[k].index = Fixed[k]
    <2>1. \A k \in 1 .. F : A[k] = Other(Fixed[k])
      BY DEF F
    <2> HIDE DEF A
    <2> QED
      BY <1>3, <2>1, Zenon
  <1>13. \A k \in 1 .. n : B[k] = Printed(Custom[k]) /\ B[k].index = Custom[k].index
    <2>1. \A k \in 1 .. n : B[k] = Printed(Custom[k])
      BY DEF n
    <2> HIDE DEF B
    <2> QED
      BY <1>2, <1>4, <2>1
  <1>14. C[1].index = Sentinel
    BY <1>11 DEF Other
  <1>15. SDOobjects = (A \o B) \o C
    BY DEF SDOobjects
  <1> HIDE DEF A, B, C
  <1>16. Ascending(A)
    <2>1. \A i, j \in 1 .. F : i < j => Fixed[i] < Fixed[j]
      BY FixedFacts DEF F
    <2> SUFFICES ASSUME NEW i \in 1 .. F, NEW j \in 1 .. F, i < j PROVE A[i].index < A[j].index
      BY <1>9 DEF Ascending
    <2>2. A[i].index = Fixed[i] /\ A[j].index = Fixed[j]
      BY <1>12
    <2>3. Fixed[i] < Fixed[j]
      BY <2>1
    <2> QED
      BY <2>2, <2>3, Zenon
  <1>17. Ascending(B)
    <2>1. Ascending(Custom)
      BY CustomFacts
    <2> QED
      BY <1>10, <1>13, <2>1 DEF Ascending, n
  <1>18. /\ A \o B \in Seq(X) /\ Len(A \o B) = F + n /\ Ascending(A \o B)
         /\ \A k \in 1 .. F : (A \o B)[k] = A[k]
         /\ \A k \in 1 .. n : (A \o B)[F + k] = B[k]
    <2>1. \A j \in 1 .. Len(A) : A[j].index < FirstListed
      BY <1>1, <1>9, <1>12, Indexes, Zenon
    <2>2. \A k \in 1 .. Len(B) : B[k].index >= FirstListed
      BY <1>2, <1>10, <1>13, Zenon
    <2>3. FirstListed \in Int
      BY Indexes
    <2>4. /\ A \o B \in Seq(X) /\ Len(A \o B) = Len(A) + Len(B) /\ Ascending(A \o B)
          /\ \A k \in 1 .. Len(A) : (A \o B)[k] = A[k]
          /\ \A k \in 1 .. Len(B) : (A \o B)[Len(A) + k] = B[k]
      <3>1. A \in Seq(X) /\ B \in Seq(X) /\ Ascending(A) /\ Ascending(B)
        BY <1>9, <1>10, <1>16, <1>17
      <3> HIDE DEF X
      <3> QED
        BY <1>5, <2>1, <2>2, <2>3, <3>1, JoinedAscending
    <2> QED
      BY <1>9, <1>10, <2>4
  <1> DEFINE P == A \o B
  <1>19. \A k \in 1 .. F + n : k \in 1 .. F \/ (k - F \in 1 .. n /\ F + (k - F) = k)
    BY <1>1, <1>2
  <1>20. \A k \in 1 .. F + n : P[k].index < Sentinel
    <2> SUFFICES ASSUME NEW k \in 1 .. F + n PROVE P[k].index < Sentinel
      OBVIOUS
    <2>1. CASE k \in 1 .. F
      <3>1. P[k].index = Fixed[k]
        BY <1>12, <1>18, <2>1, Zenon
      <3> HIDE DEF P
      <3> QED
        BY <1>1, <2>1, <3>1, Indexes, Zenon
    <2>2. CASE k \notin 1 .. F
      <3>1. k - F \in 1 .. n /\ P[k] = B[k - F]
        <4>1. k - F \in 1 .. n /\ F + (k - F) = k
          BY <1>19, <2>2, Zenon
        <4>2. P[F + (k - F)] = B[k - F]
          BY <1>18, <4>1, Zenon
        <4> HIDE DEF P
        <4> QED
          BY <4>1, <4>2, Zenon
      <3> HIDE DEF P
      <3>2. P[k].index = Custom[k - F].index /\ Custom[k - F] \in SheetObject
        BY <1>2, <1>13, <3>1, Zenon
      <3>3. Custom[k - F].index \in 0 .. Sentinel - 1
        BY <1>4, <3>2, Zenon
      <3> QED
        BY <3>2, <3>3, Indexes, Zenon
    <2> QED
      BY <2>1, <2>2
  <1>21. /\ P \in Seq(X) /\ Len(P) = F + n /\ Ascending(P)
         /\ \A k \in 1 .. n : P[F + k] = B[k]
    BY <1>18
  <1> HIDE DEF P
  <1>22. /\ P \o C \in Seq(X) /\ Len(P \o C) = Len(P) + Len(C) /\ Ascending(P \o C)
         /\ \A k \in 1 .. Len(P) : (P \o C)[k] = P[k]
    <2>1. Sentinel \in Int /\ Ascending(C)
      BY <1>11, Indexes DEF Ascending
    <2>2. \A j \in 1 .. Len(P) : P[j].index < Sentinel
      BY <1>20, <1>21
    <2>3. \A k \in 1 .. Len(C) : C[k].index >= Sentinel
      BY <1>11, <1>14, Indexes
    <2> QED
      BY <1>5, <1>11, <1>21, <2>1, <2>2, <2>3, JoinedAscending
  <1>23. SDOobjects = P \o C
    BY <1>15 DEF P
  <1>24. Len(SDOobjects) = F + n + 1
    BY <1>11, <1>21, <1>22, <1>23
  <1>25. \A k \in 1 .. Len(SDOobjects) : SDOobjects[k].index \in Int
    BY <1>5, <1>22, <1>23
  <1>26. ASSUME NEW k \in 1 .. n
         PROVE  F + k \in 1 .. Len(SDOobjects) /\ SDOobjects[F + k] = Printed(Custom[k])
    <2>1. F + k \in 1 .. F + n /\ F + k \in 1 .. F + n + 1
      BY <1>1, <1>2
    <2>2. SDOobjects[F + k] = P[F + k]
      BY <1>21, <1>22, <1>23, <2>1
    <2> QED
      BY <1>13, <1>21, <1>24, <2>1, <2>2
  <1> QED
    BY <1>1, <1>2, <1>22, <1>23, <1>24, <1>25, <1>26 DEF F, n

LEMMA ObjectFound ==
  ASSUME Orderly, GeneratorInv, NEW k \in 1 .. Len(Custom)
  PROVE  /\ SDO_findobject(Custom[k].index) = Len(Fixed) + k
         /\ SDOobjects[Len(Fixed) + k] = Printed(Custom[k])
  <1> DEFINE L == SDOobjects
             f == Len(Fixed) + k
             x == Custom[k].index
             S == {j \in 1 .. Len(L) : L[j].index >= x}
             n == Min(S)
  <1>1. /\ Len(L) \in Nat /\ Len(Fixed) \in Nat /\ f \in 1 .. Len(L) /\ L[f] = Printed(Custom[k])
        /\ \A j \in 1 .. Len(L) : L[j].index \in Int
        /\ \A i, j \in 1 .. Len(L) : i < j => L[i].index < L[j].index
    BY ListAscending DEF Ascending
  <1>2. L[f].index = x
    BY <1>1 DEF Printed
  <1>3. SDO_findobject(x) = IF L[n].index # x THEN -1 ELSE n
    BY DEF SDO_findobject
  <1> HIDE DEF L, f, x
  <1>4. f \in S /\ S \subseteq Int
    BY <1>1, <1>2
  <1>5. ASSUME NEW j \in S PROVE f <= j
    <2>1. ~(j < f)
      <3>1. j \in 1 .. Len(L) /\ L[j].index >= x /\ L[j].index \in Int /\ x \in Int
        BY <1>1, <1>2
      <3>2. j < f => L[j].index < x
        BY <1>1, <1>2, <3>1
      <3> QED
        BY <3>1, <3>2
    <2> QED
      BY <1>1, <2>1
  <1> HIDE DEF S
  <1>6. n = f
    BY <1>4, <1>5, MinIs
  <1>7. SDO_findobject(x) = f
    BY <1>2, <1>3, <1>6
  <1> QED
    BY <1>1, <1>7 DEF L, f, x

LEMMA CustomDescribed ==
  ASSUME Orderly, GeneratorInv, phase = "done", NEW k \in 1 .. Len(Custom)
  PROVE  Described(Custom[k])
  <1>1. PICK m \in 1 .. Len(lObject) : Custom[k] = lObject[m]
    BY CustomFacts
  <1>2. Custom[k] \in SheetObject
    BY CustomFacts, SeqParts
  <1>3. Shaped(Custom[k]) /\ ~Broken(Custom[k])
    BY <1>1 DEF GeneratorInv, SheetInv, PhaseInv
  <1> QED
    BY <1>2, <1>3, DescribedFacts

LEMMA AnyFound ==
  ASSUME Orderly, GeneratorInv, phase = "done",
         NEW k \in 1 .. Len(Custom), NEW s \in 0 .. maxsub(Custom[k])
  PROVE  Found(Custom[k].index, s, objdesc(Custom[k])[s + 1].bitlength)
  <1> DEFINE o == Custom[k]
             f == Len(Fixed) + k
  <1>1. Described(o)
    BY CustomDescribed
  <1>2. SDO_findobject(o.index) = f /\ SDOobjects[f] = Printed(o)
    BY ObjectFound
  <1>3. s \in 0 .. maxsub(o)
    OBVIOUS
  <1>4. f # -1 /\ s # -1
    BY <1>1, FixedFacts, OctetAnnounced
  <1> HIDE DEF o, f
  <1>5. SDO_findsubindex(f, s) = s
    BY <1>1, <1>2, <1>3, SubindexFound
  <1>6. SDOobjects[f].objdesc[s + 1].bitlength = objdesc(o)[s + 1].bitlength
    BY <1>2 DEF Printed
  <1> QED
    BY <1>2, <1>4, <1>5, <1>6 DEF Found, o

\* Of an orderly sheet - objects ascending, none with more than 255 subindexes - every
\* subindex an object announces is found.
THEOREM SearchCorrect == Orderly => (GeneratorSpec => []ListSearchable)
  <1> SUFFICES ASSUME Orderly PROVE GeneratorSpec => []ListSearchable
    OBVIOUS
  <1>1. GeneratorInv => ListSearchable
    <2> SUFFICES ASSUME GeneratorInv, phase = "done", NEW k \in 1 .. Len(Custom)
                 PROVE  LET o == Printed(Custom[k]) IN
                        /\ Len(o.objdesc) = o.maxsub + 1
                        /\ \A s \in 0 .. o.maxsub : Found(o.index, s, o.objdesc[s + 1].bitlength)
      BY DEF ListSearchable
    <2> DEFINE o == Custom[k]
    <2>1. /\ Printed(o).index = o.index /\ Printed(o).maxsub = maxsub(o)
          /\ Printed(o).objdesc = objdesc(o)
      BY CustomDescribed, OctetAnnounced DEF Printed
    <2>2. \A s \in 0 .. maxsub(o) : Found(o.index, s, objdesc(o)[s + 1].bitlength)
      BY AnyFound
    <2>3. Described(o)
      BY CustomDescribed
    <2> HIDE DEF o
    <2>4. Len(objdesc(o)) = maxsub(o) + 1
      BY <2>3 DEF Described
    <2> QED
      BY <2>1, <2>2, <2>4 DEF o
  <1> QED
    BY <1>1, GeneratorCorrect, PTL

LEMMA MappedIndex ==
  ASSUME NEW o, Direction(o) # {}
  PROVE  o.index >= 24576
  <1> DEFINE In == 24576 .. 27033
             Out == 28672 .. 31129
             x == o.index
  <1>1. /\ \A i \in In : i \in Int /\ i >= 24576
        /\ \A i \in Out : i \in Int /\ i >= 24576
    OBVIOUS
  <1>2. x \in In \/ x \in Out
    BY DEF Direction
  <1> HIDE DEF In, Out, x
  <1>3. x >= 24576
    BY <1>1, <1>2
  <1> QED
    BY <1>3 DEF x

\* Of an orderly sheet everything that is mapped is found, each entry once: no subindex
\* runs over into the index.
THEOREM MappingCorrect == Orderly => (GeneratorSpec => []MappingFound)
  <1> SUFFICES ASSUME Orderly PROVE GeneratorSpec => []MappingFound
    OBVIOUS
  <1>1. GeneratorInv => MappingFound
    <2> SUFFICES ASSUME GeneratorInv, phase = "done",
                        NEW d \in {Rx, Tx}, NEW i \in 1 .. Len(pdo[d])
                 PROVE  /\ Found(pdo[d][i].index, pdo[d][i].sub, pdo[d][i].bits)
                        /\ \A j \in 1 .. i - 1 :
                             <<pdo[d][j].index, pdo[d][j].sub>> # <<pdo[d][i].index, pdo[d][i].sub>>
      BY DEF MappingFound
    <2> DEFINE e == pdo[d][i]
    <2>1. Passed(d, e) /\ \A j \in 1 .. i - 1 : Before(pdo[d][j], e)
      BY DEF GeneratorInv, PdoInv
    <2>2. pdo[d] \in Seq(MapEntry)
      BY DEF GeneratorInv, GeneratorTypes
    <2>3. \A j \in 1 .. Len(pdo[d]) : pdo[d][j].index \in Int /\ pdo[d][j].sub \in Int
      <3>1. \A j \in 1 .. Len(pdo[d]) : pdo[d][j] \in MapEntry
        BY <2>2, SeqParts
      <3>2. \A x \in MapEntry : x.index \in Int /\ x.sub \in Int
        BY DEF MapEntry
      <3> QED
        BY <3>1, <3>2, Zenon
    <2>4. Found(e.index, e.sub, e.bits)
      <3>1. PICK m \in 1 .. next - 1 : d \in Direction(lObject[m]) /\ Announced(lObject[m], e)
        BY <2>1 DEF Passed
      <3>2. m \in 1 .. Len(lObject)
        BY <3>1 DEF GeneratorInv, GeneratorTypes
      <3>3. lObject[m].index >= 24576
        BY <3>1, MappedIndex
      <3>4. PICK k \in 1 .. Len(Custom) : Custom[k] = lObject[m]
        BY <3>2, <3>3, CustomFacts
      <3>5. /\ e.index = Custom[k].index /\ e.sub \in 0 .. maxsub(Custom[k])
            /\ e.bits = objdesc(Custom[k])[e.sub + 1].bitlength
        BY <3>1, <3>4 DEF Announced
      <3> HIDE DEF e
      <3> QED
        BY <3>5, AnyFound
    <2>5. ASSUME NEW j \in 1 .. i - 1
          PROVE  <<pdo[d][j].index, pdo[d][j].sub>> # <<e.index, e.sub>>
      <3>1. /\ Before(pdo[d][j], e)
            /\ pdo[d][j].index \in Int /\ pdo[d][j].sub \in Int /\ e.index \in Int /\ e.sub \in Int
        BY <2>1, <2>2, <2>3
      <3>2. ~(pdo[d][j].index = e.index /\ pdo[d][j].sub = e.sub)
        BY <3>1 DEF Before
      <3> QED
        BY <3>2
    <2> QED
      BY <2>4, <2>5
  <1> QED
    BY <1>1, GeneratorCorrect, PTL
=============================================================================
