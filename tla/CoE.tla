-------------------------------- MODULE CoE --------------------------------
(***************************************************************************)
(* CAN over EtherCAT, the services of ESC_coeprocess                       *)
(* (src/templates/esc_coe.c): SDO upload, whole or in segments, SDO        *)
(* download, and the SDO information services, among them the list of all  *)
(* objects, sent in fragments over several turns of the loop.              *)
(*                                                                         *)
(* Mailbox has what a service does to the buffers; here a request is read  *)
(* when none is in progress, answers arrive in order, and a buffer for an  *)
(* answer may be missing in any turn.  The octets of an object and the     *)
(* entries of a list are represented by where they are.                    *)
(*                                                                         *)
(* An operator named X_Y is operator X with a plausible mistake, Y, that   *)
(* breaks one of the properties.                                           *)
(***************************************************************************)
EXTENDS Integers

CONSTANTS
  MbxData,       \* ESC_MBXDSIZE, octets behind a mailbox header
  Objects,       \* objects the master reads and writes
  Size,          \* Size[o]: octets of object o
  Access,        \* Access[o]: "RO", "RW" or "RWpre"
  Counts,        \* numbers of objects a dictionary may have
  Values         \* values the master downloads

ASSUME ConstAssumption ==
  /\ MbxData \in Nat /\ MbxData >= 14
  /\ Size \in [Objects -> Nat \ {0}]
  /\ Access \in [Objects -> {"RO", "RW", "RWpre"}]
  /\ Counts \subseteq Nat \ {0}
  /\ Values \subseteq Nat \ {0}

VARIABLES
  xoe,         \* ESCvar.xoe: "none", "coe" or "odl" (MBXCOE + MBXODL)
  req,         \* the request claimed in buffer 0
  segmented,   \* ESCvar.segmented = MBXSEU
  frags,       \* ESCvar.frags: size of the upload in octets, or fragments of the list
  fragsleft,   \* ESCvar.fragsleft: octets of the upload done, or fragments to come
  data,        \* ESCvar.data: the object uploaded in segments
  entries,     \* ESCvar.entries
  ALstate,     \* ESCvar.ALstatus & 0x0f
  od,          \* the values of the dictionary
  count,       \* the length of SDOobjects, fixed when the program is built
  answer,      \* the answer of the last step, or None
  upload,      \* history: the upload the master is in the middle of, and how much of
               \* it has been sent to it
  listed       \* history: entries sent of the list in progress

transfer == <<segmented, frags, fragsleft, data>>
vars == <<xoe, req, transfer, entries, ALstate, od, count, answer, upload, listed>>

---------------------------------------------------------------------------
(***************************************************************************)
(* Messages.                                                               *)
(***************************************************************************)
Absent == "absent"      \* an index or subindex the dictionary does not have
Nothing == [op |-> "none"]

\* A download announces the object's size or another one; "unknown" is what
\* ESC_coeprocess does not recognise, "badlist" a list of another type.
Requests ==
  [op : {"upload", "describe"}, obj : Objects \union {Absent}]
    \union [op : {"segment", "list", "number", "badlist", "unknown"}]
    \union [op : {"download"}, obj : Objects \union {Absent}, fits : BOOLEAN, value : Values]

InfoOps == {"describe", "list", "number", "badlist"}

Abort  == [op |-> "abort"]
Ack    == [op |-> "ack"]
Info   == [op |-> "info"]
Octets(op, obj, from, len, last) ==
  [op |-> op, obj |-> obj, from |-> from, len |-> len, last |-> last]
Listing(from, len, more, left) ==
  [op |-> "list", from |-> from, len |-> len, more |-> more, left |-> left]

\* COE_HEADERSIZE, COE_SEGMENTHEADERSIZE and ODLISTSIZE
UploadRoom  == MbxData - 10
SegmentRoom == MbxData - 3
ListRoom    == (MbxData - 8) \div 2

---------------------------------------------------------------------------
(***************************************************************************)
(* SDO services.  They are done with the request whether or not a buffer   *)
(* is free for the answer.                                                 *)
(***************************************************************************)
Done == req' = Nothing /\ xoe' = "none"
Reply(free, msg) == answer' = IF free THEN msg ELSE Nothing
NoTransfer == UNCHANGED transfer

\* An upload of up to 4 octets says nothing about segments.
Expedited(o) ==
  /\ Size[o] <= 4
  /\ answer' = Octets("upload", o, 0, Size[o], TRUE) /\ NoTransfer

Normal(o) ==
  /\ Size[o] > 4 /\ Size[o] <= UploadRoom
  /\ answer' = Octets("upload", o, 0, Size[o], TRUE)
  /\ segmented' = FALSE /\ UNCHANGED <<frags, fragsleft, data>>

FirstPart(o) ==
  /\ Size[o] > 4 /\ Size[o] > UploadRoom
  /\ answer' = Octets("upload", o, 0, UploadRoom, FALSE)
  /\ segmented' = TRUE /\ data' = o
  /\ frags' = Size[o] /\ fragsleft' = UploadRoom

SDO_upload(free) ==
  /\ req.op = "upload" /\ Done
  /\ \/ req.obj = Absent /\ Reply(free, Abort) /\ NoTransfer
     \/ req.obj # Absent /\ ~free /\ answer' = Nothing /\ NoTransfer
     \/ req.obj # Absent /\ free /\ (Expedited(req.obj) \/ Normal(req.obj) \/ FirstPart(req.obj))
  /\ UNCHANGED <<entries, od>>

SDO_uploadsegment_CountsUnsent(free) ==
  /\ req.op = "segment" /\ segmented /\ Done
  /\ LET size == frags - fragsleft
     IN  /\ Reply(free, Octets("segment", data, fragsleft,
                               IF size > SegmentRoom THEN SegmentRoom ELSE size,
                               size <= SegmentRoom))
         /\ IF size > SegmentRoom
            THEN fragsleft' = fragsleft + SegmentRoom /\ UNCHANGED <<segmented, frags>>
            ELSE segmented' = FALSE /\ frags' = 0 /\ fragsleft' = 0
  /\ UNCHANGED <<data, entries, od>>

NextSegment ==
  LET size == frags - fragsleft
  IN  \/ /\ size > SegmentRoom
         /\ answer' = Octets("segment", data, fragsleft, SegmentRoom, FALSE)
         /\ fragsleft' = fragsleft + SegmentRoom /\ UNCHANGED <<segmented, frags, data>>
      \/ /\ size <= SegmentRoom
         /\ answer' = Octets("segment", data, fragsleft, size, TRUE)
         /\ segmented' = FALSE /\ frags' = 0 /\ fragsleft' = 0 /\ UNCHANGED data

SDO_uploadsegment(free) ==
  /\ req.op = "segment" /\ segmented /\ Done
  /\ \/ free /\ NextSegment
     \/ ~free /\ answer' = Nothing /\ NoTransfer
  /\ UNCHANGED <<entries, od>>

Writable(o) == Access[o] = "RW" \/ (Access[o] = "RWpre" /\ ALstate = "preop")

\* The octets come from the mailbox, which may hold fewer than the object has.
Stored(value, o) == [value |-> value, whole |-> Size[o] <= UploadRoom]

SDO_download_StoresFirst(free) ==
  /\ req.op = "download" /\ Done
  /\ \/ /\ req.obj = Absent \/ ~Writable(req.obj) \/ ~req.fits
        /\ Reply(free, Abort) /\ UNCHANGED od
     \/ /\ req.obj # Absent /\ Writable(req.obj) /\ req.fits
        /\ \E refused \in BOOLEAN : Reply(free, IF refused THEN Abort ELSE Ack)
        /\ od' = [od EXCEPT ![req.obj] = Stored(req.value, req.obj)]
  /\ NoTransfer /\ UNCHANGED entries

\* ESC_pre_objecthandler may refuse.  The value is stored before a buffer is claimed.
SDO_download(free) ==
  /\ req.op = "download" /\ Done
  /\ \/ Reply(free, Abort) /\ UNCHANGED od
     \/ /\ req.obj # Absent /\ Writable(req.obj) /\ req.fits
        /\ Reply(free, Ack)
        /\ od' = [od EXCEPT ![req.obj] = Stored(req.value, req.obj)]
  /\ NoTransfer /\ UNCHANGED entries

\* What is not recognised, a segment request outside a segmented upload included.
Unrecognised(free) ==
  /\ req.op = "unknown" \/ (req.op = "segment" /\ ~segmented)
  /\ Done /\ Reply(free, Abort)
  /\ NoTransfer /\ UNCHANGED <<entries, od>>

---------------------------------------------------------------------------
(***************************************************************************)
(* SDO information services.  They keep the request until there is a       *)
(* buffer.                                                                 *)
(***************************************************************************)
Answered(free, msg) ==
  \/ free /\ answer' = msg /\ Done
  \/ ~free /\ answer' = Nothing /\ xoe' = "coe" /\ UNCHANGED req

\* SDO_getod and SDO_geted
Describe(free) ==
  /\ req.op = "describe"
  /\ Answered(free, IF req.obj = Absent THEN Abort ELSE Info)
  /\ NoTransfer /\ UNCHANGED <<entries, od>>

ListFrags_RoundedDown == count \div ListRoom
ListFrags == (2 * count + 2 * ListRoom - 1) \div (2 * ListRoom)

FirstListing ==
  IF ListFrags > 1
  THEN answer' = Listing(0, ListRoom, TRUE, ListFrags - 1) /\ xoe' = "odl" /\ UNCHANGED req
  ELSE answer' = Listing(0, count, FALSE, ListFrags - 1) /\ Done

\* The number of objects, the first fragment of the list, or an error.  The first two
\* use the counters of a segmented upload.
SDO_getodlist(free) ==
  /\ entries' = count
  /\ \/ req.op = "badlist" /\ Answered(free, Abort) /\ NoTransfer
     \/ req.op \in {"list", "number"} /\ ~free /\ Answered(free, Nothing) /\ NoTransfer
     \/ /\ req.op \in {"list", "number"} /\ free
        /\ IF req.op = "list" THEN FirstListing ELSE answer' = Info /\ Done
        /\ frags' = ListFrags /\ fragsleft' = ListFrags - 1
        /\ UNCHANGED <<segmented, data>>
  /\ UNCHANGED od

SDO_getodlistcont ==
  LET from == (frags - fragsleft) * ListRoom
  IN  /\ IF fragsleft > 1
         THEN answer' = Listing(from, ListRoom, TRUE, fragsleft - 1) /\ UNCHANGED <<xoe, req>>
         ELSE answer' = Listing(from, entries - from, FALSE, fragsleft - 1) /\ Done
      /\ fragsleft' = fragsleft - 1
      /\ UNCHANGED <<segmented, frags, data, entries, od>>

---------------------------------------------------------------------------
(***************************************************************************)
(* The loop and its environment.                                           *)
(***************************************************************************)
Service(free) ==
  \/ SDO_upload(free) \/ SDO_uploadsegment(free) \/ SDO_download(free)
  \/ Unrecognised(free) \/ Describe(free) \/ SDO_getodlist(free)

\* What the master makes of the answers.  It gives an upload up when it starts another
\* or asks for the list or its length.
Sees ==
  /\ upload' = CASE answer'.op \in {"upload", "list"} \/ (answer' = Info /\ req.op = "number") ->
                      IF answer'.op # "upload" \/ answer'.last THEN Nothing
                      ELSE [op |-> "upload", obj |-> answer'.obj, sent |-> answer'.len]
                 [] answer'.op = "segment" /\ upload # Nothing ->
                      IF answer'.last THEN Nothing
                      ELSE [upload EXCEPT !.sent = @ + answer'.len]
                 [] OTHER -> upload
  /\ listed' = IF answer'.op # "list" THEN listed
               ELSE IF answer'.more THEN listed + answer'.len ELSE 0

ESC_coeprocess ==
  /\ req # Nothing
  /\ \/ xoe # "odl" /\ \E free \in BOOLEAN : Service(free)
     \/ xoe = "odl" /\ SDO_getodlistcont
  /\ Sees
  /\ UNCHANGED <<ALstate, count>>

\* ESC_mbxprocess reads a request when the one before it is done.
ReadRequest ==
  /\ req = Nothing
  /\ req' \in Requests
  /\ answer' = Nothing
  /\ UNCHANGED <<xoe, transfer, entries, ALstate, od, count, upload, listed>>

ChangeState ==
  /\ ALstate' \in {"preop", "safeop", "op"}
  /\ answer' = Nothing
  /\ UNCHANGED <<xoe, req, transfer, entries, od, count, upload, listed>>

\* ESC_stopmbx and, later, ESC_startmbx
ESC_stopmbx ==
  /\ xoe' = "none" /\ req' = Nothing
  /\ segmented' = FALSE /\ frags' = 0 /\ fragsleft' = 0
  /\ answer' = Nothing /\ upload' = Nothing /\ listed' = 0
  /\ ALstate' = "preop"
  /\ UNCHANGED <<data, entries, od, count>>

Init ==
  /\ xoe = "none" /\ req = Nothing
  /\ segmented = FALSE /\ frags = 0 /\ fragsleft = 0 /\ data = Absent
  /\ entries = 0
  /\ ALstate = "preop"
  /\ od = [o \in Objects |-> [value |-> 0, whole |-> TRUE]]
  /\ count \in Counts
  /\ answer = Nothing
  /\ upload = Nothing /\ listed = 0

Next == ESC_coeprocess \/ ReadRequest \/ ChangeState \/ ESC_stopmbx

Spec == Init /\ [][Next]_vars

---------------------------------------------------------------------------
(***************************************************************************)
(* Properties.                                                             *)
(***************************************************************************)
TypeOK ==
  /\ xoe \in {"none", "coe", "odl"}
  /\ req \in Requests \union {Nothing}
  /\ segmented \in BOOLEAN
  /\ frags \in Nat /\ fragsleft \in Nat
  /\ data \in Objects \union {Absent}
  /\ entries \in Nat
  /\ ALstate \in {"preop", "safeop", "op"}
  /\ od \in [Objects -> [value : Values \union {0}, whole : BOOLEAN]]
  /\ count \in Counts

\* The segments the master gets go on where the part before them ended and the last one
\* ends the object, whatever other requests, lost answers and short pools come between,
\* as long as it does not ask for the object list.
UploadInOrder ==
  [][answer'.op = "segment" /\ upload # Nothing =>
       /\ answer'.obj = upload.obj
       /\ answer'.from = upload.sent
       /\ answer'.len > 0
       /\ answer'.last <=> answer'.from + answer'.len = Size[upload.obj]]_vars

\* The fragments of the object list name every object once and in order, none is empty
\* or too long, the number of fragments to come counts down to 0, and only the last says
\* it is complete.
ListInOrder ==
  [][answer'.op = "list" =>
       /\ answer'.from = listed
       /\ answer'.len \in 1 .. ListRoom
       /\ answer'.more <=> answer'.from + answer'.len < count
       /\ answer'.more => answer'.len = ListRoom
       /\ answer'.left = (count - answer'.from - answer'.len + ListRoom - 1) \div ListRoom]_vars

\* A download that is aborted stores nothing, one that is acknowledged stores its value,
\* and no other request changes the dictionary.
DownloadAsAnswered ==
  [][/\ od' # od => answer' # Abort /\ req.op = "download" /\ Writable(req.obj)
     /\ answer' = Ack => od'[req.obj].value = req.value]_vars

\* An information request is answered, however long it waits for a buffer.
InfoNotDropped ==
  [][ESC_coeprocess /\ req.op \in InfoOps => answer' # Nothing \/ req' = req]_vars

(***************************************************************************)
(* What comments say and the code does not do.                             *)
(***************************************************************************)
\* "validating the request and sending an response.  On error an SDO Abort will be
\* sent": what is stored is what the master sent.
StoredAsSent == \A o \in Objects : od[o].whole

\* "number of bytes done" (fragsleft): a segment goes on there.
SegmentGoesOn ==
  [][answer'.op = "segment" => answer'.from >= UploadRoom]_vars
=============================================================================
