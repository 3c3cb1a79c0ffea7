---------------------------- MODULE EoEService ----------------------------
(***************************************************************************)
(* Ethernet over EtherCAT, the service (src/templates/esc_eoe.c):          *)
(* ESC_eoeprocess gives fragments of frames to EoEReceive and answers the  *)
(* requests that set and get the network parameters, which the application *)
(* sets and gets as well.  Handling a message is one step: it runs to its  *)
(* end in the main loop.  The mailbox is claimed and freed in Mailbox.     *)
(*                                                                         *)
(* The ports 0 and 1 of a message are both the one NIC the slave has       *)
(* (EOE_NUMBER_OF_PORTS, EOE_PORT_INDEX).  The callbacks load_eth_settings *)
(* and store_ethernet_settings are external.                               *)
(*                                                                         *)
(* An operator named X_Y is operator X with a plausible mistake, Y, that   *)
(* breaks one of the properties.                                           *)
(***************************************************************************)
EXTENDS EoEReceive

CONSTANTS
  Params,        \* the parameters, in their order in a message
  Mac,           \* the MAC address, one of them
  Values,        \* their values
  Stale,         \* octets of an earlier message, behind the end of this one
  Ports,         \* values of the port of a message
  StoreResults,  \* what storing the settings returns, NO_IP_SUPPORT without callback
  Loads,         \* load_eth_settings may set parameters
  Buffers        \* mailbox buffers for what is sent

ParamSet == {Params[i] : i \in DOMAIN Params}

ASSUME ServiceAssumption ==
  /\ Params \in Seq(ParamSet)
  /\ Mac \in ParamSet /\ Values \intersect {Stale, "never", "unsure"} = {}
  /\ Ports \subseteq Nat
  /\ Loads \in BOOLEAN /\ Buffers \in Nat

VARIABLES
  nic_ports,  \* nic_ports[p]: set, value
  waiting,    \* number of messages that wait in mailbox buffers to be sent
  \* histories
  answer,     \* the request of the last step, and the response it made
  given,      \* given[p]: the value it was given last, by the master or the application,
              \* "never", or "unsure" when a message ended before it
  named       \* the parameters a request of the master has named

history == <<given, named>>
vars == <<receive, nic_ports, waiting, answer, history>>

EOE_NUMBER_OF_PORTS == 1

None == [request |-> [type |-> "none"]]

---------------------------------------------------------------------------
(***************************************************************************)
(* Responses need a mailbox buffer; without one they are dropped.          *)
(***************************************************************************)
Respond(request, response) ==
  IF waiting < Buffers
  THEN /\ waiting' = waiting + 1
       /\ answer' = [request |-> request, response |-> response]
  ELSE /\ UNCHANGED waiting
       /\ answer' = [request |-> request]

EOE_no_data_response(request, type, port, result) ==
  Respond(request, [type |-> type, port |-> port, result |-> result])

---------------------------------------------------------------------------
(***************************************************************************)
(* The parameters.                                                         *)
(***************************************************************************)
\* A request may end within or before any of the parameters; of those it names the
\* ones behind its end are stored from what the mailbox held before.
Held(n) == {Params[i] : i \in 1 .. n}

Stored_OnlyNamed(flags, n, v) ==
  [p \in ParamSet |-> IF p \in flags
                      THEN [set |-> TRUE, value |-> IF p \in Held(n) THEN v ELSE Stale]
                      ELSE [set |-> FALSE, value |-> nic_ports[p].value]]

Stored(flags, n, v) ==
  [p \in ParamSet |-> IF p \in flags
                      THEN [set |-> TRUE, value |-> IF p \in Held(n) THEN v ELSE Stale]
                      ELSE nic_ports[p]]

StoreResult_NoSize(n) == StoreResults
StoreResult(n) == IF n < Len(Params) THEN {"SIZETOOSHORT"} ELSE StoreResults

EOE_set_ip ==
  \E port \in Ports, flags \in SUBSET ParamSet, n \in 0 .. Len(Params), v \in Values :
    LET request == [type |-> "SET_IP", flags |-> flags, value |-> v]
    IN  IF port > EOE_NUMBER_OF_PORTS
        THEN /\ EOE_no_data_response(request, "INIT_RESP", port, "UNSPECIFIED_ERROR")
             /\ UNCHANGED <<nic_ports, history>>
        ELSE /\ nic_ports' = Stored(flags, n, v)
             /\ given' = [p \in ParamSet |-> IF p \notin flags THEN given[p]
                                             ELSE IF p \in Held(n) THEN v ELSE "unsure"]
             /\ named' = named \union flags
             /\ \E result \in StoreResult(n) :
                  EOE_no_data_response(request, "INIT_RESP", port, result)

\* EOE_ecat_set_mac, EOE_ecat_set_ip, ...: setting the MAC does not mark it as set.
Access(p, v) ==
  /\ nic_ports' = [nic_ports EXCEPT ![p] = [set |-> @.set \/ p # Mac, value |-> v]]
  /\ given' = [given EXCEPT ![p] = v]
  /\ UNCHANGED named

Current(nic) == [p \in {q \in ParamSet : nic[q].set} |-> nic[p].value]

EOE_get_ip ==
  \E port \in Ports :
    LET request == [type |-> "GET_IP"]
    IN  IF port > EOE_NUMBER_OF_PORTS
        THEN /\ EOE_no_data_response(request, "INIT_RESP", port, "UNSPECIFIED_ERROR")
             /\ UNCHANGED <<nic_ports, history>>
        ELSE /\ \/ UNCHANGED <<nic_ports, history>>
                \/ Loads /\ \E p \in ParamSet, v \in Values : Access(p, v)
             /\ Respond(request, [type |-> "GET_IP_PARAM_RESP", port |-> port,
                                  params |-> Current(nic_ports')])

\* ESC_eoeprocess on a message of another kind or without a header.
Unsupported ==
  /\ \E port \in Ports :
       EOE_no_data_response([type |-> "unknown"], "unknown", port, "UNSUPPORTED_FRAME_TYPE")
  /\ UNCHANGED <<nic_ports, history>>

TooShort ==
  /\ EOE_no_data_response([type |-> "short"], "INIT_RESP", 0, "SIZETOOSHORT")
  /\ UNCHANGED <<nic_ports, history>>

ESC_eoeprocess ==
  \/ /\ EOE_receive_fragment
     /\ answer' = None
     /\ UNCHANGED <<nic_ports, history, waiting>>
  \/ /\ EOE_set_ip \/ EOE_get_ip \/ Unsupported \/ TooShort
     /\ UNCHANGED receive

---------------------------------------------------------------------------
Application ==
  /\ \E p \in ParamSet, v \in Values : Access(p, v)
  /\ answer' = None
  /\ UNCHANGED <<receive, waiting>>

\* Other services send, and the master reads what is sent.
OtherSends ==
  /\ waiting < Buffers /\ waiting' = waiting + 1
  /\ answer' = None
  /\ UNCHANGED <<receive, nic_ports, history>>

MasterReads ==
  /\ waiting > 0 /\ waiting' = waiting - 1
  /\ answer' = None
  /\ UNCHANGED <<receive, nic_ports, history>>

\* nic_ports is zeroed memory.
Init ==
  /\ ReceiveInit
  /\ nic_ports = [p \in ParamSet |-> [set |-> FALSE, value |-> Stale]]
  /\ waiting = 0 /\ answer = None
  /\ given = [p \in ParamSet |-> "never"] /\ named = {}

Next == ESC_eoeprocess \/ Application \/ OtherSends \/ MasterReads

Spec == Init /\ [][Next]_vars

---------------------------------------------------------------------------
Answers(type) == "response" \in DOMAIN answer /\ answer.request.type = type

\* The parameters a master gets are among those given, and the ones of a set with the
\* value each was given last, by a master or by the application.
ReportsGiven(set) ==
  Answers("GET_IP") /\ answer.response.type = "GET_IP_PARAM_RESP" =>
    LET params == answer.response.params
    IN  /\ \A p \in DOMAIN params : given[p] # "never"
        /\ \A p \in set : given[p] \in Values => p \in DOMAIN params
                                                /\ params[p] = given[p]

\* A master that gets the parameters finds the value each was given last, by a master
\* or by the application, and none that was never given; but for a MAC address that
\* only the application has given, which EOE_ecat_set_mac does not mark as set.
ReadBack == ReportsGiven((ParamSet \ {Mac}) \union named)

\* A request that is answered with success has set every parameter it names to the
\* value it gives.
SuccessMeansSet ==
  Answers("SET_IP") /\ answer.response.result = "SUCCESS" =>
    \A p \in answer.request.flags :
      nic_ports[p] = [set |-> TRUE, value |-> answer.request.value]

---------------------------------------------------------------------------
(***************************************************************************)
(* What the code does not do: each is violated by a run of its own.        *)
(***************************************************************************)
\* The exception of ReadBack is needed: a MAC address the application has given is
\* read back as well.
AllReadBack == ReportsGiven(ParamSet)

\* A request is answered, whatever else waits to be sent.
RequestAnswered == answer.request.type # "none" => "response" \in DOMAIN answer

\* A request that is refused changes nothing.
RefusedSetsNothing ==
  [][Answers("SET_IP")' /\ answer'.response.result = "SIZETOOSHORT"
       => UNCHANGED nic_ports]_vars
=============================================================================
