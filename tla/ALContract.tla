----------------------------- MODULE ALContract -----------------------------
(***************************************************************************)
(* What a master may rely on when it reads AL Status: an abstract AL state *)
(* machine without requests, SyncManagers, watchdog or loop.  A step       *)
(* either follows the EtherCAT state graph, and drives the outputs exactly *)
(* when it arrives in OP, or it is a failure, which raises the error       *)
(* indication, never moves up, and leaves the outputs safe.                *)
(***************************************************************************)
VARIABLES
  st,        \* the AL state
  err,       \* the error indication
  driving    \* whether the outputs are driven

vars == <<st, err, driving>>

Graph ==
  {<<"init", "preop">>, <<"init", "boot">>, <<"boot", "init">>,
   <<"preop", "init">>, <<"preop", "safeop">>, <<"safeop", "init">>,
   <<"safeop", "preop">>, <<"safeop", "op">>, <<"op", "safeop">>,
   <<"op", "preop">>, <<"op", "init">>}

\* Where a failure may leave a slave.  BOOT and PREOP are on the same level.
Fallback == [init   |-> {"init"},
             boot   |-> {"init", "preop", "boot"},
             preop  |-> {"init", "preop"},
             safeop |-> {"init", "preop", "safeop"},
             op     |-> {"init", "preop", "safeop"}]

Init == st = "init" /\ err = FALSE /\ driving = FALSE

Enter ==
  /\ st' = st \/ <<st, st'>> \in Graph
  /\ err' = FALSE
  /\ driving' = (st' = "op")

Fail ==
  /\ st' \in Fallback[st]
  /\ err' = TRUE
  /\ driving' = FALSE

Next == Enter \/ Fail

Spec == Init /\ [][Next]_vars
=============================================================================
