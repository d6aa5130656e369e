----------------------------- MODULE AllOutcomes -----------------------------
(***************************************************************************)
(* What a broadcast promises its caller, whatever goroutines, wait groups  *)
(* and counters it is made of: every client's request has one outcome, the *)
(* caller gets the failed ones, all of them and no other, and a bool that  *)
(* tells whether there is an acknowledged one.  Broadcaster is shown to    *)
(* implement this specification.                                           *)
(***************************************************************************)
CONSTANT Nodes

VARIABLES
  clients,    \* the nodes that are asked
  outcome,    \* outcome[n]: "none" yet, "acknowledged" or "failed"
  returned,
  failed,     \* the failures returned
  sent        \* the bool returned

vars == <<clients, outcome, returned, failed, sent>>

Init ==
  /\ clients \in SUBSET Nodes
  /\ outcome = [n \in Nodes |-> "none"]
  /\ returned = FALSE
  /\ failed = {}
  /\ sent = FALSE

Settle(n) ==
  /\ n \in clients /\ outcome[n] = "none"
  /\ \E o \in {"acknowledged", "failed"} : outcome' = [outcome EXCEPT ![n] = o]
  /\ UNCHANGED <<clients, returned, failed, sent>>

Return ==
  /\ ~ returned
  /\ \A n \in clients : outcome[n] # "none"
  /\ returned' = TRUE
  /\ failed' = {n \in clients : outcome[n] = "failed"}
  /\ sent' = (\E n \in clients : outcome[n] = "acknowledged")
  /\ UNCHANGED <<clients, outcome>>

Next == (\E n \in Nodes : Settle(n)) \/ Return

SafeSpec == Init /\ [][Next]_vars

Spec ==
  /\ SafeSpec
  /\ \A n \in Nodes : WF_vars(Settle(n))
  /\ WF_vars(Return)
=============================================================================
