----------------------------- MODULE FirstAnswer -----------------------------
(***************************************************************************)
(* What a fan-out read promises its caller, whatever channels and          *)
(* goroutines it is made of: every node is asked once, the caller gets the *)
(* value of some node that answered, and gets an error only when every     *)
(* node failed.  EthReader is shown to implement this specification.       *)
(***************************************************************************)
CONSTANTS
  Nodes,    \* the nodes of the reader
  Values,   \* the values a node may answer with
  Err,      \* a failed call
  Nothing   \* no answer yet

VARIABLES
  reply,    \* reply[n]: the answer of node n
  result    \* what the caller got

vars == <<reply, result>>

Init ==
  /\ reply = [n \in Nodes |-> Nothing]
  /\ result = Nothing

Answer(n) ==
  /\ reply[n] = Nothing
  /\ \E a \in Values \cup {Err} : reply' = [reply EXCEPT ![n] = a]
  /\ UNCHANGED result

Return ==
  /\ result = Nothing
  /\ \E n \in Nodes : reply[n] \in Values /\ result' = reply[n]
  /\ UNCHANGED reply

GiveUp ==
  /\ result = Nothing
  /\ \A n \in Nodes : reply[n] = Err
  /\ result' = Err
  /\ UNCHANGED reply

Next == (\E n \in Nodes : Answer(n)) \/ Return \/ GiveUp

SafeSpec == Init /\ [][Next]_vars

Spec ==
  /\ SafeSpec
  /\ \A n \in Nodes : WF_vars(Answer(n))
  /\ WF_vars(Return \/ GiveUp)
=============================================================================
