------------------------------ MODULE EthReader ------------------------------
(***************************************************************************)
(* One fan-out read of reader.EthReader.  EstimateExactGas, GetCode,       *)
(* GetGasPriceWeiSuggestion, GetBalance, GetMinedNonce, GetPendingNonce,   *)
(* TransactionReceipt, TransactionByHash, ReadContractToBytes,             *)
(* HeaderByNumber, GetLogs and CurrentBlock all have this body: a          *)
(* goroutine per node calls the node and sends the outcome on a channel as *)
(* large as the number of nodes; the caller receives until the first       *)
(* success and returns it, or returns an error that lists every failure.   *)
(* The goroutines that lose the race go on after the caller has returned.  *)
(***************************************************************************)
EXTENDS Naturals, FiniteSets, Sequences

CONSTANTS
  Nodes,    \* keys of self.nodes
  Values,   \* what a node may answer: a nonce, a receipt, a header ...
  Err,      \* a non-nil error
  Nothing   \* no outcome yet

ASSUME NodesFinite == IsFiniteSet(Nodes)
ASSUME Outcomes == Err \notin Values /\ Nothing \notin Values /\ Err # Nothing

VARIABLES
  pc,       \* the caller: "spawn", "collect" or "returned"
  task,     \* task[n]: goroutine of node n: "none", "calling", "sending", "ended"
  reply,    \* reply[n]: outcome of the call on node n (wrapError keeps nil nil)
  resCh,    \* the channel; the element n stands for the record with reply[n]
  i,        \* the receive loop's counter
  errs,     \* the nodes whose errors the caller has collected
  result    \* what the caller returned: a value or Err

vars == <<pc, task, reply, resCh, i, errs, result>>

Init ==
  /\ pc = "spawn"
  /\ task = [n \in Nodes |-> "none"]
  /\ reply = [n \in Nodes |-> Nothing]
  /\ resCh = <<>>
  /\ i = 0
  /\ errs = {}
  /\ result = Nothing

(* Faulty variants of the definitions below: a channel that only has room  *)
(* for the first outcome, a receive loop that stops before the last         *)
(* outcome, a goroutine that reports an expired context as a nil error, and *)
(* a collector that returns the first error.                                *)
ChanCapOne == 1
LoopBoundShort == Cardinality(Nodes) - 1
CallExpiredIsNil(n) ==
  /\ task[n] = "calling"
  /\ task' = [task EXCEPT ![n] = "sending"]
  /\ \E a \in Values \cup {Err, "nil"} : reply' = [reply EXCEPT ![n] = a]
  /\ UNCHANGED <<pc, resCh, i, errs, result>>
ReceiveErrorReturns ==
  /\ pc = "collect" /\ i < Cardinality(Nodes) /\ resCh # <<>>
  /\ reply[Head(resCh)] = Err
  /\ result' = Err /\ pc' = "returned"
  /\ resCh' = Tail(resCh)
  /\ UNCHANGED <<task, reply, i, errs>>

ChanCap == Cardinality(Nodes)

LoopBound == Cardinality(Nodes)

(* for i := range self.nodes { n := self.nodes[i]; go func() { ... }() } *)
Spawn(n) ==
  /\ pc = "spawn"
  /\ task[n] = "none"
  /\ task' = [task EXCEPT ![n] = "calling"]
  /\ UNCHANGED <<pc, reply, resCh, i, errs, result>>

SpawnedAll ==
  /\ pc = "spawn"
  /\ \A n \in Nodes : task[n] # "none"
  /\ pc' = "collect"
  /\ UNCHANGED <<task, reply, resCh, i, errs, result>>

(* The call on the node ends, at the latest when its 4 s context expires. *)
Call(n) ==
  /\ task[n] = "calling"
  /\ task' = [task EXCEPT ![n] = "sending"]
  /\ \E a \in Values \cup {Err} : reply' = [reply EXCEPT ![n] = a]
  /\ UNCHANGED <<pc, resCh, i, errs, result>>

(* resCh <- response: waits while the channel is full. *)
Send(n) ==
  /\ task[n] = "sending"
  /\ Len(resCh) < ChanCap
  /\ resCh' = Append(resCh, n)
  /\ task' = [task EXCEPT ![n] = "ended"]
  /\ UNCHANGED <<pc, reply, i, errs, result>>

ReceiveValue ==
  /\ pc = "collect" /\ i < LoopBound /\ resCh # <<>>
  /\ reply[Head(resCh)] \in Values
  /\ result' = reply[Head(resCh)]
  /\ pc' = "returned"
  /\ resCh' = Tail(resCh)
  /\ UNCHANGED <<task, reply, i, errs>>

ReceiveError ==
  /\ pc = "collect" /\ i < LoopBound /\ resCh # <<>>
  /\ reply[Head(resCh)] = Err
  /\ errs' = errs \cup {Head(resCh)}
  /\ i' = i + 1
  /\ resCh' = Tail(resCh)
  /\ UNCHANGED <<pc, task, reply, result>>

GiveUp ==
  /\ pc = "collect" /\ i = LoopBound
  /\ result' = Err
  /\ pc' = "returned"
  /\ UNCHANGED <<task, reply, resCh, i, errs>>

(* Nothing is left to run: the caller has returned, every goroutine too. *)
Finished ==
  /\ pc = "returned"
  /\ \A n \in Nodes : task[n] = "ended"
  /\ UNCHANGED vars

Next ==
  \/ \E n \in Nodes : Spawn(n) \/ Call(n) \/ Send(n)
  \/ SpawnedAll
  \/ ReceiveValue
  \/ ReceiveError
  \/ GiveUp
  \/ Finished

SafeSpec == Init /\ [][Next]_vars

(* Runnable goroutines are scheduled, and a call on a node ends by its      *)
(* timeout; which outcome it has is left open.                              *)
Fairness ==
  /\ \A n \in Nodes : WF_vars(Spawn(n)) /\ WF_vars(Call(n)) /\ WF_vars(Send(n))
  /\ WF_vars(SpawnedAll)
  /\ WF_vars(ReceiveValue \/ ReceiveError \/ GiveUp)

Spec == SafeSpec /\ Fairness

-----------------------------------------------------------------------------
TypeOK ==
  /\ pc \in {"spawn", "collect", "returned"}
  /\ task \in [Nodes -> {"none", "calling", "sending", "ended"}]
  /\ reply \in [Nodes -> Values \cup {Err, Nothing}]
  /\ resCh \in Seq(Nodes)
  /\ i \in Nat
  /\ errs \in SUBSET Nodes
  /\ result \in Values \cup {Err, Nothing}

(* A goroutine that has its outcome never waits for room in the channel,    *)
(* not even after the caller has returned and receives no more: this is     *)
(* what make(chan T, len(self.nodes)) is for.                               *)
SendNeverBlocks ==
  \A n \in Nodes : task[n] = "sending" => Len(resCh) < ChanCap

(* The read fails only when no node succeeded, and the error it builds with *)
(* errorInfo(errs) names every node of the reader.                          *)
ErrorNamesEveryNode ==
  pc = "returned" /\ result = Err =>
    errs = Nodes /\ \A n \in Nodes : reply[n] = Err

(* A value is returned as soon as it is received: it is the answer of a     *)
(* node the caller had not counted among the failures, and the errors that  *)
(* came first are dropped.                                                  *)
ValueIsAnAnswer ==
  /\ result \in Values => pc = "returned"
  /\ result \in Values =>
       \E n \in Nodes \ errs : task[n] = "ended" /\ reply[n] = result

(* No goroutine outlives its call for ever.                                 *)
NoGoroutineLeft == <>[](\A n \in Nodes : task[n] = "ended")

(* The channels and goroutines implement the abstract read.                 *)
Abstract == INSTANCE FirstAnswer WITH reply <- reply, result <- result
ImplementsFirstAnswer == Abstract!Spec
=============================================================================
