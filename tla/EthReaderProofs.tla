--------------------------- MODULE EthReaderProofs ---------------------------
(***************************************************************************)
(* Proofs about the fan-out read, for every set of nodes and of answers,   *)
(* and about MultipleCall, which makes its reads so.                       *)
(***************************************************************************)
EXTENDS EthReader, MultiCall, FiniteSetTheorems, TLAPS

Ended == {n \in Nodes : task[n] = "ended"}

(* The loop counter is the number of failures collected. *)
CounterOK ==
  /\ i = Cardinality(errs)
  /\ \A n \in errs : task[n] = "ended" /\ reply[n] = Err

(* A node has an outcome from the end of its call on. *)
ReplyOK ==
  \A n \in Nodes : task[n] \in {"sending", "ended"} <=> reply[n] # Nothing

(* The channel holds outcomes sent and not yet received, each once. *)
ChannelOK ==
  /\ Len(resCh) <= Cardinality(Ended)
  /\ \A k \in 1..Len(resCh) : task[resCh[k]] = "ended" /\ resCh[k] \notin errs
  /\ \A k, l \in 1..Len(resCh) : resCh[k] = resCh[l] => k = l

(* The caller has a result exactly when it has returned. *)
ResultOK ==
  /\ pc = "returned" <=> result # Nothing
  /\ result = Err => i = LoopBound
  /\ result \in Values =>
       \E n \in Nodes \ errs : task[n] = "ended" /\ reply[n] = result

(* Until the caller returns, an outcome that was sent is in the channel or   *)
(* among the failures, and a caller in its loop has started every goroutine. *)
KeptOK ==
  /\ pc # "returned" =>
       \A n \in Nodes :
         task[n] = "ended" => n \in errs \/ \E k \in 1..Len(resCh) : resCh[k] = n
  /\ pc # "spawn" => \A n \in Nodes : task[n] # "none"

Inv == TypeOK /\ CounterOK /\ ReplyOK /\ ChannelOK /\ ResultOK

-----------------------------------------------------------------------------
(* Finite subsets of the nodes and their cardinalities. *)
LEMMA NodeSets ==
  ASSUME NEW S \in SUBSET Nodes
  PROVE  /\ IsFiniteSet(S)
         /\ Cardinality(S) \in Nat
         /\ Cardinality(S) <= Cardinality(Nodes)
         /\ Cardinality(S) = Cardinality(Nodes) => S = Nodes
BY NodesFinite, FS_Subset, FS_CardinalityType

LEMMA NodesCount == Cardinality(Nodes) \in Nat
BY NodesFinite, FS_CardinalityType

(* Init makes the invariant true. *)
LEMMA InitInv == Init => Inv
<1> SUFFICES ASSUME Init PROVE Inv
  OBVIOUS
<1> USE DEF Init
<1>1. Cardinality({}) = 0
  BY FS_EmptySet
<1>2. Ended \in SUBSET Nodes
  BY DEF Ended
<1>3. Cardinality(Ended) \in Nat
  BY <1>2, NodeSets
<1>4. TypeOK
  BY DEF TypeOK
<1>5. CounterOK
  BY <1>1 DEF CounterOK
<1>6. ReplyOK
  BY DEF ReplyOK
<1>7. ChannelOK
  BY <1>3 DEF ChannelOK
<1>8. ResultOK
  BY Outcomes DEF ResultOK
<1> QED
  BY <1>4, <1>5, <1>6, <1>7, <1>8 DEF Inv

(* Receiving shortens the channel and keeps what ChannelOK says of the rest. *)
LEMMA HeadOfChannel ==
  ASSUME TypeOK, ChannelOK, resCh # <<>>
  PROVE  /\ Head(resCh) \in Nodes
         /\ Head(resCh) \notin errs
         /\ task[Head(resCh)] = "ended"
         /\ Tail(resCh) \in Seq(Nodes)
         /\ Len(Tail(resCh)) = Len(resCh) - 1
         /\ \A k \in 1..Len(Tail(resCh)) :
              Tail(resCh)[k] = resCh[k + 1] /\ Tail(resCh)[k] # Head(resCh)
<1>1. resCh \in Seq(Nodes) /\ Len(resCh) \in Nat /\ Len(resCh) >= 1
  BY DEF TypeOK
<1>2. Head(resCh) = resCh[1] /\ 1 \in 1..Len(resCh)
  BY <1>1
<1>3. Tail(resCh) \in Seq(Nodes) /\ Len(Tail(resCh)) = Len(resCh) - 1
  BY <1>1
<1>4. \A k \in 1..Len(Tail(resCh)) :
        Tail(resCh)[k] = resCh[k + 1] /\ k + 1 \in 1..Len(resCh) /\ k + 1 # 1
  BY <1>1, <1>3
<1> QED
  BY <1>1, <1>2, <1>3, <1>4 DEF ChannelOK

-----------------------------------------------------------------------------
(* Each action preserves the invariant. *)
LEMMA SpawnInv == ASSUME Inv, NEW n \in Nodes, Spawn(n) PROVE Inv'
<1> USE DEF Inv, Spawn
<1>1. TypeOK'
  BY DEF TypeOK
<1>2. Ended' = Ended
  BY DEF Ended, TypeOK
<1>3. CounterOK'
  BY DEF CounterOK, TypeOK
<1>4. ReplyOK'
  BY DEF ReplyOK, TypeOK
<1>5. ChannelOK'
  BY <1>2 DEF ChannelOK, TypeOK
<1>6. ResultOK'
  BY DEF ResultOK, LoopBound, TypeOK
<1> QED
  BY <1>1, <1>3, <1>4, <1>5, <1>6

LEMMA SpawnedAllInv == ASSUME Inv, SpawnedAll PROVE Inv'
BY DEF Inv, SpawnedAll, TypeOK, CounterOK, ReplyOK, ChannelOK, ResultOK,
       Ended, LoopBound

LEMMA CallInv == ASSUME Inv, NEW n \in Nodes, Call(n) PROVE Inv'
<1> USE DEF Inv, Call
<1>1. TypeOK'
  BY DEF TypeOK
<1>2. Ended' = Ended
  BY DEF Ended, TypeOK
<1>3. CounterOK'
  BY DEF CounterOK, TypeOK
<1>4. ReplyOK'
  BY Outcomes DEF ReplyOK, TypeOK
<1>5. ChannelOK'
  BY <1>2 DEF ChannelOK, TypeOK
<1>6. ResultOK'
  BY DEF ResultOK, LoopBound, TypeOK
<1> QED
  BY <1>1, <1>3, <1>4, <1>5, <1>6

LEMMA SendInv == ASSUME Inv, NEW n \in Nodes, Send(n) PROVE Inv'
<1> USE DEF Inv, Send
<1>1. TypeOK'
  BY DEF TypeOK
<1>2. /\ Ended' = Ended \cup {n}
      /\ n \notin Ended
      /\ Ended \in SUBSET Nodes
  BY DEF Ended, TypeOK
<1>3. Cardinality(Ended') = Cardinality(Ended) + 1 /\ Cardinality(Ended) \in Nat
  BY <1>2, NodeSets, FS_AddElement
<1>4. CounterOK'
  BY DEF CounterOK, TypeOK
<1>5. ReplyOK'
  BY DEF ReplyOK, TypeOK
<1>6. /\ Len(resCh') = Len(resCh) + 1
      /\ Len(resCh) \in Nat
      /\ resCh'[Len(resCh) + 1] = n
      /\ \A k \in 1..Len(resCh) : resCh'[k] = resCh[k] /\ resCh[k] \in Nodes
  BY DEF TypeOK
<1>7. n \notin errs
  BY DEF CounterOK, TypeOK
<1>8. \A k \in 1..Len(resCh) : resCh[k] # n
  BY DEF ChannelOK, TypeOK
<1>9. ChannelOK'
  <2>1. Len(resCh') <= Cardinality(Ended')
    BY <1>3, <1>6 DEF ChannelOK
  <2>2. ASSUME NEW k \in 1..Len(resCh')
        PROVE  task'[resCh'[k]] = "ended" /\ resCh'[k] \notin errs'
    <3>1. CASE k \in 1..Len(resCh)
      BY <1>6, <3>1 DEF ChannelOK, TypeOK
    <3>2. CASE k = Len(resCh) + 1
      BY <1>6, <1>7, <3>2 DEF TypeOK
    <3> QED
      BY <1>6, <3>1, <3>2
  <2>3. ASSUME NEW k \in 1..Len(resCh'), NEW l \in 1..Len(resCh'),
               resCh'[k] = resCh'[l]
        PROVE  k = l
    <3>1. k \in 1..Len(resCh) \/ k = Len(resCh) + 1
      BY <1>6
    <3>2. l \in 1..Len(resCh) \/ l = Len(resCh) + 1
      BY <1>6
    <3> QED
      BY <1>6, <1>8, <2>3, <3>1, <3>2 DEF ChannelOK
  <2> QED
    BY <2>1, <2>2, <2>3 DEF ChannelOK
<1>10. ResultOK'
  BY DEF ResultOK, LoopBound, TypeOK
<1> QED
  BY <1>1, <1>4, <1>5, <1>9, <1>10

(* What a receive of either kind leaves of the channel. *)
LEMMA TailOK ==
  ASSUME Inv, resCh # <<>>, resCh' = Tail(resCh), task' = task,
         errs' \in {errs, errs \cup {Head(resCh)}}
  PROVE  ChannelOK'
<1> DEFINE q == Tail(resCh)
<1>1. /\ q \in Seq(Nodes)
      /\ Len(q) = Len(resCh) - 1
      /\ \A k \in 1..Len(q) : q[k] = resCh[k + 1] /\ q[k] # Head(resCh)
  BY HeadOfChannel DEF Inv
<1>2. Len(resCh) \in Nat /\ Len(q) \in Nat
  BY <1>1 DEF Inv, TypeOK
<1>3. Ended' = Ended /\ Ended \in SUBSET Nodes
  BY DEF Ended
<1>4. Cardinality(Ended) \in Nat
  BY <1>3, NodeSets
<1>5. Len(q) <= Cardinality(Ended')
  BY <1>1, <1>2, <1>3, <1>4 DEF Inv, ChannelOK
<1>6. \A k \in 1..Len(q) : task[q[k]] = "ended" /\ q[k] \notin errs'
  BY <1>1, <1>2 DEF Inv, ChannelOK
<1>7. \A k, l \in 1..Len(q) : q[k] = q[l] => k = l
  <2> SUFFICES ASSUME NEW k \in 1..Len(q), NEW l \in 1..Len(q), q[k] = q[l]
               PROVE  k = l
    OBVIOUS
  <2>1. k + 1 \in 1..Len(resCh) /\ l + 1 \in 1..Len(resCh)
    BY <1>1, <1>2
  <2>2. resCh[k + 1] = resCh[l + 1]
    BY <1>1
  <2>3. k + 1 = l + 1
    BY <2>1, <2>2 DEF Inv, ChannelOK
  <2> QED
    BY <1>2, <2>3
<1> QED
  BY <1>5, <1>6, <1>7 DEF ChannelOK

LEMMA ReceiveValueInv == ASSUME Inv, ReceiveValue PROVE Inv'
<1> USE DEF Inv, ReceiveValue
<1>1. Head(resCh) \in Nodes \ errs /\ task[Head(resCh)] = "ended"
  BY HeadOfChannel
<1>2. TypeOK'
  BY HeadOfChannel DEF TypeOK
<1>3. CounterOK'
  BY DEF CounterOK
<1>4. ReplyOK'
  BY DEF ReplyOK
<1>5. ChannelOK'
  BY TailOK
<1>6. ResultOK'
  BY <1>1, Outcomes DEF ResultOK
<1> QED
  BY <1>2, <1>3, <1>4, <1>5, <1>6

LEMMA ReceiveErrorInv == ASSUME Inv, ReceiveError PROVE Inv'
<1> USE DEF Inv, ReceiveError
<1>1. Head(resCh) \in Nodes \ errs /\ task[Head(resCh)] = "ended"
  BY HeadOfChannel
<1>2. TypeOK'
  BY HeadOfChannel DEF TypeOK
<1>3. CounterOK'
  <2>1. IsFiniteSet(errs)
    BY NodeSets DEF TypeOK
  <2>2. Cardinality(errs') = Cardinality(errs) + 1
    BY <1>1, <2>1, FS_AddElement
  <2> QED
    BY <1>1, <2>2 DEF CounterOK
<1>4. ReplyOK'
  BY DEF ReplyOK
<1>5. ChannelOK'
  BY TailOK
<1>6. ResultOK'
  BY DEF ResultOK, TypeOK
<1> QED
  BY <1>2, <1>3, <1>4, <1>5, <1>6

LEMMA GiveUpInv == ASSUME Inv, GiveUp PROVE Inv'
BY Outcomes DEF Inv, GiveUp, TypeOK, CounterOK, ReplyOK, ChannelOK, ResultOK,
       Ended, LoopBound

LEMMA StepInv == Inv /\ [Next]_vars => Inv'
<1> SUFFICES ASSUME Inv, [Next]_vars PROVE Inv'
  OBVIOUS
<1>1. ASSUME NEW n \in Nodes, Spawn(n) PROVE Inv'
  BY <1>1, SpawnInv
<1>2. ASSUME NEW n \in Nodes, Call(n) PROVE Inv'
  BY <1>2, CallInv
<1>3. ASSUME NEW n \in Nodes, Send(n) PROVE Inv'
  BY <1>3, SendInv
<1>4. CASE SpawnedAll
  BY <1>4, SpawnedAllInv
<1>5. CASE ReceiveValue
  BY <1>5, ReceiveValueInv
<1>6. CASE ReceiveError
  BY <1>6, ReceiveErrorInv
<1>7. CASE GiveUp
  BY <1>7, GiveUpInv
<1>8. CASE UNCHANGED vars
  BY <1>8 DEF Inv, TypeOK, CounterOK, ReplyOK, ChannelOK, ResultOK,
              Ended, LoopBound, vars
<1> QED
  BY <1>1, <1>2, <1>3, <1>4, <1>5, <1>6, <1>7, <1>8 DEF Next, Finished

(* The strengthened invariant holds of every behaviour of the read. *)
THEOREM Invariance == Spec => []Inv
<1>1. Init => Inv
  BY InitInv
<1>2. Inv /\ [Next]_vars => Inv'
  BY StepInv
<1> QED
  BY <1>1, <1>2, PTL DEF Spec, SafeSpec

-----------------------------------------------------------------------------
(* The typing of the read's state, whatever the nodes answer. *)
THEOREM TypeCorrect == Spec => []TypeOK
BY Invariance, PTL DEF Inv

(* No goroutine of the fan-out ever waits for room in resCh: outcomes are   *)
(* sent once per node, and the channel has a place for every node.          *)
THEOREM NeverBlocks == Spec => []SendNeverBlocks
<1>1. Inv => SendNeverBlocks
  <2> SUFFICES ASSUME Inv, NEW n \in Nodes, task[n] = "sending"
               PROVE  Len(resCh) < ChanCap
    BY DEF SendNeverBlocks
  <2>1. Ended \in SUBSET Nodes /\ n \notin Ended
    BY DEF Ended
  <2>2. /\ Cardinality(Ended) \in Nat
        /\ Cardinality(Ended) <= Cardinality(Nodes)
        /\ Cardinality(Ended) # Cardinality(Nodes)
    BY <2>1, NodeSets
  <2>3. Len(resCh) \in Nat /\ Len(resCh) <= Cardinality(Ended)
    BY DEF Inv, ChannelOK, TypeOK
  <2> QED
    BY <2>2, <2>3, NodesCount DEF ChanCap
<1> QED
  BY <1>1, Invariance, PTL

LEMMA ErrorOK == Inv => ErrorNamesEveryNode
<1> SUFFICES ASSUME Inv, pc = "returned", result = Err
             PROVE  errs = Nodes /\ \A n \in Nodes : reply[n] = Err
  BY DEF ErrorNamesEveryNode
<1>1. Cardinality(errs) = Cardinality(Nodes)
  BY DEF Inv, CounterOK, ResultOK, LoopBound
<1>2. errs = Nodes
  BY <1>1, NodeSets DEF Inv, TypeOK
<1> QED
  BY <1>2 DEF Inv, CounterOK

(* A failed read reports the failure of every node of the reader. *)
THEOREM ErrorComplete == Spec => []ErrorNamesEveryNode
BY Invariance, ErrorOK, PTL

(* A value handed to the caller is the answer of a node. *)
THEOREM ValueSound == Spec => []ValueIsAnAnswer
<1>1. Inv => ValueIsAnAnswer
  BY Outcomes DEF Inv, ResultOK, ValueIsAnAnswer
<1> QED
  BY <1>1, Invariance, PTL

-----------------------------------------------------------------------------
(* KeptOK, given the rest of the invariant. *)
LEMMA KeptStep == ASSUME Inv, KeptOK, [Next]_vars PROVE KeptOK'
<1> USE DEF Inv, KeptOK, TypeOK
<1>1. ASSUME NEW m \in Nodes, Spawn(m) PROVE KeptOK'
  BY <1>1 DEF Spawn
<1>2. ASSUME NEW m \in Nodes, Call(m) PROVE KeptOK'
  BY <1>2 DEF Call
<1>3. ASSUME NEW m \in Nodes, Send(m) PROVE KeptOK'
  <2>1. /\ Len(resCh) \in Nat /\ Len(resCh') = Len(resCh) + 1
        /\ resCh'[Len(resCh) + 1] = m
        /\ \A k \in 1..Len(resCh) : resCh'[k] = resCh[k]
    BY <1>3 DEF Send
  <2>2. ASSUME NEW n \in Nodes, pc # "returned", task'[n] = "ended"
        PROVE  n \in errs \/ \E k \in 1..Len(resCh') : resCh'[k] = n
    <3>1. CASE n = m
      BY <2>1, <3>1
    <3>2. CASE n # m
      <4>1. task[n] = "ended"
        BY <1>3, <2>2, <3>2 DEF Send
      <4> QED
        BY <2>1, <2>2, <4>1
    <3> QED
      BY <3>1, <3>2
  <2> QED
    BY <1>3, <2>2 DEF Send
<1>4. CASE SpawnedAll
  BY <1>4 DEF SpawnedAll
<1>5. CASE ReceiveError
  <2>1. /\ Len(resCh) \in Nat /\ Len(resCh') = Len(resCh) - 1
        /\ Head(resCh) = resCh[1]
        /\ \A k \in 1..Len(resCh') : resCh'[k] = resCh[k + 1]
    BY <1>5, HeadOfChannel DEF ReceiveError
  <2>2. ASSUME NEW n \in Nodes, task[n] = "ended"
        PROVE  n \in errs' \/ \E k \in 1..Len(resCh') : resCh'[k] = n
    <3>1. n \in errs \/ \E k \in 1..Len(resCh) : resCh[k] = n
      BY <1>5, <2>2 DEF ReceiveError
    <3>2. ASSUME NEW k \in 1..Len(resCh), resCh[k] = n, k # 1
          PROVE  \E l \in 1..Len(resCh') : resCh'[l] = n
      <4>1. k - 1 \in 1..Len(resCh') /\ (k - 1) + 1 = k
        BY <2>1, <3>2
      <4> QED
        BY <2>1, <3>2, <4>1
    <3> QED
      BY <1>5, <2>1, <3>1, <3>2 DEF ReceiveError
  <2> QED
    BY <1>5, <2>2 DEF ReceiveError
<1>6. CASE ReceiveValue \/ GiveUp
  BY <1>6 DEF ReceiveValue, GiveUp
<1>7. CASE UNCHANGED vars
  BY <1>7 DEF vars
<1> QED
  BY <1>1, <1>2, <1>3, <1>4, <1>5, <1>6, <1>7 DEF Next, Finished

(* Something is left to run until the caller has returned and no goroutine  *)
(* is left: one to start, one whose call ends by its timeout, one with room *)
(* for its outcome, an outcome to receive, or the loop's end.               *)
NeverStuck ==
  \/ pc = "returned" /\ \A n \in Nodes : task[n] = "ended"
  \/ pc = "spawn"
  \/ \E n \in Nodes : task[n] = "calling"
  \/ \E n \in Nodes : task[n] = "sending" /\ Len(resCh) < ChanCap
  \/ pc = "collect" /\ (resCh # <<>> \/ i = LoopBound)

(* The loop of the fan-out never receives from a channel nobody will send   *)
(* on: as long as it has not counted every node a goroutine is running or   *)
(* an outcome is waiting; and no goroutine waits for the loop.              *)
THEOREM LoopIsServed == Spec => []NeverStuck
<1>1. Init => KeptOK
  BY DEF Init, KeptOK
<1>2. Inv /\ KeptOK /\ SendNeverBlocks => NeverStuck
  <2> SUFFICES ASSUME Inv, KeptOK, SendNeverBlocks, pc # "spawn",
                      \A n \in Nodes : task[n] \notin {"calling", "sending"}
               PROVE  \/ pc = "returned" /\ \A n \in Nodes : task[n] = "ended"
                      \/ pc = "collect" /\ (resCh # <<>> \/ i = LoopBound)
    BY DEF NeverStuck, SendNeverBlocks
  <2>1. \A n \in Nodes : task[n] = "ended"
    BY DEF KeptOK, Inv, TypeOK
  <2>2. CASE errs = Nodes
    BY <2>1, <2>2 DEF Inv, TypeOK, CounterOK, LoopBound
  <2>3. CASE \E n \in Nodes : n \notin errs
    BY <2>1, <2>3 DEF KeptOK, Inv, TypeOK
  <2> QED
    BY <2>2, <2>3 DEF Inv, TypeOK
<1>3. Inv /\ KeptOK /\ [Next]_vars => KeptOK'
  BY KeptStep
<1> QED
  BY <1>1, <1>2, <1>3, Invariance, NeverBlocks, PTL DEF Spec, SafeSpec

-----------------------------------------------------------------------------
(* Goroutines, channel and loop implement the abstract read: each step is   *)
(* an answer, the return of a value, giving up, or invisible.               *)
THEOREM ImplementsSafely == Spec => Abstract!SafeSpec
<1>1. Init => Abstract!Init
  BY DEF Init, Abstract!Init
<1>2. Inv /\ [Next]_vars => [Abstract!Next]_(Abstract!vars)
  <2> SUFFICES ASSUME Inv, [Next]_vars, ~ UNCHANGED Abstract!vars
               PROVE  Abstract!Next
    OBVIOUS
  <2> USE DEF Abstract!vars
  <2>1. ASSUME NEW n \in Nodes, Call(n) PROVE Abstract!Answer(n)
    BY <2>1 DEF Call, Abstract!Answer, Inv, ReplyOK, TypeOK
  <2>2. CASE ReceiveValue
    <3>1. Head(resCh) \in Nodes /\ result = Nothing
      BY <2>2, HeadOfChannel DEF ReceiveValue, Inv, ResultOK
    <3> QED
      BY <2>2, <3>1 DEF ReceiveValue, Abstract!Next, Abstract!Return
  <2>3. CASE GiveUp
    <3>1. result = Nothing
      BY <2>3 DEF GiveUp, Inv, ResultOK
    <3>2. Cardinality(errs) = Cardinality(Nodes)
      BY <2>3 DEF GiveUp, LoopBound, Inv, CounterOK
    <3>3. errs = Nodes
      BY <3>2, NodeSets DEF Inv, TypeOK
    <3> QED
      BY <2>3, <3>1, <3>3 DEF GiveUp, Inv, CounterOK,
                              Abstract!Next, Abstract!GiveUp
  <2>4. ASSUME NEW n \in Nodes, Spawn(n) \/ Send(n) PROVE FALSE
    BY <2>4 DEF Spawn, Send
  <2>5. ~ SpawnedAll /\ ~ ReceiveError /\ ~ UNCHANGED vars
    BY DEF SpawnedAll, ReceiveError, vars
  <2> QED
    BY <2>1, <2>2, <2>3, <2>4, <2>5 DEF Next, Finished, Abstract!Next
<1> QED
  BY <1>1, <1>2, Invariance, PTL DEF Spec, SafeSpec, Abstract!SafeSpec
-----------------------------------------------------------------------------
(* MultipleCall, which reads through a reader, whatever the blocks and      *)
(* however many calls, calls of Do and hooks.                               *)

(* Registered calls are never taken away, and the loops stay in the range   *)
(* they were started for.                                                   *)
MultiTypes ==
  /\ results \in Seq(Blocks \cup {Unset})
  /\ answer \in Blocks \cup {Unset}
  /\ at \in {"idle", "unpack", "hooks"}
  /\ calls \in Nat /\ calls <= Len(results)
  /\ next \in Nat /\ next >= 1 /\ next <= calls + 1

(* The results before the counter are of this answer, and no hook has run   *)
(* while there is one after it.                                             *)
Unpacking ==
  at = "unpack" =>
    ran = <<>> /\ \A k \in 1..calls : k < next => results[k] = answer

Hooking ==
  at = "hooks" =>
    /\ \A k \in 1..calls : results[k] = answer
    /\ ran = [k \in 1..(next - 1) |-> k]

MultiInv == MultiTypes /\ Unpacking /\ Hooking

LEMMA InitMultiInv == MultiInit => MultiInv
BY DEF MultiInit, MultiInv, MultiTypes, Unpacking, Hooking, Unset

LEMMA RegisterMultiInv == ASSUME MultiInv, Register PROVE MultiInv'
BY DEF MultiInv, MultiTypes, Unpacking, Hooking, Register, Unset

LEMMA DoMultiInv == ASSUME MultiInv, Do PROVE MultiInv'
BY DEF MultiInv, MultiTypes, Unpacking, Hooking, Do, Fail

LEMMA UnpackMultiInv == ASSUME MultiInv, Unpack PROVE MultiInv'
BY DEF MultiInv, MultiTypes, Unpacking, Hooking, Unpack

LEMMA UnpackedMultiInv == ASSUME MultiInv, Unpacked PROVE MultiInv'
BY DEF MultiInv, MultiTypes, Unpacking, Hooking, Unpacked

(* The hooks that have run, with one more. *)
LEMMA CountedOn ==
  ASSUME NEW m \in Nat
  PROVE  Append([k \in 1..m |-> k], m + 1) = [k \in 1..(m + 1) |-> k]
<1> DEFINE s == [k \in 1..m |-> k]
<1>1. s \in Seq(Nat) /\ Len(s) = m
  OBVIOUS
<1>2. Append(s, m + 1) = [k \in 1..(m + 1) |-> IF k = m + 1 THEN m + 1 ELSE s[k]]
  BY <1>1
<1>3. \A k \in 1..(m + 1) : (IF k = m + 1 THEN m + 1 ELSE s[k]) = k
  OBVIOUS
<1> QED
  BY <1>2, <1>3

LEMMA HookMultiInv == ASSUME MultiInv, Hook PROVE MultiInv'
<1> DEFINE Results == Blocks \cup {Unset}
<1>1. results' = results \/ results' = Append(results, Unset)
  BY DEF Hook
<1>2. /\ results \in Seq(Results) /\ calls <= Len(results)
      /\ calls \in Nat /\ Unset \in Results
  BY DEF MultiInv, MultiTypes
<1>3. /\ results' \in Seq(Results) /\ calls <= Len(results')
      /\ \A k \in 1..calls : results'[k] = results[k]
  <2> HIDE DEF Results
  <2> QED
    BY <1>1, <1>2
<1>4. MultiTypes'
  BY <1>3 DEF MultiInv, MultiTypes, Hook
<1>5. ran' = [k \in 1..next |-> k]
  <2>1. next - 1 \in Nat /\ (next - 1) + 1 = next
    BY DEF MultiInv, MultiTypes
  <2>2. ran' = Append([k \in 1..(next - 1) |-> k], next)
    BY DEF MultiInv, Hooking, Hook
  <2> QED
    BY <2>1, <2>2, CountedOn
<1>6. next' - 1 = next /\ calls' = calls /\ answer' = answer /\ at' = "hooks"
  BY DEF MultiInv, MultiTypes, Hook
<1>7. \A k \in 1..calls : results[k] = answer
  BY DEF MultiInv, Hooking, Hook
<1> QED
  BY <1>3, <1>4, <1>5, <1>6, <1>7 DEF MultiInv, Unpacking, Hooking

LEMMA ReturnMultiInv ==
  ASSUME MultiInv, UnpackFails \/ HookFails \/ DoReturns
  PROVE  MultiInv'
BY DEF MultiInv, MultiTypes, Unpacking, Hooking, UnpackFails,
       HookFails, DoReturns, Fail

LEMMA StepMultiInv == MultiInv /\ [MultiNext]_multiVars => MultiInv'
<1>1. ASSUME MultiInv, UNCHANGED multiVars PROVE MultiInv'
  BY <1>1 DEF MultiInv, MultiTypes, Unpacking, Hooking, multiVars
<1> QED
  BY <1>1, RegisterMultiInv, DoMultiInv, UnpackMultiInv, UnpackedMultiInv,
     HookMultiInv, ReturnMultiInv DEF MultiNext

LEMMA MultiInvariance == MultiSpec => []MultiInv
BY InitMultiInv, StepMultiInv, PTL DEF MultiSpec

(* Whatever an earlier Do left behind, a hook finds the results of one      *)
(* answer.                                                                  *)
THEOREM HooksConsistent == MultiSpec => HooksSeeOneBlock
<1> DEFINE Seen == ran' # ran /\ ran' # <<>> => \A k \in 1..calls : results[k] = answer
<1>1. MultiInv /\ [MultiNext]_multiVars => [Seen]_multiVars
  <2> SUFFICES ASSUME MultiInv, MultiNext, ran' # ran, ran' # <<>>
               PROVE  \A k \in 1..calls : results[k] = answer
    OBVIOUS
  <2>1. Hook
    BY DEF MultiNext, Register, Do, Unpack, UnpackFails,
           Unpacked, HookFails, DoReturns
  <2> QED
    BY <2>1 DEF Hook, MultiInv, Hooking
<1> QED
  BY <1>1, MultiInvariance, PTL DEF MultiSpec, HooksSeeOneBlock

(* Do succeeds only with every hook run, each once and in order, on results *)
(* of the block it returns.                                                 *)
THEOREM DoComplete == MultiSpec => SuccessIsComplete
<1> DEFINE Complete ==
      at = "hooks" /\ at' = "idle" /\ ~ returned'.failed =>
        /\ ran' = [k \in 1..calls |-> k]
        /\ \A k \in 1..calls : results'[k] = returned'.block
<1>1. MultiInv /\ [MultiNext]_multiVars => [Complete]_multiVars
  <2> SUFFICES ASSUME MultiInv, MultiNext, at = "hooks", at' = "idle",
                      ~ returned'.failed
               PROVE  /\ ran' = [k \in 1..calls |-> k]
                      /\ \A k \in 1..calls : results'[k] = returned'.block
    OBVIOUS
  <2>1. DoReturns
    BY DEF MultiNext, Register, Do, Unpack, UnpackFails,
           Unpacked, Hook, HookFails, Fail
  <2>2. next = calls + 1
    BY <2>1 DEF DoReturns, MultiInv, MultiTypes
  <2> QED
    BY <2>1, <2>2 DEF DoReturns, MultiInv, MultiTypes, Hooking
<1> QED
  BY <1>1, MultiInvariance, PTL DEF MultiSpec, SuccessIsComplete
=============================================================================
