-------------------------- MODULE BroadcasterProofs --------------------------
(***************************************************************************)
(* Proofs about one broadcast, for any finite set of nodes.                *)
(***************************************************************************)
EXTENDS Broadcaster, FiniteSetTheorems, TLAPS

Running == {n \in Nodes : task[n] \in {"calling", "failed", "leaving"}}

(* The wait group counts the goroutines that have not left. *)
CounterOK == wg = Cardinality(Running)

(* Only clients have goroutines, and all of them once the loop is over. *)
SpawnOK ==
  /\ \A n \in Nodes : task[n] # "none" => n \in clients
  /\ pc # "spawn" => \A n \in clients : task[n] # "none"
  /\ pc = "returned" => Running = {}

(* A client that is through without a failure has taken the transaction. *)
OutcomeOK ==
  /\ failures \subseteq clients
  /\ \A n \in Nodes : wire[n] = "ok" => n \in holders
  /\ \A n \in clients :
       task[n] \in {"leaving", "ended"} /\ n \notin failures => n \in holders

(* What Broadcast returned is what it read after the wait. *)
ResultOK ==
  /\ sent => pc = "returned" /\ failures # clients
  /\ pc = "returned" => failed = failures

Inv == TypeOK /\ CounterOK /\ SpawnOK /\ OutcomeOK /\ ResultOK

-----------------------------------------------------------------------------
LEMMA RunningSets ==
  ASSUME NEW S \in SUBSET Nodes
  PROVE  /\ IsFiniteSet(S)
         /\ Cardinality(S) \in Nat
         /\ Cardinality(S) = 0 <=> S = {}
         /\ \A n \in Nodes \ S : Cardinality(S \cup {n}) = Cardinality(S) + 1
         /\ \A n \in S : Cardinality(S \ {n}) = Cardinality(S) - 1
<1>1. IsFiniteSet(S)
  BY NodesFinite, FS_Subset
<1> QED
  BY <1>1, FS_CardinalityType, FS_EmptySet, FS_AddElement, FS_RemoveElement

LEMMA InitInv == Init => Inv
<1> SUFFICES ASSUME Init PROVE Inv
  OBVIOUS
<1>1. Running = {} /\ Cardinality({}) = 0
  BY FS_EmptySet DEF Init, Running
<1> QED
  BY <1>1 DEF Init, Inv, TypeOK, CounterOK, SpawnOK, OutcomeOK, ResultOK

LEMMA TypeInv == Inv /\ [Next]_vars => TypeOK'
<1> SUFFICES ASSUME Inv, [Next]_vars PROVE TypeOK'
  OBVIOUS
<1> USE DEF Inv, TypeOK
<1>1. ASSUME NEW n \in Nodes, Spawn(n) PROVE TypeOK'
  BY <1>1 DEF Spawn
<1>2. ASSUME NEW n \in Nodes, Answered(n) \/ TimeOut(n) \/ Store(n) PROVE TypeOK'
  BY <1>2 DEF Answered, TimeOut, Store
<1>3. ASSUME NEW n \in Nodes, Done(n) PROVE TypeOK'
  <2>1. n \in Running /\ Running \in SUBSET Nodes
    BY <1>3 DEF Done, Running
  <2>2. Running # {}
    BY <2>1
  <2>3. wg # 0
    BY <2>1, <2>2, RunningSets DEF CounterOK
  <2> QED
    BY <1>3, <2>3 DEF Done
<1>4. ASSUME NEW n \in Nodes, Network(n) PROVE TypeOK'
  BY <1>4 DEF Network, Take, Refuse, Lose, Gossip
<1>5. CASE SpawnedAll
  BY <1>5 DEF SpawnedAll
<1>6. CASE WaitReturns
  BY <1>6 DEF WaitReturns, SentToSome
<1>7. CASE UNCHANGED vars
  BY <1>7 DEF vars
<1> QED
  BY <1>1, <1>2, <1>3, <1>4, <1>5, <1>6, <1>7 DEF Next, Goroutine

(* The counter follows the set of running goroutines. *)
LEMMA CounterInv == Inv /\ [Next]_vars => CounterOK'
<1> SUFFICES ASSUME Inv, [Next]_vars PROVE CounterOK'
  OBVIOUS
<1> USE DEF Inv, TypeOK
<1>0. Running \in SUBSET Nodes
  BY DEF Running
<1>1. ASSUME NEW n \in Nodes, Spawn(n) PROVE CounterOK'
  <2>1. Running' = Running \cup {n} /\ n \notin Running
    BY <1>1 DEF Spawn, Running
  <2> QED
    BY <1>0, <1>1, <2>1, RunningSets DEF Spawn, CounterOK
<1>2. ASSUME NEW n \in Nodes, Done(n) PROVE CounterOK'
  <2>1. Running' = Running \ {n} /\ n \in Running
    BY <1>2 DEF Done, Running
  <2> QED
    BY <1>0, <1>2, <2>1, RunningSets DEF Done, CounterOK
<1>3. ASSUME NEW n \in Nodes, Answered(n) \/ TimeOut(n) \/ Store(n)
      PROVE  CounterOK'
  <2>1. Running' = Running /\ wg' = wg
    BY <1>3 DEF Answered, TimeOut, Store, Running
  <2> QED
    BY <2>1 DEF CounterOK
<1>4. CASE UNCHANGED <<task, wg>>
  BY <1>4 DEF CounterOK, Running
<1>5. ASSUME NEW n \in Nodes, Network(n) PROVE UNCHANGED <<task, wg>>
  BY <1>5 DEF Network, Take, Refuse, Lose, Gossip
<1>6. SpawnedAll \/ WaitReturns \/ UNCHANGED vars => UNCHANGED <<task, wg>>
  BY DEF SpawnedAll, WaitReturns, vars
<1> QED
  BY <1>1, <1>2, <1>3, <1>4, <1>5, <1>6 DEF Next, Goroutine

(* The caller waits for every goroutine and finds their failures. *)
LEMMA RestInv ==
  Inv /\ [Next]_vars => SpawnOK' /\ OutcomeOK' /\ ResultOK'
<1> SUFFICES ASSUME Inv, [Next]_vars
             PROVE  SpawnOK' /\ OutcomeOK' /\ ResultOK'
  OBVIOUS
<1> USE DEF Inv, TypeOK, SpawnOK, OutcomeOK, ResultOK, Running
<1>1. ASSUME NEW n \in Nodes, Goroutine(n)
      PROVE  SpawnOK' /\ OutcomeOK' /\ ResultOK'
  <2>1. CASE Spawn(n)
    BY <2>1 DEF Spawn
  <2>2. CASE Answered(n)
    BY <2>2 DEF Answered
  <2>3. CASE TimeOut(n)
    BY <2>3 DEF TimeOut
  <2>4. CASE Store(n)
    BY <2>4 DEF Store
  <2>5. CASE Done(n)
    BY <2>5 DEF Done
  <2> QED
    BY <1>1, <2>1, <2>2, <2>3, <2>4, <2>5 DEF Goroutine
<1>2. ASSUME NEW n \in Nodes, Network(n)
      PROVE  SpawnOK' /\ OutcomeOK' /\ ResultOK'
  BY <1>2 DEF Network, Take, Refuse, Lose, Gossip
<1>3. CASE SpawnedAll
  BY <1>3 DEF SpawnedAll
<1>4. CASE WaitReturns
  <2>1. Running \in SUBSET Nodes /\ Cardinality(Running) = 0
    BY <1>4 DEF WaitReturns, AllDone, CounterOK
  <2>2. Running = {}
    BY <2>1, RunningSets
  <2> QED
    BY <1>4, <2>2 DEF WaitReturns, SentToSome
<1>5. CASE UNCHANGED vars
  BY <1>5 DEF vars
<1> QED
  BY <1>1, <1>2, <1>3, <1>4, <1>5 DEF Next

(* The strengthened invariant holds of every broadcast. *)
THEOREM Invariance == Spec => []Inv
<1>1. Inv /\ [Next]_vars => Inv'
  BY TypeInv, CounterInv, RestInv DEF Inv
<1> QED
  BY <1>1, InitInv, PTL DEF Spec

-----------------------------------------------------------------------------
(* Once the caller waits, every client's goroutine has run or is counted.   *)
LEMMA ReturnedOK ==
  ASSUME Inv, pc = "returned"
  PROVE  \A n \in clients : task[n] = "ended"
BY DEF Inv, TypeOK, SpawnOK, Running

(* The bool is never true of a transaction no client has taken.             *)
THEOREM SentSound == Spec => []SentIsTrue
<1>1. Inv => SentIsTrue
  BY ReturnedOK DEF Inv, OutcomeOK, ResultOK, SentIsTrue
<1> QED
  BY <1>1, Invariance, PTL

(* A client the returned error does not name has taken the transaction.     *)
THEOREM FailuresComplete == Spec => []UnnamedClientsHaveIt
<1>1. Inv => UnnamedClientsHaveIt
  BY ReturnedOK DEF Inv, OutcomeOK, ResultOK, UnnamedClientsHaveIt
<1> QED
  BY <1>1, Invariance, PTL

(* Until Broadcast has returned something is left to run: a goroutine to    *)
(* start, one whose call ends at the latest by its timeout, one that stores *)
(* or signals, or the wait that the last signal has ended.                  *)
NeverStuck ==
  \/ pc \in {"spawn", "returned"}
  \/ AllDone
  \/ \E n \in clients : task[n] \in {"calling", "failed", "leaving"}

(* The caller never waits on a wait group nobody will bring to zero: every  *)
(* Add(1) has a Done to come, on each of a goroutine's ways out.            *)
THEOREM WaitIsServed == Spec => []NeverStuck
<1>1. Inv => NeverStuck
  <2> SUFFICES ASSUME Inv, \A n \in clients : task[n] \notin {"calling", "failed", "leaving"}
               PROVE  AllDone
    BY DEF NeverStuck
  <2>1. Running = {} /\ Running \in SUBSET Nodes
    BY DEF Running, Inv, TypeOK, SpawnOK
  <2> QED
    BY <2>1, RunningSets DEF Inv, CounterOK, AllDone
<1> QED
  BY <1>1, Invariance, PTL

(* When Broadcast has returned its goroutines are gone.                     *)
THEOREM Joined == Spec => NothingAfterReturn
<1>1. Inv /\ [Next]_vars =>
        [pc = "returned" => UNCHANGED <<task, failures>>]_vars
  <2> SUFFICES ASSUME Inv, Next, pc = "returned"
               PROVE  UNCHANGED <<task, failures>>
    OBVIOUS
  <2>1. \A n \in clients : task[n] = "ended"
    BY ReturnedOK
  <2>2. ASSUME NEW n \in Nodes, Goroutine(n) PROVE FALSE
    BY <2>1, <2>2 DEF Goroutine, Spawn, Answered, TimeOut, Store, Done,
                      Inv, SpawnOK
  <2>3. ASSUME NEW n \in Nodes, Network(n) PROVE UNCHANGED <<task, failures>>
    BY <2>3 DEF Network, Take, Refuse, Lose, Gossip
  <2> QED
    BY <2>2, <2>3 DEF Next, SpawnedAll, WaitReturns
<1> QED
  BY <1>1, Invariance, PTL DEF Spec, NothingAfterReturn
-----------------------------------------------------------------------------
(* A failure is recorded before its goroutine leaves, so the outcome of a   *)
(* request is settled once.                                                 *)
UnsettledOK ==
  \A n \in Nodes : task[n] \in {"none", "calling", "failed"} => n \notin failures

LEMMA Unsettled == Spec => []UnsettledOK
<1>1. Init => UnsettledOK
  BY DEF Init, UnsettledOK
<1>2. Inv /\ UnsettledOK /\ [Next]_vars => UnsettledOK'
  <2> SUFFICES ASSUME Inv, UnsettledOK, [Next]_vars PROVE UnsettledOK'
    OBVIOUS
  <2> USE DEF Inv, TypeOK, UnsettledOK
  <2>1. ASSUME NEW n \in Nodes, Goroutine(n) PROVE UnsettledOK'
    BY <2>1 DEF Goroutine, Spawn, Answered, TimeOut, Store, Done
  <2>2. ASSUME NEW n \in Nodes, Network(n) PROVE UnsettledOK'
    BY <2>2 DEF Network, Take, Refuse, Lose, Gossip
  <2> QED
    BY <2>1, <2>2 DEF Next, SpawnedAll, WaitReturns, vars
<1> QED
  BY <1>1, <1>2, Invariance, PTL DEF Spec

(* Counting the failures tells whether there is a client without one.       *)
LEMMA CountingFailures ==
  ASSUME Inv
  PROVE  SentToSome <=> \E n \in clients : n \notin failures
<1>1. /\ clients \in SUBSET Nodes /\ failures \subseteq clients
      /\ IsFiniteSet(clients)
  BY RunningSets DEF Inv, TypeOK, OutcomeOK
<1>2. /\ Cardinality(failures) = Cardinality(clients) <=> failures = clients
      /\ Cardinality(clients) \in Nat
      /\ Cardinality(clients) = 0 <=> clients = {}
  BY <1>1, FS_Subset, RunningSets
<1> QED
  BY <1>1, <1>2 DEF SentToSome

(* Goroutines, wait group and counting implement the abstract broadcast:    *)
(* an acknowledgement read and a failure recorded settle a client's request *)
(* and the return of Wait is the return; all else is invisible.             *)
THEOREM ImplementsSafely == Spec => Abstract!SafeSpec
<1>1. Init => Abstract!Init
  BY DEF Init, Abstract!Init, Outcome
<1>2. Inv /\ UnsettledOK /\ Inv' /\ [Next]_vars => [Abstract!Next]_(Abstract!vars)
  <2> SUFFICES ASSUME Inv, UnsettledOK, Inv', [Next]_vars, ~ UNCHANGED Abstract!vars
               PROVE  Abstract!Next
    OBVIOUS
  <2> USE DEF Inv, TypeOK
  <2>1. ASSUME NEW n \in Nodes, Answered(n) \/ Store(n) PROVE Abstract!Settle(n)
    <3>1. n \in clients /\ Outcome[n] = "none"
      BY <2>1 DEF Answered, Store, Outcome, UnsettledOK, SpawnOK
    <3>2. CASE Answered(n) /\ wire[n] = "ok"
      <4>1. Outcome' = [Outcome EXCEPT ![n] = "acknowledged"]
        BY <3>2 DEF Answered, Outcome, UnsettledOK
      <4> QED
        BY <3>1, <3>2, <4>1 DEF Answered, Abstract!Settle
    <3>3. CASE Store(n)
      <4>1. Outcome' = [Outcome EXCEPT ![n] = "failed"]
        BY <3>3 DEF Store, Outcome, UnsettledOK
      <4> QED
        BY <3>1, <3>3, <4>1 DEF Store, Abstract!Settle
    <3>4. CASE Answered(n) /\ wire[n] = "error"
      <4>1. Outcome' = Outcome
        BY <3>4 DEF Answered, Outcome
      <4> QED
        BY <3>4, <4>1 DEF Answered, Abstract!vars
    <3> QED
      BY <2>1, <3>2, <3>3, <3>4 DEF Answered
  <2>2. CASE WaitReturns
    <3>1. \A n \in clients : task[n] = "ended"
      <4>1. Running' = {}
        BY <2>2 DEF WaitReturns, SpawnOK
      <4>2. Running = {} /\ \A n \in clients : task[n] # "none"
        BY <2>2, <4>1 DEF WaitReturns, Running, SpawnOK
      <4> QED
        BY <4>2 DEF Running
    <3>2. \A n \in clients : Outcome[n] = IF n \in failures THEN "failed" ELSE "acknowledged"
      BY <3>1 DEF Outcome
    <3>3. Outcome' = Outcome
      BY <2>2 DEF WaitReturns, Outcome
    <3>4. failures = {n \in clients : Outcome[n] = "failed"}
      BY <3>2 DEF OutcomeOK
    <3>5. sent' = (\E n \in clients : Outcome[n] = "acknowledged")
      BY <2>2, <3>2, CountingFailures DEF WaitReturns
    <3> QED
      BY <2>2, <3>2, <3>3, <3>4, <3>5 DEF WaitReturns, Abstract!Next, Abstract!Return
  <2>3. ASSUME NEW n \in Nodes, Spawn(n) \/ TimeOut(n) \/ Done(n) \/ Network(n)
        PROVE  FALSE
    <3>1. Outcome' = Outcome
      BY <2>3 DEF Spawn, TimeOut, Done, Network, Take, Refuse, Lose, Gossip, Outcome
    <3> QED
      BY <2>3, <3>1 DEF Spawn, TimeOut, Done, Network, Take, Refuse, Lose, Gossip,
                        Abstract!vars
  <2>4. ~ SpawnedAll /\ ~ UNCHANGED vars
    BY DEF SpawnedAll, vars, Outcome, Abstract!vars
  <2> QED
    BY <2>1, <2>2, <2>3, <2>4 DEF Next, Goroutine, Abstract!Next
<1> QED
  BY <1>1, <1>2, Invariance, Unsettled, PTL DEF Spec, Abstract!SafeSpec
=============================================================================
