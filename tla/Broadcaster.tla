----------------------------- MODULE Broadcaster -----------------------------
(***************************************************************************)
(* One Broadcaster.Broadcast of one signed transaction: a goroutine per    *)
(* client sends eth_sendRawTransaction with a 4 s context, records a       *)
(* failure and signals the wait group; the caller waits for all of them.   *)
(* Between client and node a request or a reply may be lost or late, a     *)
(* node may refuse the transaction, and nodes gossip it to each other, so  *)
(* a node can be asked to take what it already has and answer an error.    *)
(***************************************************************************)
EXTENDS Integers, FiniteSets

CONSTANT Nodes    \* the names given to NewGenericBroadcaster

ASSUME NodesFinite == IsFiniteSet(Nodes)

VARIABLES
  clients,   \* keys of self.clients: the nodes NewGenericBroadcaster could dial
  pc,        \* the caller: "spawn", "wait" or "returned"
  task,      \* task[n]: goroutine of n: "none", "calling", "failed", "leaving", "ended"
  wg,        \* the wait group's counter
  failures,  \* keys of the sync.Map
  failed,    \* keys of the map behind the returned error
  sent,      \* the bool Broadcast returned
  wire,      \* wire[n]: "idle", "request", "ok", "error" or "lost"
  holders    \* the nodes that have taken the transaction into their pool

vars == <<clients, pc, task, wg, failures, failed, sent, wire, holders>>

Init ==
  /\ clients \in SUBSET Nodes
  /\ pc = "spawn"
  /\ task = [n \in Nodes |-> "none"]
  /\ wg = 0
  /\ failures = {} /\ failed = {}
  /\ sent = FALSE
  /\ wire = [n \in Nodes |-> "idle"]
  /\ holders = {}

(* Faulty variants: a Done that a failing goroutine skips, an expired       *)
(* context taken for success, a caller that goes on after the first         *)
(* goroutine, and a bool that forgets the broadcaster without clients.      *)
StoreSkipsDone(n) ==
  /\ task[n] = "failed"
  /\ failures' = failures \cup {n}
  /\ task' = [task EXCEPT ![n] = "ended"]
  /\ UNCHANGED <<clients, pc, wg, failed, sent, wire, holders>>
TimeOutSilently(n) ==
  /\ task[n] = "calling"
  /\ task' = [task EXCEPT ![n] = "leaving"]
  /\ UNCHANGED <<clients, pc, wg, failures, failed, sent, wire, holders>>
FirstDone == wg < Cardinality(clients)
SentUnlessAllFailed == failures # clients \/ clients = {}

AllDone == wg = 0

(* len(result) != len(self.clients) && len(self.clients) > 0 *)
SentToSome ==
  Cardinality(failures) # Cardinality(clients) /\ Cardinality(clients) > 0

(* wg.Add(1); go self.broadcast(...) *)
Spawn(n) ==
  /\ pc = "spawn"
  /\ n \in clients /\ task[n] = "none"
  /\ wg' = wg + 1
  /\ task' = [task EXCEPT ![n] = "calling"]
  /\ wire' = [wire EXCEPT ![n] = "request"]
  /\ UNCHANGED <<clients, pc, failures, failed, sent, holders>>

SpawnedAll ==
  /\ pc = "spawn"
  /\ \A n \in clients : task[n] # "none"
  /\ pc' = "wait"
  /\ UNCHANGED <<clients, task, wg, failures, failed, sent, wire, holders>>

(* CallContext returns the node's answer ... *)
Answered(n) ==
  /\ task[n] = "calling"
  /\ wire[n] \in {"ok", "error"}
  /\ task' = [task EXCEPT ![n] = IF wire[n] = "ok" THEN "leaving" ELSE "failed"]
  /\ UNCHANGED <<clients, pc, wg, failures, failed, sent, wire, holders>>

(* ... or the expiry of the context, with the request still under way.      *)
TimeOut(n) ==
  /\ task[n] = "calling"
  /\ task' = [task EXCEPT ![n] = "failed"]
  /\ UNCHANGED <<clients, pc, wg, failures, failed, sent, wire, holders>>

Store(n) ==
  /\ task[n] = "failed"
  /\ failures' = failures \cup {n}
  /\ task' = [task EXCEPT ![n] = "leaving"]
  /\ UNCHANGED <<clients, pc, wg, failed, sent, wire, holders>>

Done(n) ==
  /\ task[n] = "leaving"
  /\ wg' = wg - 1
  /\ task' = [task EXCEPT ![n] = "ended"]
  /\ UNCHANGED <<clients, pc, failures, failed, sent, wire, holders>>

(* wg.Wait() returns; the failures are copied and the results computed.     *)
WaitReturns ==
  /\ pc = "wait"
  /\ AllDone
  /\ failed' = failures
  /\ sent' = SentToSome
  /\ pc' = "returned"
  /\ UNCHANGED <<clients, task, wg, failures, wire, holders>>

-----------------------------------------------------------------------------
(* The network and the nodes. *)
Take(n) ==
  /\ wire[n] = "request"
  /\ holders' = holders \cup {n}
  /\ wire' = [wire EXCEPT ![n] = "ok"]
  /\ UNCHANGED <<clients, pc, task, wg, failures, failed, sent>>

(* "already known" for a holder; "nonce too low", "underpriced" ... else.   *)
Refuse(n) ==
  /\ wire[n] = "request"
  /\ wire' = [wire EXCEPT ![n] = "error"]
  /\ UNCHANGED <<clients, pc, task, wg, failures, failed, sent, holders>>

Lose(n) ==
  /\ wire[n] \in {"request", "ok", "error"}
  /\ wire' = [wire EXCEPT ![n] = "lost"]
  /\ UNCHANGED <<clients, pc, task, wg, failures, failed, sent, holders>>

Gossip(n) ==
  /\ holders # {} /\ n \notin holders
  /\ holders' = holders \cup {n}
  /\ UNCHANGED <<clients, pc, task, wg, failures, failed, sent, wire>>

Goroutine(n) == Spawn(n) \/ Answered(n) \/ TimeOut(n) \/ Store(n) \/ Done(n)
Network(n) == Take(n) \/ Refuse(n) \/ Lose(n) \/ Gossip(n)

Next ==
  \/ \E n \in Nodes : Goroutine(n) \/ Network(n)
  \/ SpawnedAll
  \/ WaitReturns

(* Goroutines are scheduled and contexts expire; the network owes nothing.  *)
Fairness ==
  /\ \A n \in Nodes : WF_vars(Goroutine(n))
  /\ WF_vars(SpawnedAll)
  /\ WF_vars(WaitReturns)

Spec == Init /\ [][Next]_vars /\ Fairness

-----------------------------------------------------------------------------
TypeOK ==
  /\ clients \in SUBSET Nodes
  /\ pc \in {"spawn", "wait", "returned"}
  /\ task \in [Nodes -> {"none", "calling", "failed", "leaving", "ended"}]
  /\ wg \in Nat
  /\ failures \in SUBSET Nodes /\ failed \in SUBSET Nodes
  /\ sent \in BOOLEAN
  /\ wire \in [Nodes -> {"idle", "request", "ok", "error", "lost"}]
  /\ holders \in SUBSET Nodes

(* A broadcast reported as made was made: some client of this broadcaster   *)
(* has the transaction.  In particular one without clients reports false.   *)
SentIsTrue == sent => \E n \in clients : n \in holders

(* The map of failures misses no client: every client it does not name has  *)
(* taken the transaction, whatever was lost or late.                        *)
UnnamedClientsHaveIt ==
  pc = "returned" => clients \ failed \subseteq holders

(* Broadcast does not return before its goroutines: afterwards none of them *)
(* runs and no failure is added to the map it has read.                     *)
NothingAfterReturn ==
  [][pc = "returned" => UNCHANGED <<task, failures>>]_vars

(* Broadcast returns, however many nodes stay silent.                       *)
BroadcastReturns == <>(pc = "returned")

(* The goroutines, the wait group and the counting of failures implement     *)
(* the abstract broadcast: a request's outcome is there once its goroutine   *)
(* is about to leave.                                                        *)
Outcome ==
  [n \in Nodes |-> IF n \in failures THEN "failed"
                   ELSE IF task[n] \in {"leaving", "ended"} THEN "acknowledged"
                   ELSE "none"]
Abstract == INSTANCE AllOutcomes WITH outcome <- Outcome, returned <- pc = "returned"
ImplementsAllOutcomes == Abstract!Spec

(* What the comment on Broadcaster says of the bool, in both directions and *)
(* at the moment Broadcast returns it: some client has the transaction then. *)
SentIndicatesBroadcast ==
  [][pc # "returned" /\ pc' = "returned" =>
       (sent' <=> \E n \in clients : n \in holders)]_vars
=============================================================================
