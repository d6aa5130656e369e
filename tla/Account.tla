------------------------------- MODULE Account -------------------------------
(***************************************************************************)
(* Operations of account.Account that send transactions, several of them   *)
(* at once on one account.  Each prepares its transaction with reads that  *)
(* may fail or come from a node that lags, then signs and broadcasts it;   *)
(* the two batch operations sign and broadcast one payment after another   *)
(* and go on after a failure.  All of them take the MINED nonce.           *)
(***************************************************************************)
EXTENDS Integers, Sequences, FiniteSets

CONSTANTS
  Ops,         \* operations under way on the account
  Kinds,       \* the methods they may be calls of
  Nodes,       \* nodes of its reader and its broadcaster
  BatchSize    \* number of payments of a batch

(* What each method does before it signs.  SendAllERC20 prepares as         *)
(* SendERC20 does, and a method for an ERC20 contract as that for any.      *)
Transfers == [
  SendETH |-> <<"nonce", "price">>,
  SendAllETH |-> <<"nonce", "price", "balance">>,
  SendAllETHWithPrice |-> <<"nonce", "balance">>,
  SendERC20 |-> <<"token", "nonce", "price", "pack", "estimate">>]

BatchTransfers == [
  SendETHToMultipleAddresses |-> <<"nonce", "price">>,
  SendETHToMultipleAddressesWithPrice |-> <<"nonce">>]

(* The data is packed, which may take the contract's ABI, then the gas.     *)
Encoded == <<"pack", "estimate">>
ContractCalls == [
  SetERC20Allowance |-> <<"token", "nonce", "price">> \o Encoded,
  CallContract |-> <<"nonce", "price">> \o Encoded,
  CallContractWithPrice |-> <<"nonce">> \o Encoded]
CallsWithABI == [CallContractWithABI |-> <<"nonce", "price">> \o Encoded]
Deployments == [DeployContract |-> <<"nonce", "price">> \o Encoded]

Pipeline(k) ==
  CASE k \in DOMAIN Transfers -> Transfers[k]
    [] k \in DOMAIN BatchTransfers -> BatchTransfers[k]
    [] k \in DOMAIN ContractCalls -> ContractCalls[k]
    [] k \in DOMAIN CallsWithABI -> CallsWithABI[k]
    [] k \in DOMAIN Deployments -> Deployments[k]

AllKinds ==
  DOMAIN Transfers \cup DOMAIN BatchTransfers \cup DOMAIN ContractCalls
    \cup DOMAIN CallsWithABI \cup DOMAIN Deployments

ASSUME KindsKnown == Kinds \subseteq AllKinds
ASSUME BatchSizePositive == BatchSize \in Nat \ {0}
(* A broadcaster without a client fails with a nil error.                   *)
ASSUME NodesExist == Nodes # {}

VARIABLES
  kind,       \* kind[o]: the method o calls
  pc,         \* pc[o]: "prepare", "sign", "broadcast", "ended" or "panicked"
  step,       \* step[o]: position in the pipeline
  nonce,      \* nonce[o]: the nonce o has read
  i,          \* i[o]: the payment o is working on, from 0
  reports,    \* reports[o]: what o returns for each payment so far
  made,       \* history: the transactions signed
  taken,      \* history: the transactions a node has taken
  pool,       \* pool[n]: transactions in the pool of n
  nodeNonce,  \* nodeNonce[n]: the account's nonce in the latest block of n
  mined       \* the account's nonce in the latest block of the chain

caller == <<kind, pc, step, nonce, i, reports, made>>
chain == <<pool, nodeNonce, mined>>
vars == <<caller, taken, chain>>

IsBatch(o) == kind[o] \in DOMAIN BatchTransfers
Payments(o) == IF IsBatch(o) THEN BatchSize ELSE 1

Init ==
  /\ kind \in [Ops -> Kinds]
  /\ pc = [o \in Ops |-> "prepare"]
  /\ step = [o \in Ops |-> 1]
  /\ nonce = [o \in Ops |-> 0]
  /\ i = [o \in Ops |-> 0]
  /\ reports = [o \in Ops |-> <<>>]
  /\ made = {} /\ taken = {}
  /\ pool = [n \in Nodes |-> {}]
  /\ nodeNonce = [n \in Nodes |-> 0]
  /\ mined = 0

(* The transaction of o's current payment; op and payment stand for the     *)
(* recipient, the amount and the data.                                      *)
Tx(o) == [op |-> o, payment |-> i[o], nonce |-> nonce[o] + i[o]]

(* One more result; the batch goes on, any other operation returns.         *)
Report(o, sent, failed) ==
  /\ reports' = [reports EXCEPT ![o] = Append(@, [sent |-> sent, failed |-> failed])]
  /\ i' = [i EXCEPT ![o] = @ + 1]
  /\ pc' = [pc EXCEPT ![o] = IF i[o] + 1 < Payments(o) THEN "sign" ELSE "ended"]

Preparing(o) == pc[o] = "prepare"
Reading(o) == Pipeline(kind[o])[step[o]]

(* After its last read an operation goes over to its transaction.           *)
PrepareDone(o) ==
  /\ step' = [step EXCEPT ![o] = @ + 1]
  /\ pc' = [pc EXCEPT ![o] = IF step[o] = Len(Pipeline(kind[o])) THEN "sign" ELSE "prepare"]

(* Faulty variants: the pending nonce instead of the mined one, and a failed *)
(* payment that leaves no result.                                           *)
PendingNonces(n) ==
  {k \in nodeNonce[n]..(nodeNonce[n] + Cardinality(pool[n])) :
     \A j \in nodeNonce[n]..(k - 1) : \E t \in pool[n] : t.nonce = j}
ReadPendingNonce(o) ==
  /\ Preparing(o) /\ Reading(o) = "nonce"
  /\ \E n \in Nodes : \E k \in PendingNonces(n) : nonce' = [nonce EXCEPT ![o] = k]
  /\ PrepareDone(o)
  /\ UNCHANGED <<kind, i, reports, made, taken, chain>>
SignFailsSilently(o) ==
  /\ pc[o] = "sign"
  /\ i' = [i EXCEPT ![o] = @ + 1]
  /\ pc' = [pc EXCEPT ![o] = IF i[o] + 1 < Payments(o) THEN "sign" ELSE "ended"]
  /\ UNCHANGED <<kind, step, nonce, reports, made, taken, chain>>

ReadNonce(o) ==
  /\ Preparing(o) /\ Reading(o) = "nonce"
  /\ \E n \in Nodes : nonce' = [nonce EXCEPT ![o] = nodeNonce[n]]
  /\ PrepareDone(o)
  /\ UNCHANGED <<kind, i, reports, made, taken, chain>>

Prepare(o) ==
  /\ Preparing(o) /\ Reading(o) # "nonce"
  /\ PrepareDone(o)
  /\ UNCHANGED <<kind, nonce, i, reports, made, taken, chain>>

(* A read or the packing fails, or the balance does not suffice.            *)
PrepareFails(o) ==
  /\ Preparing(o) /\ ~ IsBatch(o)
  /\ Report(o, FALSE, TRUE)
  /\ UNCHANGED <<kind, step, nonce, made, taken, chain>>

(* The batch operations panic when a read fails, and at once over amounts   *)
(* and addresses of different lengths; every one does when it asks for the  *)
(* price and there is no explorer, and a contract call before it packs its  *)
(* data, over a negative value or without an explorer to ask for the ABI.   *)
PreparePanics(o) ==
  /\ Preparing(o)
  /\ \/ IsBatch(o)
     \/ Reading(o) = "price"
     \/ kind[o] \in DOMAIN ContractCalls \cup DOMAIN CallsWithABI /\ Reading(o) = "pack"
  /\ pc' = [pc EXCEPT ![o] = "panicked"]
  /\ UNCHANGED <<kind, step, nonce, i, reports, made, taken, chain>>

Sign(o) ==
  /\ pc[o] = "sign"
  /\ made' = made \cup {Tx(o)}
  /\ pc' = [pc EXCEPT ![o] = "broadcast"]
  /\ UNCHANGED <<kind, step, nonce, i, reports, taken, chain>>

SignFails(o) ==
  /\ pc[o] = "sign"
  /\ Report(o, FALSE, TRUE)
  /\ UNCHANGED <<kind, step, nonce, made, taken, chain>>

-----------------------------------------------------------------------------
(* A node takes a transaction unless its nonce is used; one with the same   *)
(* nonce as another in the pool is refused or replaces it, by their prices. *)
MayTake(n, t) == t.nonce >= nodeNonce[n]
Adding(n, t) == {u \in pool[n] : u.nonce # t.nonce} \cup {t}

(* Broadcaster.BroadcastTx: some nodes take it, and the replies of some of  *)
(* those arrive; the bool says whether any did, the error whether any       *)
(* did not.                                                                 *)
Broadcast(o) ==
  /\ pc[o] = "broadcast"
  /\ \E S \in SUBSET {n \in Nodes : MayTake(n, Tx(o))} : \E A \in SUBSET S :
       /\ pool' = [n \in Nodes |-> IF n \in S THEN Adding(n, Tx(o)) ELSE pool[n]]
       /\ taken' = IF S = {} THEN taken ELSE taken \cup {Tx(o)}
       /\ Report(o, A # {}, A # Nodes)
  /\ UNCHANGED <<kind, step, nonce, made, nodeNonce, mined>>

Gossip(n) ==
  /\ \E m \in Nodes \ {n} : \E t \in pool[m] :
       MayTake(n, t) /\ t \notin pool[n] /\ pool' = [pool EXCEPT ![n] = Adding(n, t)]
  /\ UNCHANGED <<caller, taken, nodeNonce, mined>>

Evict(n) ==
  /\ \E t \in pool[n] : pool' = [pool EXCEPT ![n] = @ \ {t}]
  /\ UNCHANGED <<caller, taken, nodeNonce, mined>>

Mine ==
  /\ \E n \in Nodes : \E t \in pool[n] : t.nonce = mined
  /\ mined' = mined + 1
  /\ UNCHANGED <<caller, taken, pool, nodeNonce>>

CatchUp(n) ==
  /\ nodeNonce[n] < mined
  /\ nodeNonce' = [nodeNonce EXCEPT ![n] = @ + 1]
  /\ pool' = [pool EXCEPT ![n] = {t \in @ : t.nonce > nodeNonce[n]}]
  /\ UNCHANGED <<caller, taken, mined>>

Operation(o) ==
  \/ ReadNonce(o) \/ Prepare(o) \/ PrepareFails(o) \/ PreparePanics(o)
  \/ Sign(o) \/ SignFails(o)
  \/ Broadcast(o)
Chain ==
  \/ \E n \in Nodes : Gossip(n) \/ Evict(n) \/ CatchUp(n)
  \/ Mine

Next == (\E o \in Ops : Operation(o)) \/ Chain

Spec == Init /\ [][Next]_vars

-----------------------------------------------------------------------------
Txs == [op : Ops, payment : Nat, nonce : Nat]

TypeOK ==
  /\ kind \in [Ops -> Kinds]
  /\ pc \in [Ops -> {"prepare", "sign", "broadcast", "ended", "panicked"}]
  /\ step \in [Ops -> Nat]
  /\ nonce \in [Ops -> Nat]
  /\ i \in [Ops -> 0..BatchSize]
  /\ reports \in [Ops -> Seq([sent : BOOLEAN, failed : BOOLEAN])]
  /\ made \in SUBSET Txs /\ taken \in SUBSET Txs
  /\ pool \in [Nodes -> SUBSET Txs]
  /\ nodeNonce \in [Nodes -> Nat] /\ mined \in Nat

(* A transaction of a single send never waits behind a nonce nobody will    *)
(* fill: by the time it is signed, its nonce is the next one or used up.    *)
(* That is what the mined nonce is for, however far the node that gave it   *)
(* lags and whatever the pools drop.                                        *)
SingleSendsMineable == \A t \in made : ~ IsBatch(t.op) => t.nonce <= mined

(* An operation that has returned reports on each payment, in their order:  *)
(* one reported as sent was taken by a node, one that no node has taken,    *)
(* its signature failed or every node refused it, is reported as failed.    *)
ReportsMatchPayments ==
  \A o \in Ops : pc[o] = "ended" =>
    /\ Len(reports[o]) = Payments(o)
    /\ \A k \in 1..Payments(o) :
         LET out == \E t \in taken : t.op = o /\ t.payment = k - 1
         IN  /\ reports[o][k].sent => out
             /\ ~ out => reports[o][k].failed
=============================================================================
