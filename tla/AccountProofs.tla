---------------------------- MODULE AccountProofs ----------------------------
(***************************************************************************)
(* Proofs about the sends of one account, for any number of operations,    *)
(* nodes and payments.                                                     *)
(***************************************************************************)
EXTENDS Account, TLAPS

(* No node and no operation is ahead of the chain. *)
NoncesBehind ==
  /\ \A n \in Nodes : nodeNonce[n] <= mined
  /\ \A o \in Ops : nonce[o] <= mined

(* An operation has one result for each payment it has left behind. *)
Progress ==
  \A o \in Ops :
    /\ Len(reports[o]) = i[o]
    /\ pc[o] = "prepare" => i[o] = 0
    /\ pc[o] \in {"sign", "broadcast"} => i[o] < Payments(o)
    /\ pc[o] = "ended" => i[o] = Payments(o)

(* The nonce of a transaction follows from the one its operation has read, *)
(* and that one does not change after the preparation.                     *)
MadeOK ==
  \A t \in made :
    /\ pc[t.op] # "prepare"
    /\ t.nonce = nonce[t.op] + t.payment
    /\ t.payment < Payments(t.op)

Out(o, p) == \E t \in taken : t.op = o /\ t.payment = p

OutNext(o, p) == \E t \in taken' : t.op = o /\ t.payment = p

(* The results so far are true. *)
ReportsTrue ==
  \A o \in Ops : \A k \in 1..i[o] :
    /\ reports[o][k].sent => Out(o, k - 1)
    /\ ~ Out(o, k - 1) => reports[o][k].failed

Inv == TypeOK /\ NoncesBehind /\ Progress /\ MadeOK /\ ReportsTrue

-----------------------------------------------------------------------------
LEMMA PaymentsType == \A o \in Ops : Payments(o) \in 1..BatchSize
  BY BatchSizePositive DEF Payments

LEMMA InitInv == Init => Inv
<1> SUFFICES ASSUME Init PROVE Inv
  OBVIOUS
<1>1. TypeOK
  BY BatchSizePositive DEF Init, TypeOK, Txs
<1>2. NoncesBehind /\ MadeOK
  BY DEF Init, NoncesBehind, MadeOK
<1>3. Progress
  BY DEF Init, Progress
<1>4. ReportsTrue
  BY DEF Init, ReportsTrue
<1> QED
  BY <1>1, <1>2, <1>3, <1>4 DEF Inv

(* Reporting keeps the types and the bookkeeping of the payments. *)
LEMMA ReportStep ==
  ASSUME Inv, NEW o \in Ops, NEW s \in BOOLEAN, NEW f \in BOOLEAN,
         Report(o, s, f), kind' = kind,
         i[o] < Payments(o)
  PROVE  /\ reports' \in [Ops -> Seq([sent : BOOLEAN, failed : BOOLEAN])]
         /\ i' \in [Ops -> 0..BatchSize]
         /\ pc' \in [Ops -> {"prepare", "sign", "broadcast", "ended", "panicked"}]
         /\ pc'[o] # "prepare"
         /\ \A p \in Ops \ {o} :
              pc'[p] = pc[p] /\ i'[p] = i[p] /\ reports'[p] = reports[p]
         /\ i'[o] = i[o] + 1 /\ Len(reports'[o]) = i'[o]
         /\ reports'[o][i[o] + 1] = [sent |-> s, failed |-> f]
         /\ \A k \in 1..i[o] : reports'[o][k] = reports[o][k]
         /\ Progress'
<1> DEFINE R == [sent |-> s, failed |-> f]
<1>1. /\ reports \in [Ops -> Seq([sent : BOOLEAN, failed : BOOLEAN])]
      /\ i \in [Ops -> 0..BatchSize]
      /\ pc \in [Ops -> {"prepare", "sign", "broadcast", "ended", "panicked"}]
      /\ Len(reports[o]) = i[o] /\ R \in [sent : BOOLEAN, failed : BOOLEAN]
  BY DEF Inv, TypeOK, Progress
<1>2. Payments(o) \in 1..BatchSize /\ \A p \in Ops : Payments(p)' = Payments(p)
  BY PaymentsType DEF Payments, IsBatch
<1>3. /\ reports' = [reports EXCEPT ![o] = Append(@, R)]
      /\ i' = [i EXCEPT ![o] = @ + 1]
      /\ pc' = [pc EXCEPT ![o] = IF i[o] + 1 < Payments(o) THEN "sign" ELSE "ended"]
  BY DEF Report
<1>4. /\ Append(reports[o], R) \in Seq([sent : BOOLEAN, failed : BOOLEAN])
      /\ Len(Append(reports[o], R)) = i[o] + 1
      /\ Append(reports[o], R)[i[o] + 1] = R
      /\ \A k \in 1..i[o] : Append(reports[o], R)[k] = reports[o][k]
  BY <1>1
<1> HIDE DEF R
<1>5. /\ reports' \in [Ops -> Seq([sent : BOOLEAN, failed : BOOLEAN])]
      /\ reports'[o] = Append(reports[o], R)
      /\ \A p \in Ops \ {o} : reports'[p] = reports[p]
  BY <1>1, <1>3, <1>4
<1>6. /\ i' \in [Ops -> 0..BatchSize] /\ i'[o] = i[o] + 1
      /\ \A p \in Ops \ {o} : i'[p] = i[p]
  BY <1>1, <1>2, <1>3, BatchSizePositive
<1>7. /\ pc' \in [Ops -> {"prepare", "sign", "broadcast", "ended", "panicked"}]
      /\ pc'[o] = IF i[o] + 1 < Payments(o) THEN "sign" ELSE "ended"
      /\ \A p \in Ops \ {o} : pc'[p] = pc[p]
  BY <1>1, <1>3
<1>8. ASSUME NEW p \in Ops
      PROVE  /\ Len(reports'[p]) = i'[p]
             /\ pc'[p] = "prepare" => i'[p] = 0
             /\ pc'[p] \in {"sign", "broadcast"} => i'[p] < Payments(p)
             /\ pc'[p] = "ended" => i'[p] = Payments(p)
  <2>1. CASE p = o
    BY <2>1, <1>1, <1>2, <1>4, <1>5, <1>6, <1>7
  <2>2. CASE p # o
    BY <2>2, <1>5, <1>6, <1>7 DEF Inv, Progress
  <2> QED
    BY <2>1, <2>2
<1>9. Progress'
  BY <1>8, <1>2 DEF Progress
<1> QED
  BY <1>4, <1>5, <1>6, <1>7, <1>9 DEF R

(* What a result adds: the others stay true while taken only grows. *)
LEMMA ReportedTrue ==
  ASSUME Inv, NEW o \in Ops, NEW s \in BOOLEAN, NEW f \in BOOLEAN,
         Report(o, s, f), kind' = kind, i[o] < Payments(o),
         taken \subseteq taken', s => OutNext(o, i[o]), ~ OutNext(o, i[o]) => f
  PROVE  ReportsTrue'
<1>1. i[o] \in Nat /\ \A p \in Ops : i[p] \in Nat
  BY DEF Inv, TypeOK
<1>2. \A p \in Ops : \A k \in 1..i[p] : Out(p, k - 1) => OutNext(p, k - 1)
  BY DEF Out, OutNext
<1>3. ASSUME NEW p \in Ops, NEW k \in 1..i'[p]
      PROVE  /\ reports'[p][k].sent => OutNext(p, k - 1)
             /\ ~ OutNext(p, k - 1) => reports'[p][k].failed
  <2>1. CASE p = o /\ k = i[o] + 1
    <3>1. reports'[o][i[o] + 1] = [sent |-> s, failed |-> f] /\ k - 1 = i[o]
      BY <2>1, <1>1, ReportStep
    <3> QED
      BY <3>1, <2>1
  <2>2. CASE ~ (p = o /\ k = i[o] + 1)
    <3>1. CASE p = o
      <4>1. i'[o] = i[o] + 1 /\ \A j \in 1..i[o] : reports'[o][j] = reports[o][j]
        BY ReportStep
      <4>2. k \in 1..i[o]
        BY <4>1, <3>1, <2>2, <1>1
      <4>3. reports'[p][k] = reports[o][k]
        BY <4>1, <4>2, <3>1
      <4>4. /\ reports[o][k].sent => Out(o, k - 1)
            /\ ~ Out(o, k - 1) => reports[o][k].failed
        BY <4>2 DEF Inv, ReportsTrue
      <4> QED
        BY <4>2, <4>3, <4>4, <3>1, <1>2
    <3>2. CASE p # o
      <4>1. i'[p] = i[p] /\ reports'[p] = reports[p]
        BY <3>2, ReportStep
      <4> QED
        BY <4>1, <1>2 DEF Inv, ReportsTrue
    <3> QED
      BY <3>1, <3>2
  <2> QED
    BY <2>1, <2>2
<1> QED
  BY <1>3 DEF ReportsTrue, Out, OutNext

-----------------------------------------------------------------------------
LEMMA PrepareInv ==
  ASSUME Inv, NEW o \in Ops, ReadNonce(o) \/ Prepare(o)
  PROVE  Inv'
<1>1. /\ pc[o] = "prepare" /\ pc' \in [Ops -> {"prepare", "sign", "broadcast", "ended", "panicked"}]
      /\ pc'[o] \in {"prepare", "sign"} /\ \A p \in Ops \ {o} : pc'[p] = pc[p]
      /\ step' \in [Ops -> Nat]
      /\ UNCHANGED <<kind, i, reports, made, taken, chain>>
  <2>1. PrepareDone(o) /\ pc[o] = "prepare"
        /\ UNCHANGED <<kind, i, reports, made, taken, chain>>
    BY DEF ReadNonce, Prepare, Preparing
  <2>2. PICK q \in {"sign", "prepare"} : pc' = [pc EXCEPT ![o] = q]
    BY <2>1, Zenon DEF PrepareDone
  <2>3. step' = [step EXCEPT ![o] = @ + 1]
    BY <2>1 DEF PrepareDone
  <2> QED
    BY <2>1, <2>2, <2>3 DEF Inv, TypeOK
<1>2. /\ nonce' \in [Ops -> Nat] /\ \A p \in Ops \ {o} : nonce'[p] = nonce[p]
      /\ nonce'[o] <= mined
  BY DEF Inv, TypeOK, NoncesBehind, ReadNonce, Prepare
<1>3. TypeOK'
  BY <1>1, <1>2 DEF Inv, TypeOK, chain
<1>4. NoncesBehind'
  BY <1>1, <1>2 DEF Inv, NoncesBehind, chain
<1>5. Progress'
  BY <1>1, PaymentsType DEF Inv, Progress, Payments, IsBatch
<1>6. MadeOK'
  <2> SUFFICES ASSUME NEW t \in made
      PROVE  pc'[t.op] # "prepare" /\ t.nonce = nonce'[t.op] + t.payment
             /\ t.payment < Payments(t.op)'
    BY <1>1 DEF MadeOK
  <2>1. t.op \in Ops \ {o}
    BY <1>1 DEF Inv, TypeOK, Txs, MadeOK
  <2> QED
    BY <2>1, <1>1, <1>2 DEF Inv, MadeOK, Payments, IsBatch
<1>7. ReportsTrue'
  BY <1>1 DEF Inv, ReportsTrue, Out
<1> QED
  BY <1>3, <1>4, <1>5, <1>6, <1>7 DEF Inv

(* A step that reports a failure and sends nothing. *)
LEMMA FailureInv ==
  ASSUME Inv, NEW o \in Ops, Report(o, FALSE, TRUE), i[o] < Payments(o),
         UNCHANGED <<kind, step, nonce, made, taken, chain>>
  PROVE  Inv'
<1>1. TypeOK'
  BY ReportStep DEF Inv, TypeOK, chain
<1>2. NoncesBehind'
  BY DEF Inv, NoncesBehind, chain
<1>3. Progress'
  BY ReportStep
<1>4. MadeOK'
  BY ReportStep DEF Inv, TypeOK, Txs, MadeOK, Payments, IsBatch
<1>5. ReportsTrue'
  BY ReportedTrue DEF Out
<1> QED
  BY <1>1, <1>2, <1>3, <1>4, <1>5 DEF Inv

LEMMA PrepareFailsInv ==
  ASSUME Inv, NEW o \in Ops, PrepareFails(o)
  PROVE  Inv'
<1>1. i[o] = 0 /\ i[o] < Payments(o)
  BY PaymentsType DEF PrepareFails, Preparing, Inv, Progress
<1> QED
  BY <1>1, FailureInv DEF PrepareFails

LEMMA PreparePanicsInv ==
  ASSUME Inv, NEW o \in Ops, PreparePanics(o)
  PROVE  Inv'
<1>1. /\ pc' = [pc EXCEPT ![o] = "panicked"]
      /\ UNCHANGED <<kind, step, nonce, i, reports, made, taken, chain>>
  BY DEF PreparePanics
<1>2. TypeOK'
  BY <1>1 DEF Inv, TypeOK, chain
<1>3. NoncesBehind' /\ ReportsTrue'
  BY <1>1 DEF Inv, NoncesBehind, ReportsTrue, Out, chain
<1>4. Progress'
  BY <1>1 DEF Inv, TypeOK, Progress, Payments, IsBatch
<1>5. MadeOK'
  BY <1>1 DEF Inv, TypeOK, Txs, MadeOK, Payments, IsBatch
<1> QED
  BY <1>2, <1>3, <1>4, <1>5 DEF Inv

LEMMA SignInv ==
  ASSUME Inv, NEW o \in Ops, Sign(o) \/ SignFails(o)
  PROVE  Inv'
<1>1. pc[o] = "sign" /\ i[o] < Payments(o)
  BY DEF Inv, Progress, Sign, SignFails
<1>2. CASE SignFails(o)
  BY <1>1, <1>2, FailureInv DEF SignFails
<1>3. CASE Sign(o)
  <2>1. /\ made' = made \cup {Tx(o)} /\ pc' = [pc EXCEPT ![o] = "broadcast"]
        /\ UNCHANGED <<kind, step, nonce, i, reports, taken, chain>>
    BY <1>3 DEF Sign
  <2>2. Tx(o) \in Txs /\ Tx(o).op = o /\ Tx(o).payment = i[o] /\ Tx(o).nonce = nonce[o] + i[o]
    BY DEF Inv, TypeOK, Txs, Tx
  <2>3. TypeOK'
    BY <2>1, <2>2 DEF Inv, TypeOK, chain
  <2>4. NoncesBehind' /\ ReportsTrue'
    BY <2>1 DEF Inv, NoncesBehind, ReportsTrue, Out, chain
  <2>5. Progress'
    BY <1>1, <2>1 DEF Inv, TypeOK, Progress, Payments, IsBatch
  <2>6. MadeOK'
    BY <1>1, <2>1, <2>2 DEF Inv, TypeOK, Txs, MadeOK, Payments, IsBatch
  <2> QED
    BY <2>3, <2>4, <2>5, <2>6 DEF Inv
<1> QED
  BY <1>2, <1>3

LEMMA BroadcastInv ==
  ASSUME Inv, NEW o \in Ops, Broadcast(o)
  PROVE  Inv'
<1>1. PICK S \in SUBSET Nodes : \E A \in SUBSET S :
        /\ pool' = [n \in Nodes |-> IF n \in S THEN Adding(n, Tx(o)) ELSE pool[n]]
        /\ taken' = IF S = {} THEN taken ELSE taken \cup {Tx(o)}
        /\ Report(o, A # {}, A # Nodes)
  BY DEF Broadcast
<1>a. PICK A \in SUBSET S :
        /\ pool' = [n \in Nodes |-> IF n \in S THEN Adding(n, Tx(o)) ELSE pool[n]]
        /\ taken' = IF S = {} THEN taken ELSE taken \cup {Tx(o)}
        /\ Report(o, A # {}, A # Nodes)
  BY <1>1
<1>b. pc[o] = "broadcast" /\ UNCHANGED <<kind, step, nonce, made, nodeNonce, mined>>
  BY DEF Broadcast
<1>2. i[o] < Payments(o)
  BY <1>a, <1>b DEF Inv, Progress
<1>3. Tx(o) \in Txs /\ Tx(o).op = o /\ Tx(o).payment = i[o]
  BY DEF Inv, TypeOK, Txs, Tx
<1>4. taken' \in SUBSET Txs /\ taken \subseteq taken' /\ pool' \in [Nodes -> SUBSET Txs]
  BY <1>a, <1>b, <1>3 DEF Inv, TypeOK, Adding
<1>5. TypeOK'
  BY <1>a, <1>b, <1>2, <1>4, ReportStep DEF Inv, TypeOK
<1>6. NoncesBehind'
  BY <1>a, <1>b DEF Inv, NoncesBehind
<1>7. Progress'
  BY <1>a, <1>b, <1>2, ReportStep
<1>8. MadeOK'
  BY <1>a, <1>b, <1>2, ReportStep DEF Inv, TypeOK, Txs, MadeOK, Payments, IsBatch
<1>9. (A # {} => OutNext(o, i[o])) /\ (~ OutNext(o, i[o]) => A # Nodes)
  <2>1. CASE S = {}
    BY <2>1, NodesExist
  <2>2. CASE S # {}
    BY <2>2, <1>a, <1>b, <1>3 DEF OutNext
  <2> QED
    BY <2>1, <2>2
<1>10. ReportsTrue'
  BY <1>a, <1>b, <1>2, <1>4, <1>9, ReportedTrue
<1> QED
  BY <1>5, <1>6, <1>7, <1>8, <1>10 DEF Inv

LEMMA ChainInv ==
  ASSUME Inv, Chain
  PROVE  Inv'
<1>1. UNCHANGED <<caller, taken>> /\ mined' \in Nat /\ mined <= mined'
  BY DEF Inv, TypeOK, Chain, Gossip, Evict, CatchUp, Mine
<1>2. pool' \in [Nodes -> SUBSET Txs]
  <2>1. ASSUME NEW n \in Nodes, Gossip(n) PROVE pool' \in [Nodes -> SUBSET Txs]
    BY <2>1 DEF Inv, TypeOK, Gossip, Adding
  <2>2. ASSUME NEW n \in Nodes, Evict(n) \/ CatchUp(n)
        PROVE  pool' \in [Nodes -> SUBSET Txs]
    BY <2>2 DEF Inv, TypeOK, Evict, CatchUp
  <2>3. Mine => pool' \in [Nodes -> SUBSET Txs]
    BY DEF Inv, TypeOK, Mine
  <2> QED
    BY <2>1, <2>2, <2>3 DEF Chain
<1>3. nodeNonce' \in [Nodes -> Nat] /\ \A n \in Nodes : nodeNonce'[n] <= mined'
  <2>1. ASSUME NEW n \in Nodes, CatchUp(n)
        PROVE  nodeNonce' \in [Nodes -> Nat] /\ \A m \in Nodes : nodeNonce'[m] <= mined'
    BY <2>1 DEF Inv, TypeOK, NoncesBehind, CatchUp
  <2>2. CASE nodeNonce' = nodeNonce
    BY <2>2, <1>1 DEF Inv, TypeOK, NoncesBehind
  <2> QED
    BY <2>1, <2>2 DEF Chain, Gossip, Evict, Mine
<1>4. TypeOK'
  BY <1>1, <1>2, <1>3 DEF Inv, TypeOK, caller
<1>5. NoncesBehind'
  BY <1>1, <1>3 DEF Inv, TypeOK, NoncesBehind, caller
<1>6. Progress' /\ MadeOK' /\ ReportsTrue'
  BY <1>1 DEF Inv, Progress, MadeOK, ReportsTrue, Out, Payments, IsBatch, caller
<1> QED
  BY <1>4, <1>5, <1>6 DEF Inv

LEMMA StutterInv == Inv /\ UNCHANGED vars => Inv'
  BY DEF Inv, TypeOK, NoncesBehind, Progress, MadeOK, ReportsTrue, Out, Payments,
         IsBatch, vars, caller, chain

THEOREM Invariant == Spec => []Inv
<1>1. Inv /\ [Next]_vars => Inv'
  BY PrepareInv, PrepareFailsInv, PreparePanicsInv, SignInv, BroadcastInv, ChainInv, StutterInv
     DEF Next, Operation
<1> QED
  BY InitInv, <1>1, PTL DEF Spec

-----------------------------------------------------------------------------
(* The state keeps its type; a batch never works on a payment past its last. *)
THEOREM TypeCorrect == Spec => []TypeOK
  BY Invariant, PTL DEF Inv

(* GetMinedNonce of a node that lags behind the chain, and a nonce that does *)
(* not change while the transaction is prepared: a single send never leaves  *)
(* a gap in the account's nonces.                                            *)
THEOREM NonceMineable == Spec => []SingleSendsMineable
<1>1. Inv => SingleSendsMineable
  <2> SUFFICES ASSUME Inv, NEW t \in made, ~ IsBatch(t.op)
               PROVE  t.nonce <= mined
    BY DEF SingleSendsMineable
  <2>1. t.op \in Ops /\ t.payment \in Nat /\ t.nonce = nonce[t.op] + t.payment
        /\ t.payment < 1
    BY DEF Inv, TypeOK, Txs, MadeOK, Payments
  <2> QED
    BY <2>1 DEF Inv, TypeOK, NoncesBehind
<1> QED
  BY Invariant, <1>1, PTL

(* The three slices a batch returns, and the values a single send returns,   *)
(* tell of each payment what happened to it.                                 *)
THEOREM Reported == Spec => []ReportsMatchPayments
<1>1. Inv => ReportsMatchPayments
  <2> SUFFICES ASSUME Inv, NEW o \in Ops, pc[o] = "ended"
               PROVE  /\ Len(reports[o]) = Payments(o)
                      /\ \A k \in 1..Payments(o) :
                           /\ reports[o][k].sent => Out(o, k - 1)
                           /\ ~ Out(o, k - 1) => reports[o][k].failed
    BY DEF ReportsMatchPayments, Out
  <2> QED
    BY DEF Inv, Progress, ReportsTrue
<1> QED
  BY Invariant, <1>1, PTL
=============================================================================
