-------------------------------- MODULE TxInfo --------------------------------
(***************************************************************************)
(* EthReader.TxInfoFromHash for one transaction: up to three reads, one    *)
(* after the other, each answered by whichever node is first, while the    *)
(* nodes learn, mine, drop and reorganise it at their own pace.  A read is *)
(* what FirstAnswer promises: the answer of some node, or an error when    *)
(* none of them answers.                                                   *)
(***************************************************************************)
EXTENDS Naturals, FiniteSets

CONSTANTS
  Nodes,            \* keys of self.nodes
  Forks,            \* the blocks that may include the transaction
  Nil               \* the nil pointer

ASSUME Sentinels ==
  /\ Nil \notin Forks
  /\ Forks \cap {"absent", "pool"} = {}

VARIABLES
  reorgs,    \* do the nodes ever have the transaction in competing blocks?
  view,      \* view[n]: "absent", "pool" or the block n has the transaction in
  outcome,   \* outcome[f]: "ok", "failed" or, before Byzantium, "root"
  healthy,   \* every node answers from now on; before, any call may fail
  held,      \* history: the blocks some node has had it in
  pc,        \* the reader: "idle", "tx", "receipt" or "header"
  receipt,   \* the block of the receipt it has read, or Nil
  info       \* what TxInfoFromHash returned last

fixed == <<reorgs, outcome>>
world == <<fixed, view, healthy, held>>
reader == <<pc, receipt, info>>

Info(status, rcpt) == [status |-> status, receipt |-> rcpt]

Init ==
  /\ reorgs \in BOOLEAN
  /\ view = [n \in Nodes |-> "absent"]
  /\ outcome \in [Forks -> {"ok", "failed", "root"}]
  /\ healthy = FALSE
  /\ held = {}
  /\ pc = "idle"
  /\ receipt = Nil
  /\ info = Info("none", Nil)

-----------------------------------------------------------------------------
(* The nodes and the chain. *)
Learn(n) ==
  /\ view[n] = "absent"
  /\ view' = [view EXCEPT ![n] = "pool"]
  /\ UNCHANGED <<fixed, healthy, held>>

Drop(n) ==
  /\ view[n] = "pool"
  /\ view' = [view EXCEPT ![n] = "absent"]
  /\ UNCHANGED <<fixed, healthy, held>>

Include(n, f) ==
  /\ view[n] \in {"absent", "pool"}
  /\ reorgs \/ held \subseteq {f}
  /\ view' = [view EXCEPT ![n] = f]
  /\ held' = held \cup {f}
  /\ UNCHANGED <<fixed, healthy>>

Reorg(n) ==
  /\ reorgs
  /\ view[n] \in Forks
  /\ view' = [view EXCEPT ![n] = "pool"]
  /\ UNCHANGED <<fixed, healthy, held>>

Recover ==
  /\ ~ healthy
  /\ healthy' = TRUE
  /\ UNCHANGED <<fixed, view, held>>

World ==
  \/ \E n \in Nodes :
       Learn(n) \/ Drop(n) \/ Reorg(n) \/ \E f \in Forks : Include(n, f)
  \/ Recover

-----------------------------------------------------------------------------
(* A fan-out read that only the nodes of S can answer may fail. *)
MayFail(S) == ~ healthy \/ S = {}
Having(V) == {n \in Nodes : view[n] \in V}

Give(i) == pc' = "idle" /\ info' = i /\ UNCHANGED receipt

(* Faulty variants: a receipt without status read as a failed one, a        *)
(* missing receipt taken for a failure, and a node's null handed on as a    *)
(* transaction that is nil, without an error.                               *)
VerdictByStatus(f) == IF outcome[f] = "ok" THEN "done" ELSE "reverted"
ReceiptMissingReverts ==
  /\ pc = "receipt"
  /\ MayFail(Having(Forks))
  /\ Give(Info("reverted", Nil))
NullAnswerNil == "notfound"

(* PostState of a hash's length: before Byzantium, considered done.         *)
Verdict(f) ==
  IF outcome[f] = "root" \/ outcome[f] = "ok" THEN "done" ELSE "reverted"

Ask ==
  /\ pc = "idle"
  /\ pc' = "tx"
  /\ receipt' = Nil
  /\ UNCHANGED info

(* json == nil: a node that does not have it answers ethereum.NotFound.     *)
NullAnswer == "error"
Answer(n) ==
  CASE view[n] = "absent" -> NullAnswer
    [] view[n] = "pool" -> "pending"
    [] view[n] \in Forks -> "mined"

(* The fan-out's answer: one that is not an error, if there is one in time. *)
TransactionByHash ==
  LET answers == {Answer(n) : n \in Nodes} \ {"error"} IN
    answers \cup {e \in {"error"} : ~ healthy \/ answers = {}}

(* err != nil, txObj == nil and isPending *)
TxUnmined ==
  /\ pc = "tx"
  /\ \E s \in TransactionByHash \ {"mined"} : Give(Info(s, Nil))

TxMined ==
  /\ pc = "tx"
  /\ "mined" \in TransactionByHash
  /\ pc' = "receipt"
  /\ UNCHANGED <<receipt, info>>

(* receipt, _ := self.TransactionReceipt(tx): any error leaves it nil.  A   *)
(* node without the receipt, or without the header below, answers an error. *)
ReceiptMissing ==
  /\ pc = "receipt"
  /\ MayFail(Having(Forks))
  /\ Give(Info("pending", Nil))

ReceiptRead ==
  /\ pc = "receipt"
  /\ \E n \in Having(Forks) : receipt' = view[n]
  /\ pc' = "header"
  /\ UNCHANGED info

(* block, _ := self.HeaderByNumber(...): whatever it is, an error included, *)
(* the verdict is the receipt's.                                            *)
HeaderRead ==
  /\ pc = "header"
  /\ Give(Info(Verdict(receipt), receipt))

TxInfoFromHash ==
  \/ TxUnmined \/ TxMined
  \/ ReceiptMissing \/ ReceiptRead
  \/ HeaderRead

Next ==
  \/ World /\ UNCHANGED reader
  \/ (Ask \/ TxInfoFromHash) /\ UNCHANGED world

vars == <<world, reader>>
Spec == Init /\ [][Next]_vars

-----------------------------------------------------------------------------
TypeOK ==
  /\ reorgs \in BOOLEAN
  /\ view \in [Nodes -> {"absent", "pool"} \cup Forks]
  /\ outcome \in [Forks -> {"ok", "failed", "root"}]
  /\ healthy \in BOOLEAN
  /\ held \in SUBSET Forks
  /\ pc \in {"idle", "tx", "receipt", "header"}
  /\ receipt \in Forks \cup {Nil}
  /\ info \in [status : {"none", "error", "notfound", "pending", "done", "reverted"},
               receipt : Forks \cup {Nil}]

Final(i) == i.status \in {"done", "reverted"}

(* A verdict is the outcome of the transaction in a block that really held  *)
(* it on some node, although its three reads may have come from three nodes *)
(* at three moments.  Of the header that comes with it nothing is promised. *)
VerdictOfRealBlock ==
  Final(info) =>
    /\ info.receipt \in held
    /\ info.status = "reverted" <=> outcome[info.receipt] = "failed"

(* On a chain that does not reorganise two verdicts never differ.           *)
VerdictsAgree ==
  [][Final(info) /\ Final(info') /\ ~ reorgs =>
       info'.status = info.status /\ info'.receipt = info.receipt]_vars
=============================================================================
