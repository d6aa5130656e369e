------------------------------ MODULE TxAnalyzer ------------------------------
(***************************************************************************)
(* What a program does with one transaction: it waits for it, by           *)
(* BlockingWait or BlockingWaitForMultipleTxs, or it has TxAnalyzer.Analyze *)
(* look at it now and again.  Analyze reads the state of the transaction,  *)
(* whether the receiver has code, and the receiver's ABI, and decodes the  *)
(* call and the logs with it.  Steps of the nodes that no read can see any *)
(* more are left out.                                                      *)
(***************************************************************************)
EXTENDS TxMonitor, Sequences

CONSTANTS
  Logs,      \* the logs to decode: [topics, known, indexed, decodes, function]
  Calls,     \* the data to decode: [fits, inputs, typed, function]: which method
             \*   it calls, with how many inputs, an address and bytes where a
             \*   Gnosis wallet has them or not, a function among them or not
  MaxLogs    \* bound on the logs of a receipt

ASSUME LogsTyped ==
  Logs \subseteq [topics : Nat, known : BOOLEAN, indexed : Nat, decodes : BOOLEAN,
                 function : BOOLEAN]
ASSUME CallsTyped ==
  Calls \subseteq [fits : {"none", "method", "submitTransaction"}, inputs : Nat,
                  typed : BOOLEAN, function : BOOLEAN]

VARIABLES
  use,       \* "wait" or "analyze"
  explorer,  \* self.be is not nil: NewTomoReader has no block explorer
  target,    \* the receiver: an "account", a "contract" or, of a creation, "none";
             \*   "unread" before it matters
  apc,       \* "idle", "info", "code", "abi"; "returned" or "panicked"
  given,     \* history: what came of decoding the receipt's logs, one by one
  result     \* TxResult

analyzer == <<use, explorer, target, apc, given, result>>
avars == <<mvars, analyzer>>

(* Error holds one element for each message added to it: what it is about,  *)
(* and for a log its number.                                                *)
NewTxResult ==
  [status |-> "none", type |-> "", method |-> FALSE, logs |-> <<>>,
   gnosis |-> "none", error |-> {}]

AInit ==
  /\ MInit
  /\ use \in {"wait", "analyze"} /\ explorer \in BOOLEAN
  /\ target = "unread"
  /\ apc = "idle"
  /\ given = <<>>
  /\ result = NewTxResult

-----------------------------------------------------------------------------
(* Decoding.  AnalyzeLog finds the event by the first topic, has a name for *)
(* each other topic from the event's indexed arguments, and unpacks the     *)
(* data.  The ABI is the receiver's; the log may be any other contract's.   *)
(* ParamAsString has no form for a value of a function type.                *)
AnalyzeLog(l) ==
  CASE l.topics = 0 -> "panics"
    [] l.topics > 0 /\ ~ l.known -> "part"
    [] l.known /\ l.topics - 1 > l.indexed -> "panics"
    [] l.known /\ l.topics \in 1..(l.indexed + 1) ->
         IF ~ l.decodes THEN "part" ELSE IF l.function THEN "panics" ELSE "whole"

(* submitTransaction with inputs named like those of a Gnosis wallet, as    *)
(* far as they go: the three are read without a look at how many there are  *)
(* or at their types.  What they call is decoded with the ABI of the        *)
(* contract they name, and may have an input of a function type itself.     *)
GnosisInit(call) ==
  IF call.inputs = 3 /\ call.typed THEN {"failed", "done", "panics"} ELSE {"panics"}

AnalyzeMethodCall(call) ==
  CASE call.fits = "none" -> {"error"}
    [] call.fits # "none" /\ call.function -> {"panics"}
    [] call.fits = "method" /\ ~ call.function -> {"none"}
    [] call.fits = "submitTransaction" /\ ~ call.function -> GnosisInit(call)

(* Faulty variant: logs that cannot be decoded are skipped.                 *)
ShownSkipping(decoded) == SelectSeq(decoded, LAMBDA d : d = "whole")
Shown(decoded) == decoded
LogErrors(decoded) == {<<"log", k>> : k \in {k \in DOMAIN decoded : decoded[k] = "part"}}

Basic(type) == [NewTxResult EXCEPT !.status = info.status, !.type = type]

(* The logs one by one, up to one that panics.                              *)
Decodings ==
  {d \in UNION {[1..n -> {AnalyzeLog(l) : l \in Logs}] : n \in 0..MaxLogs} :
     \A k \in DOMAIN d : d[k] = "panics" => k = Len(d)}

(* An error of the call leaves the logs out.  One of a log is added to the  *)
(* others, and the log is there as far as it was decoded.                   *)
AnalyzeContractTx ==
  \E c \in Calls : \E call \in AnalyzeMethodCall(c) :
    \/ /\ call = "error"
       /\ apc' = "returned" /\ UNCHANGED given
       /\ result' = [Basic("contract call") EXCEPT !.error = {<<"method", 0>>}]
    \/ /\ call = "panics"
       /\ apc' = "panicked" /\ UNCHANGED given
       /\ result' = [Basic("contract call") EXCEPT !.gnosis = "panics"]
    \/ /\ call \in {"none", "failed", "done"}
       /\ given' \in Decodings
       /\ apc' = IF \E k \in DOMAIN given' : given'[k] = "panics" THEN "panicked"
                 ELSE "returned"
       /\ result' = [Basic("contract call") EXCEPT !.method = TRUE, !.gnosis = call,
                       !.logs = Shown(given'), !.error = LogErrors(given')]

AnalyzeOffline(isContract) ==
  \/ /\ ~ Final(info)
     /\ apc' = "returned" /\ result' = Basic("") /\ UNCHANGED given
  \/ /\ Final(info) /\ ~ isContract
     /\ apc' = "returned" /\ result' = Basic("normal") /\ UNCHANGED given
  \/ Final(info) /\ isContract /\ AnalyzeContractTx

-----------------------------------------------------------------------------
Fail(e) == apc' = "returned" /\ result' = [NewTxResult EXCEPT !.error = {<<e, 0>>}]

Analyze ==
  /\ use = "analyze" /\ apc \in {"idle", "returned"} /\ pc = "idle"
  /\ Ask
  /\ apc' = "info" /\ given' = <<>> /\ result' = NewTxResult
  /\ UNCHANGED <<world, monitor, use, explorer, target>>

ReadInfo ==
  /\ use = "analyze" /\ apc = "info" /\ pc # "idle"
  /\ TxInfoFromHash
  /\ UNCHANGED <<world, monitor, analyzer>>

(* txinfo.Tx.To().Hex(), for which there is no transaction if none was      *)
(* found, and no receiver if it is a creation.                              *)
(* Faulty variant: the error of TxInfoFromHash is not looked at.            *)
InfoReadUnchecked ==
  /\ apc = "info" /\ pc = "idle"
  /\ IF info.status \in {"error", "notfound"}
       THEN apc' = "panicked" /\ UNCHANGED target
       ELSE /\ target' \in IF target = "unread" THEN {"account", "contract", "none"}
                           ELSE {target}
            /\ apc' = IF target' = "none" THEN "panicked" ELSE "code"
  /\ UNCHANGED <<mvars, use, explorer, given, result>>
InfoRead ==
  /\ apc = "info" /\ pc = "idle"
  /\ IF info.status = "error"
       THEN Fail("info") /\ UNCHANGED target
     ELSE IF info.status = "notfound"
       THEN apc' = "panicked" /\ UNCHANGED <<target, result>>
     ELSE /\ target' \in IF target = "unread" THEN {"account", "contract", "none"}
                         ELSE {target}
          /\ apc' = IF target' = "none" THEN "panicked" ELSE "code"
          /\ UNCHANGED result
  /\ UNCHANGED <<mvars, use, explorer, given>>

(* A node without the transaction's block may lag behind the contract's.    *)
Lagging == \E n \in Nodes : view[n] \notin Forks

GetCode ==
  /\ apc = "code"
  /\ \/ /\ ~ healthy
        /\ Fail("code") /\ UNCHANGED given
     \/ /\ target = "contract"
        /\ apc' = "abi" /\ UNCHANGED <<given, result>>
     \/ /\ target = "account" \/ Lagging
        /\ AnalyzeOffline(FALSE)
  /\ UNCHANGED <<mvars, use, explorer, target>>

(* An explorer's answer, or a failure.  GetABIString of a nil explorer      *)
(* reads its Domain.                                                        *)
GetABI ==
  /\ apc = "abi"
  /\ IF explorer
       THEN (Fail("abi") /\ UNCHANGED given) \/ AnalyzeOffline(TRUE)
       ELSE apc' = "panicked" /\ UNCHANGED <<given, result>>
  /\ UNCHANGED <<mvars, use, explorer, target>>

-----------------------------------------------------------------------------
(* The monitor at work for BlockingWait. *)
Waiting(A) == use = "wait" /\ A /\ UNCHANGED analyzer
Tick == Waiting(Advance)
Work == Waiting(Check \/ Read \/ Retry \/ Pending \/ ReadBlock)
Send == Waiting(Deliver)

(* BlockingWait hands out what it received.  waitForChannel, behind         *)
(* BlockingWaitForMultipleTxs, stores it under its transaction's hash, and  *)
(* one that is lost has no transaction.                                     *)
Return ==
  /\ use = "wait" /\ mpc = "ended" /\ apc = "idle"
  /\ \E several \in BOOLEAN :
       apc' = IF several /\ delivered.status = "lost" THEN "panicked" ELSE "returned"
  /\ UNCHANGED <<mvars, use, explorer, target, given, result>>

Unseen == IF use = "wait" THEN mpc = "ended" ELSE apc \notin {"idle", "info"}

ANext ==
  \/ Tick \/ Work \/ Send \/ Return
  \/ Analyze \/ ReadInfo \/ InfoRead \/ GetCode \/ GetABI
  \/ World /\ ~ Unseen /\ UNCHANGED <<reader, monitor, analyzer>>

(* That of the monitor, and its caller goes on.                             *)
AFairness ==
  /\ WF_avars(Tick) /\ WF_avars(Work) /\ WF_avars(Send)
  /\ WF_avars(Return)

ASpec == AInit /\ [][ANext]_avars /\ AFairness

-----------------------------------------------------------------------------
ATypeOK ==
  /\ MTypeOK
  /\ use \in {"wait", "analyze"} /\ explorer \in BOOLEAN
  /\ target \in {"unread", "account", "contract", "none"}
  /\ apc \in {"idle", "info", "code", "abi", "returned", "panicked"}
  /\ given \in Seq({"whole", "part", "panics"})

(* A program that waits for a transaction never goes down.  One that has it *)
(* analysed may, over a transaction without a receiver, over a contract     *)
(* when there is no explorer to ask, and over a call or a log the decoder   *)
(* does not expect; it is then one that was found, never a nil one whose    *)
(* reads failed, and the decoder is reached only once it is final.          *)
NoPanic ==
  apc = "panicked" =>
    /\ use = "analyze" /\ info.status \in {"pending", "done", "reverted"}
    /\ \/ target = "none"
       \/ target = "contract" /\ ~ explorer
       \/ /\ target = "contract" /\ Final(info)
          /\ result.gnosis = "panics" \/ \E k \in DOMAIN given : given[k] = "panics"

(* A result without an error is complete: it has the state of the           *)
(* transaction and, once that is final, its type; a contract's call, and    *)
(* all logs of the receipt in their order, all of them decoded.  With an    *)
(* error about a log the call and every log are still there.  What failed   *)
(* in decoding what a Gnosis wallet is to call is in GnosisInit's own Error. *)
ResultComplete ==
  apc = "returned" /\ use = "analyze" =>
    /\ result.error = {} =>
         /\ result.status = info.status
         /\ Final(info) <=> result.type # ""
         /\ result.type = "contract call" => result.method
         /\ \A k \in DOMAIN result.logs : result.logs[k] = "whole"
    /\ result.method => result.logs = given

(* Once the nodes answer and have it mined, the program goes on.            *)
MinedIsReturned ==
  use = "wait" /\ <>[](healthy /\ \A n \in Nodes : view[n] \in Forks) =>
    <>(apc \in {"returned", "panicked"} /\ delivered.status # "none")
=============================================================================
