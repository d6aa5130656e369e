------------------------------ MODULE TxMonitor ------------------------------
(***************************************************************************)
(* TxMonitor.periodicCheck and the caller of BlockingWait that receives    *)
(* from its channel, on top of TxInfo: every five seconds the monitor asks *)
(* TxInfoFromHash for the state of the transaction, until it has a verdict *)
(* or gives the transaction up as lost.                                    *)
(***************************************************************************)
EXTENDS TxInfo

CONSTANT LostAfter   \* three minutes, in ticks of five seconds

ASSUME LostAfterNat == LostAfter \in Nat

VARIABLES
  now,        \* ticks since startTime, up to LostAfter + 1
  ticker,     \* ticker.C: the time of the tick waiting in it, or NoTick
  at,         \* t: the time of the tick being worked on
  isOnNode,
  mpc,        \* "wait", "ask", "send" or "ended"
  message,    \* what the monitor sends
  delivered   \* what the receiver got, status "none" before

monitor == <<now, ticker, at, isOnNode, mpc, message, delivered>>
mvars == <<vars, monitor>>

NoTick == LostAfter + 2     \* later than any time
Horizon == LostAfter + 1

MInit ==
  /\ Init
  /\ now = 0 /\ ticker = NoTick /\ at = 0
  /\ isOnNode = FALSE
  /\ mpc = "wait"
  /\ message = info /\ delivered = info

(* Faulty variant: a monitor that ends on an error.                         *)
RetryEndsOnError ==
  /\ mpc = "ask" /\ pc = "idle"
  /\ info.status \in {"error", "notfound"}
  /\ mpc' = IF info.status = "error" THEN "ended" ELSE "wait"
  /\ UNCHANGED <<now, ticker, at, isOnNode, message, delivered, vars>>

GivesUp == at > LostAfter /\ ~ isOnNode

(* Five seconds pass.  A tick that finds the channel full is dropped.       *)
Advance ==
  /\ mpc # "ended"
  /\ now < Horizon \/ ticker = NoTick
  /\ now' = IF now < Horizon THEN now + 1 ELSE now
  /\ ticker' = IF ticker = NoTick THEN now' ELSE ticker
  /\ UNCHANGED <<at, isOnNode, mpc, message, delivered, vars>>

(* t := <-ticker.C, and TxInfoFromHash is entered.                          *)
Check ==
  /\ mpc = "wait"
  /\ ticker # NoTick
  /\ at' = ticker /\ ticker' = NoTick
  /\ mpc' = "ask"
  /\ Ask
  /\ UNCHANGED <<now, isOnNode, message, delivered, world>>

(* TxInfoFromHash at work. *)
Read ==
  /\ mpc = "ask" /\ pc # "idle"
  /\ TxInfoFromHash
  /\ UNCHANGED <<now, ticker, at, isOnNode, mpc, message, delivered, world>>

(* case "error" and case "notfound".  Behind OneNodeReaders an unknown      *)
(* transaction is an error, so that the second never comes.                 *)
Retry ==
  /\ mpc = "ask" /\ pc = "idle"
  /\ info.status \in {"error", "notfound"}
  /\ IF info.status = "notfound" /\ GivesUp
       THEN message' = Info("lost", Nil) /\ mpc' = "send"
       ELSE mpc' = "wait" /\ UNCHANGED message
  /\ UNCHANGED <<now, ticker, at, isOnNode, delivered, vars>>

Pending ==
  /\ mpc = "ask" /\ pc = "idle"
  /\ info.status = "pending"
  /\ isOnNode' = TRUE
  /\ mpc' = "wait"
  /\ UNCHANGED <<now, ticker, at, message, delivered, vars>>

(* case "reverted" and case "done": the header is read a second time.       *)
ReadBlock ==
  /\ mpc = "ask" /\ pc = "idle"
  /\ Final(info)
  /\ message' = info
  /\ mpc' = "send"
  /\ UNCHANGED <<now, ticker, at, isOnNode, delivered, vars>>

(* The channel is unbuffered: sending is receiving, and then both end.      *)
Deliver ==
  /\ mpc = "send"
  /\ delivered' = message
  /\ mpc' = "ended"
  /\ UNCHANGED <<now, ticker, at, isOnNode, message, vars>>

MNext ==
  \/ Advance
  \/ Check \/ Read
  \/ Retry \/ Pending \/ ReadBlock
  \/ Deliver
  \/ World /\ UNCHANGED <<reader, monitor>>

(* Time passes, goroutines run, and every read ends: that is ReadReturns of *)
(* EthReader.  BlockingWait is there to receive.  Nothing is assumed of the *)
(* nodes.                                                                   *)
MFairness ==
  /\ WF_mvars(Advance)
  /\ WF_mvars(Check \/ Read \/ Retry \/ Pending \/ ReadBlock)
  /\ WF_mvars(Deliver)

MSpec == MInit /\ [][MNext]_mvars /\ MFairness

-----------------------------------------------------------------------------
Statuses == {"none", "lost", "done", "reverted"}

MTypeOK ==
  /\ TypeOK
  /\ now \in 0..Horizon
  /\ ticker \in 0..NoTick
  /\ at \in 0..Horizon
  /\ isOnNode \in BOOLEAN
  /\ mpc \in {"wait", "ask", "send", "ended"}
  /\ \A m \in {message, delivered} :
       m \in [status : Statuses, receipt : Forks \cup {Nil}]

(* BlockingWait returns nothing but a verdict, and it is the outcome of the *)
(* transaction in a block that some node has had.  Lagging nodes, failing   *)
(* nodes, ticks that were dropped or came late do not matter, and one that  *)
(* is not found for however long is not given up: it is waited for.         *)
DeliveredIsReal ==
  delivered.status # "none" =>
    /\ Final(delivered)
    /\ delivered.receipt \in held
    /\ delivered.status = "reverted" <=> outcome[delivered.receipt] = "failed"
=============================================================================
