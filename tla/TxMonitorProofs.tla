--------------------------- MODULE TxMonitorProofs ---------------------------
(***************************************************************************)
(* Proofs about TxInfoFromHash, the monitor on top of it, and the program  *)
(* that uses either, for any nodes, any competing blocks, any time to wait *)
(* and any calls and logs to decode.                                       *)
(***************************************************************************)
EXTENDS TxAnalyzer, TLAPS

(* Blocks nodes have had, receipts read and verdicts given all agree, and   *)
(* an unknown transaction is an error, not one that is nil.                 *)
HeldOK ==
  /\ \A n \in Nodes : view[n] \in Forks => view[n] \in held
  /\ ~ reorgs => \A f, g \in held : f = g
ReceiptOK ==
  /\ receipt # Nil => receipt \in held
  /\ pc = "header" => receipt # Nil
Real(i) ==
  Final(i) => i.receipt \in held /\ i.status = Verdict(i.receipt)

RInv == TypeOK /\ HeldOK /\ ReceiptOK /\ Real(info) /\ info.status # "notfound"

LEMMA InitRInv == Init => RInv
<1> SUFFICES ASSUME Init PROVE RInv
  OBVIOUS
<1>1. info.status = "none" /\ info.receipt = Nil
  BY DEF Init, Info
<1>2. TypeOK
  BY DEF Init, TypeOK, Info
<1>3. HeldOK
  BY Sentinels DEF Init, HeldOK
<1>4. ReceiptOK /\ Real(info)
  BY <1>1 DEF Init, ReceiptOK, Real, Final
<1> QED
  BY <1>1, <1>2, <1>3, <1>4 DEF RInv

LEMMA WorldRInv ==
  ASSUME RInv, World, UNCHANGED reader
  PROVE  RInv' /\ held \subseteq held' /\ outcome' = outcome
<1> USE DEF RInv, TypeOK, HeldOK, ReceiptOK, Real, Final, Verdict, reader, fixed
<1>1. ASSUME NEW n \in Nodes, Learn(n) \/ Drop(n) \/ Reorg(n)
      PROVE  RInv' /\ held \subseteq held' /\ outcome' = outcome
  BY <1>1, Sentinels DEF Learn, Drop, Reorg
<1>2. ASSUME NEW n \in Nodes, NEW f \in Forks, Include(n, f)
      PROVE  RInv' /\ held \subseteq held' /\ outcome' = outcome
  BY <1>2 DEF Include
<1>3. CASE Recover
  BY <1>3 DEF Recover
<1> QED
  BY <1>1, <1>2, <1>3 DEF World

LEMMA AskRInv == ASSUME RInv, Ask, UNCHANGED world PROVE RInv'
BY DEF RInv, TypeOK, HeldOK, ReceiptOK, Real, Final, Verdict, Ask, world, fixed

LEMMA ReadRInv ==
  ASSUME RInv, TxInfoFromHash, UNCHANGED world
  PROVE  RInv' /\ (pc' = "idle" => info'.status # "none")
<1> USE DEF RInv, TypeOK, HeldOK, ReceiptOK, Real, Final, Verdict, world, fixed,
            Give, Info
<1>1. CASE TxUnmined
  <2>1. PICK s \in {"error", "pending"} : info' = Info(s, Nil)
    BY <1>1 DEF TxUnmined, TransactionByHash, Answer, NullAnswer
  <2> QED
    BY <1>1, <2>1 DEF TxUnmined
<1>2. CASE TxMined
  BY <1>2 DEF TxMined
<1>3. CASE ReceiptMissing
  BY <1>3 DEF ReceiptMissing
<1>4. CASE ReceiptRead
  BY <1>4, Sentinels DEF ReceiptRead, Having
<1>5. CASE HeaderRead
  <2>1. receipt \in Forks /\ receipt \in held
    BY <1>5 DEF HeaderRead
  <2> QED
    BY <1>5, <2>1 DEF HeaderRead
<1> QED
  BY <1>1, <1>2, <1>3, <1>4, <1>5 DEF TxInfoFromHash

LEMMA StepRInv == RInv /\ [Next]_vars => RInv'
<1> SUFFICES ASSUME RInv, [Next]_vars PROVE RInv'
  OBVIOUS
<1>1. CASE World /\ UNCHANGED reader
  BY <1>1, WorldRInv
<1>2. CASE (Ask \/ TxInfoFromHash) /\ UNCHANGED world
  BY <1>2, AskRInv, ReadRInv
<1>3. CASE UNCHANGED vars
  BY <1>3 DEF RInv, TypeOK, HeldOK, ReceiptOK, Real, Final, Verdict,
              vars, world, fixed, reader
<1> QED
  BY <1>1, <1>2, <1>3 DEF Next

LEMMA RealVerdict ==
  ASSUME RInv, NEW i, Real(i), Final(i)
  PROVE  /\ i.receipt \in held
         /\ i.status = "reverted" <=> outcome[i.receipt] = "failed"
BY DEF Real, Final, Verdict, RInv, TypeOK

(* Every verdict is the outcome of the transaction in a block that some     *)
(* node has had it in.                                                      *)
THEOREM InfoIsReal == Spec => []VerdictOfRealBlock
<1>1. RInv => VerdictOfRealBlock
  BY RealVerdict DEF VerdictOfRealBlock, RInv
<1> QED
  BY <1>1, InitRInv, StepRInv, PTL DEF Spec

(* Without competing blocks two verdicts never differ.                      *)
THEOREM InfosAgree == Spec => VerdictsAgree
<1>1. RInv /\ RInv' /\ [Next]_vars =>
        [Final(info) /\ Final(info') /\ ~ reorgs =>
           info'.status = info.status /\ info'.receipt = info.receipt]_vars
  <2> SUFFICES ASSUME RInv, RInv', Next, Final(info), Final(info'), ~ reorgs
               PROVE  info'.status = info.status /\ info'.receipt = info.receipt
    OBVIOUS
  <2>1. info.receipt \in Forks /\ info'.receipt \in Forks
    BY DEF RInv, Real, TypeOK, Final
  <2>2. info'.receipt = info.receipt
    <3>1. reorgs' = reorgs /\ held \subseteq held'
      BY DEF Next, World, Learn, Drop, Reorg, Include, Recover, world, fixed
    <3>2. info.receipt \in held /\ info'.receipt \in held'
      BY DEF RInv, Real, Final
    <3> QED
      BY <3>1, <3>2 DEF RInv, HeldOK
  <2>3. info.status = Verdict(info.receipt) /\ info'.status = Verdict(info.receipt)'
    BY <2>2 DEF RInv, Real, Final
  <2>4. outcome' = outcome
    BY DEF Next, World, Learn, Drop, Reorg, Include, Recover, world, fixed
  <2> QED
    BY <2>2, <2>3, <2>4 DEF Verdict
<1> QED
  BY <1>1, InitRInv, StepRInv, PTL DEF Spec, VerdictsAgree

-----------------------------------------------------------------------------
(* The monitor.  What it sends is a verdict, and a real one.                *)
Messages == [status : Statuses, receipt : Forks \cup {Nil}]

SentOK(m) == m.status # "none" => Final(m) /\ Real(m)

MInv == RInv /\ MTypeOK /\ SentOK(message) /\ SentOK(delivered)

LEMMA InitMInv == MInit => MInv
<1> SUFFICES ASSUME MInit PROVE MInv
  OBVIOUS
<1>1. RInv /\ info = Info("none", Nil)
  BY InitRInv DEF MInit, Init
<1>2. info \in Messages /\ info.status = "none"
  BY <1>1 DEF Messages, Statuses, Info
<1>3. now \in 0..Horizon /\ ticker \in 0..NoTick /\ at \in 0..Horizon
  BY LostAfterNat DEF MInit, Horizon, NoTick
<1> QED
  BY <1>1, <1>2, <1>3 DEF MInit, MInv, MTypeOK, RInv, Messages, SentOK

(* What has been sent or received stays real while nodes learn more. *)
LEMMA SentStays ==
  ASSUME NEW m, SentOK(m), held \subseteq held', outcome' = outcome
  PROVE  SentOK(m)'
BY DEF SentOK, Real, Final, Verdict

LEMMA WorldKept ==
  ASSUME UNCHANGED world PROVE held \subseteq held' /\ outcome' = outcome
BY DEF world, fixed

(* Steps that leave the reader alone. *)
LEMMA IdleMInv ==
  ASSUME MInv, UNCHANGED vars,
         \/ Advance \/ Retry \/ Pending \/ ReadBlock \/ Deliver
         \/ UNCHANGED monitor
  PROVE  MInv'
<1> USE LostAfterNat DEF MInv
<1>1. RInv' /\ TypeOK'
  BY DEF RInv, TypeOK, HeldOK, ReceiptOK, Real, Final, Verdict,
         vars, world, fixed, reader
<1>2. \A m : SentOK(m) => SentOK(m)'
  BY SentStays, WorldKept DEF vars
<1>3. now \in 0..Horizon /\ ticker \in 0..NoTick /\ at \in 0..Horizon
      /\ isOnNode \in BOOLEAN /\ mpc \in {"wait", "ask", "send", "ended"}
      /\ message \in Messages /\ delivered \in Messages
  BY DEF MTypeOK, Messages
<1>4. SUFFICES /\ now' \in 0..Horizon /\ ticker' \in 0..NoTick /\ at' \in 0..Horizon
               /\ isOnNode' \in BOOLEAN /\ mpc' \in {"wait", "ask", "send", "ended"}
               /\ message' \in Messages /\ delivered' \in Messages
               /\ SentOK(message') /\ SentOK(delivered')
  <2>1. SentOK(message)' /\ SentOK(delivered)'
    BY <1>2, WorldKept, <1>4 DEF SentOK, Real, Final, Verdict, vars, world, fixed
  <2> QED
    BY <1>1, <1>4, <2>1 DEF MTypeOK, Messages, Horizon, NoTick, Statuses
<1>5. CASE Advance
  BY <1>3, <1>5 DEF Advance, Horizon, NoTick
<1>6. CASE Retry
  BY <1>3, <1>6 DEF Retry, RInv
<1>7. CASE Pending
  BY <1>3, <1>7 DEF Pending
<1>8. CASE ReadBlock
  <2>1. info \in Messages
    BY <1>8 DEF ReadBlock, Final, RInv, TypeOK, Messages, Statuses
  <2>2. SentOK(info)
    BY <1>8 DEF ReadBlock, SentOK, RInv
  <2> QED
    BY <1>3, <1>8, <2>1, <2>2 DEF ReadBlock
<1>9. CASE Deliver
  BY <1>3, <1>9 DEF Deliver
<1>10. CASE UNCHANGED monitor
  BY <1>3, <1>10 DEF monitor
<1> QED
  BY <1>5, <1>6, <1>7, <1>8, <1>9, <1>10

(* The nodes change, monitor and reader do not. *)
LEMMA WorldMInv ==
  ASSUME MInv, World, UNCHANGED <<reader, monitor>>
  PROVE  MInv'
<1>1. RInv' /\ held \subseteq held' /\ outcome' = outcome
  BY WorldRInv DEF MInv
<1>2. MTypeOK'
  BY <1>1 DEF MInv, MTypeOK, RInv, monitor, Horizon, NoTick, Statuses
<1>3. SentOK(message)' /\ SentOK(delivered)'
  BY <1>1 DEF MInv, SentOK, Real, Final, Verdict, monitor
<1> QED
  BY <1>1, <1>2, <1>3 DEF MInv

LEMMA CheckMInv == ASSUME MInv, Check PROVE MInv'
<1>1. RInv'
  BY AskRInv DEF MInv, Check
<1>2. at' \in 0..Horizon /\ ticker' \in 0..NoTick
  BY LostAfterNat DEF Check, MInv, MTypeOK, Horizon, NoTick
<1>3. MTypeOK'
  BY <1>1, <1>2 DEF Check, MInv, MTypeOK, RInv, Horizon, NoTick, Statuses
<1>4. SentOK(message)' /\ SentOK(delivered)'
  BY DEF Check, MInv, SentOK, Real, Final, Verdict, world, fixed
<1> QED
  BY <1>1, <1>3, <1>4 DEF MInv

LEMMA ReadMInv == ASSUME MInv, Read PROVE MInv'
<1>1. RInv'
  BY ReadRInv DEF MInv, Read
<1>2. MTypeOK'
  BY <1>1 DEF Read, MInv, MTypeOK, RInv, Horizon, NoTick, Statuses
<1>3. SentOK(message)' /\ SentOK(delivered)'
  BY DEF Read, MInv, SentOK, Real, Final, Verdict, world, fixed
<1> QED
  BY <1>1, <1>2, <1>3 DEF MInv

LEMMA StepMInv == MInv /\ [MNext]_mvars => MInv'
<1> SUFFICES ASSUME MInv, [MNext]_mvars PROVE MInv'
  OBVIOUS
<1>1. CASE Advance \/ Retry \/ Pending \/ ReadBlock \/ Deliver \/ UNCHANGED mvars
  <2>1. UNCHANGED vars
    BY <1>1 DEF Advance, Retry, Pending, ReadBlock, Deliver, mvars
  <2> QED
    BY <1>1, <2>1, IdleMInv DEF mvars
<1>2. CASE Check
  BY <1>2, CheckMInv
<1>3. CASE Read
  BY <1>3, ReadMInv
<1>4. CASE World /\ UNCHANGED <<reader, monitor>>
  BY <1>4, WorldMInv
<1> QED
  BY <1>1, <1>2, <1>3, <1>4 DEF MNext

(* The strengthened invariant holds of every behaviour of the monitor. *)
THEOREM MonitorInvariance == MSpec => []MInv
BY InitMInv, StepMInv, PTL DEF MSpec

(* BlockingWait returns nothing but a verdict, the outcome of the           *)
(* transaction in a block some node has had, whatever failed before.        *)
THEOREM VerdictSound == MSpec => []DeliveredIsReal
<1>1. MInv => DeliveredIsReal
  BY RealVerdict DEF MInv, SentOK, DeliveredIsReal
<1> QED
  BY <1>1, MonitorInvariance, PTL

-----------------------------------------------------------------------------
(* The program.  One that waits does only what the monitor does; one that   *)
(* analyses reads as TxInfoFromHash does and leaves the monitor alone.      *)
LEMMA ProgramStep ==
  ASSUME [ANext]_avars
  PROVE  /\ [Next]_vars
         /\ use = "wait" => [MNext]_mvars
         /\ use # "wait" => UNCHANGED delivered
         /\ use' = use /\ explorer' = explorer
<1> USE DEF analyzer, mvars, vars, monitor, world, fixed, reader
<1>1. CASE Tick \/ Send
  BY <1>1 DEF Tick, Send, Waiting, MNext, Advance, Deliver
<1>2. CASE Work
  <2>1. CASE Check \/ Read
    BY <1>2, <2>1 DEF Work, Waiting, MNext, Next, Check, Read
  <2>2. CASE Retry \/ Pending \/ ReadBlock
    BY <1>2, <2>2 DEF Work, Waiting, MNext, Retry, Pending, ReadBlock
  <2> QED
    BY <1>2, <2>1, <2>2 DEF Work, Waiting
<1>3. CASE Return \/ InfoRead \/ GetCode \/ GetABI
  BY <1>3 DEF Return, InfoRead, GetCode, GetABI
<1>4. CASE Analyze \/ ReadInfo
  BY <1>4 DEF Analyze, ReadInfo, Next
<1>5. CASE World /\ UNCHANGED <<reader, monitor, analyzer>>
  BY <1>5 DEF Next, MNext, World, Learn, Drop, Reorg, Include, Recover
<1>6. CASE UNCHANGED avars
  BY <1>6 DEF avars
<1> QED
  BY <1>1, <1>2, <1>3, <1>4, <1>5, <1>6 DEF ANext

AInv ==
  /\ RInv
  /\ IF use = "wait" THEN MInv ELSE delivered.status = "none"

(* Whatever the program does, it sees of the transaction what is real.      *)
THEOREM ProgramInvariance == ASpec => []AInv
<1>1. AInit => AInv
  BY InitMInv DEF AInit, AInv, MInv, MInit, Init, Info
<1>2. AInv /\ [ANext]_avars => AInv'
  BY ProgramStep, StepRInv, StepMInv DEF AInv
<1> QED
  BY <1>1, <1>2, PTL DEF ASpec

(* A program that reads the transaction's state does nothing to it that     *)
(* TxInfo leaves out, so that what is proved of TxInfo holds of it.         *)
THEOREM ProgramReads == ASpec => Spec
<1>1. AInit => Init
  BY DEF AInit, MInit
<1>2. [ANext]_avars => [Next]_vars
  BY ProgramStep
<1> QED
  BY <1>1, <1>2, PTL DEF ASpec, Spec

(* The verdicts a program is given, by either front, are real and agree.    *)
THEOREM ProgramVerdicts == ASpec => []VerdictOfRealBlock /\ VerdictsAgree
BY ProgramReads, InfoIsReal, InfosAgree, PTL

(* What a program that waits is given is a verdict, and a real one.         *)
THEOREM ProgramWaits == ASpec => []DeliveredIsReal
<1>1. AInv => DeliveredIsReal
  BY RealVerdict DEF AInv, MInv, SentOK, DeliveredIsReal
<1> QED
  BY <1>1, ProgramInvariance, PTL

-----------------------------------------------------------------------------
(* What leads to a panic.  Past its first read an analysis has found the    *)
(* transaction; it asks for the ABI of contracts only.                      *)
Found == info.status \in {"pending", "done", "reverted"}

PInv ==
  /\ AInv
  /\ apc \in {"info", "code", "abi"} => use = "analyze"
  /\ apc = "info" /\ pc = "idle" => info.status # "none"
  /\ apc \in {"code", "abi"} => Found
  /\ apc = "abi" => target = "contract"
  /\ NoPanic

(* Decoding a contract's call and logs panics on one of them or not at all. *)
LEMMA DecodingPanics ==
  ASSUME AnalyzeContractTx
  PROVE  \/ apc' = "returned"
         \/ /\ apc' = "panicked"
            /\ result'.gnosis = "panics" \/ \E k \in DOMAIN given' : given'[k] = "panics"
<1>1. PICK c \in Calls : \E call \in AnalyzeMethodCall(c) :
        \/ call = "error" /\ apc' = "returned"
        \/ call = "panics" /\ apc' = "panicked"
           /\ result' = [Basic("contract call") EXCEPT !.gnosis = "panics"]
        \/ apc' = IF \E k \in DOMAIN given' : given'[k] = "panics" THEN "panicked"
                  ELSE "returned"
  BY DEF AnalyzeContractTx
<1>2. [Basic("contract call") EXCEPT !.gnosis = "panics"].gnosis = "panics"
  BY DEF Basic, NewTxResult
<1> QED
  BY <1>1, <1>2

LEMMA OfflinePanics ==
  ASSUME PInv, NEW isContract \in BOOLEAN, AnalyzeOffline(isContract),
         UNCHANGED <<mvars, use, explorer, target>>,
         use = "analyze", Found, isContract => target = "contract"
  PROVE  apc' \in {"returned", "panicked"} /\ NoPanic'
<1>1. UNCHANGED info
  BY DEF mvars, vars, reader
<1>2. CASE Final(info) /\ isContract /\ AnalyzeContractTx
  BY <1>1, <1>2, DecodingPanics DEF NoPanic, Found, Final
<1> QED
  BY <1>2 DEF AnalyzeOffline, NoPanic

LEMMA PanicStep == PInv /\ AInv' /\ [ANext]_avars => PInv'
<1> SUFFICES ASSUME PInv, AInv', [ANext]_avars PROVE PInv'
  OBVIOUS
<1>1. use' = use /\ explorer' = explorer
  BY ProgramStep
<1>2. ASSUME UNCHANGED <<apc, target, given, result>>,
             \/ UNCHANGED <<pc, info>>
             \/ apc = "info" /\ (pc' = "idle" => info'.status # "none")
      PROVE  PInv'
  BY <1>1, <1>2 DEF PInv, NoPanic, Found, Final
<1>3. CASE UNCHANGED avars
  BY <1>2, <1>3 DEF avars, mvars, vars, reader, analyzer
<1>4. CASE Tick \/ Work \/ Send
  <2>1. use = "wait" /\ UNCHANGED <<apc, target, given, result>>
    BY <1>4 DEF Tick, Work, Send, Waiting, analyzer
  <2>2. apc \notin {"info", "code", "abi", "panicked"}
    BY <2>1 DEF PInv, NoPanic
  <2> QED
    BY <1>1, <2>1, <2>2 DEF PInv, NoPanic
<1>5. CASE Return
  <2>1. delivered.status # "lost"
    BY <1>5 DEF Return, PInv, AInv, MInv, SentOK, Final
  <2> QED
    BY <1>5, <2>1 DEF Return, PInv, NoPanic
<1>6. CASE Analyze
  BY <1>6 DEF Analyze, Ask, PInv, NoPanic
<1>7. CASE ReadInfo
  <2>1. pc' = "idle" => info'.status # "none"
    BY <1>7, ReadRInv DEF ReadInfo, PInv, AInv
  <2> QED
    BY <1>2, <1>7, <2>1 DEF ReadInfo, analyzer
<1>8. CASE InfoRead
  <2>1. info' = info /\ pc' = pc
    BY <1>8 DEF InfoRead, mvars, vars, reader
  <2>2. use = "analyze" /\ (info.status \in {"error"} \/ Found)
    BY <1>8 DEF InfoRead, PInv, AInv, RInv, TypeOK, Found
  <2>3. CASE info.status = "error"
    BY <1>1, <1>8, <2>1, <2>2, <2>3 DEF InfoRead, Fail, PInv, NoPanic
  <2>4. CASE Found
    BY <1>1, <1>8, <2>1, <2>2, <2>4 DEF InfoRead, PInv, NoPanic, Found
  <2> QED
    BY <2>2, <2>3, <2>4
<1>9. CASE GetCode
  <2>1. use = "analyze" /\ Found /\ info' = info /\ pc' = pc /\ target' = target
    BY <1>9 DEF GetCode, PInv, mvars, vars, reader
  <2>2. CASE Fail("code")
    BY <2>1, <2>2 DEF Fail, PInv, AInv, NoPanic
  <2>3. CASE target = "contract" /\ apc' = "abi"
    BY <1>1, <2>1, <2>3 DEF PInv, NoPanic, Found
  <2>4. CASE AnalyzeOffline(FALSE)
    BY <1>9, <2>1, <2>4, OfflinePanics DEF GetCode, PInv, NoPanic
  <2> QED
    BY <1>9, <2>2, <2>3, <2>4 DEF GetCode
<1>10. CASE GetABI
  <2>1. use = "analyze" /\ Found /\ target = "contract"
        /\ info' = info /\ pc' = pc /\ target' = target
    BY <1>10 DEF GetABI, PInv, mvars, vars, reader
  <2>2. CASE Fail("abi")
    BY <2>1, <2>2 DEF Fail, PInv, NoPanic
  <2>3. CASE AnalyzeOffline(TRUE)
    BY <1>10, <2>1, <2>3, OfflinePanics DEF GetABI, PInv, NoPanic
  <2>4. CASE ~ explorer /\ apc' = "panicked"
    BY <1>1, <2>1, <2>4 DEF PInv, NoPanic, Found
  <2> QED
    BY <1>10, <2>2, <2>3, <2>4 DEF GetABI
<1>11. CASE World /\ UNCHANGED <<reader, monitor, analyzer>>
  BY <1>2, <1>11 DEF reader, analyzer
<1> QED
  BY <1>3, <1>4, <1>5, <1>6, <1>7, <1>8, <1>9, <1>10, <1>11 DEF ANext

(* A program that waits for a transaction never panics, and one that        *)
(* analyses it only over one it has found, without a receiver, without an   *)
(* explorer, or over what the decoder does not expect, whatever the calls   *)
(* and the logs.                                                            *)
THEOREM PanicsAreNamed == ASpec => []NoPanic
<1>1. AInit => PInv
  BY InitMInv DEF AInit, AInv, MInv, MInit, Init, Info, PInv, NoPanic
<1>2. PInv /\ [ANext]_avars => AInv'
  BY ProgramStep, StepRInv, StepMInv DEF AInv, PInv
<1>3. PInv /\ [ANext]_avars => PInv'
  BY <1>2, PanicStep
<1>4. PInv => NoPanic
  BY DEF PInv
<1> QED
  BY <1>1, <1>3, <1>4, PTL DEF ASpec

-----------------------------------------------------------------------------
(* The result of an analysis, for any calls and logs. *)
LEMMA LogOutcomes == \A l \in Logs : AnalyzeLog(l) \in {"whole", "part", "panics"}
<1> SUFFICES ASSUME NEW l \in Logs PROVE AnalyzeLog(l) \in {"whole", "part", "panics"}
  OBVIOUS
<1>1. l.topics \in Nat /\ l.indexed \in Nat /\ l.known \in BOOLEAN
  BY LogsTyped
<1>2. CASE l.topics = 0
  BY <1>2 DEF AnalyzeLog
<1>3. CASE l.topics > 0 /\ ~ l.known
  BY <1>3 DEF AnalyzeLog
<1>4. CASE l.topics > 0 /\ l.known /\ l.topics - 1 > l.indexed
  BY <1>1, <1>4 DEF AnalyzeLog
<1>5. CASE l.topics > 0 /\ l.known /\ ~ (l.topics - 1 > l.indexed)
  <2>1. l.topics \in 1..(l.indexed + 1)
    BY <1>1, <1>5
  <2> QED
    BY <1>1, <1>5, <2>1 DEF AnalyzeLog
<1> QED
  BY <1>1, <1>2, <1>3, <1>4, <1>5

(* Without an error every log was decoded, to its end. *)
LEMMA LogsWhole ==
  ASSUME NEW decoded \in Decodings, LogErrors(decoded) = {},
         ~ \E k \in DOMAIN decoded : decoded[k] = "panics"
  PROVE  \A k \in DOMAIN Shown(decoded) : Shown(decoded)[k] = "whole"
<1>1. ASSUME NEW k \in DOMAIN decoded PROVE decoded[k] = "whole"
  <2>1. PICK n \in 0..MaxLogs : decoded \in [1..n -> {AnalyzeLog(l) : l \in Logs}]
    BY DEF Decodings
  <2>2. decoded[k] \in {AnalyzeLog(l) : l \in Logs}
    BY <2>1
  <2>3. decoded[k] # "part"
    BY DEF LogErrors
  <2> QED
    BY <2>2, <2>3, LogOutcomes
<1> QED
  BY <1>1 DEF Shown

LEMMA ContractComplete ==
  ASSUME AnalyzeContractTx, UNCHANGED info, Final(info), apc' = "returned"
  PROVE  /\ result'.error = {} =>
              /\ result'.status = info.status
              /\ result'.method
              /\ \A k \in DOMAIN result'.logs : result'.logs[k] = "whole"
         /\ result'.type = "contract call"
         /\ result'.method => result'.logs = given'
<1>1. PICK call :
        \/ /\ call = "error"
           /\ result' = [Basic("contract call") EXCEPT !.error = {<<"method", 0>>}]
        \/ /\ call \in {"none", "failed", "done"}
           /\ given' \in Decodings
           /\ ~ \E k \in DOMAIN given' : given'[k] = "panics"
           /\ result' = [Basic("contract call") EXCEPT !.method = TRUE, !.gnosis = call,
                           !.logs = Shown(given'), !.error = LogErrors(given')]
  BY DEF AnalyzeContractTx
<1>2. CASE result' = [Basic("contract call") EXCEPT !.error = {<<"method", 0>>}]
  BY <1>2 DEF Basic, NewTxResult
<1>3. CASE /\ given' \in Decodings
           /\ ~ \E k \in DOMAIN given' : given'[k] = "panics"
           /\ result' = [Basic("contract call") EXCEPT !.method = TRUE, !.gnosis = call,
                           !.logs = Shown(given'), !.error = LogErrors(given')]
  <2>1. /\ result'.method /\ result'.type = "contract call"
        /\ result'.status = info.status
        /\ result'.logs = Shown(given') /\ result'.error = LogErrors(given')
    BY <1>3 DEF Basic, NewTxResult
  <2>2. result'.error = {} =>
          \A k \in DOMAIN result'.logs : result'.logs[k] = "whole"
    BY <1>3, <2>1, LogsWhole
  <2> QED
    BY <2>1, <2>2 DEF Shown
<1> QED
  BY <1>1, <1>2, <1>3

LEMMA OfflineComplete ==
  ASSUME NEW isContract \in BOOLEAN, AnalyzeOffline(isContract), UNCHANGED mvars
  PROVE  ResultComplete'
<1>1. UNCHANGED info
  BY DEF mvars, vars, reader
<1>2. CASE ~ Final(info) /\ result' = Basic("")
  <2>1. /\ result'.status = info.status /\ result'.type = "" /\ result'.error = {}
        /\ ~ result'.method /\ DOMAIN result'.logs = {}
    BY <1>2 DEF Basic, NewTxResult
  <2> QED
    BY <1>1, <1>2, <2>1 DEF ResultComplete, Final
<1>3. CASE Final(info) /\ ~ isContract /\ result' = Basic("normal")
  <2>1. /\ result'.status = info.status /\ result'.type = "normal"
        /\ ~ result'.method /\ DOMAIN result'.logs = {}
    BY <1>3 DEF Basic, NewTxResult
  <2> QED
    BY <1>1, <1>3, <2>1 DEF ResultComplete, Final
<1>4. CASE Final(info) /\ AnalyzeContractTx
  BY <1>1, <1>4, ContractComplete DEF ResultComplete, Final
<1> QED
  BY <1>2, <1>3, <1>4 DEF AnalyzeOffline

LEMMA CompleteStep == ResultComplete /\ [ANext]_avars => ResultComplete'
<1> SUFFICES ASSUME ResultComplete, [ANext]_avars, apc' = "returned", use' = "analyze"
             PROVE  ResultComplete'
  BY DEF ResultComplete
<1>1. use = "analyze"
  BY ProgramStep
<1>2. CASE UNCHANGED avars
  BY <1>2 DEF ResultComplete, Final, avars, mvars, vars, reader, analyzer
<1>3. ASSUME NEW e, Fail(e) PROVE ResultComplete'
  <2>1. result'.error # {} /\ ~ result'.method /\ result'.type = ""
    BY <1>3 DEF Fail, NewTxResult
  <2> QED
    BY <2>1 DEF ResultComplete
<1>4. CASE InfoRead
  BY <1>3, <1>4 DEF InfoRead
<1>5. CASE GetCode
  BY <1>3, <1>5, OfflineComplete DEF GetCode
<1>6. CASE GetABI
  BY <1>3, <1>6, OfflineComplete DEF GetABI
<1>7. ~ (Tick \/ Work \/ Send \/ Return \/ Analyze \/ ReadInfo)
  BY <1>1 DEF Tick, Work, Send, Waiting, Return, Analyze, ReadInfo, analyzer
<1>8. ~ (World /\ ~ Unseen /\ UNCHANGED <<reader, monitor, analyzer>>)
  BY <1>1 DEF Unseen, analyzer
<1> QED
  BY <1>2, <1>4, <1>5, <1>6, <1>7, <1>8 DEF ANext

(* A result without an error is complete, whatever there is to decode.      *)
THEOREM ResultsComplete == ASpec => []ResultComplete
<1>1. AInit => ResultComplete
  BY DEF AInit, ResultComplete
<1> QED
  BY <1>1, CompleteStep, PTL DEF ASpec
=============================================================================
