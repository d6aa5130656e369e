-------------------------- MODULE LedgerSignerProofs -------------------------
(***************************************************************************)
(* Proofs about signing with a Ledger, for any number of calls and chunks  *)
(* and any chain IDs.                                                      *)
(***************************************************************************)
EXTENDS LedgerSigner, HidExchange, SequenceTheorems, TLAPS

AtDevice == {"enumerate", "open", "derive", "version", "check", "sign"}
BeforeSign == {"idle", "mu", "enumerate", "open", "derive", "version", "check"}

(* LedgerSigner's mutex lets one call at the device, and Ledgereum's        *)
(* callers make one call at a time.                                         *)
Exclusive ==
  /\ entry = "LedgerSigner" => \A c \in Calls : pc[c] \in AtDevice => mu = c
  /\ entry = "Ledgereum" => \A c, d \in Calls : Active(c) /\ Active(d) => c = d

(* The device has nothing, or all that the signing call has sent.           *)
Prefix(c, n) == [k \in 1..n |-> <<c, k>>]
Streaming ==
  /\ \A c \in Calls : pc[c] \in BeforeSign => chunk[c] = 1
  /\ \A c \in Calls : pc[c] = "sign" =>
       chunk[c] = 1 \/ onDevice = <<>> \/ onDevice = Prefix(c, chunk[c] - 1)

(* With an old app behind Ledgereum no call for a chain gets past the       *)
(* version check.                                                           *)
Refusing ==
  entry = "Ledgereum" /\ chain # NoChain /\ installed = "old" =>
    /\ version # "new"
    /\ \A c \in Calls : /\ pc[c] \notin {"mu", "sign"}
                        /\ pc[c] \in {"enumerate", "open", "derive", "version"} =>
                             kind[c] = "Unlock"

(* What is on its way: signatures are the device's, each of one whole       *)
(* transaction, and nothing is on its way as long as nothing was lost.      *)
IsSignature(r) == r.V \in DeviceV /\ \E d \in Calls : r.over = Transaction(d)
Genuine(s) ==
  /\ s \in Seq(ReplyRecords)
  /\ \A i \in 1..Len(s) : s[i].kind = "signature" => IsSignature(s[i])
Arrived == Genuine(inbox) /\ (~ lostSync => inbox = <<>>)

Inv == TypeOK /\ Exclusive /\ Streaming /\ Refusing /\ Arrived

LEMMA PrefixIsSeq ==
  ASSUME NEW c \in Calls, NEW n \in 0..Chunks
  PROVE  /\ Prefix(c, n) \in Seq(Calls \X (1..Chunks))
         /\ Len(Prefix(c, n)) = n
         /\ DOMAIN Prefix(c, n) = 1..n
BY ChunksPositive, SMT DEF Prefix

LEMMA EmptyIsSeq == <<>> \in Seq(Calls \X (1..Chunks))
OBVIOUS

LEMMA EmptyInbox == <<>> \in Seq(ReplyRecords)
OBVIOUS

LEMMA PrefixGrows ==
  ASSUME NEW c \in Calls, NEW n \in 1..Chunks
  PROVE  Append(Prefix(c, n - 1), <<c, n>>) = Prefix(c, n)
<1> DEFINE T == Calls \X (1..Chunks)
           s == Append(Prefix(c, n - 1), <<c, n>>)
<1>1. Prefix(c, n - 1) \in Seq(T) /\ Len(Prefix(c, n - 1)) = n - 1
  BY PrefixIsSeq, ChunksPositive
<1>2. <<c, n>> \in T
  OBVIOUS
<1>3. s \in Seq(T) /\ Len(s) = n
  BY <1>1, <1>2, AppendProperties
<1>4. Prefix(c, n) \in Seq(T) /\ Len(Prefix(c, n)) = n
  BY PrefixIsSeq, ChunksPositive
<1>5. ASSUME NEW k \in 1..n PROVE s[k] = Prefix(c, n)[k]
  <2>1. CASE k = n
    BY <1>1, <1>2, <2>1, AppendProperties DEF Prefix
  <2>2. CASE k \in 1..(n - 1)
    BY <1>1, <1>2, <2>2, AppendProperties DEF Prefix
  <2>3. k = n \/ k \in 1..(n - 1)
    BY ChunksPositive
  <2> QED BY <2>1, <2>2, <2>3
<1> QED BY <1>3, <1>4, <1>5, SeqEqual

(* What the device has after a chunk.                                       *)
LEMMA ReceivedIsPrefix ==
  ASSUME TypeOK, Streaming, NEW c \in Calls
  PROVE  /\ Received(c) = <<>> \/ (pc[c] = "sign" /\ Received(c) = Prefix(c, chunk[c]))
         /\ Received(c) \in Seq(Calls \X (1..Chunks))
<1>1. chunk[c] \in 1..Chunks /\ chunk[c] \in 0..Chunks
  BY ChunksPositive DEF TypeOK
<1>2. Received(c) = <<>> \/ (pc[c] = "sign" /\ Received(c) = Prefix(c, chunk[c]))
  <2>1. CASE pc[c] # "sign"
    BY <2>1 DEF Received
  <2>2. CASE chunk[c] = 1
    <3>1. <<<<c, 1>>>> = Prefix(c, 1)
      BY DEF Prefix
    <3> QED BY <2>2, <3>1 DEF Received
  <2>3. CASE pc[c] = "sign" /\ chunk[c] # 1
    <3>1. onDevice = <<>> \/ onDevice = Prefix(c, chunk[c] - 1)
      BY <2>3 DEF Streaming
    <3>2. Append(Prefix(c, chunk[c] - 1), <<c, chunk[c]>>) = Prefix(c, chunk[c])
      BY <1>1, PrefixGrows
    <3> QED BY <2>3, <3>1, <3>2 DEF Received
  <2> QED BY <2>1, <2>2, <2>3
<1> QED BY <1>1, <1>2, PrefixIsSeq, EmptyIsSeq

(* What is complete on the device is the transaction of the call.           *)
LEMMA CompleteIsOwn ==
  ASSUME TypeOK, Streaming, NEW c \in Calls, Complete(Received(c))
  PROVE  Received(c) = Transaction(c)
<1>1. Received(c) # <<>> /\ Len(Received(c)) = size[Received(c)[1][1]]
  BY DEF Complete
<1>2. Received(c) = Prefix(c, chunk[c]) /\ chunk[c] \in 1..Chunks
  BY <1>1, ReceivedIsPrefix DEF TypeOK
<1>3. Received(c)[1] = <<c, 1>> /\ Len(Received(c)) = chunk[c]
  <2>1. 1 \in 1..chunk[c] /\ chunk[c] \in 0..Chunks
    BY <1>2, ChunksPositive
  <2>2. Prefix(c, chunk[c])[1] = <<c, 1>>
    BY <2>1 DEF Prefix
  <2> QED BY <1>2, <2>1, <2>2, PrefixIsSeq
<1>4. chunk[c] = size[c]
  BY <1>1, <1>3
<1> QED BY <1>2, <1>4 DEF Prefix, Transaction

(* The byte the device returns is enough for V: what the subtraction and    *)
(* the addition wrap around, they wrap around alike.                        *)
LEMMA SignedVIsNat ==
  ASSUME NEW v \in Nat, chain \in Nat \cup {NoChain} PROVE SignedV(v) \in Nat
BY NilIsNoChain DEF SignedV, Adjusted

LEMMA SignedVOfNewApp ==
  ASSUME chain \in Nat, installed = "new", NEW v \in DeviceV
  PROVE  SignedV(v) \in {2 * chain + 35, 2 * chain + 36}
<1> DEFINE n == 2 * chain + 35
<1>0. chain # NoChain
  BY NilIsNoChain
<1>1. n \in Nat /\ v \in {n % 256, (n + 1) % 256}
  BY <1>0 DEF DeviceV
<1>2. (v - n) % 256 \in {0, 1}
  <2> HIDE DEF n
  <2> QED BY <1>1
<1> QED BY <1>0, <1>2 DEF SignedV, Adjusted

LEMMA ChainType ==
  ASSUME TypeOK PROVE chain \in Nat \cup {NoChain} /\ DeviceV \subseteq Nat
<1>1. chain \in Nat \cup {NoChain}
  BY ChainsArePositive DEF TypeOK
<1>2. CASE chain = NoChain
  BY <1>2 DEF DeviceV
<1>3. CASE chain \in Nat
  BY <1>3, NilIsNoChain DEF DeviceV
<1> QED BY <1>1, <1>2, <1>3

-----------------------------------------------------------------------------
(* Exchanges.  What the device answers is genuine, and the signature it     *)
(* gives is the call's.                                                     *)
LEMMA AnswersGenuine ==
  ASSUME TypeOK, Streaming, NEW c \in Calls, NEW r \in Answers(c)
  PROVE  /\ r \in ReplyRecords
         /\ r.kind = "signature" => IsSignature(r) /\ r.over = Transaction(c)
<1>1. ASSUME NEW k \in {"address", "version", "status", "foreign", "rest"}, r = Bare(k)
      PROVE  r \in ReplyRecords /\ r.kind # "signature"
  BY <1>1, EmptyIsSeq DEF Bare, ReplyRecords
<1>2. ASSUME Complete(Received(c)),
             r \in [kind : {"signature"}, over : {Received(c)}, V : DeviceV]
      PROVE  r \in ReplyRecords /\ IsSignature(r) /\ r.over = Transaction(c)
  <2>1. r.over = Received(c) /\ r.V \in DeviceV /\ r.V \in Nat
    BY <1>2, ChainType
  <2>2. Received(c) \in Seq(Calls \X (1..Chunks)) /\ Received(c) = Transaction(c)
    BY <1>2, ReceivedIsPrefix, CompleteIsOwn
  <2>3. r \in ReplyRecords
    BY <1>2, <2>1, <2>2, ChainType DEF ReplyRecords
  <2> QED BY <2>1, <2>2, <2>3 DEF IsSignature
<1>3. \/ r \in {Bare("foreign"), Bare("status"), Bare("address"), Bare("version")}
      \/ /\ Complete(Received(c))
         /\ r \in [kind : {"signature"}, over : {Received(c)}, V : DeviceV]
  BY DEF Answers
<1> QED BY <1>1, <1>2, <1>3

LEMMA GenuineTail ==
  ASSUME NEW w, Genuine(w), w # <<>>
  PROVE  /\ Genuine(Tail(w)) /\ Genuine(<<Bare("rest")>> \o Tail(w))
         /\ <<Bare("rest")>> \o Tail(w) # <<>>
         /\ Head(w) \in ReplyRecords
         /\ Head(w).kind = "signature" => IsSignature(Head(w))
<1>1. /\ w \in Seq(ReplyRecords) /\ Len(w) \in Nat \ {0}
      /\ Head(w) = w[1] /\ Head(w) \in ReplyRecords
      /\ Tail(w) \in Seq(ReplyRecords) /\ Len(Tail(w)) = Len(w) - 1
      /\ \A i \in 1..Len(Tail(w)) : Tail(w)[i] = w[i + 1]
  BY HeadTailProperties, EmptySeq DEF Genuine
<1>2. Genuine(Tail(w))
  BY <1>1 DEF Genuine
<1>3. Head(w).kind = "signature" => IsSignature(Head(w))
  BY <1>1 DEF Genuine
<1> DEFINE b == <<Bare("rest")>>
           s == b \o Tail(w)
<1>4. b \in Seq(ReplyRecords) /\ Len(b) = 1 /\ b[1].kind = "rest"
  BY EmptyIsSeq DEF Bare, ReplyRecords
<1>5. /\ s \in Seq(ReplyRecords) /\ Len(s) = Len(w)
      /\ \A i \in 1..Len(s) : s[i] = IF i <= 1 THEN b[i] ELSE Tail(w)[i - 1]
  BY <1>1, <1>4, ConcatProperties
<1>6. Genuine(s)
  <2>1. ASSUME NEW i \in 1..Len(s), s[i].kind = "signature" PROVE IsSignature(s[i])
    <3>1. i # 1
      BY <1>4, <1>5, <2>1
    <3>2. i - 1 \in 1..Len(Tail(w)) /\ s[i] = Tail(w)[i - 1]
      BY <1>1, <1>5, <3>1
    <3> QED BY <1>2, <2>1, <3>2 DEF Genuine
  <2> QED BY <1>5, <2>1 DEF Genuine
<1>7. s # <<>>
  BY <1>1, <1>5
<1> QED BY <1>1, <1>2, <1>3, <1>6, <1>7

LEMMA ArrivingGenuine ==
  ASSUME TypeOK, Streaming, Arrived, NEW c \in Calls, NEW w \in Arriving(c)
  PROVE  /\ Genuine(w) /\ w # <<>>
         /\ ~ lostSync => Tail(w) = <<>>
         /\ ~ lostSync /\ Head(w).kind = "signature" => Head(w).over = Transaction(c)
<1>1. PICK r \in Answers(c) : w = Append(inbox, r)
  BY DEF Arriving
<1>2. /\ r \in ReplyRecords
      /\ r.kind = "signature" => IsSignature(r) /\ r.over = Transaction(c)
  BY AnswersGenuine
<1>3. inbox \in Seq(ReplyRecords)
      /\ \A i \in 1..Len(inbox) : inbox[i].kind = "signature" => IsSignature(inbox[i])
  BY DEF Arrived, Genuine
<1>4. /\ w \in Seq(ReplyRecords) /\ Len(w) = Len(inbox) + 1 /\ w[Len(inbox) + 1] = r
      /\ \A i \in 1..Len(inbox) : w[i] = inbox[i]
  BY <1>1, <1>2, <1>3, AppendProperties
<1>5. Genuine(w)
  <2>1. ASSUME NEW i \in 1..Len(w), w[i].kind = "signature" PROVE IsSignature(w[i])
    <3>1. CASE i = Len(inbox) + 1
      BY <1>2, <1>4, <2>1, <3>1
    <3>2. CASE i \in 1..Len(inbox)
      BY <1>3, <1>4, <2>1, <3>2
    <3> QED BY <1>3, <1>4, <3>1, <3>2
  <2> QED BY <1>4, <2>1 DEF Genuine
<1>6. w # <<>>
  BY <1>3, <1>4
<1>7. ASSUME ~ lostSync PROVE Tail(w) = <<>> /\ Head(w) = r
  BY <1>1, <1>2, <1>7 DEF Arrived
<1> QED BY <1>2, <1>5, <1>6, <1>7

(* Every exchange leaves genuine replies, and says so if it leaves any; the *)
(* device forgets, or has what it has got.                                  *)
LEMMA ExchangeLeaves ==
  ASSUME TypeOK, Streaming, Arrived, NEW c \in Calls,
         ExchangeError(c) \/ \E w \in Arriving(c) : Take(c, w)
  PROVE  /\ Genuine(inbox)' \/ ~ UNCHANGED fixed
         /\ inbox' \in Seq(ReplyRecords) /\ lostSync' \in BOOLEAN
         /\ ~ lostSync' => inbox' = <<>> /\ ~ lostSync
         /\ onDevice' \in {onDevice, <<>>, Received(c)}
         /\ onDevice' \in Seq(Calls \X (1..Chunks))
<1> USE DEF Deliver
<1>1. lostSync \in BOOLEAN /\ onDevice \in Seq(Calls \X (1..Chunks))
      /\ Received(c) \in Seq(Calls \X (1..Chunks))
  BY ReceivedIsPrefix DEF TypeOK
<1>2. ASSUME UNCHANGED fixed, NEW s, Genuine(s), inbox' = s PROVE Genuine(inbox)'
  BY <1>2 DEF Genuine, IsSignature, DeviceV, Transaction, fixed
<1>3. CASE UNCHANGED <<onDevice, usb>>
  <2>1. Genuine(inbox) /\ inbox' = inbox /\ (~ lostSync => inbox = <<>>)
    BY <1>3 DEF Arrived, usb
  <2>2. UNCHANGED fixed => Genuine(inbox)'
    BY <1>2, <2>1
  <2> QED BY <1>1, <1>3, <2>1, <2>2, EmptyIsSeq DEF Genuine, usb
<1>4. ASSUME Deliver(c), NEW w \in Arriving(c), inbox' \in Unread(w) \cup {Tail(w)},
             lostSync' = (lostSync \/ inbox' # <<>>)
      PROVE  /\ Genuine(inbox)' \/ ~ UNCHANGED fixed
             /\ inbox' \in Seq(ReplyRecords) /\ lostSync' \in BOOLEAN
             /\ ~ lostSync' => inbox' = <<>> /\ ~ lostSync
             /\ onDevice' \in {onDevice, <<>>, Received(c)}
             /\ onDevice' \in Seq(Calls \X (1..Chunks))
  <2>1. Genuine(w) /\ w # <<>>
    BY ArrivingGenuine
  <2>2. Genuine(Tail(w)) /\ Genuine(<<Bare("rest")>> \o Tail(w))
    BY <2>1, GenuineTail
  <2>3. inbox' \in {w, Tail(w), <<Bare("rest")>> \o Tail(w)}
    BY <1>4 DEF Unread
  <2>4. inbox' \in Seq(ReplyRecords) /\ (UNCHANGED fixed => Genuine(inbox)')
    <3>1. PICK s \in {w, Tail(w), <<Bare("rest")>> \o Tail(w)} : inbox' = s
      BY <2>3
    <3>2. Genuine(s)
      BY <2>1, <2>2
    <3>3. s \in Seq(ReplyRecords)
      BY <3>2 DEF Genuine
    <3> QED BY <1>2, <3>1, <3>2, <3>3
  <2>5. onDevice' \in {<<>>, Received(c)}
    BY <1>4
  <2> QED BY <1>1, <1>4, <2>4, <2>5, EmptyIsSeq
<1>5. CASE \E w \in Arriving(c) : Take(c, w)
  <2>1. PICK w \in Arriving(c) : Take(c, w)
    BY <1>5
  <2> QED BY <1>4, <2>1 DEF Take
<1>6. CASE ExchangeError(c) /\ ~ UNCHANGED <<onDevice, usb>>
  <2>1. PICK w \in Arriving(c) : Deliver(c) /\ inbox' \in Unread(w)
                                 /\ lostSync' = (lostSync \/ inbox' # <<>>)
    BY <1>6 DEF ExchangeError
  <2> QED BY <1>4, <2>1
<1> QED BY <1>3, <1>5, <1>6

LEMMA OneAtDevice ==
  ASSUME Exclusive, entry \in {"LedgerSigner", "Ledgereum"},
         NEW c \in Calls, NEW d \in Calls, pc[c] \in AtDevice, pc[d] \in AtDevice
  PROVE  c = d
BY DEF Exclusive, AtDevice, Active

LEMMA InitInv == Init => Inv
<1> SUFFICES ASSUME Init PROVE Inv
  OBVIOUS
<1>1. TypeOK
  <2>1. chunk \in [Calls -> 1..Chunks]
    BY ChunksPositive DEF Init
  <2>2. kind \in [Calls -> {"Sign", "Unlock"}] /\ chain \in Chains \cup {NoChain}
    BY DEF Init
  <2>3. result \in [Calls -> [signed : BOOLEAN, over : Seq(Calls \X (1..Chunks)), V : Nat]]
    BY EmptyIsSeq DEF Init, Unsigned
  <2>4. inbox \in Seq(ReplyRecords)
    BY DEF Init
  <2> QED BY <2>1, <2>2, <2>3, <2>4, EmptyIsSeq DEF Init, TypeOK
<1>2. Exclusive /\ Streaming /\ Refusing
  BY DEF Init, Exclusive, AtDevice, Active, Streaming, BeforeSign, Refusing
<1>3. Arrived
  <2>1. inbox = <<>> /\ inbox \in Seq(ReplyRecords) /\ Len(inbox) = 0
    BY DEF Init
  <2> QED BY <2>1 DEF Arrived, Genuine
<1> QED BY <1>1, <1>2, <1>3 DEF Inv

-----------------------------------------------------------------------------
(* A step of a call is one that leaves the connection alone, or an exchange.*)
Aside(c) ==
  \/ Begin(c) \/ LockMu(c) \/ UnlockFails(c) \/ NoProduct(c) \/ Product(c)
  \/ CheckVersion(c) \/ NoDevice(c)
Exchanging(c) ==
  Derive(c) \/ Version(c) \/ NoStatus(c) \/ ExchangeFails(c) \/ SendChunk(c) \/ LastChunk(c)

LEMMA ExchangeStep ==
  ASSUME NEW c \in Calls, Exchanging(c)
  PROVE  /\ ExchangeError(c) \/ \E w \in Arriving(c) : Take(c, w)
         /\ UNCHANGED <<fixed, plugged, running, handle>>
BY DEF Exchanging, Derive, Version, NoStatus, ExchangeFails, SendChunk, LastChunk, session

LEMMA AsideStep ==
  ASSUME NEW c \in Calls, Aside(c) PROVE UNCHANGED <<fixed, deviceVars, usb>>
BY DEF Aside, Begin, LockMu, UnlockFails, NoProduct, Product, CheckVersion, NoDevice

LEMMA FixedStep == [Next]_vars => UNCHANGED fixed
BY ExchangeStep, AsideStep DEF Next, Call, Aside, Exchanging, OpenDevice, Plug, Unplug,
   Switch, vars

(* What is on its way.                                                      *)
LEMMA ArrivedInductive == Inv /\ [Next]_vars => Arrived'
<1> SUFFICES ASSUME Inv, [Next]_vars PROVE Arrived'
  OBVIOUS
<1> USE DEF Inv
<1>1. UNCHANGED fixed
  BY FixedStep
<1>2. ASSUME NEW s, Genuine(s), inbox' = s PROVE Genuine(inbox)'
  BY <1>1, <1>2 DEF Genuine, IsSignature, DeviceV, Transaction, fixed
<1>3. ASSUME NEW c \in Calls, Exchanging(c) PROVE Arrived'
  BY <1>1, <1>3, ExchangeStep, ExchangeLeaves DEF Arrived
<1>4. CASE UNCHANGED usb
  BY <1>2, <1>4 DEF Arrived, usb
<1>5. ASSUME NEW c \in Calls, OpenDevice(c) PROVE Arrived'
  <2>1. lostSync' = lostSync /\ inbox' \in {inbox, <<>>}
    BY <1>5 DEF OpenDevice
  <2>2. Genuine(<<>>) /\ Genuine(inbox)
    <3>1. <<>> \in Seq(ReplyRecords) /\ Len(<<>>) = 0
      OBVIOUS
    <3> QED BY <3>1 DEF Genuine, Arrived
  <2> QED BY <1>2, <2>1, <2>2 DEF Arrived
<1> QED BY <1>3, <1>4, <1>5, AsideStep
        DEF Next, Call, Aside, Exchanging, Plug, Unplug, Switch, vars

-----------------------------------------------------------------------------
(* TypeOK.                                                                  *)
LEMMA TypeInductive == Inv /\ [Next]_vars => TypeOK'
<1> SUFFICES ASSUME Inv, [Next]_vars PROVE TypeOK'
  OBVIOUS
<1> USE DEF Inv, TypeOK
<1> USE DEF vars, fixed, deviceVars, usb, session, Goto
<1>0. ASSUME NEW c \in Calls, Exchanging(c)
      PROVE  /\ inbox' \in Seq(ReplyRecords) /\ lostSync' \in BOOLEAN
             /\ onDevice' \in Seq(Calls \X (1..Chunks))
             /\ entry' \in {"LedgerSigner", "Ledgereum"} /\ chain' \in Chains \cup {NoChain}
             /\ installed' \in {"old", "new"} /\ kind' \in [Calls -> {"Sign", "Unlock"}]
             /\ size' \in [Calls -> 1..Chunks]
             /\ plugged' \in BOOLEAN /\ running' \in {"app", "browser", "none"}
             /\ handle' \in {"nil", "live", "dead"}
  BY <1>0, ExchangeStep, ExchangeLeaves
<1>00. ASSUME NEW c \in Calls, Goto(c, "sign") \/ Goto(c, "done") \/ Goto(c, "panicked")
       PROVE  pc' \in [Calls -> {"idle", "mu", "enumerate", "open", "derive", "version",
                                 "check", "sign", "done", "panicked"}]
  BY <1>00
<1>01. ASSUME NEW c \in Calls, UNCHANGED mu \/ mu' = IF mu = c THEN Nobody ELSE mu
       PROVE  mu' \in Calls \cup {Nobody}
  BY <1>01
<1>1. ASSUME NEW c \in Calls, Begin(c) PROVE TypeOK'
  BY <1>1 DEF Begin
<1>2. ASSUME NEW c \in Calls, LockMu(c) PROVE TypeOK'
  BY <1>2 DEF LockMu
<1>3. ASSUME NEW c \in Calls, UnlockFails(c) PROVE TypeOK'
  BY <1>3 DEF UnlockFails, Return
<1>4. ASSUME NEW c \in Calls, NoProduct(c) PROVE TypeOK'
  BY <1>4 DEF NoProduct, Unlocked, Return
<1>5. ASSUME NEW c \in Calls, Product(c) PROVE TypeOK'
  BY <1>5 DEF Product
<1>6. ASSUME NEW c \in Calls, OpenDevice(c) PROVE TypeOK'
  <2>1. inbox' \in Seq(ReplyRecords)
    <3>1. inbox' \in {inbox, <<>>}
      BY <1>6 DEF OpenDevice
    <3>2. inbox \in Seq(ReplyRecords)
      OBVIOUS
    <3> QED BY <3>1, <3>2, EmptyInbox, Zenon
  <2>2. /\ pc' = [pc EXCEPT ![c] = "derive"] /\ handle' = "live"
        /\ UNCHANGED <<fixed, deviceVars, lostSync, version, deviceUnlocked, mu, chunk, result>>
    BY <1>6 DEF OpenDevice
  <2> QED BY <2>1, <2>2
<1>7. ASSUME NEW c \in Calls, Derive(c) PROVE TypeOK'
  <2>1. (Goto(c, "version") /\ UNCHANGED <<deviceUnlocked, mu>>) \/ Unlocked(c)
    BY <1>7 DEF Derive
  <2>2. UNCHANGED <<version, chunk, result>>
    BY <1>7 DEF Derive
  <2> QED BY <1>0, <1>7, <2>1, <2>2 DEF Exchanging, Unlocked, Return
<1>8. ASSUME NEW c \in Calls, Version(c) PROVE TypeOK'
  <2>1. version' \in {"old", "new", "assumed"}
    BY <1>8 DEF Version, VersionOnError
  <2>2. Unlocked(c) /\ UNCHANGED <<chunk, result>>
    BY <1>8 DEF Version
  <2> QED BY <1>0, <1>8, <2>1, <2>2 DEF Exchanging, Unlocked, Return
<1>9. ASSUME NEW c \in Calls, CheckVersion(c) PROVE TypeOK'
  <2>1. /\ (Goto(c, "sign") /\ UNCHANGED mu) \/ Return(c)
        /\ UNCHANGED <<fixed, deviceVars, usb, session, chunk, result>>
    BY <1>9 DEF CheckVersion
  <2>2. /\ pc' \in [Calls -> {"idle", "mu", "enumerate", "open", "derive", "version",
                              "check", "sign", "done", "panicked"}]
        /\ mu' \in Calls \cup {Nobody}
    BY <1>00, <1>01, <2>1 DEF Return
  <2> QED BY <2>1, <2>2
<1>10. ASSUME NEW c \in Calls, NoDevice(c) PROVE TypeOK'
  BY <1>10 DEF NoDevice, Panic
<1>11. ASSUME NEW c \in Calls, ExchangeFails(c) \/ NoStatus(c) PROVE TypeOK'
  <2>1. Return(c) \/ Panic(c)
    BY <1>11 DEF ExchangeFails, NoStatus
  <2>2. UNCHANGED <<session, chunk, result>>
    BY <1>11 DEF ExchangeFails, NoStatus
  <2>3. /\ pc' \in [Calls -> {"idle", "mu", "enumerate", "open", "derive", "version",
                              "check", "sign", "done", "panicked"}]
        /\ mu' \in Calls \cup {Nobody}
    BY <1>00, <1>01, <2>1 DEF Return, Panic
  <2>4. Exchanging(c)
    BY <1>11 DEF Exchanging
  <2> QED BY <1>0, <2>2, <2>3, <2>4
<1>12. ASSUME NEW c \in Calls, SendChunk(c) PROVE TypeOK'
  <2>1. chunk[c] < size[c] /\ chunk[c] \in 1..Chunks /\ size[c] \in 1..Chunks
    BY <1>12 DEF SendChunk
  <2>2. chunk' = [chunk EXCEPT ![c] = @ + 1] /\ UNCHANGED <<session, mu, pc, result>>
    BY <1>12 DEF SendChunk
  <2>3. chunk[c] + 1 \in 1..Chunks
    BY <2>1, ChunksPositive
  <2>4. Exchanging(c)
    BY <1>12 DEF Exchanging
  <2>5. chunk' \in [Calls -> 1..Chunks]
    BY <2>2, <2>3
  <2>6. /\ version' \in {"zero", "assumed", "old", "new"} /\ deviceUnlocked' \in BOOLEAN
        /\ mu' \in Calls \cup {Nobody}
        /\ pc' \in [Calls -> {"idle", "mu", "enumerate", "open", "derive", "version",
                              "check", "sign", "done", "panicked"}]
        /\ result' \in [Calls -> [signed : BOOLEAN, over : Seq(Calls \X (1..Chunks)), V : Nat]]
    BY <2>2
  <2> QED BY <1>0, <2>4, <2>5, <2>6
<1>13. ASSUME NEW c \in Calls, LastChunk(c) PROVE TypeOK'
  <2>1. result' \in [Calls -> [signed : BOOLEAN, over : Seq(Calls \X (1..Chunks)), V : Nat]]
    <3>1. PICK w \in Arriving(c) :
            result' = IF Head(w).kind = "signature" /\ SenderKnown(SignedV(Head(w).V))
                        THEN [result EXCEPT ![c] = [signed |-> TRUE, over |-> Head(w).over,
                                                    V |-> SignedV(Head(w).V)]]
                        ELSE result
      BY <1>13 DEF LastChunk
    <3>2. Head(w) \in ReplyRecords
      BY ArrivingGenuine, GenuineTail
    <3>3. Head(w).over \in Seq(Calls \X (1..Chunks)) /\ Head(w).V \in Nat
      BY <3>2 DEF ReplyRecords
    <3>4. SignedV(Head(w).V) \in Nat
      BY <3>3, ChainType, SignedVIsNat
    <3> HIDE DEF TypeOK
    <3>5. result \in [Calls -> [signed : BOOLEAN, over : Seq(Calls \X (1..Chunks)), V : Nat]]
      BY DEF TypeOK
    <3> QED BY <3>1, <3>3, <3>4, <3>5
  <2>2. Return(c) /\ UNCHANGED <<session, chunk>>
    BY <1>13 DEF LastChunk
  <2>3. /\ pc' \in [Calls -> {"idle", "mu", "enumerate", "open", "derive", "version",
                              "check", "sign", "done", "panicked"}]
        /\ mu' \in Calls \cup {Nobody}
    BY <1>00, <1>01, <2>2 DEF Return
  <2>4. Exchanging(c)
    BY <1>13 DEF Exchanging
  <2>5. /\ version' \in {"zero", "assumed", "old", "new"} /\ deviceUnlocked' \in BOOLEAN
        /\ chunk' \in [Calls -> 1..Chunks]
    BY <2>2
  <2> QED BY <1>0, <2>1, <2>3, <2>4, <2>5
<1>14. CASE Plug \/ Unplug \/ Switch
  <2>1. CASE Plug
    BY <2>1, EmptyIsSeq DEF Plug
  <2>2. CASE Unplug
    BY <2>2, EmptyIsSeq DEF Unplug
  <2>3. CASE Switch
    BY <2>3, EmptyIsSeq DEF Switch
  <2> QED BY <1>14, <2>1, <2>2, <2>3
<1>15. CASE UNCHANGED vars
  BY <1>15
<1> QED BY <1>1, <1>2, <1>3, <1>4, <1>5, <1>6, <1>7, <1>8, <1>9, <1>10, <1>11,
           <1>12, <1>13, <1>14, <1>15 DEF Next, Call

(* A step of a call that is at the device, but for a chunk: it moves this   *)
(* call alone, and if the call is over, the mutex is free; else the device  *)
(* keeps what it has or forgets it.                                         *)
MovesTo(c, l) ==
  /\ pc[c] \in AtDevice /\ Goto(c, l)
  /\ UNCHANGED <<entry, chunk>>
  /\ \/ /\ l \in AtDevice /\ UNCHANGED mu /\ pc[c] \in BeforeSign
        /\ onDevice' \in {onDevice, <<>>}
     \/ l \in {"done", "panicked"} /\ mu' = IF mu = c THEN Nobody ELSE mu

LEMMA AtDeviceStep ==
  ASSUME NEW c \in Calls,
         \/ UnlockFails(c) \/ NoProduct(c) \/ Product(c) \/ OpenDevice(c)
         \/ Derive(c) \/ Version(c) \/ CheckVersion(c)
         \/ NoDevice(c) \/ NoStatus(c) \/ ExchangeFails(c) \/ LastChunk(c)
  PROVE  \E l : MovesTo(c, l)
<1> USE DEF MovesTo, AtDevice, BeforeSign, fixed, deviceVars, session
<1>1. CASE UnlockFails(c)
  <2>1. MovesTo(c, "done")
    BY <1>1 DEF UnlockFails, Return
  <2> QED BY <2>1
<1>2. CASE Unlocked(c) /\ pc[c] \in BeforeSign \cap AtDevice
           /\ UNCHANGED <<entry, chunk>> /\ onDevice' \in {onDevice, <<>>}
  <2>1. MovesTo(c, "sign") \/ MovesTo(c, "done")
    BY <1>2 DEF Unlocked, Return
  <2> QED BY <2>1
<1>3. CASE NoProduct(c)
  BY <1>2, <1>3 DEF NoProduct
<1>4. CASE Product(c)
  <2>1. MovesTo(c, "open")
    BY <1>4 DEF Product
  <2> QED BY <2>1
<1>5. CASE OpenDevice(c)
  <2>1. MovesTo(c, "derive")
    BY <1>5 DEF OpenDevice
  <2> QED BY <2>1
<1>6. ASSUME pc[c] # "sign", ExchangeError(c) \/ \E w \in Arriving(c) : Take(c, w)
      PROVE  onDevice' \in {onDevice, <<>>}
  <2>1. Received(c) = <<>>
    BY <1>6 DEF Received
  <2> QED BY <1>6, <2>1 DEF ExchangeError, Take, Deliver
<1>7. CASE Derive(c)
  <2>1. /\ pc[c] = "derive" /\ UNCHANGED <<entry, chunk>>
        /\ onDevice' \in {onDevice, <<>>}
    BY <1>6, <1>7 DEF Derive
  <2>2. (Goto(c, "version") /\ UNCHANGED mu) \/ Unlocked(c)
    BY <1>7 DEF Derive
  <2>3. CASE Goto(c, "version") /\ UNCHANGED mu
    <3>1. MovesTo(c, "version")
      BY <2>1, <2>3
    <3> QED BY <3>1
  <2> QED BY <1>2, <2>1, <2>2, <2>3
<1>8. CASE Version(c)
  <2>1. /\ pc[c] = "version" /\ UNCHANGED <<entry, chunk>>
        /\ onDevice' \in {onDevice, <<>>} /\ Unlocked(c)
    BY <1>6, <1>8 DEF Version
  <2> QED BY <1>2, <2>1
<1>9. CASE CheckVersion(c)
  <2>1. MovesTo(c, "sign") \/ MovesTo(c, "done")
    BY <1>9 DEF CheckVersion, Return
  <2> QED BY <2>1
<1>10. CASE NoDevice(c) \/ NoStatus(c)
  <2>1. MovesTo(c, "panicked")
    BY <1>10 DEF NoDevice, NoStatus, Panic
  <2> QED BY <2>1
<1>11. CASE ExchangeFails(c) \/ LastChunk(c)
  <2>1. MovesTo(c, "done")
    BY <1>11 DEF ExchangeFails, LastChunk, Return
  <2> QED BY <2>1
<1> QED BY <1>1, <1>3, <1>4, <1>5, <1>7, <1>8, <1>9, <1>10, <1>11

(* One call at the device.  Only LockMu and Begin bring a call near it;     *)
(* every other step of a call moves that call alone, and frees the mutex at *)
(* most when it is done.                                                    *)
LEMMA ExclusiveInductive == Inv /\ [Next]_vars => Exclusive'
<1> SUFFICES ASSUME Inv, [Next]_vars PROVE Exclusive'
  OBVIOUS
<1> USE DEF Inv, vars, fixed, deviceVars, session
<1>1. pc \in [Calls -> {"idle", "mu", "enumerate", "open", "derive", "version",
                        "check", "sign", "done", "panicked"}]
  BY DEF TypeOK
<1>2. ASSUME NEW c \in Calls, Begin(c) PROVE Exclusive'
  BY <1>1, <1>2 DEF Begin, Goto, Exclusive, Active, AtDevice
<1>3. ASSUME NEW c \in Calls, LockMu(c) PROVE Exclusive'
  BY <1>1, <1>3, NobodyIsNoCall DEF LockMu, MuFree, Goto, Exclusive, Active, AtDevice
<1>4. ASSUME NEW c \in Calls, NEW l, MovesTo(c, l) PROVE Exclusive'
  BY <1>1, <1>4 DEF MovesTo, Goto, Exclusive, Active, AtDevice
<1>7. CASE UNCHANGED <<entry, mu, pc>>
  BY <1>7 DEF Exclusive, Active
<1>8. ASSUME NEW c \in Calls, SendChunk(c) PROVE UNCHANGED <<entry, mu, pc>>
  BY <1>8 DEF SendChunk
<1>9. CASE Plug \/ Unplug \/ Switch \/ UNCHANGED vars
  BY <1>7, <1>9 DEF Plug, Unplug, Switch
<1> QED BY <1>2, <1>3, <1>4, <1>7, <1>8, <1>9, AtDeviceStep DEF Next, Call

(* What is on the device.  A call starts to sign with its first chunk, and  *)
(* while it signs no other call touches the device: whatever happens, the   *)
(* device forgets everything or gets the call's next chunk.                 *)
LEMMA StreamingInductive == Inv /\ [Next]_vars => Streaming'
<1> SUFFICES ASSUME Inv, [Next]_vars PROVE Streaming'
  OBVIOUS
<1> USE DEF Inv, vars, fixed, deviceVars, session
<1>1. pc \in [Calls -> {"idle", "mu", "enumerate", "open", "derive", "version",
                        "check", "sign", "done", "panicked"}]
      /\ chunk \in [Calls -> 1..Chunks] /\ entry \in {"LedgerSigner", "Ledgereum"}
  BY DEF TypeOK
<1>2. ASSUME NEW c \in Calls, NEW l, MovesTo(c, l) PROVE Streaming'
  <2>1. CASE l \in AtDevice
    BY <1>1, <1>2, <2>1 DEF MovesTo, Goto, Streaming, BeforeSign, AtDevice
  <2>2. CASE l \in {"done", "panicked"}
    <3>1. pc[c] \in AtDevice /\ chunk' = chunk /\ pc' = [pc EXCEPT ![c] = l]
      BY <1>2 DEF MovesTo, Goto
    <3>2. \A d \in Calls : pc'[d] # "sign"
      BY <1>1, <2>2, <3>1, OneAtDevice DEF AtDevice
    <3>3. \A d \in Calls : pc'[d] \in BeforeSign => chunk'[d] = 1
      BY <1>1, <2>2, <3>1 DEF Streaming, BeforeSign
    <3> QED BY <3>2, <3>3 DEF Streaming
  <2> QED BY <1>2, <2>1, <2>2 DEF MovesTo
<1>3. ASSUME NEW c \in Calls, Begin(c) \/ LockMu(c) PROVE Streaming'
  BY <1>1, <1>3 DEF Begin, LockMu, Goto, Streaming, BeforeSign
<1>4. ASSUME NEW c \in Calls, SendChunk(c) PROVE Streaming'
  <2>1. onDevice' = <<>> \/ onDevice' = Prefix(c, chunk[c])
    BY <1>4, ReceivedIsPrefix DEF SendChunk, Take, Deliver
  <2>2. \A d \in Calls : pc[d] = "sign" => d = c
    BY <1>1, <1>4, OneAtDevice DEF SendChunk, AtDevice
  <2>3. pc' = pc /\ pc[c] = "sign" /\ chunk' = [chunk EXCEPT ![c] = @ + 1]
        /\ chunk[c] \in Int
    BY <1>1, <1>4 DEF SendChunk
  <2>4. chunk'[c] - 1 = chunk[c] /\ \A d \in Calls \ {c} : chunk'[d] = chunk[d]
    BY <1>1, <2>3
  <2>5. \A d \in Calls : pc'[d] = "sign" =>
          onDevice' = <<>> \/ onDevice' = Prefix(d, chunk'[d] - 1)
    BY <2>1, <2>2, <2>3, <2>4
  <2>6. \A d \in Calls : pc'[d] \in BeforeSign => chunk'[d] = 1
    BY <2>3, <2>4 DEF Streaming, BeforeSign
  <2> QED BY <2>5, <2>6 DEF Streaming, Prefix
<1>5. CASE Plug \/ Unplug \/ Switch \/ UNCHANGED vars
  BY <1>5 DEF Plug, Unplug, Switch, Streaming, Prefix
<1> QED BY <1>2, <1>3, <1>4, <1>5, AtDeviceStep DEF Next, Call

(* What keeps an old app out behind Ledgereum.  Only CheckVersion leads a   *)
(* call from there to sign, and an old app's version never passes it.       *)
LEMMA RefusingInductive == Inv /\ [Next]_vars => Refusing'
<1> SUFFICES ASSUME Inv, [Next]_vars, entry' = "Ledgereum", chain' # NoChain,
                    installed' = "old"
             PROVE  Refusing'
  BY DEF Refusing
<1> USE DEF Inv, vars, deviceVars, session
<1>1. /\ entry' = entry /\ installed' = installed /\ kind' = kind /\ chain' = chain
  BY FixedStep DEF fixed
<1>2. /\ version # "new" /\ kind \in [Calls -> {"Sign", "Unlock"}]
      /\ entry = "Ledgereum" /\ chain # NoChain /\ installed = "old"
      /\ pc \in [Calls -> {"idle", "mu", "enumerate", "open", "derive", "version",
                           "check", "sign", "done", "panicked"}]
      /\ \A c \in Calls : pc[c] \notin {"mu", "sign"}
      /\ \A c \in Calls : pc[c] \in {"enumerate", "open", "derive", "version"} =>
                            kind[c] = "Unlock"
  BY <1>1 DEF Refusing, TypeOK
<1>3. ASSUME NEW c \in Calls, NEW l, Goto(c, l), l \notin {"mu", "sign"},
             l \in {"enumerate", "open", "derive", "version"} => kind[c] = "Unlock",
             version' # "new"
      PROVE  Refusing'
  BY <1>1, <1>2, <1>3 DEF Goto, Refusing
<1>4. ASSUME NEW c \in Calls, Begin(c) PROVE Refusing'
  <2>1. (Goto(c, "enumerate") /\ kind[c] = "Unlock") \/ Goto(c, "check")
    BY <1>2, <1>4 DEF Begin
  <2>2. version' # "new"
    BY <1>2, <1>4 DEF Begin
  <2> QED BY <1>3, <2>1, <2>2
<1>5. ASSUME NEW c \in Calls, UnlockFails(c) PROVE Refusing'
  BY <1>2, <1>3, <1>5 DEF UnlockFails, Return
<1>6. ASSUME NEW c \in Calls, NoProduct(c) PROVE Refusing'
  BY <1>2, <1>3, <1>6 DEF NoProduct, Unlocked, Return
<1>7. ASSUME NEW c \in Calls, Product(c) PROVE Refusing'
  BY <1>2, <1>3, <1>7 DEF Product
<1>8. ASSUME NEW c \in Calls, OpenDevice(c) PROVE Refusing'
  BY <1>2, <1>3, <1>8 DEF OpenDevice
<1>9. ASSUME NEW c \in Calls, Derive(c) PROVE Refusing'
  <2>1. Goto(c, "version") \/ Goto(c, "done")
    BY <1>2, <1>9 DEF Derive, Unlocked, Return
  <2>2. kind[c] = "Unlock" /\ version' # "new"
    BY <1>2, <1>9 DEF Derive
  <2> QED BY <1>3, <2>1, <2>2
<1>10. ASSUME NEW c \in Calls, Version(c) PROVE Refusing'
  <2>1. Goto(c, "done")
    BY <1>2, <1>10 DEF Version, Unlocked, Return
  <2>2. version' # "new"
    BY <1>2, <1>10 DEF Version, VersionOnError
  <2> QED BY <1>3, <2>1, <2>2
<1>11. ASSUME NEW c \in Calls, CheckVersion(c) PROVE Refusing'
  <2>1. Goto(c, "done") /\ version' # "new"
    BY <1>2, <1>11 DEF CheckVersion, Return
  <2> QED BY <1>3, <2>1
<1>12. ASSUME NEW c \in Calls, NoStatus(c) PROVE Refusing'
  <2>1. Goto(c, "panicked") /\ version' = version
    BY <1>12 DEF NoStatus, Panic
  <2> QED BY <1>2, <1>3, <2>1
<1>13. ASSUME NEW c \in Calls,
              LockMu(c) \/ NoDevice(c) \/ ExchangeFails(c) \/ SendChunk(c) \/ LastChunk(c)
       PROVE  FALSE
  BY <1>2, <1>13 DEF LockMu, NoDevice, ExchangeFails, SendChunk, LastChunk
<1>14. CASE Plug \/ Unplug \/ Switch \/ UNCHANGED vars
  BY <1>1, <1>2, <1>14 DEF Plug, Unplug, Switch, Refusing
<1> QED BY <1>4, <1>5, <1>6, <1>7, <1>8, <1>9, <1>10, <1>11, <1>12, <1>13, <1>14
        DEF Next, Call

LEMMA InvInductive == Inv /\ [Next]_vars => Inv'
BY TypeInductive, ExclusiveInductive, StreamingInductive, RefusingInductive,
   ArrivedInductive DEF Inv

LEMMA InvAlways == Spec => []Inv
BY InitInv, InvInductive, PTL DEF Spec

(* The model keeps its type: no call streams a chunk past its last one.     *)
THEOREM TypeCorrect == Spec => []TypeOK
BY InvAlways, PTL DEF Inv

-----------------------------------------------------------------------------
(* What calls return: only LastChunk returns a signed transaction, with the *)
(* first signature that comes.                                              *)
LEMMA ResultChange ==
  ASSUME Inv, [Next]_vars, ~ UNCHANGED result
  PROVE  \E c \in Calls : \E w \in Arriving(c) :
           /\ pc[c] = "sign" /\ lostSync' = (lostSync \/ Tail(w) # <<>>)
           /\ IsSignature(Head(w)) /\ Head(w).kind = "signature"
           /\ SenderKnown(SignedV(Head(w).V))
           /\ result' = [result EXCEPT ![c] =
                [signed |-> TRUE, over |-> Head(w).over, V |-> SignedV(Head(w).V)]]
<1>1. PICK c \in Calls : LastChunk(c)
  BY DEF Next, Call, Begin, LockMu, UnlockFails, NoProduct, Product, OpenDevice,
         Derive, Version, CheckVersion, NoDevice, NoStatus, ExchangeFails, SendChunk,
         Plug, Unplug, Switch, vars
<1>2. PICK w \in Arriving(c) :
        /\ Take(c, w)
        /\ result' = IF Head(w).kind = "signature" /\ SenderKnown(SignedV(Head(w).V))
                       THEN [result EXCEPT ![c] = [signed |-> TRUE, over |-> Head(w).over,
                                                   V |-> SignedV(Head(w).V)]]
                       ELSE result
  BY <1>1 DEF LastChunk
<1>3. Head(w).kind = "signature" => IsSignature(Head(w))
  BY ArrivingGenuine, GenuineTail DEF Inv
<1>4. pc[c] = "sign"
  BY <1>1 DEF LastChunk
<1> QED BY <1>2, <1>3, <1>4 DEF Take

(* A signed transaction is one call's, whole: whatever calls run at once,   *)
(* and whatever becomes of the connection between any two chunks, no call   *)
(* of ledgerSign gets a signature over a mixture; and it is the caller's    *)
(* as long as no exchange has left something behind.                        *)
THEOREM OwnSignatures == Spec => []OwnSignature
<1>1. Init => OwnSignature
  BY DEF Init, OwnSignature, Unsigned
<1>2. Inv /\ OwnSignature /\ [Next]_vars => OwnSignature'
  <2> SUFFICES ASSUME Inv, OwnSignature, [Next]_vars PROVE OwnSignature'
    OBVIOUS
  <2>1. size' = size /\ \A d \in Calls : Transaction(d)' = Transaction(d)
    BY FixedStep DEF fixed, Transaction
  <2>2. ~ lostSync' => ~ lostSync
    <3>1. ASSUME NEW c \in Calls, Exchanging(c) PROVE ~ lostSync' => ~ lostSync
      BY <3>1, ExchangeStep, ExchangeLeaves DEF Inv
    <3>2. UNCHANGED lostSync => (~ lostSync' => ~ lostSync)
      OBVIOUS
    <3> QED BY <3>1, <3>2, AsideStep DEF Next, Call, Aside, Exchanging, OpenDevice, Plug,
                Unplug, Switch, vars, usb
  <2>3. \A d \in Calls : result[d].signed =>
          /\ \E e \in Calls : result[d].over = Transaction(e)
          /\ ~ lostSync' => result[d].over = Transaction(d)
    BY <2>2, Zenon DEF OwnSignature
  <2>4. ASSUME NEW d \in Calls, result'[d].signed
        PROVE  /\ \E e \in Calls : result'[d].over = Transaction(e)
               /\ ~ lostSync' => result'[d].over = Transaction(d)
    <3>1. CASE result'[d] = result[d]
      BY <2>3, <2>4, <3>1
    <3>2. CASE result'[d] # result[d]
      <4>0. PICK c \in Calls : \E w \in Arriving(c) :
              /\ lostSync' = (lostSync \/ Tail(w) # <<>>)
              /\ IsSignature(Head(w)) /\ Head(w).kind = "signature"
              /\ result' = [result EXCEPT ![c] =
                   [signed |-> TRUE, over |-> Head(w).over, V |-> SignedV(Head(w).V)]]
        BY <3>2, ResultChange
      <4>1. PICK w \in Arriving(c) :
              /\ lostSync' = (lostSync \/ Tail(w) # <<>>)
              /\ IsSignature(Head(w)) /\ Head(w).kind = "signature"
              /\ result' = [result EXCEPT ![c] =
                   [signed |-> TRUE, over |-> Head(w).over, V |-> SignedV(Head(w).V)]]
        BY <4>0
      <4>2. c = d /\ result'[d].over = Head(w).over
        BY <3>2, <4>1 DEF Inv, TypeOK
      <4>3. \E e \in Calls : Head(w).over = Transaction(e)
        BY <4>1 DEF IsSignature
      <4>4. ~ lostSync' => Head(w).over = Transaction(d)
        BY <2>2, <4>1, <4>2, ArrivingGenuine DEF Inv
      <4> QED BY <4>2, <4>3, <4>4
    <3> QED BY <3>1, <3>2
  <2> QED BY <2>1, <2>4, Zenon DEF OwnSignature
<1> QED BY <1>1, <1>2, InvAlways, PTL DEF Spec

(* The V of what ledgerSign returns is that of the signer's chain, for      *)
(* every chain ID, though the device returns one byte of it, except that an *)
(* app before 1.0.3 gets around it for IDs up to 14.                        *)
THEOREM ChainBound == Spec => []SignedForChain
<1>1. Init => SignedForChain
  BY DEF Init, SignedForChain, Unsigned
<1>2. Inv /\ SignedForChain /\ [Next]_vars => SignedForChain'
  <2> SUFFICES ASSUME Inv, SignedForChain, [Next]_vars PROVE SignedForChain'
    OBVIOUS
  <2>1. chain' = chain /\ installed' = installed
    BY FixedStep DEF fixed
  <2>2. CASE UNCHANGED result
    BY <2>1, <2>2 DEF SignedForChain, Protected, ChainOf
  <2>3. CASE ~ UNCHANGED result
    <3>0. PICK c \in Calls : \E w \in Arriving(c) :
            /\ IsSignature(Head(w))
            /\ SenderKnown(SignedV(Head(w).V))
            /\ result' = [result EXCEPT ![c] =
                 [signed |-> TRUE, over |-> Head(w).over, V |-> SignedV(Head(w).V)]]
      BY <2>3, ResultChange
    <3>1. PICK w \in Arriving(c) :
            /\ IsSignature(Head(w))
            /\ SenderKnown(SignedV(Head(w).V))
            /\ result' = [result EXCEPT ![c] =
                 [signed |-> TRUE, over |-> Head(w).over, V |-> SignedV(Head(w).V)]]
      BY <3>0
    <3> DEFINE v == Head(w).V
    <3>2. v \in DeviceV
      BY <3>1 DEF IsSignature
    <3>3. /\ result'[c].V = SignedV(v)
          /\ \A d \in Calls \ {c} : result'[d] = result[d]
      BY <3>1 DEF Inv, TypeOK
    <3>4. ASSUME chain # NoChain
          PROVE  \/ Protected(SignedV(v)) /\ ChainOf(SignedV(v)) = chain
                 \/ installed = "old" /\ chain <= 14
      <4>1. CASE Protected(SignedV(v))
        BY <3>1, <4>1 DEF SenderKnown
      <4>2. CASE ~ Protected(SignedV(v))
        <5>1. chain \in Nat /\ v \in Nat /\ installed \in {"old", "new"}
          BY <3>2, <3>4, ChainType DEF Inv, TypeOK
        <5>2. SignedV(v) >= 2 * chain
          BY <3>4, <5>1 DEF SignedV, Adjusted
        <5>3. chain <= 14
          BY <4>2, <5>1, <5>2 DEF Protected
        <5>4. installed # "new"
          BY <3>2, <4>2, <5>1, SignedVOfNewApp DEF Protected
        <5> QED BY <5>1, <5>3, <5>4
      <4> QED BY <4>1, <4>2
    <3> QED BY <2>1, <3>3, <3>4 DEF SignedForChain, Protected, ChainOf
  <2> QED BY <2>2, <2>3
<1> QED BY <1>1, <1>2, InvAlways, PTL DEF Spec

(* Through ledgerDriver.SignTx an app before 1.0.3 never signs for a chain, *)
(* whatever queries of its version fail, whatever is left on the connection *)
(* and however often the device is opened.                                  *)
THEOREM OldAppRefused == Spec => []DriverRefusesOld
<1>1. Init => DriverRefusesOld
  <2>1. Init => \A c \in Calls : result[c] = Unsigned
    BY Zenon DEF Init
  <2>2. ~ Unsigned.signed
    BY DEF Unsigned
  <2> QED BY <2>1, <2>2 DEF DriverRefusesOld
<1>2. Inv /\ DriverRefusesOld /\ [Next]_vars => DriverRefusesOld'
  <2> SUFFICES ASSUME Inv, DriverRefusesOld, [Next]_vars,
                      entry' = "Ledgereum", chain' # NoChain, installed' = "old"
               PROVE  \A c \in Calls : ~ result'[c].signed
    BY DEF DriverRefusesOld
  <2>1. entry = "Ledgereum" /\ chain # NoChain /\ installed = "old"
    BY FixedStep DEF fixed
  <2>2. UNCHANGED result
    BY <2>1, ResultChange DEF Inv, Refusing
  <2> QED BY <2>1, <2>2 DEF DriverRefusesOld
<1> QED BY <1>1, <1>2, InvAlways, PTL DEF Spec

-----------------------------------------------------------------------------
(* The mutex is held only by a call that is at the device. *)
MutexInUse == mu # Nobody => pc[mu] \in AtDevice

(* No path of LedgerSigner leaves the mutex locked, not even the panic of   *)
(* an exchange, which the deferred Unlock outlives: a call that waits for   *)
(* the mutex waits for one that is at the device.                           *)
THEOREM MutexIsFreed == Spec => []MutexInUse
<1>1. Init => MutexInUse
  BY DEF Init, MutexInUse
<1>2. ASSUME Inv, MutexInUse, [Next]_vars PROVE MutexInUse'
  <2>1. TypeOK /\ mu \in Calls \cup {Nobody} /\ Nobody \notin Calls
    BY <1>2, NobodyIsNoCall DEF Inv, TypeOK
  <2>2. ASSUME NEW c \in Calls, Begin(c) PROVE MutexInUse'
    BY <1>2, <2>1, <2>2 DEF Begin, Goto, MutexInUse, AtDevice, TypeOK
  <2>3. ASSUME NEW c \in Calls, LockMu(c) PROVE MutexInUse'
    BY <2>1, <2>3 DEF LockMu, Goto, MutexInUse, AtDevice, TypeOK
  <2>4. ASSUME NEW c \in Calls, NEW l, MovesTo(c, l) PROVE MutexInUse'
    <3>1. \/ l \in AtDevice /\ mu' = mu
          \/ mu' = IF mu = c THEN Nobody ELSE mu
      BY <2>4 DEF MovesTo
    <3>2. pc'[c] = l /\ \A d \in Calls : d # c => pc'[d] = pc[d]
      BY <2>1, <2>4 DEF MovesTo, Goto, TypeOK
    <3> QED
      BY <1>2, <2>1, <3>1, <3>2 DEF MutexInUse
  <2>5. ASSUME NEW c \in Calls, SendChunk(c) PROVE MutexInUse'
    BY <1>2, <2>5 DEF SendChunk, MutexInUse
  <2>6. CASE Plug \/ Unplug \/ Switch \/ UNCHANGED vars
    BY <1>2, <2>6 DEF Plug, Unplug, Switch, vars, MutexInUse
  <2> QED
    BY <1>2, <2>2, <2>3, <2>4, <2>5, <2>6, AtDeviceStep DEF Next, Call
<1> QED
  BY <1>1, <1>2, InvAlways, PTL DEF Spec
-----------------------------------------------------------------------------
(* The exchanges of frames the signing rests on, for any size of a frame    *)
(* that holds its headers and any lengths of requests and replies.          *)

(* The frames on the wire are the rest of the reply to this message, of     *)
(* which the host has what is in its buffer, and only after the last frame  *)
(* has it all.                                                              *)
KindNames == {"result", "failure", "button"}
UsbFrames == [n : Nat, kind : KindNames, length : Nat, first : BOOLEAN, good : BOOLEAN,
              from : Nat, to : Nat]
AwaitedFrame(frames, k, have, length) ==
  LET f == frames[k]
  IN  /\ f.n = msg /\ f.length = length
      /\ f.first <=> k = 1 /\ have = 0
      /\ f.from = IF k = 1 THEN have ELSE frames[k - 1].to
      /\ f.to = f.from + (IF f.first THEN Rooms.first ELSE Rooms.next)
      /\ f.to < length <=> k < Len(frames)
Awaited(frames, have, length) ==
  /\ frames \in Seq(UsbFrames) /\ Len(frames) >= 1
  /\ \A k \in 1..Len(frames) : AwaitedFrame(frames, k, have, length)

(* The buffer is empty, or it has a beginning of the reply and not all.     *)
UsbParts == [n : Nat, from : Nat, to : Nat]
UsbBuffers == [cap : Nat, len : Nat, parts : Seq(UsbParts)]
Collected(length) ==
  \/ reply = NoBuffer
  \/ /\ reply \in UsbBuffers
     /\ reply.cap = length /\ reply.len \in 1..(length - 1)
     /\ Whole(reply.parts, msg, reply.len)

Incoming ==
  /\ device = Nil
  /\ \E length \in Nat : /\ driver = "ledger" => length >= 2
                         /\ Awaited(wire, reply.len, length)
                         /\ Collected(length)

(* What is written the device has put together, and it has not answered.    *)
Outgoing ==
  /\ wire = <<>> /\ reply = NoBuffer
  /\ device = IF sent = 0 THEN Nil ELSE [n |-> msg, total |-> total, have |-> sent]

Idle ==
  /\ wire = <<>> /\ device = Nil
  /\ returned.n = msg /\ reply.len = reply.cap
  /\ Whole(returned.parts, msg, reply.cap)

Sync ==
  /\ msg \in Nat /\ at \in {"idle", "write", "read"}
  /\ at = "idle" => Idle
  /\ at # "idle" => total \in Nat /\ sent \in 0..total /\ total > 0
  /\ at = "write" => reply = NoBuffer /\ (Outgoing \/ (sent = total /\ Incoming))
  /\ at = "read" => sent = total /\ (Outgoing \/ Incoming)

UsbInv ==
  /\ driver \in {"ledger", "trezor"} /\ failed \in BOOLEAN
  /\ ~ failed => Sync

LEMMA RoomSizes ==
  ASSUME driver \in {"ledger", "trezor"}
  PROVE  /\ Rooms.out \in Nat /\ Rooms.out > 0
         /\ Rooms.first \in Nat /\ Rooms.first > 0
         /\ Rooms.next \in Nat /\ Rooms.next > 0
         /\ Rooms.header \in Nat /\ Rooms.header > 0
         /\ Rooms.status \in Nat /\ (driver = "ledger" => Rooms.status = 2)
BY FrameHoldsHeaders DEF Rooms, Layout

(* The ceiling division: so many frames of one room hold the rest. *)
LEMMA Ceiling ==
  ASSUME NEW rest \in Nat, rest > 0, NEW room \in Nat, room > 0, NEW k \in Nat
  PROVE  LET q == (rest + room - 1) \div room
         IN  q \in Nat /\ q >= 1 /\ (k * room < rest <=> k < q)
<1> DEFINE q == (rest + room - 1) \div room
<1>1. q \in Nat /\ q * room <= rest + room - 1 /\ rest + room - 1 < (q + 1) * room
  OBVIOUS
<1>2. q * room + room = (q + 1) * room
  BY <1>1
<1>3. q * room \in Nat /\ k * room \in Nat
  BY <1>1
<1>4. q # 0
  BY <1>1, <1>2
<1>5. ASSUME k < q PROVE k * room < rest
  <2>1. (k + 1) * room <= q * room
    BY <1>1, <1>5
  <2>2. (k + 1) * room = k * room + room
    OBVIOUS
  <2> QED
    BY <2>1, <2>2, <1>1, <1>3
<1>6. ASSUME q <= k PROVE rest <= k * room
  <2>1. q * room <= k * room
    BY <1>1, <1>6
  <2> QED
    BY <2>1, <1>1, <1>2, <1>3
<1> QED
  BY <1>1, <1>3, <1>4, <1>5, <1>6

(* The frames of a reply: the first is marked, each begins where the one    *)
(* before it ends, and only the last reaches the reply's end.               *)
ReplyFrame(frames, k, m, length) ==
  LET f == frames[k]
  IN  /\ f.n = m /\ f.length = length
      /\ f.first <=> k = 1
      /\ f.from = IF k = 1 THEN 0 ELSE frames[k - 1].to
      /\ f.to = f.from + (IF f.first THEN Rooms.first ELSE Rooms.next)
      /\ f.to < length <=> k < Len(frames)

LEMMA ReplyShape ==
  ASSUME driver \in {"ledger", "trezor"}, NEW m \in Nat,
         NEW kind0 \in KindNames, NEW length \in Nat
  PROVE  LET frames == ReplyFrames(m, kind0, length)
         IN  /\ frames \in Seq(UsbFrames) /\ Len(frames) >= 1
             /\ \A k \in 1..Len(frames) : ReplyFrame(frames, k, m, length)
<1> DEFINE first == Rooms.first
           room == Rooms.next
           count == IF length <= first THEN 1 ELSE 1 + (length - first + room - 1) \div room
           start(k) == IF k = 1 THEN 0 ELSE first + (k - 2) * room
           end(k) == first + (k - 1) * room
           frame(k) == [n |-> m, kind |-> kind0, length |-> length, first |-> k = 1,
                        good |-> TRUE, from |-> start(k), to |-> end(k)]
           frames == [k \in 1..count |-> frame(k)]
<1>1. first \in Nat /\ first > 0 /\ room \in Nat /\ room > 0
  BY RoomSizes
<1>2. count \in Nat /\ count >= 1
  BY <1>1, Ceiling
<1>3. ASSUME NEW k \in 1..count
      PROVE  /\ start(k) \in Nat /\ end(k) \in Nat
             /\ start(k) = IF k = 1 THEN 0 ELSE end(k - 1)
             /\ end(k) = start(k) + (IF k = 1 THEN first ELSE room)
  <2>1. (k - 1) * room = (k - 2) * room + room
    BY <1>1, <1>2
  <2>2. (k - 1) * room \in Nat /\ (k # 1 => (k - 2) * room \in Nat)
    BY <1>1, <1>2
  <2>3. k = 1 => (k - 1) * room = 0
    BY <1>1
  <2> QED
    BY <1>1, <1>2, <2>1, <2>2, <2>3
<1>4. ASSUME NEW k \in 1..count PROVE end(k) < length <=> k < count
  <2>1. (k - 1) * room \in Nat
    BY <1>1, <1>2
  <2>2. CASE length <= first
    BY <1>1, <2>1, <2>2
  <2>3. CASE length > first
    <3>1. (k - 1) * room < length - first <=> k - 1 < (length - first + room - 1) \div room
      BY <1>1, <1>2, <2>3, Ceiling
    <3>2. (length - first + room - 1) \div room \in Nat
      BY <1>1, <2>3, Ceiling
    <3> QED
      BY <1>1, <1>2, <2>1, <2>3, <3>1, <3>2
  <2> QED
    BY <1>1, <2>2, <2>3
<1>5. ReplyFrames(m, kind0, length) = frames
  BY DEF ReplyFrames
<1> HIDE DEF count, start, end
<1>6. \A k \in 1..count : frame(k) \in UsbFrames
  BY <1>3 DEF UsbFrames
<1>7. frames \in Seq(UsbFrames) /\ Len(frames) = count
  BY <1>2, <1>6
<1>8. ASSUME NEW k \in 1..count PROVE ReplyFrame(frames, k, m, length)
  <2>1. frames[k] = frame(k) /\ (k # 1 => frames[k - 1] = frame(k - 1))
    BY <1>2
  <2>2. /\ frames[k].n = m /\ frames[k].length = length
        /\ frames[k].first = (k = 1)
        /\ frames[k].from = start(k) /\ frames[k].to = end(k)
    BY <2>1
  <2>3. frames[k].from = IF k = 1 THEN 0 ELSE frames[k - 1].to
    BY <1>3, <2>1, <2>2
  <2>4. frames[k].to = frames[k].from + (IF frames[k].first THEN first ELSE room)
    BY <1>3, <2>2
  <2>5. frames[k].to < length <=> k < Len(frames)
    BY <1>4, <1>7, <2>2
  <2> QED
    BY <2>2, <2>3, <2>4, <2>5 DEF ReplyFrame
<1> QED
  BY <1>2, <1>5, <1>7, <1>8

(* What the device sends is what the host will wait for. *)
LEMMA ReplyAwaited ==
  ASSUME driver \in {"ledger", "trezor"}, msg \in Nat,
         NEW kind0 \in KindNames, NEW length \in Nat
  PROVE  Awaited(ReplyFrames(msg, kind0, length), 0, length)
<1> DEFINE frames == ReplyFrames(msg, kind0, length)
<1>1. /\ frames \in Seq(UsbFrames) /\ Len(frames) >= 1
      /\ \A k \in 1..Len(frames) : ReplyFrame(frames, k, msg, length)
  BY ReplyShape
<1> HIDE DEF frames
<1>2. Awaited(frames, 0, length)
  BY <1>1 DEF Awaited, AwaitedFrame, ReplyFrame
<1> QED
  BY <1>2 DEF frames

LEMMA AwaitedHead ==
  ASSUME driver \in {"ledger", "trezor"},
         NEW frames, NEW have \in Nat, NEW length \in Nat, Awaited(frames, have, length)
  PROVE  /\ frames # <<>> /\ Head(frames) = frames[1] /\ frames[1] \in UsbFrames
         /\ frames[1].n = msg /\ frames[1].length = length
         /\ frames[1].first <=> have = 0
         /\ frames[1].from = have
         /\ frames[1].to = have + (IF have = 0 THEN Rooms.first ELSE Rooms.next)
         /\ frames[1].to < length <=> Len(frames) > 1
<1>1. frames \in Seq(UsbFrames) /\ Len(frames) \in Nat /\ Len(frames) >= 1
  BY DEF Awaited
<1>2. AwaitedFrame(frames, 1, have, length)
  BY <1>1 DEF Awaited
<1>3. frames # <<>> /\ Head(frames) = frames[1] /\ frames[1] \in UsbFrames
  BY <1>1
<1>4. /\ frames[1].n = msg /\ frames[1].length = length
      /\ frames[1].first <=> have = 0
      /\ frames[1].from = have
  BY <1>2 DEF AwaitedFrame
<1>5. frames[1].to = have + (IF have = 0 THEN Rooms.first ELSE Rooms.next)
  BY <1>2, <1>4 DEF AwaitedFrame
<1>6. frames[1].to < length <=> Len(frames) > 1
  BY <1>1, <1>2 DEF AwaitedFrame
<1> QED
  BY <1>3, <1>4, <1>5, <1>6

(* After the first frame the others are awaited with what it brought. *)
LEMMA AwaitedRest ==
  ASSUME driver \in {"ledger", "trezor"},
         NEW frames, NEW have \in Nat, NEW length \in Nat, Awaited(frames, have, length),
         Len(frames) > 1
  PROVE  /\ Awaited(Tail(frames), frames[1].to, length)
         /\ frames[1].to \in 1..(length - 1)
<1>0. frames \in Seq(UsbFrames) /\ Len(frames) >= 1
  BY DEF Awaited
<1>1. frames \in Seq(UsbFrames) /\ Len(frames) \in Nat /\ Len(frames) > 1
  BY <1>0
<1>2. /\ Tail(frames) \in Seq(UsbFrames) /\ Len(Tail(frames)) = Len(frames) - 1
      /\ \A k \in 1..(Len(frames) - 1) : Tail(frames)[k] = frames[k + 1]
  BY <1>1
<1>3. frames[1].to \in 1..(length - 1)
  <2>1. frames[1].to < length /\ frames[1] \in UsbFrames
    BY <1>1, AwaitedHead
  <2>2. frames[1].to > 0
    <3>1. frames[1].to = have + (IF have = 0 THEN Rooms.first ELSE Rooms.next)
      BY AwaitedHead
    <3> QED
      BY <3>1, RoomSizes
  <2> QED
    BY <2>1, <2>2 DEF UsbFrames
<1>4. ASSUME NEW k \in 1..(Len(frames) - 1)
      PROVE  AwaitedFrame(Tail(frames), k, frames[1].to, length)
  <2>1. /\ Tail(frames)[k] = frames[k + 1]
        /\ k # 1 => Tail(frames)[k - 1] = frames[k]
    BY <1>1, <1>2
  <2>2. k + 1 \in 1..Len(frames) /\ k + 1 # 1 /\ (k + 1) - 1 = k
    BY <1>1
  <2>3. AwaitedFrame(frames, k + 1, have, length)
    BY <2>2 DEF Awaited
  <2> QED
    BY <1>1, <1>2, <1>3, <2>1, <2>2, <2>3 DEF AwaitedFrame
<1> QED
  BY <1>1, <1>2, <1>3, <1>4 DEF Awaited

LEMMA AwaitedGarbled ==
  ASSUME NEW frames, NEW have, NEW length, Awaited(frames, have, length)
  PROVE  Awaited(<<[Head(frames) EXCEPT !.good = FALSE]>> \o Tail(frames), have, length)
<1> DEFINE bad == [Head(frames) EXCEPT !.good = FALSE]
           garbled == <<bad>> \o Tail(frames)
<1>1. frames \in Seq(UsbFrames) /\ Len(frames) >= 1
  BY DEF Awaited
<1>2. Head(frames) = frames[1] /\ frames[1] \in UsbFrames
  BY <1>1
<1>3. /\ bad \in UsbFrames
      /\ bad.n = frames[1].n /\ bad.length = frames[1].length
      /\ bad.first = frames[1].first /\ bad.from = frames[1].from /\ bad.to = frames[1].to
  BY <1>2 DEF UsbFrames
<1> HIDE DEF bad
<1>4. /\ garbled \in Seq(UsbFrames) /\ Len(garbled) = Len(frames)
      /\ \A k \in 1..Len(frames) : garbled[k] = IF k = 1 THEN bad ELSE frames[k]
  <2>1. <<bad>> \in Seq(UsbFrames) /\ Len(<<bad>>) = 1 /\ <<bad>>[1] = bad
    BY <1>3
  <2>2. /\ Tail(frames) \in Seq(UsbFrames) /\ Len(Tail(frames)) = Len(frames) - 1
        /\ \A k \in 1..(Len(frames) - 1) : Tail(frames)[k] = frames[k + 1]
    BY <1>1
  <2>3. /\ garbled \in Seq(UsbFrames) /\ Len(garbled) = 1 + Len(Tail(frames))
        /\ \A k \in 1..Len(garbled) :
             garbled[k] = IF k <= 1 THEN <<bad>>[k] ELSE Tail(frames)[k - 1]
    BY <2>1, <2>2, ConcatProperties
  <2> QED
    BY <1>1, <2>1, <2>2, <2>3
<1>5. \A k \in 1..Len(frames) :
        /\ garbled[k].n = frames[k].n /\ garbled[k].length = frames[k].length
        /\ garbled[k].first = frames[k].first
        /\ garbled[k].from = frames[k].from /\ garbled[k].to = frames[k].to
  BY <1>3, <1>4
<1> HIDE DEF garbled
<1>6. ASSUME NEW k \in 1..Len(frames) PROVE AwaitedFrame(garbled, k, have, length)
  <2>1. AwaitedFrame(frames, k, have, length)
    BY DEF Awaited
  <2>2. k # 1 => garbled[k - 1].to = frames[k - 1].to
    BY <1>1, <1>5
  <2> QED
    BY <1>4, <1>5, <2>1, <2>2 DEF AwaitedFrame
<1>7. Awaited(garbled, have, length)
  BY <1>1, <1>4, <1>6 DEF Awaited
<1> QED
  BY <1>7 DEF garbled, bad

LEMMA WholeGrows ==
  ASSUME NEW parts \in Seq(UsbParts), NEW m, NEW length \in Nat, Whole(parts, m, length),
         NEW part \in UsbParts, part.n = m, part.from = length, part.from <= part.to
  PROVE  /\ Append(parts, part) \in Seq(UsbParts)
         /\ Whole(Append(parts, part), m, part.to)
<1> DEFINE more == Append(parts, part)
<1>1. /\ more \in Seq(UsbParts) /\ Len(more) = Len(parts) + 1 /\ Len(parts) \in Nat
      /\ more # <<>> /\ more[Len(parts) + 1] = part
      /\ \A k \in 1..Len(parts) : more[k] = parts[k]
  OBVIOUS
<1>2. length = IF Len(parts) = 0 THEN 0 ELSE parts[Len(parts)].to
  BY DEF Whole
<1>3. \A k \in 1..Len(parts) :
        /\ parts[k].n = m /\ parts[k].from <= parts[k].to
        /\ parts[k].from = IF k = 1 THEN 0 ELSE parts[k - 1].to
  BY DEF Whole
<1> HIDE DEF more
<1>4. ASSUME NEW k \in 1..Len(more)
      PROVE  /\ more[k].n = m /\ more[k].from <= more[k].to
             /\ more[k].from = IF k = 1 THEN 0 ELSE more[k - 1].to
  <2>1. CASE k <= Len(parts)
    <3>1. k \in 1..Len(parts) /\ (k # 1 => k - 1 \in 1..Len(parts))
      BY <1>1, <2>1
    <3> QED
      BY <1>1, <1>3, <3>1
  <2>2. CASE k = Len(parts) + 1
    <3>1. more[k] = part /\ (k # 1 => k - 1 = Len(parts) /\ more[k - 1] = parts[k - 1])
      BY <1>1, <2>2
    <3> QED
      BY <1>1, <1>2, <2>2, <3>1
  <2> QED
    BY <1>1, <2>1, <2>2
<1>5. Whole(more, m, part.to)
  BY <1>1, <1>4 DEF Whole
<1> QED
  BY <1>1, <1>5 DEF more

(* The host takes from the head of the wire what it is awaiting, and waits  *)
(* for more exactly as long as there is more.                               *)
LEMMA ReadHead ==
  ASSUME driver \in {"ledger", "trezor"}, msg \in Nat, NEW length \in Nat,
         Awaited(wire, reply.len, length), Collected(length)
  PROVE  /\ WantsMore(Left(Head(wire)), Room(Head(wire))) <=> Len(wire) > 1
         /\ Filled(Head(wire)) \in UsbBuffers /\ Filled(Head(wire)).cap = length
         /\ Filled(Head(wire)).len = IF Len(wire) > 1 THEN wire[1].to ELSE length
         /\ Whole(Filled(Head(wire)).parts, msg, Filled(Head(wire)).len)
<1> DEFINE f == Head(wire)
           have == reply.len
           before == Buffer(f)
           taken == Taken(f)
           part == [n |-> f.n, from |-> f.from, to |-> f.from + taken]
<1>1. have \in Nat /\ have <= length
  BY DEF Collected, NoBuffer
<1>2. /\ f = wire[1] /\ f \in UsbFrames /\ f.n = msg /\ f.length = length
      /\ f.first <=> have = 0
      /\ f.from = have
      /\ f.to = have + (IF have = 0 THEN Rooms.first ELSE Rooms.next)
      /\ f.to < length <=> Len(wire) > 1
  BY <1>1, AwaitedHead
<1>3. Starts(f) <=> have = 0
  BY <1>2 DEF Starts
<1>4. /\ before \in UsbBuffers /\ before.cap = length /\ before.len = have
      /\ Whole(before.parts, msg, have)
  <2>1. CASE have = 0
    <3>1. before = [cap |-> length, len |-> 0, parts |-> <<>>]
      BY <1>2, <1>3, <2>1 DEF Buffer, NoBuffer
    <3>2. <<>> \in Seq(UsbParts) /\ Len(<<>>) = 0
      OBVIOUS
    <3>3. Whole(<<>>, msg, 0)
      BY <3>2 DEF Whole
    <3> HIDE DEF before
    <3>4. /\ before.cap = length /\ before.len = 0 /\ before.parts = <<>>
          /\ before \in UsbBuffers
      BY <3>1, <3>2 DEF UsbBuffers
    <3> QED
      BY <2>1, <3>3, <3>4
  <2>2. CASE have # 0
    BY <1>1, <1>3, <2>2 DEF Buffer, Collected, NoBuffer
  <2> QED
    BY <2>1, <2>2
<1>5. Room(f) \in Nat /\ Room(f) > 0 /\ f.to = have + Room(f) /\ Left(f) = length - have
  BY <1>2, <1>3, <1>4, RoomSizes DEF Room, Left
<1>6. WantsMore(Left(f), Room(f)) <=> Len(wire) > 1
  BY <1>1, <1>2, <1>5 DEF WantsMore
<1>7. taken \in Nat /\ taken = IF Len(wire) > 1 THEN Room(f) ELSE length - have
  BY <1>1, <1>2, <1>5, <1>6 DEF Taken, WantsMore
<1>8. /\ part \in UsbParts /\ part.n = msg /\ part.from = have /\ part.from <= part.to
      /\ part.to = have + taken
  BY <1>1, <1>2, <1>7 DEF UsbParts
<1>9. Filled(f) = [cap |-> length, len |-> have + taken, parts |-> Append(before.parts, part)]
  <2>1. Filled(f) = [before EXCEPT !.len = before.len + taken,
                                   !.parts = Append(before.parts, part)]
    BY DEF Filled
  <2> HIDE DEF before, taken, part
  <2> QED
    BY <1>4, <2>1 DEF UsbBuffers
<1>10. before.parts \in Seq(UsbParts)
  BY <1>4 DEF UsbBuffers
<1>11. /\ Append(before.parts, part) \in Seq(UsbParts)
       /\ Whole(Append(before.parts, part), msg, have + taken)
  <2> HIDE DEF before, part
  <2> QED
    BY <1>1, <1>4, <1>8, <1>10, WholeGrows
<1>12. have + taken = IF Len(wire) > 1 THEN wire[1].to ELSE length
  BY <1>1, <1>2, <1>5, <1>7
<1> DEFINE parts == Append(before.parts, part)
           new == have + taken
<1>13. new \in Nat
  BY <1>1, <1>7
<1> HIDE DEF parts, new
<1>14. Filled(f) = [cap |-> length, len |-> new, parts |-> parts]
  BY <1>9 DEF parts, new
<1>15. parts \in Seq(UsbParts) /\ Whole(parts, msg, new)
  BY <1>11 DEF parts, new
<1>16. /\ Filled(f) \in UsbBuffers /\ Filled(f).cap = length
       /\ Filled(f).len = new /\ Filled(f).parts = parts
  BY <1>13, <1>14, <1>15 DEF UsbBuffers
<1>17. new = IF Len(wire) > 1 THEN wire[1].to ELSE length
  BY <1>12 DEF new
<1> QED
  BY <1>6, <1>15, <1>16, <1>17

-----------------------------------------------------------------------------
LEMMA InitUsbInv == UsbInit => UsbInv
<1> SUFFICES ASSUME UsbInit PROVE UsbInv
  OBVIOUS
<1>1. Whole(<<>>, 0, 0)
  BY DEF Whole
<1>2. Idle /\ at = "idle" /\ msg = 0 /\ failed = FALSE
  BY <1>1 DEF UsbInit, Idle, NoReply, NoBuffer
<1>3. Sync
  BY <1>2 DEF Sync
<1> QED
  BY <1>3 DEF UsbInit, UsbInv

(* A new message, when nothing is under way. *)
LEMMA NewMessageSync ==
  ASSUME driver \in {"ledger", "trezor"}, driver' = driver, msg \in Nat, NewMessage,
         wire' = <<>>, device' = Nil
  PROVE  Sync'
<1>1. /\ msg' \in Nat /\ sent' = 0 /\ reply' = NoBuffer /\ at' = "write"
      /\ total' \in Nat /\ total' > 0
  BY RoomSizes, LengthsAreNat DEF NewMessage
<1>2. Outgoing'
  BY <1>1 DEF Outgoing, NoBuffer, Nil
<1> QED
  BY <1>1, <1>2 DEF Sync, NoBuffer

LEMMA StartInv == ASSUME UsbInv, Start PROVE UsbInv'
<1>1. CASE failed
  BY <1>1 DEF UsbInv, Start
<1>2. CASE ~ failed
  <2>1. wire' = <<>> /\ device' = Nil
    BY <1>2 DEF UsbInv, Sync, Idle, Start
  <2>2. Sync'
    BY <1>2, <2>1, NewMessageSync DEF UsbInv, Sync, Start
  <2> QED
    BY <2>2 DEF UsbInv, Start
<1> QED
  BY <1>1, <1>2 DEF UsbInv

LEMMA WriteInv == ASSUME UsbInv, Write PROVE UsbInv'
<1> DEFINE written == IF total - sent > Rooms.out THEN Rooms.out ELSE total - sent
<1>1. CASE failed
  BY <1>1 DEF UsbInv, Write
<1>2. CASE ~ failed
  <2>1. /\ total \in Nat /\ sent \in 0..total /\ sent < total
        /\ reply = NoBuffer /\ Outgoing /\ at = "write" /\ msg \in Nat
    BY <1>2 DEF UsbInv, Sync, Write
  <2>2. written \in Nat /\ written > 0 /\ sent + written <= total
    BY <2>1, RoomSizes DEF UsbInv
  <2>3. /\ sent' = sent + written
        /\ device' = IF sent = 0 THEN [n |-> msg, total |-> total, have |-> written]
                     ELSE IF device.n = msg /\ device.have = sent
                       THEN [device EXCEPT !.have = @ + written]
                       ELSE device
        /\ UNCHANGED <<driver, at, msg, total, reply, returned, failed, wire>>
    BY DEF Write
  <2> HIDE DEF written
  <2>4. device' = [n |-> msg, total |-> total, have |-> sent + written]
    BY <2>1, <2>2, <2>3 DEF Outgoing
  <2>5. Outgoing'
    BY <2>1, <2>2, <2>3, <2>4 DEF Outgoing
  <2> QED
    BY <2>1, <2>2, <2>3, <2>5 DEF UsbInv, Sync
<1> QED
  BY <1>1, <1>2 DEF UsbInv

LEMMA WrittenInv == ASSUME UsbInv, Written PROVE UsbInv'
<1>1. /\ at = "write" /\ sent = total /\ at' = "read"
      /\ UNCHANGED <<driver, msg, total, sent, reply, returned, failed, device, wire>>
  BY DEF Written
<1>2. Outgoing => Outgoing'
  BY <1>1 DEF Outgoing
<1>3. Incoming => Incoming'
  BY <1>1 DEF Incoming, Awaited, AwaitedFrame, Collected, Rooms
<1> QED
  BY <1>1, <1>2, <1>3 DEF UsbInv, Sync

LEMMA BreakOffInv ==
  ASSUME UsbInv, WriteFails \/ ReadFails \/ ReadBadHeader
  PROVE  UsbInv'
BY DEF UsbInv, WriteFails, ReadFails, ReadBadHeader, BreakOff

LEMMA DeviceRepliesInv == ASSUME UsbInv, DeviceReplies PROVE UsbInv'
<1>1. CASE failed
  BY <1>1 DEF UsbInv, DeviceReplies, host
<1>2. CASE ~ failed
  <2>1. UNCHANGED <<driver, at, msg, total, sent, reply, returned, failed>> /\ device' = Nil
    BY DEF DeviceReplies, host
  <2>2. /\ Outgoing /\ at \in {"write", "read"} /\ sent = total /\ device.n = msg
        /\ reply = NoBuffer /\ wire = <<>> /\ msg \in Nat
    BY <1>2 DEF UsbInv, Sync, Idle, Outgoing, Incoming, DeviceReplies
  <2>3. PICK kind0 \in Kinds, l \in RepLengths :
          wire' = wire \o ReplyFrames(device.n, kind0, Rooms.status + l)
    BY DEF DeviceReplies
  <2> DEFINE length == Rooms.status + l
             frames == ReplyFrames(msg, kind0, length)
  <2>4. kind0 \in KindNames
    BY <2>3 DEF Kinds, KindNames
  <2>5. length \in Nat /\ (driver = "ledger" => length >= 2)
    BY <2>3, LengthsAreNat, RoomSizes DEF UsbInv
  <2>6. Awaited(frames, 0, length)
    BY <2>2, <2>4, <2>5, ReplyAwaited DEF UsbInv
  <2> HIDE DEF length, frames
  <2>7. wire' = frames
    <3>1. frames \in Seq(UsbFrames)
      BY <2>6 DEF Awaited
    <3>2. wire' = <<>> \o frames
      BY <2>2, <2>3 DEF frames, length
    <3> QED
      BY <3>1, <3>2
  <2>8. length' = length /\ Awaited(wire, reply.len, length)'
    <3>1. Awaited(wire', 0, length) /\ reply.len = 0 /\ length' = length
      BY <2>1, <2>2, <2>6, <2>7 DEF NoBuffer, length, Rooms
    <3> QED
      BY <2>1, <3>1 DEF Awaited, AwaitedFrame, Rooms
  <2>9. Incoming'
    BY <2>1, <2>2, <2>5, <2>7, <2>8 DEF Incoming, Collected, NoBuffer
  <2> QED
    BY <1>2, <2>1, <2>2, <2>9 DEF UsbInv, Sync
<1> QED
  BY <1>1, <1>2 DEF UsbInv

LEMMA GarbleInv == ASSUME UsbInv, Garble PROVE UsbInv'
<1>1. CASE failed
  BY <1>1 DEF UsbInv, Garble, host
<1>2. CASE ~ failed
  <2>1. /\ UNCHANGED <<driver, at, msg, total, sent, reply, returned, failed, device>>
        /\ wire # <<>>
        /\ wire' = <<[Head(wire) EXCEPT !.good = FALSE]>> \o Tail(wire)
    BY DEF Garble, host
  <2>2. Incoming /\ ~ Outgoing /\ at \in {"write", "read"}
    BY <1>2, <2>1 DEF UsbInv, Sync, Idle, Outgoing
  <2>3. PICK length \in Nat : /\ driver = "ledger" => length >= 2
                              /\ Awaited(wire, reply.len, length)
                              /\ Collected(length)
    BY <2>2 DEF Incoming
  <2>4. Awaited(wire', reply.len, length)
    BY <2>1, <2>3, AwaitedGarbled
  <2>5. Awaited(wire, reply.len, length)'
    BY <2>1, <2>4 DEF Awaited, AwaitedFrame, Rooms
  <2>6. Incoming'
    BY <2>1, <2>2, <2>3, <2>5 DEF Incoming, Collected
  <2> QED
    BY <1>2, <2>1, <2>2, <2>6 DEF UsbInv, Sync
<1> QED
  BY <1>1, <1>2 DEF UsbInv

LEMMA ReadPartInv == ASSUME UsbInv, ReadPart PROVE UsbInv'
<1>1. CASE failed
  BY <1>1 DEF UsbInv, ReadPart
<1>2. CASE ~ failed
  <2>1. /\ UNCHANGED <<driver, at, msg, total, sent, returned, failed, device>>
        /\ at = "read" /\ wire # <<>>
        /\ WantsMore(Left(Head(wire)), Room(Head(wire)))
        /\ reply' = Filled(Head(wire))
        /\ wire' = Tail(wire)
    BY DEF ReadPart
  <2>2. Incoming /\ msg \in Nat /\ driver \in {"ledger", "trezor"}
    BY <1>2, <2>1 DEF UsbInv, Sync, Outgoing
  <2>3. PICK length \in Nat : /\ driver = "ledger" => length >= 2
                              /\ Awaited(wire, reply.len, length)
                              /\ Collected(length)
    BY <2>2 DEF Incoming
  <2>4. reply.len \in Nat
    BY <2>3 DEF Collected, NoBuffer
  <2>5. Len(wire) > 1
    BY <2>1, <2>2, <2>3, ReadHead
  <2>6. /\ Awaited(wire', wire[1].to, length)
        /\ wire[1].to \in 1..(length - 1)
    BY <2>1, <2>2, <2>3, <2>4, <2>5, AwaitedRest
  <2>7. /\ reply' \in UsbBuffers /\ reply'.cap = length
        /\ reply'.len = wire[1].to
        /\ Whole(reply'.parts, msg, reply'.len)
    BY <2>1, <2>2, <2>3, <2>5, ReadHead
  <2>8. Collected(length)'
    BY <2>1, <2>6, <2>7 DEF Collected
  <2>9. Awaited(wire, reply.len, length)'
    BY <2>1, <2>6, <2>7 DEF Awaited, AwaitedFrame, Rooms
  <2>10. Incoming'
    BY <2>1, <2>2, <2>3, <2>8, <2>9 DEF Incoming
  <2> QED
    BY <1>2, <2>1, <2>10 DEF UsbInv, Sync
<1> QED
  BY <1>1, <1>2 DEF UsbInv

(* The last frame is taken whole and leaves none behind. *)
LEMMA ReadLastInv == ASSUME UsbInv, ReadLast PROVE UsbInv'
<1> DEFINE f == Head(wire)
           buffer == Filled(f)
<1>1. CASE failed
  BY <1>1 DEF UsbInv, ReadLast
<1>2. CASE ~ failed
  <2>1. /\ at = "read" /\ wire # <<>> /\ ~ WantsMore(Left(f), Room(f))
        /\ wire' = Tail(wire) /\ UNCHANGED <<driver, failed, device>>
    BY DEF ReadLast
  <2>2. Incoming /\ msg \in Nat /\ driver \in {"ledger", "trezor"}
    BY <1>2, <2>1 DEF UsbInv, Sync, Outgoing
  <2>3. PICK length \in Nat : /\ driver = "ledger" => length >= 2
                              /\ Awaited(wire, reply.len, length)
                              /\ Collected(length)
    BY <2>2 DEF Incoming
  <2>4. ~ (Len(wire) > 1)
    BY <2>1, <2>2, <2>3, ReadHead
  <2>5. /\ buffer.cap = length /\ buffer.len = length
        /\ Whole(buffer.parts, msg, length)
    BY <2>2, <2>3, <2>4, ReadHead
  <2>6. wire' = <<>> /\ device' = Nil
    <3>1. wire \in Seq(UsbFrames) /\ Len(wire) >= 1
      BY <2>3 DEF Awaited
    <3>2. Len(wire) \in Nat /\ Len(Tail(wire)) = Len(wire) - 1 /\ Tail(wire) \in Seq(UsbFrames)
      BY <3>1
    <3>3. Len(Tail(wire)) = 0
      BY <2>4, <3>1, <3>2
    <3>4. Tail(wire) = <<>>
      BY <3>2, <3>3, EmptySeq
    <3> QED
      BY <2>1, <2>2, <3>4 DEF Incoming
  <2>7. CASE driver = "ledger" /\ buffer.len < 2
    BY <2>3, <2>5, <2>7
  <2>8. CASE NewMessage
    BY <1>2, <2>1, <2>2, <2>6, <2>8, NewMessageSync DEF UsbInv
  <2>9. CASE /\ returned' = [n |-> msg, kind |-> f.kind, parts |-> buffer.parts]
             /\ reply' = buffer /\ at' = "idle" /\ UNCHANGED <<msg, total, sent>>
    <3> HIDE DEF buffer, f
    <3>1. returned'.n = msg' /\ returned'.parts = buffer.parts
      BY <2>9
    <3>2. Idle'
      BY <2>5, <2>6, <2>9, <3>1 DEF Idle
    <3> QED
      BY <1>2, <2>1, <2>2, <2>9, <3>2 DEF UsbInv, Sync
  <2> QED
    BY <2>7, <2>8, <2>9 DEF ReadLast
<1> QED
  BY <1>1, <1>2 DEF UsbInv

LEMMA StutterUsbInv == UsbInv /\ UNCHANGED usbVars => UsbInv'
BY DEF UsbInv, Sync, Idle, Outgoing, Incoming, Awaited, AwaitedFrame, Collected, Rooms,
       usbVars, host

LEMMA StepUsbInv == UsbInv /\ [UsbNext]_usbVars => UsbInv'
BY StartInv, WriteInv, WrittenInv, BreakOffInv, ReadPartInv, ReadLastInv,
   DeviceRepliesInv, GarbleInv, StutterUsbInv DEF UsbNext, Host, Finished

LEMMA UsbInvariance == UsbSpec => []UsbInv
BY InitUsbInv, StepUsbInv, PTL DEF UsbSpec

(* As long as nothing has failed on a connection, an exchange returns the   *)
(* whole reply to its own message and leaves no frame of it behind, however *)
(* request and reply fall on the frames.                                    *)
THEOREM FramesInStep == UsbSpec => []InStep
<1>1. UsbInv => InStep
  BY DEF UsbInv, Sync, Idle, InStep
<1> QED
  BY <1>1, UsbInvariance, PTL
-----------------------------------------------------------------------------
(* The same connection after a failure, too: nobody waits for ever.         *)

(* The frames of a reply follow each other on the wire, and after the last  *)
(* one a reply starts: what the device has sent is read to the end of a     *)
(* reply, wherever the host began to read.                                  *)
LinkedFrame(frames, k) ==
  LET f == frames[k]
  IN  /\ f.first => f.from = 0
      /\ f.to = f.from + (IF f.first THEN Rooms.first ELSE Rooms.next)
      /\ f.to < f.length =>
           /\ k < Len(frames) /\ ~ frames[k + 1].first
           /\ frames[k + 1].from = f.to /\ frames[k + 1].length = f.length
      /\ f.to >= f.length /\ k < Len(frames) => frames[k + 1].first
Linked(frames) ==
  /\ frames \in Seq(UsbFrames)
  /\ \A k \in 1..Len(frames) : LinkedFrame(frames, k)

(* What is in the host's buffer is continued by the head of the wire.       *)
Continued ==
  \/ reply = NoBuffer
  \/ /\ wire # <<>> /\ reply \in UsbBuffers /\ reply.len > 0
     /\ ~ Head(wire).first
     /\ Head(wire).from = reply.len /\ Head(wire).length = reply.cap

(* The device has what was written of this message, or it has answered.     *)
Asked ==
  \/ device = [n |-> msg, total |-> total, have |-> sent]
  \/ sent = total /\ wire # <<>>

UsbTypes ==
  /\ driver \in {"ledger", "trezor"}
  /\ at \in {"idle", "write", "read", "panicked"}
  /\ msg \in Nat
  /\ device \in [n : Nat, total : Nat, have : Nat]

Requested ==
  at \in {"write", "read"} => total \in Nat /\ total > 0 /\ sent \in 0..total

FlowInv ==
  /\ UsbTypes /\ Requested /\ Linked(wire)
  /\ at = "write" => reply = NoBuffer /\ (sent = 0 \/ Asked)
  /\ at = "read" => sent = total /\ Asked /\ Continued

LEMMA LinkedHead ==
  ASSUME NEW frames, Linked(frames), frames # <<>>
  PROVE  /\ Len(frames) \in Nat /\ Len(frames) >= 1
         /\ Head(frames) = frames[1] /\ frames[1] \in UsbFrames
         /\ LinkedFrame(frames, 1)
<1>1. frames \in Seq(UsbFrames)
  BY DEF Linked
<1>2. Len(frames) \in Nat /\ Len(frames) >= 1 /\ Head(frames) = frames[1]
  BY <1>1
<1> QED
  BY <1>1, <1>2 DEF Linked

(* What is left after the first frame. *)
LEMMA LinkedRest ==
  ASSUME NEW frames, Linked(frames), frames # <<>>
  PROVE  /\ Linked(Tail(frames))
         /\ Len(frames) > 1 => Tail(frames) # <<>> /\ Head(Tail(frames)) = frames[2]
<1>1. frames \in Seq(UsbFrames) /\ Len(frames) \in Nat /\ Len(frames) >= 1
  BY LinkedHead DEF Linked
<1>2. /\ Tail(frames) \in Seq(UsbFrames) /\ Len(Tail(frames)) = Len(frames) - 1
      /\ \A k \in 1..(Len(frames) - 1) : Tail(frames)[k] = frames[k + 1]
  BY <1>1
<1>3. ASSUME NEW k \in 1..(Len(frames) - 1) PROVE LinkedFrame(Tail(frames), k)
  <2>1. k + 1 \in 1..Len(frames) /\ Tail(frames)[k] = frames[k + 1]
    BY <1>1, <1>2
  <2>2. LinkedFrame(frames, k + 1)
    BY <2>1 DEF Linked
  <2>3. k < Len(frames) - 1 => Tail(frames)[k + 1] = frames[(k + 1) + 1]
    BY <1>1, <1>2
  <2>4. k < Len(Tail(frames)) <=> k + 1 < Len(frames)
    BY <1>1, <1>2
  <2> QED
    BY <1>1, <1>2, <2>1, <2>2, <2>3, <2>4 DEF LinkedFrame
<1>4. Linked(Tail(frames))
  BY <1>2, <1>3 DEF Linked
<1>5. Len(frames) > 1 => Tail(frames) # <<>> /\ Head(Tail(frames)) = frames[2]
  <2> SUFFICES ASSUME Len(frames) > 1
               PROVE  Tail(frames) # <<>> /\ Head(Tail(frames)) = frames[2]
    OBVIOUS
  <2>1. Len(Tail(frames)) >= 1 /\ Tail(frames)[1] = frames[2]
    BY <1>1, <1>2
  <2>2. \A s \in Seq(UsbFrames) : Len(s) >= 1 => s # <<>> /\ Head(s) = s[1]
    OBVIOUS
  <2> QED
    BY <1>2, <2>1, <2>2
<1> QED
  BY <1>4, <1>5

LEMMA LinkedGarbled ==
  ASSUME NEW frames, Linked(frames), frames # <<>>
  PROVE  LET garbled == <<[Head(frames) EXCEPT !.good = FALSE]>> \o Tail(frames)
         IN  /\ Linked(garbled) /\ garbled # <<>>
             /\ Head(garbled).first = Head(frames).first
             /\ Head(garbled).from = Head(frames).from
             /\ Head(garbled).length = Head(frames).length
<1> DEFINE bad == [Head(frames) EXCEPT !.good = FALSE]
           garbled == <<bad>> \o Tail(frames)
<1>1. /\ Len(frames) \in Nat /\ Len(frames) >= 1 /\ frames \in Seq(UsbFrames)
      /\ Head(frames) = frames[1] /\ frames[1] \in UsbFrames
  BY LinkedHead DEF Linked
<1>2. /\ bad \in UsbFrames
      /\ bad.length = frames[1].length /\ bad.first = frames[1].first
      /\ bad.from = frames[1].from /\ bad.to = frames[1].to
  BY <1>1 DEF UsbFrames
<1> HIDE DEF bad
<1>3. /\ garbled \in Seq(UsbFrames) /\ Len(garbled) = Len(frames)
      /\ \A k \in 1..Len(frames) : garbled[k] = IF k = 1 THEN bad ELSE frames[k]
  <2>1. <<bad>> \in Seq(UsbFrames) /\ Len(<<bad>>) = 1 /\ <<bad>>[1] = bad
    BY <1>2
  <2>2. /\ Tail(frames) \in Seq(UsbFrames) /\ Len(Tail(frames)) = Len(frames) - 1
        /\ \A k \in 1..(Len(frames) - 1) : Tail(frames)[k] = frames[k + 1]
    BY <1>1
  <2>3. /\ garbled \in Seq(UsbFrames) /\ Len(garbled) = 1 + Len(Tail(frames))
        /\ \A k \in 1..Len(garbled) :
             garbled[k] = IF k <= 1 THEN <<bad>>[k] ELSE Tail(frames)[k - 1]
    BY <2>1, <2>2, ConcatProperties
  <2> QED
    BY <1>1, <2>1, <2>2, <2>3
<1> HIDE DEF garbled
<1>4. \A k \in 1..Len(frames) :
        /\ garbled[k].length = frames[k].length /\ garbled[k].first = frames[k].first
        /\ garbled[k].from = frames[k].from /\ garbled[k].to = frames[k].to
  BY <1>2, <1>3
<1>5. ASSUME NEW k \in 1..Len(frames) PROVE LinkedFrame(garbled, k)
  <2>1. LinkedFrame(frames, k)
    BY DEF Linked
  <2>2. k < Len(frames) => k + 1 \in 1..Len(frames)
    BY <1>1
  <2> QED
    BY <1>3, <1>4, <2>1, <2>2 DEF LinkedFrame
<1>6. Linked(garbled)
  BY <1>3, <1>5 DEF Linked
<1>7. garbled # <<>> /\ Head(garbled) = garbled[1]
  BY <1>1, <1>3
<1>8. /\ Head(garbled).first = Head(frames).first
      /\ Head(garbled).from = Head(frames).from
      /\ Head(garbled).length = Head(frames).length
  BY <1>1, <1>4, <1>7
<1> QED
  BY <1>6, <1>7, <1>8 DEF garbled, bad

(* A reply is linked, and may follow whatever was sent before it. *)
LEMMA LinkedReply ==
  ASSUME driver \in {"ledger", "trezor"}, NEW frames, Linked(frames),
         NEW m \in Nat, NEW kind0 \in KindNames, NEW length \in Nat
  PROVE  LET more == frames \o ReplyFrames(m, kind0, length)
         IN  /\ Linked(more) /\ more # <<>>
             /\ frames # <<>> => Head(more) = Head(frames)
<1> DEFINE answer == ReplyFrames(m, kind0, length)
           more == frames \o answer
<1>1. /\ answer \in Seq(UsbFrames) /\ Len(answer) >= 1
      /\ \A k \in 1..Len(answer) : ReplyFrame(answer, k, m, length)
  BY ReplyShape
<1> HIDE DEF answer
<1>2. frames \in Seq(UsbFrames) /\ Len(frames) \in Nat /\ Len(answer) \in Nat
  BY <1>1 DEF Linked
<1>3. /\ more \in Seq(UsbFrames) /\ Len(more) = Len(frames) + Len(answer)
      /\ \A k \in 1..Len(more) :
           more[k] = IF k <= Len(frames) THEN frames[k] ELSE answer[k - Len(frames)]
  BY <1>1, <1>2, ConcatProperties
<1> HIDE DEF more
<1>4. ASSUME NEW k \in 1..Len(frames) PROVE LinkedFrame(more, k)
  <2>1. LinkedFrame(frames, k) /\ more[k] = frames[k]
    BY <1>1, <1>2, <1>3 DEF Linked
  <2>2. CASE k < Len(frames)
    <3>1. more[k + 1] = frames[k + 1] /\ k < Len(more)
      BY <1>1, <1>2, <1>3, <2>2
    <3> QED
      BY <2>1, <2>2, <3>1 DEF LinkedFrame
  <2>3. CASE k = Len(frames)
    <3>1. more[k + 1] = answer[1] /\ answer[1].first
      <4>1. k + 1 \in 1..Len(more) /\ (k + 1) - Len(frames) = 1 /\ ~ (k + 1 <= Len(frames))
        BY <1>1, <1>2, <1>3, <2>3
      <4>2. ReplyFrame(answer, 1, m, length)
        BY <1>1, <1>2
      <4> QED
        BY <1>3, <4>1, <4>2 DEF ReplyFrame
    <3>2. ~ (frames[k].to < frames[k].length)
      BY <1>2, <2>1, <2>3 DEF LinkedFrame
    <3> QED
      BY <2>1, <3>1, <3>2 DEF LinkedFrame
  <2> QED
    BY <1>2, <2>2, <2>3
<1>5. ASSUME NEW k \in 1..Len(more), k > Len(frames) PROVE LinkedFrame(more, k)
  <2> DEFINE l == k - Len(frames)
  <2>1. l \in 1..Len(answer) /\ more[k] = answer[l]
    BY <1>1, <1>2, <1>3, <1>5
  <2>2. ReplyFrame(answer, l, m, length) /\ answer[l] \in UsbFrames
    BY <1>1, <2>1
  <2>3. l < Len(answer) <=> k < Len(more)
    BY <1>2, <1>3
  <2>4. l < Len(answer) => /\ more[k + 1] = answer[l + 1]
                           /\ ReplyFrame(answer, l + 1, m, length)
    BY <1>1, <1>2, <1>3, <1>5
  <2> HIDE DEF l
  <2>5. l < Len(answer) => /\ ~ answer[l + 1].first
                           /\ answer[l + 1].from = answer[l].to
                           /\ answer[l + 1].length = length
    BY <1>2, <2>1, <2>4 DEF ReplyFrame
  <2>6. /\ answer[l].length = length /\ (answer[l].first => answer[l].from = 0)
        /\ answer[l].to = answer[l].from + (IF answer[l].first THEN Rooms.first ELSE Rooms.next)
        /\ answer[l].to < length <=> l < Len(answer)
        /\ length \in Nat /\ answer[l].to \in Nat
    BY <2>1, <2>2 DEF ReplyFrame, UsbFrames
  <2> QED
    BY <2>1, <2>3, <2>4, <2>5, <2>6 DEF LinkedFrame
<1>6. Linked(more)
  BY <1>2, <1>3, <1>4, <1>5 DEF Linked
<1>7. more # <<>> /\ (frames # <<>> => Head(more) = Head(frames))
  BY <1>1, <1>2, <1>3
<1> QED
  BY <1>6, <1>7 DEF more, answer

(* A part is read where one is expected, and another follows it. *)
LEMMA ReadsOn ==
  ASSUME FlowInv, ReadPart
  PROVE  /\ Head(wire).to < Head(wire).length /\ Head(wire).to > 0
         /\ Filled(Head(wire)) \in UsbBuffers
         /\ Filled(Head(wire)).cap = Head(wire).length
         /\ Filled(Head(wire)).len = Head(wire).to
<1> DEFINE f == Head(wire)
           before == Buffer(f)
           part == [n |-> f.n, from |-> f.from, to |-> f.from + Room(f)]
<1>1. /\ at = "read" /\ wire # <<>> /\ HeaderFits(f) /\ WantsMore(Left(f), Room(f))
      /\ Linked(wire) /\ Continued /\ driver \in {"ledger", "trezor"}
  BY DEF FlowInv, ReadPart, UsbTypes
<1>2. f \in UsbFrames /\ f = wire[1] /\ LinkedFrame(wire, 1)
  BY <1>1, LinkedHead
<1>3. /\ f.first => f.from = 0
      /\ f.to = f.from + (IF f.first THEN Rooms.first ELSE Rooms.next)
      /\ f.n \in Nat /\ f.from \in Nat /\ f.to \in Nat /\ f.length \in Nat
  BY <1>2 DEF LinkedFrame, UsbFrames
<1>4. /\ Rooms.first \in Nat /\ Rooms.first > 0 /\ Rooms.next \in Nat /\ Rooms.next > 0
  BY <1>1, RoomSizes
<1>5. /\ before \in UsbBuffers /\ before.cap = f.length /\ before.len = f.from
      /\ Room(f) = IF f.first THEN Rooms.first ELSE Rooms.next
  <2>1. CASE f.first
    <3>1. Starts(f)
      BY <1>1, <2>1 DEF Starts, Continued, NoBuffer
    <3>2. before = [cap |-> f.length, len |-> 0, parts |-> <<>>]
      BY <3>1 DEF Buffer, NoBuffer
    <3>3. <<>> \in Seq(UsbParts)
      OBVIOUS
    <3>4. Room(f) = Rooms.first
      BY <3>1 DEF Room
    <3> HIDE DEF before, f
    <3> QED
      BY <1>3, <2>1, <3>2, <3>3, <3>4 DEF UsbBuffers
  <2>2. CASE ~ f.first
    <3>1. reply # NoBuffer
      <4> SUFFICES ASSUME reply = NoBuffer PROVE FALSE
        OBVIOUS
      <4>1. driver = "ledger" /\ ~ Starts(f)
        BY <1>1, <2>2 DEF HeaderFits, Starts, NoBuffer
      <4>2. Left(f) = 0 /\ Room(f) = Rooms.next
        BY <4>1 DEF Left, Room, Buffer, NoBuffer
      <4> QED
        BY <1>1, <1>4, <4>2 DEF WantsMore
    <3>2. reply \in UsbBuffers /\ reply.len > 0 /\ f.from = reply.len /\ f.length = reply.cap
      BY <1>1, <3>1 DEF Continued
    <3>3. ~ Starts(f)
      BY <2>2, <3>2 DEF Starts, UsbBuffers
    <3> QED
      BY <2>2, <3>2, <3>3 DEF Buffer, Room
  <2> QED
    BY <2>1, <2>2
<1>6. Left(f) = f.length - f.from /\ Room(f) \in Nat /\ Room(f) > 0 /\ f.to = f.from + Room(f)
  BY <1>3, <1>4, <1>5 DEF Left
<1>7. f.to < f.length /\ f.to > 0
  BY <1>1, <1>3, <1>6 DEF WantsMore
<1>8. Taken(f) = Room(f)
  BY <1>1 DEF Taken
<1>9. part \in UsbParts
  BY <1>3, <1>6 DEF UsbParts
<1>10. Filled(f) = [before EXCEPT !.len = before.len + Room(f),
                                  !.parts = Append(before.parts, part)]
  BY <1>8 DEF Filled
<1> HIDE DEF f, before, part
<1>11. /\ Filled(f) = [cap |-> f.length, len |-> f.to, parts |-> Append(before.parts, part)]
       /\ before.parts \in Seq(UsbParts)
  BY <1>5, <1>6, <1>10 DEF UsbBuffers
<1>12. Append(before.parts, part) \in Seq(UsbParts)
  BY <1>9, <1>11
<1>13. Filled(f) \in UsbBuffers /\ Filled(f).cap = f.length /\ Filled(f).len = f.to
  BY <1>3, <1>11, <1>12 DEF UsbBuffers
<1> QED
  BY <1>7, <1>13 DEF f

-----------------------------------------------------------------------------
LEMMA InitFlow == UsbInit => FlowInv
<1> SUFFICES ASSUME UsbInit PROVE FlowInv
  OBVIOUS
<1>1. <<>> \in Seq(UsbFrames) /\ Len(<<>>) = 0
  OBVIOUS
<1>2. Linked(<<>>)
  BY <1>1 DEF Linked
<1> QED
  BY <1>2 DEF UsbInit, FlowInv, UsbTypes, Requested, Nil

LEMMA NewMessageFlow ==
  ASSUME UsbTypes, driver' = driver, device' = device, NewMessage, Linked(wire)'
  PROVE  FlowInv'
<1>1. /\ msg' \in Nat /\ sent' = 0 /\ reply' = NoBuffer /\ at' = "write"
      /\ total' \in Nat /\ total' > 0
  BY RoomSizes, LengthsAreNat DEF NewMessage, UsbTypes
<1> QED
  BY <1>1 DEF FlowInv, UsbTypes, Requested, NoBuffer

LEMMA StartFlow == ASSUME FlowInv, Start PROVE FlowInv'
<1>1. NewMessage /\ UNCHANGED <<driver, device, wire>>
  BY DEF Start
<1>2. Linked(wire)'
  BY <1>1 DEF FlowInv, Linked, LinkedFrame, Rooms
<1> QED
  BY <1>1, <1>2, NewMessageFlow DEF FlowInv

LEMMA WriteFlow == ASSUME FlowInv, Write PROVE FlowInv'
<1> DEFINE written == IF total - sent > Rooms.out THEN Rooms.out ELSE total - sent
<1>1. /\ total \in Nat /\ total > 0 /\ sent \in 0..total /\ sent < total
      /\ reply = NoBuffer /\ at = "write" /\ msg \in Nat
      /\ sent = 0 \/ device = [n |-> msg, total |-> total, have |-> sent]
  BY DEF FlowInv, Requested, UsbTypes, Asked, Write
<1>2. written \in Nat /\ written > 0 /\ sent + written <= total
  BY <1>1, RoomSizes DEF FlowInv, UsbTypes
<1>3. /\ sent' = sent + written
      /\ device' = IF sent = 0 THEN [n |-> msg, total |-> total, have |-> written]
                   ELSE IF device.n = msg /\ device.have = sent
                     THEN [device EXCEPT !.have = @ + written]
                     ELSE device
      /\ UNCHANGED <<driver, at, msg, total, reply, returned, failed, wire>>
  BY DEF Write
<1> HIDE DEF written
<1>4. device' = [n |-> msg, total |-> total, have |-> sent + written]
  BY <1>1, <1>2, <1>3
<1>5. Linked(wire)'
  BY <1>3 DEF FlowInv, Linked, LinkedFrame, Rooms
<1>6. UsbTypes' /\ Requested' /\ Asked'
  BY <1>1, <1>2, <1>3, <1>4 DEF FlowInv, UsbTypes, Requested, Asked
<1> QED
  BY <1>1, <1>3, <1>5, <1>6 DEF FlowInv, NoBuffer

LEMMA WrittenFlow == ASSUME FlowInv, Written PROVE FlowInv'
<1>1. /\ at = "write" /\ sent = total /\ at' = "read"
      /\ UNCHANGED <<driver, msg, total, sent, reply, returned, failed, device, wire>>
  BY DEF Written
<1>2. Linked(wire)'
  BY <1>1 DEF FlowInv, Linked, LinkedFrame, Rooms
<1>3. total > 0 /\ total \in Nat /\ reply = NoBuffer /\ (sent = 0 \/ Asked)
  BY <1>1 DEF FlowInv, Requested
<1>4. Asked' /\ Continued'
  BY <1>1, <1>3 DEF Asked, Continued, NoBuffer
<1> QED
  BY <1>1, <1>2, <1>4 DEF FlowInv, UsbTypes, Requested

LEMMA BreakOffFlow ==
  ASSUME FlowInv, WriteFails \/ ReadFails \/ ReadBadHeader
  PROVE  FlowInv'
<1>1. /\ at' = "idle"
      /\ UNCHANGED <<driver, msg, total, sent, reply, device>>
      /\ wire' = wire \/ (wire # <<>> /\ wire' = Tail(wire))
  BY DEF WriteFails, ReadFails, ReadBadHeader, BreakOff
<1>2. Linked(wire')
  BY <1>1, LinkedRest DEF FlowInv
<1>3. Linked(wire)'
  BY <1>1, <1>2 DEF Linked, LinkedFrame, Rooms
<1> QED
  BY <1>1, <1>3 DEF FlowInv, UsbTypes, Requested

LEMMA DeviceRepliesFlow == ASSUME FlowInv, DeviceReplies PROVE FlowInv'
<1>1. /\ UNCHANGED <<driver, at, msg, total, sent, reply, returned, failed>>
      /\ device' = Nil /\ device # Nil /\ device.have = device.total
  BY DEF DeviceReplies, host
<1>2. PICK kind0 \in Kinds, l \in RepLengths :
        wire' = wire \o ReplyFrames(device.n, kind0, Rooms.status + l)
  BY DEF DeviceReplies
<1>3. kind0 \in KindNames /\ device.n \in Nat /\ driver \in {"ledger", "trezor"}
  BY <1>2 DEF Kinds, KindNames, FlowInv, UsbTypes
<1>4. Rooms.status + l \in Nat
  BY <1>2, <1>3, LengthsAreNat, RoomSizes
<1>5. /\ Linked(wire') /\ wire' # <<>>
      /\ wire # <<>> => Head(wire') = Head(wire)
  BY <1>2, <1>3, <1>4, LinkedReply DEF FlowInv
<1>6. Linked(wire)'
  BY <1>1, <1>5 DEF Linked, LinkedFrame, Rooms
<1>7. Asked => Asked'
  BY <1>1, <1>5 DEF Asked
<1>8. Continued => Continued'
  BY <1>1, <1>5 DEF Continued, NoBuffer
<1> QED
  BY <1>1, <1>6, <1>7, <1>8 DEF FlowInv, UsbTypes, Requested, Nil, NoBuffer

LEMMA GarbleFlow == ASSUME FlowInv, Garble PROVE FlowInv'
<1>1. /\ UNCHANGED <<driver, at, msg, total, sent, reply, returned, failed, device>>
      /\ wire # <<>>
      /\ wire' = <<[Head(wire) EXCEPT !.good = FALSE]>> \o Tail(wire)
  BY DEF Garble, host
<1>2. /\ Linked(wire') /\ wire' # <<>>
      /\ Head(wire').first = Head(wire).first
      /\ Head(wire').from = Head(wire).from /\ Head(wire').length = Head(wire).length
  BY <1>1, LinkedGarbled DEF FlowInv
<1>3. Linked(wire)'
  BY <1>1, <1>2 DEF Linked, LinkedFrame, Rooms
<1>4. Asked => Asked'
  BY <1>1, <1>2 DEF Asked
<1>5. Continued => Continued'
  BY <1>1, <1>2 DEF Continued, NoBuffer
<1> QED
  BY <1>1, <1>3, <1>4, <1>5 DEF FlowInv, UsbTypes, Requested, NoBuffer

LEMMA ReadPartFlow == ASSUME FlowInv, ReadPart PROVE FlowInv'
<1>1. /\ at = "read" /\ wire # <<>> /\ wire' = Tail(wire)
      /\ reply' = Filled(Head(wire))
      /\ UNCHANGED <<driver, at, msg, total, sent, device>>
  BY DEF ReadPart
<1>2. /\ Head(wire) = wire[1] /\ LinkedFrame(wire, 1) /\ Len(wire) \in Nat
  BY <1>1, LinkedHead DEF FlowInv
<1>3. /\ 1 < Len(wire) /\ ~ wire[2].first
      /\ wire[2].from = Head(wire).to /\ wire[2].length = Head(wire).length
  BY <1>2, ReadsOn DEF LinkedFrame
<1>4. Linked(wire') /\ wire' # <<>> /\ Head(wire') = wire[2]
  BY <1>1, <1>2, <1>3, LinkedRest DEF FlowInv
<1>5. Linked(wire)'
  BY <1>1, <1>4 DEF Linked, LinkedFrame, Rooms
<1>6. Continued'
  <2>1. /\ reply' \in UsbBuffers /\ reply'.len > 0
        /\ reply'.cap = Head(wire).length /\ reply'.len = Head(wire).to
    BY <1>1, ReadsOn
  <2> QED
    BY <1>3, <1>4, <2>1 DEF Continued, UsbBuffers, UsbParts
<1>7. Asked' /\ sent' = total'
  BY <1>1, <1>4 DEF FlowInv, Asked
<1> QED
  BY <1>1, <1>5, <1>6, <1>7 DEF FlowInv, UsbTypes, Requested

LEMMA ReadLastFlow == ASSUME FlowInv, ReadLast PROVE FlowInv'
<1>1. /\ wire # <<>> /\ wire' = Tail(wire) /\ UNCHANGED <<driver, device>>
      /\ NewMessage \/ (at' \in {"idle", "panicked"} /\ UNCHANGED <<msg, total, sent>>)
  BY DEF ReadLast
<1>2. Linked(wire')
  BY <1>1, LinkedRest DEF FlowInv
<1>3. Linked(wire)'
  BY <1>1, <1>2 DEF Linked, LinkedFrame, Rooms
<1>4. CASE NewMessage
  BY <1>1, <1>3, <1>4, NewMessageFlow DEF FlowInv
<1>5. CASE at' \in {"idle", "panicked"} /\ UNCHANGED <<msg, total, sent>>
  BY <1>1, <1>3, <1>5 DEF FlowInv, UsbTypes, Requested
<1> QED
  BY <1>1, <1>4, <1>5

LEMMA StutterFlow == FlowInv /\ UNCHANGED usbVars => FlowInv'
BY DEF FlowInv, UsbTypes, Requested, Asked, Continued, Linked, LinkedFrame, Rooms,
       NoBuffer, usbVars, host

LEMMA FlowAlways == UsbSpec => []FlowInv
<1>1. FlowInv /\ [UsbNext]_usbVars => FlowInv'
  BY StartFlow, WriteFlow, WrittenFlow, BreakOffFlow, DeviceRepliesFlow, GarbleFlow,
     ReadPartFlow, ReadLastFlow, StutterFlow DEF UsbNext, Host, Finished
<1> QED
  BY <1>1, InitFlow, PTL DEF UsbSpec

(* A host that reads has a frame to read, or the device has all of the      *)
(* request and has still to answer it.                                      *)
ReadIsServed ==
  at = "read" => wire # <<>> \/ (device # Nil /\ device.have = device.total)

(* The host never waits for a frame the device will not send, also on a     *)
(* connection where earlier exchanges broke off and left frames behind: the *)
(* length test of the read loop wants more only where the reply goes on.    *)
THEOREM ReadsAreServed == UsbSpec => []ReadIsServed
<1>1. FlowInv => ReadIsServed
  BY DEF FlowInv, Requested, Asked, ReadIsServed, Nil
<1> QED
  BY <1>1, FlowAlways, PTL
=============================================================================
