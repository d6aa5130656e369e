------------------------- MODULE TrezorSignerProofs --------------------------
(***************************************************************************)
(* Proofs about signing with a Trezor, for any calls, any chain IDs and    *)
(* any length of the data.                                                 *)
(***************************************************************************)
EXTENDS TrezorSigner, SequenceTheorems, TLAPS

Kinds == {"none", "Features", "PinMatrixRequest", "PassphraseRequest", "Success",
          "Address", "TxRequest", "Failure", "signed", "rejected"}

Data == Seq(Calls \X (1..Units))
Replies == [kind : Kinds, asks : 0..Units, over : Data, chain : Nat, V : Nat]

-----------------------------------------------------------------------------
(* The data of a call, as it is sent.                                      *)
LEMMA OwnData ==
  ASSUME NEW c \in Calls, NEW n \in 0..Units
  PROVE  Own(c, 1, n) \in Data /\ Len(Own(c, 1, n)) = n
<1>1. Own(c, 1, n) = [i \in 1..n |-> <<c, i>>]
  BY UnitsPositive DEF Own
<1>2. \A i \in 1..n : <<c, i>> \in Calls \X (1..Units)
  BY UnitsPositive
<1> QED
  BY <1>1, <1>2, UnitsPositive DEF Data

LEMMA OwnNext ==
  ASSUME NEW c \in Calls, NEW s \in 0..Units, NEW t \in s..Units
  PROVE  /\ Own(c, 1, s) \o Own(c, s + 1, t) = Own(c, 1, t)
         /\ Own(c, s + 1, t) \in Data
<1>1. /\ s \in Nat /\ t \in Nat /\ s <= t /\ t <= Units /\ Units \in Nat
      /\ t - s \in Nat /\ t - (s + 1) + 1 = t - s
  BY UnitsPositive
<1>2. Own(c, s + 1, t) = [i \in 1..(t - s) |-> <<c, s + 1 + i - 1>>]
  BY <1>1 DEF Own
<1>3. \A i \in 1..(t - s) : <<c, s + 1 + i - 1>> \in Calls \X (1..Units)
  BY <1>1
<1>4. Own(c, s + 1, t) \in Data /\ Len(Own(c, s + 1, t)) = t - s
  <2>1. PICK n \in Nat : n = t - s
    BY <1>1
  <2>2. Own(c, s + 1, t) \in [1..n -> Calls \X (1..Units)]
    BY <1>2, <1>3, <2>1
  <2>3. \A f \in [1..n -> Calls \X (1..Units)] : f \in Data /\ Len(f) = n
    BY DEF Data
  <2> QED
    BY <2>1, <2>2, <2>3
<1>5. Own(c, 1, s) \in Data /\ Len(Own(c, 1, s)) = s
  BY OwnData
<1>6. Own(c, 1, t) \in Data /\ Len(Own(c, 1, t)) = t
  BY <1>1, OwnData
<1>7. /\ Own(c, 1, s) \o Own(c, s + 1, t) \in Data
      /\ Len(Own(c, 1, s) \o Own(c, s + 1, t)) = t
      /\ \A i \in 1..t : (Own(c, 1, s) \o Own(c, s + 1, t))[i] =
           IF i <= s THEN Own(c, 1, s)[i] ELSE Own(c, s + 1, t)[i - s]
  BY <1>1, <1>4, <1>5, ConcatProperties DEF Data
<1>8. \A i \in 1..t : (Own(c, 1, s) \o Own(c, s + 1, t))[i] = Own(c, 1, t)[i]
  BY <1>1, <1>2, <1>7 DEF Own
<1> QED
  BY <1>4, <1>6, <1>7, <1>8, SeqEqual DEF Data

LEMMA ParityFits ==
  ASSUME chain \in Nat, NEW p \in {0, 1}
  PROVE  Parity(2 * DeviceChain + 35 + p) \in {0, 1}
<1>1. PICK k \in Nat : Word = 128 * k
  BY WordIsWhole, ChainsArePositive
<1>2. PICK q \in Int : chain = Word * q + DeviceChain
  <2>1. chain = Word * (chain \div Word) + DeviceChain /\ chain \div Word \in Int
    BY ChainsArePositive DEF DeviceChain
  <2> QED
    BY <2>1
<1>3. DeviceChain \in Nat
  BY ChainsArePositive DEF DeviceChain
<1>4. PICK z \in Int : z = k * q
  OBVIOUS
<1>5. chain = 128 * z + DeviceChain
  BY <1>1, <1>2, <1>3, <1>4
<1> QED
  BY <1>3, <1>5 DEF Parity

-----------------------------------------------------------------------------
(* The index Exchange returns is that of the first result that matches.     *)
LEMMA FirstHit ==
  ASSUME NEW S \in SUBSET (1..6), S # {}
  PROVE  \E i \in S : \A j \in S : i <= j
<1>1. CASE 1 \in S
  BY <1>1
<1>2. CASE 1 \notin S /\ 2 \in S
  BY <1>2
<1>3. CASE 1 \notin S /\ 2 \notin S /\ 3 \in S
  BY <1>3
<1>4. CASE 1 \notin S /\ 2 \notin S /\ 3 \notin S /\ 4 \in S
  BY <1>4
<1>5. CASE 1 \notin S /\ 2 \notin S /\ 3 \notin S /\ 4 \notin S
  <2>1. \A j \in S : j = 5 \/ j = 6
    BY <1>5
  <2>2. CASE 5 \in S
    BY <2>1, <2>2
  <2>3. CASE 5 \notin S
    <3>1. \A j \in S : j = 6
      BY <2>1, <2>3
    <3>2. 6 \in S
      BY <3>1
    <3>3. \A j \in S : 6 <= j
      BY <3>1
    <3> QED
      BY <3>2, <3>3
  <2> QED
    BY <2>2, <2>3
<1> QED
  BY <1>1, <1>2, <1>3, <1>4, <1>5

(* A list with the PIN request behind it, and with UnlockByPin's results.   *)
LEMMA Tables ==
  ASSUME NEW w \in Seq(Kinds)
  PROVE  LET E == Append(w, "PinMatrixRequest")
             F == E \o PinResults
         IN  /\ Len(E) = Len(w) + 1 /\ E[Len(w) + 1] = "PinMatrixRequest"
             /\ \A i \in 1..Len(w) : E[i] = w[i]
             /\ Len(F) = Len(w) + 3 /\ F[Len(w) + 1] = "PinMatrixRequest"
             /\ F[Len(w) + 2] = "Success" /\ F[Len(w) + 3] = "PassphraseRequest"
             /\ \A i \in 1..Len(w) : F[i] = w[i]
             /\ E \in Seq(Kinds) /\ F \in Seq(Kinds)
<1> DEFINE E == Append(w, "PinMatrixRequest")
           F == E \o PinResults
<1>1. /\ "PinMatrixRequest" \in Kinds /\ PinResults \in Seq(Kinds) /\ Len(PinResults) = 2
      /\ PinResults[1] = "Success" /\ PinResults[2] = "PassphraseRequest"
  BY DEF Kinds, PinResults
<1>2. /\ E \in Seq(Kinds) /\ Len(E) = Len(w) + 1
      /\ \A i \in 1..(Len(w) + 1) : E[i] = IF i <= Len(w) THEN w[i] ELSE "PinMatrixRequest"
  BY <1>1
<1>3. /\ F \in Seq(Kinds) /\ Len(F) = Len(E) + 2
      /\ \A i \in 1..(Len(E) + 2) : F[i] = IF i <= Len(E) THEN E[i] ELSE PinResults[i - Len(E)]
  <2>1. /\ F \in Seq(Kinds) /\ Len(F) = Len(E) + Len(PinResults)
        /\ \A i \in 1..(Len(E) + Len(PinResults)) :
             F[i] = IF i <= Len(E) THEN E[i] ELSE PinResults[i - Len(E)]
    <3> HIDE DEF E
    <3> QED
      BY <1>1, <1>2, ConcatProperties
  <2> QED
    BY <1>1, <2>1
<1>4. Len(w) \in Nat
  OBVIOUS
<1> HIDE DEF E, F
<1>5. /\ Len(E) = Len(w) + 1 /\ E[Len(w) + 1] = "PinMatrixRequest"
      /\ \A i \in 1..Len(w) : E[i] = w[i]
  BY <1>2, <1>4
<1>6. /\ Len(F) = Len(w) + 3 /\ F[Len(w) + 1] = E[Len(w) + 1]
      /\ F[Len(w) + 2] = PinResults[1] /\ F[Len(w) + 3] = PinResults[2]
      /\ \A i \in 1..Len(w) : F[i] = E[i]
  BY <1>3, <1>4, <1>5
<1> QED
  BY <1>1, <1>2, <1>3, <1>5, <1>6 DEF E, F

LEMMA WantedKinds ==
  /\ Wanted["initialize"] \in Seq(Kinds) /\ Len(Wanted["initialize"]) = 1
  /\ Wanted["derive"] \in Seq(Kinds) /\ Len(Wanted["derive"]) = 1
  /\ Wanted["sign"] \in Seq(Kinds) /\ Len(Wanted["sign"]) = 1
  /\ Wanted["sign"][1] = "TxRequest"
  /\ Wanted["chunk"] \in Seq(Kinds) /\ Len(Wanted["chunk"]) = 1
  /\ Wanted["chunk"][1] = "TxRequest"
  /\ Wanted["ping"] \in Seq(Kinds) /\ Len(Wanted["ping"]) = 3
  /\ Wanted["ping"][1] = "PinMatrixRequest" /\ Wanted["ping"][3] = "Success"
BY DEF Wanted, Kinds

(* Which reply has which index.                                             *)
LEMMA Indices ==
  ASSUME NEW c \in Calls, NEW k, Exchanging(c),
         request[c] \in {"initialize", "ping", "derive", "sign", "chunk"},
         NEW i, i = Index(c, k), NEW last, last = Len(Results(c))
  PROVE  /\ i \in 0..last /\ last \in 2..6
         /\ pc[c] = "unlock" /\ i = 1 => k = "Success"
         /\ pc[c] # "unlock" /\ request[c] = "ping" /\ i \notin {0, 1, 2, last} =>
              k = "Success"
         /\ pc[c] # "unlock" /\ request[c] \in {"sign", "chunk"} /\ i = 1 =>
              k = "TxRequest"
         /\ pc[c] = "request" /\ request[c] \in {"sign", "chunk"} /\ i \notin {0, last} =>
              i = 1
         /\ pc[c] = "request" /\ i = last => k = "PinMatrixRequest"
<1> DEFINE w == Wanted[request[c]]
           E == Append(w, "PinMatrixRequest")
           hits == {j \in DOMAIN Results(c) : Results(c)[j] = k}
<1>1. w \in Seq(Kinds)
  BY WantedKinds
<1>0. Len(w) = 1 \/ Len(w) = 3
  BY WantedKinds
<1>2. /\ pc[c] = "request" => Results(c) = E
      /\ pc[c] = "pin" => Results(c) = E \o PinResults
      /\ pc[c] = "unlock" => Results(c) = PinResults
  BY DEF Results, Expected
<1>3. PinResults \in Seq(Kinds) /\ Len(PinResults) = 2 /\ PinResults[1] = "Success"
  BY DEF PinResults, Kinds
<1> HIDE DEF w, E
<1>4. /\ E \in Seq(Kinds) /\ Len(E) = Len(w) + 1 /\ E[Len(w) + 1] = "PinMatrixRequest"
      /\ \A j \in 1..Len(w) : E[j] = w[j]
      /\ E \o PinResults \in Seq(Kinds) /\ Len(E \o PinResults) = Len(w) + 3
      /\ (E \o PinResults)[Len(w) + 1] = "PinMatrixRequest"
      /\ (E \o PinResults)[Len(w) + 2] = "Success"
      /\ \A j \in 1..Len(w) : (E \o PinResults)[j] = w[j]
  BY <1>1, Tables DEF E
<1>5. Results(c) \in Seq(Kinds) /\ last \in 2..6
  <2>1. CASE pc[c] = "request"
    <3>1. Results(c) = E /\ last = Len(w) + 1
      BY <1>2, <1>4, <2>1
    <3>2. last = 2 \/ last = 4
      <4>1. last = Len(w) + 1
        BY <3>1
      <4>2. CASE Len(w) = 1
        BY <4>1, <4>2
      <4>3. CASE Len(w) = 3
        BY <4>1, <4>3
      <4> QED
        BY <1>0, <4>2, <4>3
    <3> QED
      BY <1>4, <3>1, <3>2
  <2>2. CASE pc[c] = "pin"
    <3>1. Results(c) = E \o PinResults /\ last = Len(w) + 3
      BY <1>2, <1>4, <2>2
    <3>2. last = 4 \/ last = 6
      <4>1. last = Len(w) + 3
        BY <3>1
      <4>2. CASE Len(w) = 1
        BY <4>1, <4>2
      <4>3. CASE Len(w) = 3
        BY <4>1, <4>3
      <4> QED
        BY <1>0, <4>2, <4>3
    <3> QED
      BY <1>4, <3>1, <3>2
  <2>3. CASE pc[c] = "unlock"
    <3>1. Results(c) = PinResults /\ last = 2
      BY <1>2, <1>3, <2>3
    <3> QED
      BY <1>3, <3>1
  <2> QED
    BY <2>1, <2>2, <2>3 DEF Exchanging
<1>6. DOMAIN Results(c) = 1..last
  BY <1>5
<1>7. i = IF hits = {} THEN 0 ELSE CHOOSE j \in hits : \A l \in hits : j <= l
  BY DEF Index
<1>8. i # 0 => i \in 1..last /\ Results(c)[i] = k
               /\ \A j \in 1..last : Results(c)[j] = k => i <= j
  <2>1. CASE hits # {}
    <3>1. hits \in SUBSET (1..6)
      BY <1>5, <1>6
    <3>2. \E j \in hits : \A l \in hits : j <= l
      BY <2>1, <3>1, FirstHit
    <3>3. i \in hits /\ \A l \in hits : i <= l
      BY <1>7, <2>1, <3>2
    <3> QED
      BY <1>6, <3>3
  <2> QED
    BY <1>7, <2>1
<1> HIDE DEF hits
<1>9. i \in 0..last
  BY <1>5, <1>8
<1>10. CASE pc[c] = "unlock"
  BY <1>2, <1>3, <1>5, <1>8, <1>9, <1>10
<1>11. CASE pc[c] = "request"
  <2>1. last = Len(w) + 1 /\ Results(c)[last] = "PinMatrixRequest"
        /\ \A j \in 1..Len(w) : Results(c)[j] = w[j]
    BY <1>1, <1>2, <1>4, <1>11
  <2>2. request[c] = "ping" => Len(w) = 3 /\ w[3] = "Success"
    BY WantedKinds DEF w
  <2>3. request[c] \in {"sign", "chunk"} => Len(w) = 1 /\ w[1] = "TxRequest"
    BY WantedKinds DEF w
  <2> QED
    BY <1>1, <1>5, <1>8, <1>9, <1>11, <2>1, <2>2, <2>3
<1>12. CASE pc[c] = "pin"
  <2>1. /\ last = Len(w) + 3 /\ Results(c)[Len(w) + 1] = "PinMatrixRequest"
        /\ Results(c)[Len(w) + 2] = "Success"
        /\ \A j \in 1..Len(w) : Results(c)[j] = w[j]
    BY <1>1, <1>2, <1>4, <1>12
  <2>2. request[c] = "ping" => Len(w) = 3 /\ w[3] = "Success" /\ w[1] = "PinMatrixRequest"
    BY WantedKinds DEF w
  <2>3. request[c] \in {"sign", "chunk"} => Len(w) = 1 /\ w[1] = "TxRequest"
    BY WantedKinds DEF w
  <2>4. ASSUME request[c] = "ping", i \notin {0, 1, 2, last} PROVE k = "Success"
    <3>1. last = 6 /\ Results(c)[1] = "PinMatrixRequest" /\ Results(c)[3] = "Success"
          /\ Results(c)[4] = "PinMatrixRequest" /\ Results(c)[5] = "Success"
      <4>1. 3 + 3 = 6 /\ 3 + 1 = 4 /\ 3 + 2 = 5 /\ 1 \in 1..3 /\ 3 \in 1..3
        OBVIOUS
      <4>2. Len(w) = 3 /\ Results(c)[1] = w[1] /\ Results(c)[3] = w[3]
        BY <2>1, <2>2, <2>4, <4>1
      <4> QED
        BY <2>1, <2>2, <2>4, <4>1, <4>2
    <3>2. i \in {3, 4, 5} /\ Results(c)[i] = k
      BY <1>8, <1>9, <2>4, <3>1
    <3>3. i # 4
      BY <1>8, <3>1, <3>2
    <3> QED
      BY <3>1, <3>2, <3>3
  <2>5. ASSUME request[c] \in {"sign", "chunk"}, i = 1 PROVE k = "TxRequest"
    BY <1>8, <2>1, <2>3, <2>5
  <2> QED
    BY <1>5, <1>9, <1>12, <2>4, <2>5
<1> QED
  BY <1>5, <1>9, <1>10, <1>11, <1>12 DEF Exchanging

-----------------------------------------------------------------------------
(* The device.  A reply about a transaction asks for more of the data that  *)
(* the device has, or is the signature over all of it.                      *)
OfData(r, data) ==
  \/ r.V = 0 /\ r.asks \in 1..(Units - Len(data))
  \/ /\ r.asks = 0 /\ r.over = data /\ Len(data) = Units /\ r.chain = DeviceChain
     /\ \E p \in {0, 1} : r.V = 2 * DeviceChain + 35 + p

LEMMA Plain ==
  ASSUME NEW k \in Kinds
  PROVE  Reply(k) \in Replies /\ Reply(k).kind = k /\ Reply(k).asks = 0 /\ Reply(k).V = 0
BY UnitsPositive DEF Reply, Replies, Data

LEMMA ChainFits == ASSUME chain \in Nat PROVE DeviceChain \in Nat
BY ChainsArePositive DEF DeviceChain

LEMMA SignOrAskAnswers ==
  ASSUME chain \in Nat, NEW data \in Data, SignOrAsk(data)
  PROVE  /\ \E r \in Replies : /\ inbox' = Append(inbox, r)
                               /\ r.kind \in {"TxRequest", "Failure"}
                               /\ r.kind = "TxRequest" => OfData(r, data)
         /\ onDevice' = data \/ onDevice' = <<>>
<1>1. Len(data) \in Nat
  BY DEF Data
<1>2. ASSUME NEW p \in {0, 1}, Len(data) = Units, onDevice' = <<>>,
             Answer([kind |-> "TxRequest", asks |-> 0, over |-> data,
                     chain |-> DeviceChain, V |-> 2 * DeviceChain + 35 + p])
      PROVE  \E r \in Replies : /\ inbox' = Append(inbox, r)
                                /\ r.kind \in {"TxRequest", "Failure"}
                                /\ r.kind = "TxRequest" => OfData(r, data)
  <2> DEFINE r == [kind |-> "TxRequest", asks |-> 0, over |-> data,
                   chain |-> DeviceChain, V |-> 2 * DeviceChain + 35 + p]
  <2>1. r \in Replies
    BY ChainFits, UnitsPositive DEF Replies, Kinds
  <2>2. OfData(r, data)
    BY <1>2 DEF OfData
  <2> QED
    BY <1>2, <2>1, <2>2 DEF Answer
<1>3. ASSUME Answer(Reply("Failure"))
      PROVE  \E r \in Replies : inbox' = Append(inbox, r) /\ r.kind = "Failure"
  BY <1>3, Plain DEF Answer, Kinds
<1>4. ASSUME NEW n \in 1..(Units - Len(data)),
             Answer([Reply("TxRequest") EXCEPT !.asks = n])
      PROVE  \E r \in Replies : inbox' = Append(inbox, r) /\ r.kind = "TxRequest" /\ OfData(r, data)
  <2> DEFINE r == [Reply("TxRequest") EXCEPT !.asks = n]
  <2>1. n \in 0..Units
    BY <1>1, UnitsPositive
  <2>2. r = [kind |-> "TxRequest", asks |-> n, over |-> <<>>, chain |-> 0, V |-> 0]
    BY DEF Reply
  <2>3. r \in Replies /\ r.kind = "TxRequest"
    <3>1. <<>> \in Data /\ "TxRequest" \in Kinds /\ 0 \in Nat
      BY DEF Data, Kinds
    <3> HIDE DEF r
    <3> QED
      BY <2>1, <2>2, <3>1 DEF Replies
  <2>4. OfData(r, data)
    BY <2>2 DEF OfData
  <2> QED
    BY <1>4, <2>3, <2>4 DEF Answer
<1> QED
  BY <1>2, <1>3, <1>4 DEF SignOrAsk

(* What a message does: a reply, which is a Success only of a granted Ping. *)
Replied(r) ==
  /\ r \in Replies
  /\ inbox' = Append(inbox, r)
  /\ r.kind = "Success" => granted'

LEMMA ProceedAnswers ==
  ASSUME chain \in Nat, granted \in BOOLEAN, NEW data \in Data, NEW q, Proceed(q, data)
  PROVE  /\ \E r : Replied(r) /\ (r.kind = "TxRequest" => q = "sign" /\ OfData(r, data))
         /\ onDevice' = data \/ onDevice' = <<>>
         /\ dialogue' \in {"none", "passphrase"}
         /\ granted' \in BOOLEAN
<1>1. CASE passphrase
  <2>1. Answer(Reply("PassphraseRequest")) /\ onDevice' = data /\ dialogue' = "passphrase"
        /\ granted' = granted
    BY <1>1 DEF Proceed
  <2>2. Replied(Reply("PassphraseRequest"))
    BY <2>1, Plain DEF Answer, Replied, Kinds
  <2>3. Reply("PassphraseRequest").kind # "TxRequest"
    BY Plain DEF Kinds
  <2> QED
    BY <2>1, <2>2, <2>3
<1>2. CASE ~ passphrase /\ q = "sign"
  <2>1. SignOrAsk(data) /\ dialogue' = "none" /\ granted' \in BOOLEAN
    BY <1>2 DEF Proceed
  <2>2. PICK r \in Replies : /\ inbox' = Append(inbox, r)
                             /\ r.kind \in {"TxRequest", "Failure"}
                             /\ r.kind = "TxRequest" => OfData(r, data)
    BY <2>1, SignOrAskAnswers
  <2>3. Replied(r)
    BY <2>2 DEF Replied
  <2> QED
    BY <1>2, <2>1, <2>2, <2>3, SignOrAskAnswers
<1>3. CASE ~ passphrase /\ q # "sign"
  <2> DEFINE r == Reply(IF q = "ping" THEN "Success" ELSE "Address")
  <2>1. Answer(r) /\ onDevice' = data /\ dialogue' = "none" /\ granted' = (granted \/ q = "ping")
    BY <1>3 DEF Proceed
  <2>2. r \in Replies /\ r.kind = IF q = "ping" THEN "Success" ELSE "Address"
    BY Plain DEF Kinds
  <2>3. Replied(r) /\ r.kind # "TxRequest"
    BY <2>1, <2>2 DEF Replied, Answer
  <2> QED
    BY <2>1, <2>3
<1> QED
  BY <1>1, <1>2, <1>3

DeviceTypes ==
  /\ chain \in Nat /\ granted \in BOOLEAN /\ locked \in BOOLEAN
  /\ dialogue \in {"none", "pin", "passphrase"}
  /\ pending \in {"ping", "derive", "sign"}
  /\ onDevice \in Data

LEMMA RefuseAnswers ==
  ASSUME Refuse
  PROVE  /\ \E r : Replied(r) /\ r.kind = "Failure"
         /\ dialogue' = "none" /\ onDevice' = <<>>
BY Plain DEF Refuse, Answer, Replied, Kinds

LEMMA RequestedAnswers ==
  ASSUME DeviceTypes, NEW data \in Data, NEW q \in {"ping", "derive", "sign"},
         Requested(q, data), UNCHANGED chain
  PROVE  /\ \E r : Replied(r) /\ (r.kind = "TxRequest" => q = "sign" /\ OfData(r, data))
         /\ onDevice' = data \/ onDevice' = <<>>
         /\ dialogue' = "pin" => pending' = q /\ onDevice' = data
         /\ DeviceTypes'
<1>0. <<>> \in Data
  BY DEF Data
<1>1. CASE Refuse /\ UNCHANGED <<locked, pending, granted>>
  BY <1>0, <1>1, RefuseAnswers DEF DeviceTypes
<1>2. CASE /\ Answer(Reply("PinMatrixRequest"))
           /\ dialogue' = "pin" /\ pending' = q /\ onDevice' = data
           /\ UNCHANGED <<locked, granted>>
  <2>1. Replied(Reply("PinMatrixRequest")) /\ Reply("PinMatrixRequest").kind # "TxRequest"
    BY <1>2, Plain DEF Answer, Replied, Kinds
  <2> QED
    BY <1>2, <2>1 DEF DeviceTypes
<1>3. CASE Proceed(q, data) /\ UNCHANGED <<locked, pending>>
  <2>1. /\ \E r : Replied(r) /\ (r.kind = "TxRequest" => q = "sign" /\ OfData(r, data))
        /\ onDevice' = data \/ onDevice' = <<>>
        /\ dialogue' \in {"none", "passphrase"} /\ granted' \in BOOLEAN
    BY <1>3, ProceedAnswers DEF DeviceTypes
  <2> QED
    BY <1>0, <1>3, <2>1 DEF DeviceTypes
<1> QED
  BY <1>1, <1>2, <1>3 DEF Requested

LEMMA MoreDataAnswers ==
  ASSUME DeviceTypes, NEW data \in Data, MoreData(data), UNCHANGED chain
  PROVE  /\ \E r : /\ Replied(r) /\ r.kind \in {"TxRequest", "Failure"}
                   /\ r.kind = "TxRequest" =>
                        onDevice # <<>> /\ OfData(r, onDevice \o data)
         /\ onDevice' = onDevice \o data \/ onDevice' = <<>>
         /\ dialogue' = "none"
         /\ DeviceTypes'
<1>0. <<>> \in Data /\ onDevice \o data \in Data
  BY DEF Data, DeviceTypes
<1>1. CASE dialogue = "none" /\ onDevice # <<>>
  <2>1. SignOrAsk(onDevice \o data) /\ UNCHANGED <<dialogue, locked, pending, granted>>
    BY <1>1 DEF MoreData
  <2>2. PICK r \in Replies : /\ inbox' = Append(inbox, r)
                             /\ r.kind \in {"TxRequest", "Failure"}
                             /\ r.kind = "TxRequest" => OfData(r, onDevice \o data)
    BY <1>0, <2>1, SignOrAskAnswers DEF DeviceTypes
  <2>3. onDevice' = onDevice \o data \/ onDevice' = <<>>
    BY <1>0, <2>1, SignOrAskAnswers DEF DeviceTypes
  <2>4. Replied(r)
    BY <2>2 DEF Replied
  <2> QED
    BY <1>0, <1>1, <2>1, <2>2, <2>3, <2>4 DEF DeviceTypes
<1>2. CASE ~ (dialogue = "none" /\ onDevice # <<>>)
  <2>1. Refuse /\ UNCHANGED <<locked, pending, granted>>
    BY <1>2 DEF MoreData
  <2>2. PICK r : Replied(r) /\ r.kind = "Failure"
    BY <2>1, RefuseAnswers
  <2> QED
    BY <1>0, <2>1, <2>2, RefuseAnswers DEF DeviceTypes
<1> QED
  BY <1>1, <1>2

LEMMA PinEnteredAnswers ==
  ASSUME DeviceTypes, NEW right \in BOOLEAN, PinEntered(right), UNCHANGED chain
  PROVE  /\ \E r : /\ Replied(r)
                   /\ r.kind = "TxRequest" =>
                        dialogue = "pin" /\ pending = "sign" /\ OfData(r, onDevice)
         /\ onDevice' = onDevice \/ onDevice' = <<>>
         /\ dialogue' = "pin" => dialogue = "pin" /\ pending' = pending /\ onDevice' = onDevice
         /\ DeviceTypes'
<1>0. <<>> \in Data
  BY DEF Data
<1>1. CASE dialogue = "pin" /\ locked' = FALSE /\ Proceed(pending, onDevice) /\ UNCHANGED pending
  <2>1. /\ \E r : /\ Replied(r)
                  /\ r.kind = "TxRequest" => pending = "sign" /\ OfData(r, onDevice)
        /\ onDevice' = onDevice \/ onDevice' = <<>>
        /\ dialogue' \in {"none", "passphrase"} /\ granted' \in BOOLEAN
    BY <1>1, ProceedAnswers DEF DeviceTypes
  <2> QED
    BY <1>0, <1>1, <2>1 DEF DeviceTypes
<1>2. CASE Refuse /\ UNCHANGED <<locked, pending, granted>>
  <2>1. PICK r : Replied(r) /\ r.kind = "Failure"
    BY <1>2, RefuseAnswers
  <2> QED
    BY <1>0, <1>2, <2>1, RefuseAnswers DEF DeviceTypes
<1>3. CASE /\ Answer(Reply("PinMatrixRequest"))
           /\ UNCHANGED <<dialogue, locked, pending, onDevice, granted>>
  <2>1. Replied(Reply("PinMatrixRequest")) /\ Reply("PinMatrixRequest").kind # "TxRequest"
    BY <1>3, Plain DEF Answer, Replied, Kinds
  <2> QED
    BY <1>3, <2>1 DEF DeviceTypes
<1> QED
  BY <1>1, <1>2, <1>3 DEF PinEntered

-----------------------------------------------------------------------------
(* The invariant.  Types, of what TypeOK does not mention too; a chunk is   *)
(* never longer than what is left.                                          *)
Types ==
  /\ TypeOK
  /\ chain \in Nat
  /\ inbox \in Seq(Replies) /\ onDevice \in Data
  /\ response \in [Calls -> Replies] /\ result \in [Calls -> Replies]
  /\ \A c \in Calls :
       pc[c] = "request" /\ request[c] = "chunk" /\ ~ awaiting[c] =>
         sent[c] + response[c].asks <= Units

(* One call at a time is past the mutex, or in the Bridge.                  *)
Inside(c) == pc[c] \in {"open", "request", "pin", "unlock"}
MutexOK ==
  \A c \in Calls :
    /\ pc[c] = "mu" => entry = "TrezorSigner"
    /\ Inside(c) /\ entry = "TrezorSigner" => mu = c
    /\ \A d \in Calls : entry = "Bridge" /\ Active(c) /\ Active(d) => c = d

(* A call that opens the device does it for the first time, or is the       *)
(* Bridge's Unlock.                                                         *)
Opening(c) ==
  pc[c] = "open" \/ (Exchanging(c) /\ request[c] \in {"initialize", "ping"})
OpeningOK ==
  /\ deviceUnlocked => entry = "TrezorSigner" /\ handle # "nil"
  /\ \A c \in Calls :
       /\ entry = "TrezorSigner" => kind[c] = "Sign"
       /\ pc[c] = "unlock" => request[c] = "ping"
       /\ Opening(c) => ~ deviceUnlocked /\ (entry = "Bridge" => kind[c] = "Unlock")

(* Sign's own PIN dialogue is about Sign's first message.                   *)
SignOK ==
  \A c \in Calls : Exchanging(c) /\ request[c] = "sign" =>
    /\ response[c] = Reply("TxRequest")
    /\ awaiting[c] \/ pc[c] = "pin" =>
         sent[c] = 1 /\ (dialogue = "pin" /\ pending = "sign" => onDevice = Own(c, 1, 1))

(* While replies arrive: the device has what the call has sent, or nothing. *)
Streamed(c) ==
  sent[c] >= 1 /\ (onDevice = <<>> \/ onDevice = Own(c, 1, sent[c]))
ChunkOK ==
  \A c \in Calls : Exchanging(c) /\ request[c] = "chunk" =>
    pc[c] = "request" /\ (~ awaiting[c] => Streamed(c) /\ response[c].asks >= 1)

(* A reply on its way is the one, and one for who waits.                    *)
More(c, r) == r.V = 0 /\ r.asks \in 1..(Units - sent[c]) /\ Streamed(c)
Whole(c, r) ==
  /\ r.asks = 0 /\ r.over = Own(c, 1, Units) /\ r.chain = DeviceChain
  /\ \E p \in {0, 1} : r.V = 2 * DeviceChain + 35 + p
Fits(c, r) ==
  /\ r.kind = "Success" => granted
  /\ request[c] = "chunk" => r.kind \in {"TxRequest", "Failure"}
  /\ r.kind = "TxRequest" /\ request[c] \in {"sign", "chunk"} => More(c, r) \/ Whole(c, r)
InboxOK ==
  \/ inbox = <<>>
  \/ \E c \in Calls, r \in Replies :
       /\ Exchanging(c) /\ awaiting[c] /\ handle = "live"
       /\ inbox = <<r>> /\ Fits(c, r)

Inv ==
  /\ Types /\ MutexOK /\ OpeningOK /\ SignOK
  /\ ~ lostSync => ChunkOK /\ InboxOK
  /\ OwnSignature /\ UnlockedWasGranted

LEMMA Requests == DOMAIN Wanted = {"initialize", "ping", "derive", "sign", "chunk"}
BY DEF Wanted

LEMMA InitInv == Init => Inv
<1> SUFFICES ASSUME Init PROVE Inv
  OBVIOUS
<1>1. Reply("none") \in Replies /\ Reply("none").kind = "none"
  BY Plain DEF Kinds
<1>2. <<>> \in Data /\ <<>> \in Seq(Replies)
  BY DEF Data
<1>3. chain \in Nat
  BY ChainsArePositive DEF Init
<1>4. \A c \in Calls : ~ Exchanging(c) /\ ~ Inside(c) /\ ~ Active(c) /\ ~ Opening(c)
                       /\ pc[c] \notin {"mu", "unlock", "request"}
  BY DEF Init, Exchanging, Inside, Active, Opening
<1>5. TypeOK
  <2>1. kind \in [Calls -> {"Unlock", "Derive", "Sign"}]
    BY DEF Init
  <2>2. 0 \in 0..Units
    BY UnitsPositive
  <2>3. request \in [Calls -> DOMAIN Wanted] /\ sent \in [Calls -> 0..Units]
    BY <2>2, Requests DEF Init
  <2>4. onDevice \in Seq(Calls \X (1..Units))
    BY DEF Init
  <2> QED
    BY <2>1, <2>3, <2>4 DEF Init, TypeOK
<1>6. Types
  BY <1>1, <1>2, <1>3, <1>4, <1>5 DEF Init, Types
<1>7. \A c \in Calls : result[c].kind = "none"
  BY <1>1 DEF Init
<1> QED
  BY <1>4, <1>6, <1>7
     DEF Init, Inv, MutexOK, OpeningOK, SignOK, ChunkOK, InboxOK, OwnSignature,
         UnlockedWasGranted

LEMMA Alone ==
  ASSUME MutexOK, NEW c \in Calls, NEW d \in Calls, Inside(c), Inside(d),
         entry \in {"TrezorSigner", "Bridge"}
  PROVE  c = d
BY DEF MutexOK, Inside, Active

(* A call that is not waiting for a reply finds none.                       *)
LEMMA NoReply ==
  ASSUME Inv, ~ lostSync, NEW c \in Calls, Inside(c), ~ (Exchanging(c) /\ awaiting[c])
  PROVE  inbox = <<>>
<1>1. \A d \in Calls : Exchanging(d) => Inside(d)
  BY DEF Exchanging, Inside
<1> QED
  BY <1>1, Alone DEF Inv, InboxOK, Types, TypeOK

-----------------------------------------------------------------------------
(* What the arrival of a reply comes to.                                    *)
Unanswered == UNCHANGED <<deviceUnlocked, request, response, result>>
Stays(c, l) == Goto(c, l) /\ UNCHANGED mu
Filled(c, filled) ==
  /\ request[c] \in {"sign", "chunk"} /\ pc[c] # "unlock"
  /\ Stream(c, filled)
  /\ response' = [response EXCEPT ![c] = filled]
  /\ UNCHANGED deviceUnlocked

Outcome(c) ==
  \/ (\E l \in {"done", "panicked"} : Leave(c, l)) /\ Unanswered
  \/ pc[c] = "unlock" /\ Stays(c, "unlock") /\ Unanswered
  \/ pc[c] = "request" /\ Head(inbox).kind = "PinMatrixRequest"
     /\ Stays(c, "pin") /\ Unanswered
  \/ request[c] = "ping" /\ Stays(c, "unlock") /\ Unanswered
  \/ /\ request[c] = "initialize" /\ pc[c] # "unlock"
     /\ Stays(c, "request") /\ request' = [request EXCEPT ![c] = "ping"]
     /\ response' = response \/ response' = [response EXCEPT ![c] = Head(inbox)]
     /\ UNCHANGED <<deviceUnlocked, result>>
  \/ /\ Head(inbox).kind = "Success" /\ kind[c] = "Sign"
     /\ request[c] = "ping" \/ pc[c] = "unlock"
     /\ deviceUnlocked' = TRUE /\ Sign(c) /\ UNCHANGED <<mu, result>>
  \/ Head(inbox).kind = "TxRequest" /\ Filled(c, Head(inbox))
  \/ pc[c] = "pin" /\ Filled(c, response[c])

LEMMA ReadyOutcome ==
  ASSUME NEW c \in Calls, Ready(c), UNCHANGED result,
         Head(inbox).kind = "Success" \/ response[c].kind # "Features",
         request[c] = "ping" \/ pc[c] = "unlock"
  PROVE  Outcome(c)
<1>1. CASE response[c].kind # "Features"
  BY <1>1 DEF Ready, Outcome, Unanswered
<1>2. CASE response[c].kind = "Features" /\ kind[c] = "Sign"
  BY <1>2 DEF Ready, Outcome
<1>3. CASE response[c].kind = "Features" /\ kind[c] # "Sign"
  BY <1>3 DEF Ready, Return, Outcome, Unanswered
<1> QED
  BY <1>1, <1>2, <1>3

LEMMA FailOutcome ==
  ASSUME NEW c \in Calls, Fail(c), Unanswered
  PROVE  Outcome(c)
BY DEF Fail, Return, Outcome, Stays

LEMMA ReceiveOutcome ==
  ASSUME NEW c \in Calls, request[c] \in DOMAIN Wanted, Receive(c)
  PROVE  Outcome(c)
<1> DEFINE reply == Head(inbox)
           i == Index(c, reply.kind)
           last == Len(Results(c))
<1>0. Exchanging(c) /\ request[c] \in {"initialize", "ping", "derive", "sign", "chunk"}
  BY Requests DEF Receive
<1>1. /\ i \in 0..last /\ last \in 2..6
      /\ pc[c] = "unlock" /\ i = 1 => reply.kind = "Success"
      /\ pc[c] # "unlock" /\ request[c] = "ping" /\ i \notin {0, 1, 2, last} =>
           reply.kind = "Success"
      /\ pc[c] # "unlock" /\ request[c] \in {"sign", "chunk"} /\ i = 1 =>
           reply.kind = "TxRequest"
      /\ pc[c] = "request" /\ request[c] \in {"sign", "chunk"} /\ i \notin {0, last} =>
           i = 1
      /\ pc[c] = "request" /\ i = last => reply.kind = "PinMatrixRequest"
  <2> HIDE DEF reply
  <2> DEFINE I == Index(c, reply.kind)
             L == Len(Results(c))
  <2> QED
    BY <1>0, Indices
<1>2. CASE Fail(c) /\ Unanswered
  BY <1>2, FailOutcome
<1>3. CASE /\ pc[c] = "request" /\ i = last
           /\ Goto(c, "pin") /\ UNCHANGED mu /\ Unanswered
  BY <1>1, <1>3 DEF Outcome, Stays
<1>4. CASE pc[c] = "unlock" /\ i = 1 /\ Ready(c) /\ UNCHANGED result
  BY <1>1, <1>4, ReadyOutcome
<1>5. CASE pc[c] # "unlock" /\ i \notin {0, last} /\ Handle(c, i, reply)
  <2>1. CASE request[c] = "initialize"
    BY <1>5, <2>1 DEF Handle, Exchange, Outcome, Stays
  <2>2. CASE request[c] = "ping"
    <3>1. Pinged(c, i) /\ UNCHANGED result
      BY <1>5, <2>2 DEF Handle
    <3>2. CASE i = 1 /\ response[c].kind = "Features"
      BY <2>2, <3>1, <3>2 DEF Pinged, Outcome, Stays, Unanswered
    <3>3. CASE i = 2 /\ response[c].kind = "Features"
      BY <3>1, <3>3 DEF Pinged, Return, Outcome, Unanswered
    <3>4. CASE i \notin {1, 2} \/ response[c].kind # "Features"
      <4>1. Ready(c)
        BY <3>1, <3>4 DEF Pinged
      <4>2. reply.kind = "Success" \/ response[c].kind # "Features"
        BY <1>1, <1>5, <2>2, <3>4
      <4> QED
        BY <2>2, <3>1, <4>1, <4>2, ReadyOutcome
    <3> QED
      BY <3>2, <3>3, <3>4
  <2>3. CASE request[c] = "derive"
    BY <1>5, <2>3 DEF Handle, Return, Outcome, Unanswered
  <2>4. CASE request[c] \in {"sign", "chunk"}
    <3>1. /\ Stream(c, IF i = 1 THEN reply ELSE response[c])
          /\ response' = [response EXCEPT ![c] = IF i = 1 THEN reply ELSE response[c]]
          /\ UNCHANGED deviceUnlocked
      BY <1>5, <2>4 DEF Handle
    <3>2. CASE i = 1
      BY <1>1, <1>5, <2>4, <3>1, <3>2 DEF Filled, Outcome
    <3>3. CASE i # 1
      <4>1. pc[c] = "pin"
        BY <1>1, <1>5, <2>4, <3>3 DEF Receive, Exchanging
      <4> QED
        BY <1>5, <2>4, <3>1, <3>3, <4>1 DEF Filled, Outcome
    <3> QED
      BY <3>2, <3>3
  <2> QED
    BY <2>1, <2>2, <2>3, <2>4, Requests
<1> QED
  BY <1>2, <1>3, <1>4, <1>5 DEF Receive, Unanswered

-----------------------------------------------------------------------------
(* The steps.  Where a call goes, and that the others stay where they are.  *)
At(c, l) ==
  /\ pc'[c] = l /\ awaiting'[c] = FALSE
  /\ \A d \in Calls : d # c => pc'[d] = pc[d] /\ awaiting'[d] = awaiting[d]

LEMMA GotoAt ==
  ASSUME TypeOK, NEW c \in Calls, NEW l, Goto(c, l)
  PROVE  At(c, l)
BY DEF TypeOK, Goto, At

Labels == {"idle", "mu", "open", "request", "pin", "unlock", "done", "panicked"}

LEMMA GotoTypes ==
  ASSUME TypeOK, NEW c \in Calls, NEW l \in Labels, Goto(c, l)
  PROVE  pc' \in [Calls -> Labels] /\ awaiting' \in [Calls -> BOOLEAN]
BY DEF TypeOK, Goto, Labels

LEMMA LeaveMu ==
  ASSUME TypeOK, NEW c \in Calls, NEW l \in {"done", "panicked"}, Leave(c, l)
  PROVE  /\ At(c, l) /\ l \in Labels /\ Goto(c, l) /\ mu' \in Calls \cup {Nobody}
         /\ mu' # mu => mu = c
BY GotoAt DEF Leave, Labels, TypeOK

(* A call that ends disturbs nothing, if no reply is left for it.           *)
LEMMA LeaveInv ==
  ASSUME Inv, NEW c \in Calls, NEW l \in {"done", "panicked"}, Leave(c, l),
         UNCHANGED <<fixed, device, session, request, sent, response, result>>,
         Inside(c), pinFailed' \in BOOLEAN,
         lostSync' \in BOOLEAN, lostSync = TRUE => lostSync' = TRUE, inbox' \in Seq(Replies),
         lostSync' = FALSE => inbox' = <<>>
  PROVE  Inv'
<1>1. /\ At(c, l) /\ l \in Labels /\ Goto(c, l) /\ mu' \in Calls \cup {Nobody}
      /\ mu' # mu => mu = c
  BY LeaveMu DEF Inv, Types
<1>2. Types'
  <2>1. pc' \in [Calls -> Labels] /\ awaiting' \in [Calls -> BOOLEAN]
    BY <1>1, GotoTypes DEF Inv, Types
  <2>2. TypeOK'
    BY <1>1, <2>1 DEF Inv, Types, TypeOK, Labels, fixed, device, session
  <2> QED
    BY <1>1, <2>2 DEF Inv, Types, At, fixed, device, session
<1>3. MutexOK'
  <2>1. \A d \in Calls : Inside(d)' => d # c /\ Inside(d)
    BY <1>1 DEF At, Inside
  <2>2. \A d \in Calls : Active(d)' => d # c /\ Active(d)
    BY <1>1 DEF At, Active
  <2>3. \A d \in Calls : pc'[d] = "mu" => pc[d] = "mu"
    BY <1>1 DEF At
  <2> QED
    BY <1>1, <2>1, <2>2, <2>3 DEF Inv, MutexOK, fixed
<1>4. OpeningOK'
  <2>1. \A d \in Calls : (Opening(d)' => Opening(d)) /\ (pc'[d] = "unlock" => pc[d] = "unlock")
    BY <1>1 DEF At, Opening, Exchanging
  <2> QED
    BY <2>1 DEF Inv, OpeningOK, fixed, session
<1>5. SignOK'
  BY <1>1 DEF Inv, SignOK, At, Exchanging, device, Own, Reply
<1>6. ~ lostSync' => (ChunkOK /\ InboxOK)'
  BY <1>1 DEF Inv, ChunkOK, InboxOK, At, Exchanging, Streamed, device, Own
<1>7. OwnSignature' /\ UnlockedWasGranted'
  BY DEF Inv, OwnSignature, UnlockedWasGranted, fixed, device, session, Own
<1> QED
  BY <1>2, <1>3, <1>4, <1>5, <1>6, <1>7 DEF Inv

-----------------------------------------------------------------------------
(* Fail leaves, or goes back to Unlock's PIN.                               *)
LEMMA FailInv ==
  ASSUME Inv, NEW c \in Calls, Fail(c), Exchanging(c),
         UNCHANGED <<fixed, device, session, request, sent, response, result>>,
         lostSync' \in BOOLEAN, pinFailed' \in BOOLEAN, lostSync = TRUE => lostSync' = TRUE, inbox' \in Seq(Replies),
         lostSync' = FALSE => inbox' = <<>>
  PROVE  Inv'
<1>0. Inside(c)
  BY DEF Exchanging, Inside
<1>1. CASE Return(c)
  BY <1>0, <1>1, LeaveInv DEF Return
<1>2. CASE pc[c] = "unlock" /\ Goto(c, "unlock") /\ UNCHANGED mu
  <2>1. /\ pc' = pc /\ awaiting' = [awaiting EXCEPT ![c] = FALSE]
        /\ \A d \in Calls : d # c => awaiting'[d] = awaiting[d]
    BY <1>2 DEF Goto, Inv, Types, TypeOK
  <2>2. TypeOK'
    BY <1>2, <2>1 DEF Inv, Types, TypeOK, fixed, device, session
  <2>3. Types'
    <3>1. \A d \in Calls : pc'[d] = "request" => pc[d] = "request" /\ awaiting'[d] = awaiting[d]
      BY <1>2, <2>1
    <3> QED
      BY <2>2, <3>1 DEF Inv, Types, fixed, device
  <2>4. MutexOK' /\ OpeningOK'
    BY <1>2, <2>1 DEF Inv, MutexOK, Inside, Active, OpeningOK, Opening, Exchanging, fixed, session
  <2>5. request[c] = "ping"
    BY <1>2 DEF Inv, OpeningOK
  <2>6. SignOK'
    BY <2>1, <2>5 DEF Inv, SignOK, Exchanging, device, Own, Reply
  <2>7. ~ lostSync' => (ChunkOK /\ InboxOK)'
    BY <2>1, <2>5 DEF Inv, ChunkOK, InboxOK, Exchanging, Streamed, device, Own
  <2>8. OwnSignature' /\ UnlockedWasGranted'
    BY DEF Inv, OwnSignature, UnlockedWasGranted, fixed, device, session, Own
  <2> QED
    BY <2>3, <2>4, <2>6, <2>7, <2>8 DEF Inv
<1> QED
  BY <1>1, <1>2 DEF Fail

LEMMA ExchangeFailsInv ==
  ASSUME Inv, NEW c \in Calls, ExchangeFails(c)
  PROVE  Inv'
<1>0. Inside(c) /\ Exchanging(c) /\ lostSync \in BOOLEAN /\ inbox \in Seq(Replies)
  BY DEF ExchangeFails, Exchanging, Inside, Inv, Types, TypeOK
<1>1. /\ inbox' = inbox /\ lostSync' \in BOOLEAN /\ (lostSync = TRUE => lostSync' = TRUE)
      /\ pinFailed' \in BOOLEAN
  BY <1>0 DEF ExchangeFails
<1>2. ASSUME lostSync' = FALSE PROVE inbox = <<>>
  <2>1. lostSync = FALSE /\ (handle # "live" \/ ~ awaiting[c])
    BY <1>0, <1>2 DEF ExchangeFails
  <2>2. CASE handle # "live"
    BY <2>1, <2>2 DEF Inv, InboxOK
  <2>3. CASE ~ awaiting[c]
    BY <1>0, <2>1, <2>3, NoReply
  <2> QED
    BY <2>1, <2>2, <2>3
<1> QED
  BY <1>0, <1>1, <1>2, FailInv DEF ExchangeFails

LEMMA NoDeviceInv ==
  ASSUME Inv, NEW c \in Calls, NoDevice(c)
  PROVE  Inv'
<1>0. /\ Inside(c) /\ lostSync \in BOOLEAN /\ inbox \in Seq(Replies)
      /\ lostSync' = lostSync /\ inbox' = inbox
      /\ UNCHANGED <<fixed, device, session, request, sent, response, result>>
      /\ pinFailed' \in BOOLEAN
  BY DEF NoDevice, Exchanging, Inside, Inv, Types, TypeOK, faults
<1>1. lostSync = FALSE => inbox = <<>>
  BY DEF NoDevice, Inv, InboxOK
<1> QED
  BY <1>0, <1>1, LeaveInv DEF NoDevice

LEMMA OpenFailsInv ==
  ASSUME Inv, NEW c \in Calls, OpenFails(c)
  PROVE  Inv'
<1>0. /\ Inside(c) /\ ~ Exchanging(c) /\ lostSync \in BOOLEAN /\ inbox \in Seq(Replies)
      /\ lostSync' = lostSync /\ inbox' = inbox
      /\ UNCHANGED <<fixed, device, session, request, sent, response, result>>
      /\ pinFailed' \in BOOLEAN
  BY DEF OpenFails, Exchanging, Inside, Inv, Types, TypeOK, faults
<1>1. lostSync = FALSE => inbox = <<>>
  BY <1>0, NoReply
<1> QED
  BY <1>0, <1>1, LeaveInv DEF OpenFails, Return

LEMMA OpenDeviceInv ==
  ASSUME Inv, NEW c \in Calls, OpenDevice(c)
  PROVE  Inv'
<1>0. /\ pc[c] = "open" /\ Inside(c) /\ Opening(c) /\ ~ Exchanging(c)
      /\ handle' = "live" /\ inbox' \in {inbox, <<>>}
      /\ Goto(c, "request") /\ request' = [request EXCEPT ![c] = "initialize"]
      /\ UNCHANGED <<fixed, device, deviceUnlocked, mu, faults, sent, response, result>>
  BY DEF OpenDevice, Exchanging, Inside, Opening, Exchange
<1>1. /\ At(c, "request") /\ pc' \in [Calls -> Labels] /\ awaiting' \in [Calls -> BOOLEAN]
      /\ request' \in [Calls -> DOMAIN Wanted]
      /\ request'[c] = "initialize" /\ \A d \in Calls : d # c => request'[d] = request[d]
  <2>1. TypeOK /\ "request" \in Labels
    BY DEF Inv, Types, Labels
  <2>2. At(c, "request") /\ pc' \in [Calls -> Labels] /\ awaiting' \in [Calls -> BOOLEAN]
    BY <1>0, <2>1, GotoAt, GotoTypes
  <2> QED
    BY <1>0, <2>1, <2>2, Requests DEF TypeOK
<1>2. inbox' \in Seq(Replies) /\ (lostSync = FALSE => inbox' = <<>>)
  <2>1. inbox \in Seq(Replies) /\ <<>> \in Seq(Replies)
    BY DEF Inv, Types
  <2> QED
    BY <1>0, <2>1, NoReply
<1>3. Types'
  <2>1. TypeOK'
    BY <1>0, <1>1 DEF Inv, Types, TypeOK, Labels, fixed, device, faults
  <2> QED
    BY <1>0, <1>1, <1>2, <2>1 DEF Inv, Types, At, fixed, device
<1>4. MutexOK'
  BY <1>0, <1>1 DEF Inv, MutexOK, At, Inside, Active, fixed
<1>5. OpeningOK'
  BY <1>0, <1>1 DEF Inv, OpeningOK, At, Opening, Exchanging, fixed
<1>6. SignOK'
  BY <1>0, <1>1 DEF Inv, SignOK, At, Exchanging, device, Own, Reply
<1>7. ~ lostSync' => (ChunkOK /\ InboxOK)'
  BY <1>0, <1>1, <1>2 DEF Inv, ChunkOK, InboxOK, At, Exchanging, Streamed, device, faults, Own
<1>8. OwnSignature' /\ UnlockedWasGranted'
  BY <1>0 DEF Inv, OwnSignature, UnlockedWasGranted, OpeningOK, fixed, device, faults, Own
<1> QED
  BY <1>3, <1>4, <1>5, <1>6, <1>7, <1>8 DEF Inv

-----------------------------------------------------------------------------
(* Begin and LockMu.  Who begins to sign has an empty response.             *)
LEMMA SignAt ==
  ASSUME Types, NEW c \in Calls, Sign(c)
  PROVE  /\ Goto(c, "request") /\ At(c, "request")
         /\ request'[c] = "sign" /\ response'[c] = Reply("TxRequest")
         /\ \A d \in Calls : d # c => request'[d] = request[d] /\ response'[d] = response[d]
         /\ request' \in [Calls -> DOMAIN Wanted] /\ response' \in [Calls -> Replies]
<1>1. Reply("TxRequest") \in Replies /\ TypeOK
  BY Plain DEF Kinds, Types
<1>2. Goto(c, "request") /\ At(c, "request")
  BY <1>1, GotoAt DEF Sign, Exchange
<1> QED
  BY <1>1, <1>2, Requests DEF Sign, Exchange, Types, TypeOK

LEMMA FitsStays ==
  ASSUME NEW d \in Calls, NEW r, Fits(d, r), UNCHANGED <<chain, granted, onDevice, sent>>,
         request'[d] = request[d]
  PROVE  Fits(d, r)'
<1>1. More(d, r) => More(d, r)'
  BY DEF More, Streamed, Own
<1>2. Whole(d, r) => Whole(d, r)'
  BY DEF Whole, DeviceChain, Own
<1> QED
  BY <1>1, <1>2 DEF Fits

(* A call gets on, without a message.                                       *)
LEMMA AdvanceInv ==
  ASSUME Inv, NEW c \in Calls, pc[c] \in {"idle", "mu"},
         UNCHANGED <<fixed, device, inbox, session, faults, sent, result>>,
         NEW l \in {"mu", "open", "request"}, Goto(c, l),
         pc[c] = "idle" /\ entry = "Bridge" => \A d \in Calls : ~ Active(d),
         l = "mu" => entry = "TrezorSigner" /\ UNCHANGED mu,
         pc[c] = "idle" /\ l # "mu" => entry = "Bridge" /\ UNCHANGED mu,
         pc[c] = "mu" => mu = Nobody /\ mu' = c /\ l # "mu",
         l = "open" => ~ deviceUnlocked /\ (entry = "Bridge" => kind[c] = "Unlock"),
         \/ l # "request" /\ UNCHANGED <<request, response>>
         \/ l = "request" /\ request' = [request EXCEPT ![c] = "derive"] /\ UNCHANGED response
         \/ l = "request" /\ Sign(c)
  PROVE  Inv'
<1>1. /\ At(c, l) /\ pc' \in [Calls -> Labels] /\ awaiting' \in [Calls -> BOOLEAN]
      /\ request' \in [Calls -> DOMAIN Wanted] /\ response' \in [Calls -> Replies]
      /\ \A d \in Calls : d # c => request'[d] = request[d] /\ response'[d] = response[d]
      /\ l = "request" => \/ request'[c] = "derive"
                          \/ request'[c] = "sign" /\ response'[c] = Reply("TxRequest")
  <2>1. TypeOK /\ Types /\ l \in Labels
    BY DEF Inv, Types, Labels
  <2>2. At(c, l) /\ pc' \in [Calls -> Labels] /\ awaiting' \in [Calls -> BOOLEAN]
    BY <2>1, GotoAt, GotoTypes
  <2>3. CASE l # "request" /\ UNCHANGED <<request, response>>
    BY <2>1, <2>2, <2>3 DEF Types, TypeOK
  <2>4. CASE request' = [request EXCEPT ![c] = "derive"] /\ UNCHANGED response
    BY <2>1, <2>2, <2>4, Requests DEF Types, TypeOK
  <2>5. CASE Sign(c)
    BY <2>1, <2>2, <2>5, SignAt
  <2> QED
    BY <2>3, <2>4, <2>5
<1>2. /\ ~ Inside(c) /\ ~ Exchanging(c) /\ ~ Opening(c)
      /\ pc[c] = "mu" => entry = "TrezorSigner"
      /\ entry \in {"TrezorSigner", "Bridge"}
      /\ mu' \in Calls \cup {Nobody}
  BY DEF Inside, Exchanging, Opening, Inv, MutexOK, Types, TypeOK
<1>3. Types'
  <2>1. TypeOK'
    BY <1>1, <1>2 DEF Inv, Types, TypeOK, Labels, fixed, device, session, faults
  <2> QED
    BY <1>1, <2>1 DEF Inv, Types, At, fixed, device
<1>4. MutexOK'
  <2>1. CASE entry = "Bridge"
    <3>1. pc[c] = "idle" /\ \A d \in Calls : ~ Active(d)
      BY <1>2, <2>1
    <3>2. \A d \in Calls : d # c => ~ Active(d)'
      BY <1>1, <3>1 DEF At, Active
    <3>3. \A d \in Calls : d # c => pc'[d] # "mu"
      BY <3>2 DEF Active
    <3>4. pc'[c] # "mu" /\ entry' = "Bridge"
      BY <1>1, <2>1 DEF At, fixed
    <3> QED
      BY <3>2, <3>3, <3>4 DEF MutexOK
  <2>2. CASE entry = "TrezorSigner"
    <3>1. entry' = "TrezorSigner" /\ (pc[c] = "idle" => l = "mu" /\ mu' = mu)
      BY <2>2 DEF fixed
    <3>2. \A d \in Calls : d # c => (Inside(d)' <=> Inside(d))
      BY <1>1 DEF At, Inside
    <3>3. \A d \in Calls : Inside(d) => mu = d
      BY <2>2 DEF Inv, MutexOK
    <3>4. ASSUME NEW d \in Calls, Inside(d)' PROVE mu' = d
      <4>1. CASE d = c
        BY <1>1, <3>1, <3>4, <4>1 DEF At, Inside
      <4>2. CASE d # c
        BY <3>1, <3>2, <3>3, <3>4, <4>2, NobodyIsNoCall
      <4> QED
        BY <4>1, <4>2
    <3> QED
      BY <3>1, <3>4 DEF MutexOK
  <2> QED
    BY <1>2, <2>1, <2>2
<1>5. OpeningOK'
  <2>1. \A d \in Calls : d # c => (Opening(d)' <=> Opening(d)) /\ pc'[d] = pc[d]
    BY <1>1 DEF At, Opening, Exchanging
  <2>2. Opening(c)' => l = "open"
    BY <1>1 DEF At, Opening, Exchanging
  <2>3. pc'[c] # "unlock"
    BY <1>1 DEF At
  <2> QED
    BY <1>1, <2>1, <2>2, <2>3 DEF Inv, OpeningOK, fixed, session
<1>6. SignOK'
  BY <1>1, <1>2 DEF Inv, SignOK, At, Exchanging, device, Own, Reply
<1>7. ~ lostSync' => (ChunkOK /\ InboxOK)'
  <2>1. \A d \in Calls : Exchanging(d) => d # c
    BY <1>2
  <2>2. Exchanging(c)' => request'[c] # "chunk"
    BY <1>1 DEF At, Exchanging
  <2>3. ~ lostSync' => ChunkOK'
    BY <1>1, <2>1, <2>2 DEF Inv, ChunkOK, At, Exchanging, Streamed, device, faults, Own
  <2>4. ASSUME ~ lostSync', inbox # <<>> PROVE InboxOK'
    <3>1. PICK d \in Calls, r \in Replies :
            /\ Exchanging(d) /\ awaiting[d] /\ handle = "live"
            /\ inbox = <<r>> /\ Fits(d, r)
      BY <2>4 DEF Inv, InboxOK, faults
    <3>2. /\ d # c /\ Exchanging(d)' /\ awaiting'[d] /\ request'[d] = request[d]
          /\ handle' = "live" /\ inbox' = <<r>>
          /\ UNCHANGED <<chain, granted, onDevice, sent>>
      BY <1>1, <2>1, <3>1 DEF At, Exchanging, fixed, device, session
    <3> QED
      BY <3>1, <3>2, FitsStays DEF InboxOK
  <2>5. ~ lostSync' /\ inbox = <<>> => InboxOK'
    BY DEF InboxOK
  <2> QED
    BY <2>3, <2>4, <2>5
<1>8. OwnSignature' /\ UnlockedWasGranted'
  BY DEF Inv, OwnSignature, UnlockedWasGranted, fixed, device, session, faults, Own
<1> QED
  BY <1>3, <1>4, <1>5, <1>6, <1>7, <1>8 DEF Inv

LEMMA BeginInv ==
  ASSUME Inv, NEW c \in Calls, Begin(c)
  PROVE  Inv'
<1>1. /\ pc[c] = "idle"
      /\ entry = "Bridge" => \A d \in Calls : ~ Active(d)
      /\ UNCHANGED <<fixed, device, inbox, session, mu, faults, sent, result>>
  BY DEF Begin
<1>2. CASE entry = "TrezorSigner"
  <2>1. Goto(c, "mu") /\ UNCHANGED <<request, response>>
    BY <1>2 DEF Begin
  <2> QED
    BY <1>1, <1>2, <2>1, AdvanceInv
<1>3. CASE entry = "Bridge"
  <2>0. ~ deviceUnlocked
    BY <1>3 DEF Inv, OpeningOK
  <2>1. CASE kind[c] = "Unlock"
    <3>1. Goto(c, "open") /\ UNCHANGED <<request, response>>
      BY <1>3, <2>1 DEF Begin
    <3> QED
      BY <1>1, <1>3, <2>0, <2>1, <3>1, AdvanceInv
  <2>2. CASE kind[c] = "Derive"
    <3>1. Goto(c, "request") /\ request' = [request EXCEPT ![c] = "derive"] /\ UNCHANGED response
      BY <1>3, <2>2 DEF Begin, Exchange
    <3> QED
      BY <1>1, <1>3, <3>1, AdvanceInv
  <2>3. CASE kind[c] \notin {"Unlock", "Derive"}
    <3>1. Goto(c, "request") /\ Sign(c)
      BY <1>3, <2>3 DEF Begin, Sign, Exchange
    <3> QED
      BY <1>1, <1>3, <3>1, AdvanceInv
  <2> QED
    BY <2>1, <2>2, <2>3
<1> QED
  BY <1>2, <1>3 DEF Inv, Types, TypeOK

LEMMA LockMuInv ==
  ASSUME Inv, NEW c \in Calls, LockMu(c)
  PROVE  Inv'
<1>1. /\ pc[c] = "mu" /\ mu = Nobody /\ mu' = c /\ entry = "TrezorSigner"
      /\ UNCHANGED <<fixed, device, inbox, session, faults, sent, result>>
  BY DEF LockMu, MuFree, Inv, MutexOK
<1>2. CASE deviceUnlocked
  <2>1. Sign(c) /\ Goto(c, "request")
    BY <1>2 DEF LockMu, Sign, Exchange
  <2> QED
    BY <1>1, <2>1, AdvanceInv
<1>3. CASE ~ deviceUnlocked
  <2>1. Goto(c, "open") /\ UNCHANGED <<request, response>>
    BY <1>3 DEF LockMu
  <2> QED
    BY <1>1, <1>3, <2>1, AdvanceInv
<1> QED
  BY <1>2, <1>3

-----------------------------------------------------------------------------
(* The user and the timer.                                                  *)
LEMMA UserInv ==
  ASSUME Inv, Plug \/ Unplug \/ Lock \/ UNCHANGED vars
  PROVE  Inv'
<1>1. /\ UNCHANGED <<fixed, granted, deviceUnlocked, mu, faults, pc, call>>
      /\ plugged' \in BOOLEAN /\ locked' \in BOOLEAN
      /\ handle' \in {"nil", "live", "dead"} /\ (handle # "nil" => handle' # "nil")
      /\ \/ UNCHANGED <<dialogue, pending, onDevice, inbox, handle>>
         \/ dialogue' = "none" /\ onDevice' = <<>> /\ inbox' = <<>> /\ UNCHANGED pending
  BY DEF Plug, Unplug, Lock, vars, device, session, Inv, Types, TypeOK
<1>2. <<>> \in Data /\ <<>> \in Seq(Replies) /\ <<>> \in Seq(Calls \X (1..Units))
  BY DEF Data
<1>3. Types'
  <2>1. TypeOK'
    BY <1>1, <1>2 DEF Inv, Types, TypeOK, fixed, call, faults
  <2> QED
    BY <1>1, <1>2, <2>1 DEF Inv, Types, fixed, call
<1>4. MutexOK' /\ OpeningOK'
  BY <1>1 DEF Inv, MutexOK, Inside, Active, OpeningOK, Opening, Exchanging, fixed, call
<1>5. SignOK'
  BY <1>1 DEF Inv, SignOK, Exchanging, call, Own, Reply
<1>6. ~ lostSync' => (ChunkOK /\ InboxOK)'
  <2>1. ~ lostSync' => ChunkOK'
    BY <1>1 DEF Inv, ChunkOK, Exchanging, Streamed, call, faults, Own
  <2>2. ASSUME ~ lostSync', inbox' # <<>> PROVE InboxOK'
    <3>0. UNCHANGED <<dialogue, pending, onDevice, inbox, handle>>
      BY <1>1, <2>2
    <3>1. PICK d \in Calls, r \in Replies :
            /\ Exchanging(d) /\ awaiting[d] /\ handle = "live"
            /\ inbox = <<r>> /\ Fits(d, r)
      BY <1>1, <2>2, <3>0 DEF Inv, InboxOK, faults
    <3>2. /\ Exchanging(d)' /\ awaiting'[d] /\ request'[d] = request[d]
          /\ handle' = "live" /\ inbox' = <<r>>
          /\ UNCHANGED <<chain, granted, onDevice, sent>>
      BY <1>1, <3>0, <3>1 DEF Exchanging, fixed, call
    <3> QED
      BY <3>1, <3>2, FitsStays DEF InboxOK
  <2>3. ~ lostSync' /\ inbox' = <<>> => InboxOK'
    BY DEF InboxOK
  <2> QED
    BY <2>1, <2>2, <2>3
<1>7. OwnSignature' /\ UnlockedWasGranted'
  BY <1>1 DEF Inv, OwnSignature, UnlockedWasGranted, fixed, call, faults, Own
<1> QED
  BY <1>3, <1>4, <1>5, <1>6, <1>7 DEF Inv

-----------------------------------------------------------------------------
(* What is granted stays so, until the next Initialize.                     *)
LEMMA GrantedStays ==
  ASSUME NEW q, NEW data, NEW right,
         \/ Requested(q, data)
         \/ MoreData(data)
         \/ PinEntered(right)
  PROVE  granted => granted'
BY DEF Requested, MoreData, PinEntered, Proceed

(* What a message sent comes to.                                            *)
Effect(c) ==
  /\ sent' \in [Calls -> 0..Units] /\ \A d \in Calls : d # c => sent'[d] = sent[d]
  /\ DeviceTypes'
  /\ pinFailed' \in BOOLEAN
  /\ request[c] # "initialize" => (granted => granted')
  /\ request[c] = "sign" =>
       sent'[c] = 1 /\ (dialogue' = "pin" /\ pending' = "sign" => onDevice' = Own(c, 1, 1))
  /\ \E r : Replied(r) /\ (~ lostSync => Fits(c, r)')

LEMMA OfDataFits ==
  ASSUME chain \in Nat, NEW c \in Calls, NEW n \in 1..Units, NEW r,
         OfData(r, Own(c, 1, n)), sent'[c] = n,
         onDevice' = <<>> \/ onDevice' = Own(c, 1, n), UNCHANGED chain
  PROVE  More(c, r)' \/ Whole(c, r)'
<1>1. n \in 0..Units /\ Len(Own(c, 1, n)) = n
  BY OwnData, UnitsPositive
<1>2. CASE r.V = 0 /\ r.asks \in 1..(Units - n)
  BY <1>2 DEF More, Streamed, Own
<1>3. CASE /\ r.asks = 0 /\ r.over = Own(c, 1, n) /\ n = Units /\ r.chain = DeviceChain
           /\ \E p \in {0, 1} : r.V = 2 * DeviceChain + 35 + p
  BY <1>3 DEF Whole, DeviceChain, Own
<1> QED
  BY <1>1, <1>2, <1>3 DEF OfData

LEMMA SendEffect ==
  ASSUME Inv, NEW c \in Calls, Send(c)
  PROVE  Effect(c)
<1>0. /\ Exchanging(c) /\ ~ awaiting[c]
      /\ UNCHANGED <<fixed, plugged, session, mu, lostSync, pc, request, response, result>>
      /\ UNCHANGED chain
  BY DEF Send, fixed
<1>1. /\ DeviceTypes /\ chain \in Nat
      /\ sent \in [Calls -> 0..Units] /\ pinFailed \in BOOLEAN
      /\ request[c] \in {"initialize", "ping", "derive", "sign", "chunk"}
  BY Requests DEF Inv, Types, TypeOK, DeviceTypes
<1>2. <<>> \in Data /\ 1 \in 0..Units /\ 1 \in 1..Units /\ Own(c, 1, 1) \in Data
  BY OwnData, UnitsPositive DEF Data
<1>3. CASE pc[c] = "request" /\ request[c] = "initialize"
  <2>1. Initialize /\ UNCHANGED <<sent, pinFailed>>
    BY <1>3 DEF Send
  <2>2. Replied(Reply("Features")) /\ Reply("Features").kind = "Features"
    BY <2>1, Plain DEF Initialize, Answer, Replied, Kinds
  <2>3. Fits(c, Reply("Features"))'
    BY <1>0, <1>3, <2>2 DEF Fits, Reply
  <2>4. DeviceTypes'
    BY <1>0, <1>1, <1>2, <2>1 DEF Initialize, DeviceTypes
  <2> QED
    BY <1>1, <1>3, <2>1, <2>2, <2>3, <2>4 DEF Effect
<1>4. CASE pc[c] = "request" /\ request[c] \in {"ping", "derive"}
  <2>1. Requested(request[c], <<>>) /\ UNCHANGED <<sent, pinFailed>>
    BY <1>4 DEF Send
  <2>2. request[c] \in {"ping", "derive", "sign"}
    BY <1>4
  <2>3. PICK r : Replied(r) /\ (r.kind = "TxRequest" => request[c] = "sign")
    BY <1>0, <1>1, <1>2, <2>1, <2>2, RequestedAnswers
  <2>4. Fits(c, r)'
    BY <1>0, <1>4, <2>3 DEF Fits, Replied
  <2>5. DeviceTypes'
    BY <1>0, <1>1, <1>2, <2>1, <2>2, RequestedAnswers
  <2>6. granted => granted'
    BY <2>1, GrantedStays
  <2> QED
    BY <1>1, <1>4, <2>1, <2>3, <2>4, <2>5, <2>6 DEF Effect
<1>5. CASE pc[c] = "request" /\ request[c] = "sign"
  <2>1. Requested("sign", Own(c, 1, 1)) /\ sent' = [sent EXCEPT ![c] = 1] /\ UNCHANGED pinFailed
    BY <1>5 DEF Send
  <2>2. /\ sent' \in [Calls -> 0..Units] /\ sent'[c] = 1
        /\ \A d \in Calls : d # c => sent'[d] = sent[d]
    BY <1>1, <1>2, <2>1
  <2>3. PICK r : Replied(r) /\ (r.kind = "TxRequest" => OfData(r, Own(c, 1, 1)))
    BY <1>0, <1>1, <1>2, <2>1, RequestedAnswers
  <2>4. /\ onDevice' = Own(c, 1, 1) \/ onDevice' = <<>>
        /\ dialogue' = "pin" => pending' = "sign" /\ onDevice' = Own(c, 1, 1)
        /\ DeviceTypes'
    BY <1>0, <1>1, <1>2, <2>1, RequestedAnswers
  <2>5. r.kind = "TxRequest" => More(c, r)' \/ Whole(c, r)'
    BY <1>0, <1>1, <1>2, <2>2, <2>3, <2>4, OfDataFits
  <2>6. Fits(c, r)'
    BY <1>0, <1>5, <2>3, <2>5 DEF Fits, Replied
  <2>7. granted => granted'
    BY <2>1, GrantedStays
  <2> QED
    BY <1>1, <2>1, <2>2, <2>3, <2>4, <2>6, <2>7 DEF Effect
<1>6. CASE pc[c] = "request" /\ request[c] = "chunk"
  <2> DEFINE to == sent[c] + response[c].asks
             next == Own(c, sent[c] + 1, to)
  <2>1. MoreData(next) /\ sent' = [sent EXCEPT ![c] = to] /\ UNCHANGED pinFailed
    BY <1>6 DEF Send
  <2>2. sent[c] \in 0..Units /\ to \in sent[c]..Units /\ to \in 0..Units
    <3>1. response[c] \in Replies /\ response[c].asks \in 0..Units
      BY DEF Inv, Types, Replies
    <3>2. to <= Units
      BY <1>0, <1>6 DEF Inv, Types
    <3> QED
      BY <1>1, <3>1, <3>2, UnitsPositive
  <2> HIDE DEF to
  <2>3. next \in Data /\ Own(c, 1, sent[c]) \o next = Own(c, 1, to)
    BY <2>2, OwnNext
  <2>4. /\ sent' \in [Calls -> 0..Units] /\ sent'[c] = to
        /\ \A d \in Calls : d # c => sent'[d] = sent[d]
    BY <1>1, <2>1, <2>2
  <2>5. PICK r : /\ Replied(r) /\ r.kind \in {"TxRequest", "Failure"}
                 /\ r.kind = "TxRequest" => onDevice # <<>> /\ OfData(r, onDevice \o next)
    BY <1>0, <1>1, <2>1, <2>3, MoreDataAnswers
  <2>6. (onDevice' = onDevice \o next \/ onDevice' = <<>>) /\ DeviceTypes'
    BY <1>0, <1>1, <2>1, <2>3, MoreDataAnswers
  <2>7. ASSUME ~ lostSync, r.kind = "TxRequest" PROVE More(c, r)' \/ Whole(c, r)'
    <3>1. sent[c] >= 1 /\ onDevice = Own(c, 1, sent[c]) /\ response[c].asks >= 1
      BY <1>0, <1>6, <2>5, <2>7 DEF Inv, ChunkOK, Streamed
    <3>2. to \in 1..Units
      BY <2>2, <3>1, UnitsPositive
    <3>3. OfData(r, Own(c, 1, to)) /\ (onDevice' = <<>> \/ onDevice' = Own(c, 1, to))
      BY <2>3, <2>5, <2>6, <2>7, <3>1
    <3> QED
      BY <1>0, <1>1, <2>4, <3>2, <3>3, OfDataFits
  <2>8. ~ lostSync => Fits(c, r)'
    BY <1>0, <1>6, <2>5, <2>7 DEF Fits, Replied
  <2>9. granted => granted'
    BY <2>1, GrantedStays
  <2> QED
    BY <1>1, <1>6, <2>1, <2>4, <2>5, <2>6, <2>8, <2>9 DEF Effect
<1>7. CASE pc[c] \in {"pin", "unlock"}
  <2>1. PICK right \in BOOLEAN :
          PinEntered(right) /\ pinFailed' = (pinFailed \/ (pc[c] = "unlock" /\ ~ right))
    BY <1>7 DEF Send
  <2>2. UNCHANGED sent
    BY <1>7 DEF Send
  <2>3. PICK r : /\ Replied(r)
                 /\ r.kind = "TxRequest" =>
                      dialogue = "pin" /\ pending = "sign" /\ OfData(r, onDevice)
    BY <1>0, <1>1, <2>1, PinEnteredAnswers
  <2>4. /\ onDevice' = onDevice \/ onDevice' = <<>>
        /\ dialogue' = "pin" => dialogue = "pin" /\ pending' = pending /\ onDevice' = onDevice
        /\ DeviceTypes'
    BY <1>0, <1>1, <2>1, PinEnteredAnswers
  <2>5. ASSUME request[c] = "sign"
        PROVE  sent[c] = 1 /\ (dialogue = "pin" /\ pending = "sign" => onDevice = Own(c, 1, 1))
    <3>1. pc[c] = "pin"
      BY <1>7, <2>5 DEF Inv, OpeningOK
    <3> QED
      BY <1>0, <2>5, <3>1 DEF Inv, SignOK
  <2>6. ASSUME request[c] = "sign", r.kind = "TxRequest" PROVE More(c, r)' \/ Whole(c, r)'
    <3>1. OfData(r, Own(c, 1, 1)) /\ sent'[c] = 1 /\ (onDevice' = <<>> \/ onDevice' = Own(c, 1, 1))
      BY <2>2, <2>3, <2>4, <2>5, <2>6
    <3> QED
      BY <1>0, <1>1, <1>2, <3>1, OfDataFits
  <2>7. ~ lostSync => request[c] # "chunk"
    BY <1>0, <1>7 DEF Inv, ChunkOK
  <2>8. ~ lostSync => Fits(c, r)'
    BY <1>0, <2>3, <2>6, <2>7 DEF Fits, Replied
  <2>9. granted => granted'
    BY <2>1, GrantedStays
  <2>10. pinFailed' \in BOOLEAN
    BY <1>1, <2>1
  <2> QED
    BY <1>1, <2>2, <2>3, <2>4, <2>5, <2>8, <2>9, <2>10 DEF Effect
<1> QED
  BY <1>0, <1>1, <1>3, <1>4, <1>5, <1>6, <1>7 DEF Exchanging

LEMMA SendInv ==
  ASSUME Inv, NEW c \in Calls, Send(c)
  PROVE  Inv'
<1>0. /\ Exchanging(c) /\ Inside(c) /\ ~ awaiting[c] /\ handle = "live"
      /\ awaiting' = [awaiting EXCEPT ![c] = TRUE]
      /\ UNCHANGED <<fixed, plugged, session, mu, lostSync, pc, request, response, result>>
  BY DEF Send, Exchanging, Inside
<1>1. /\ awaiting' \in [Calls -> BOOLEAN] /\ awaiting'[c] = TRUE
      /\ \A d \in Calls : d # c => awaiting'[d] = awaiting[d]
  BY <1>0 DEF Inv, Types, TypeOK
<1>2. Effect(c)
  BY SendEffect
<1>3. PICK r : Replied(r) /\ (~ lostSync => Fits(c, r)')
  BY <1>2 DEF Effect
<1>4. /\ sent' \in [Calls -> 0..Units] /\ \A d \in Calls : d # c => sent'[d] = sent[d]
      /\ DeviceTypes' /\ pinFailed' \in BOOLEAN
      /\ request[c] # "initialize" => (granted => granted')
      /\ request[c] = "sign" =>
           sent'[c] = 1 /\ (dialogue' = "pin" /\ pending' = "sign" => onDevice' = Own(c, 1, 1))
  BY <1>2 DEF Effect
<1>5. r \in Replies /\ inbox' = Append(inbox, r)
  BY <1>3 DEF Replied
<1>6. \A d \in Calls : Exchanging(d) => d = c
  <2>1. \A d \in Calls : Exchanging(d) => Inside(d)
    BY DEF Exchanging, Inside
  <2> QED
    BY <1>0, <2>1, Alone DEF Inv, Types, TypeOK
<1>7. Types'
  <2>1. inbox' \in Seq(Replies)
    BY <1>5 DEF Inv, Types
  <2>2. TypeOK'
    BY <1>0, <1>1, <1>4 DEF Inv, Types, TypeOK, DeviceTypes, Data, fixed, session
  <2>3. \A d \in Calls : pc[d] = "request" /\ ~ awaiting'[d] => d # c
    BY <1>1
  <2> QED
    BY <1>0, <1>1, <1>4, <2>1, <2>2, <2>3 DEF Inv, Types, DeviceTypes, fixed
<1>8. MutexOK' /\ OpeningOK'
  BY <1>0 DEF Inv, MutexOK, Inside, Active, OpeningOK, Opening, Exchanging, fixed, session
<1>9. SignOK'
  <2>1. \A d \in Calls : Exchanging(d)' => d = c
    BY <1>0, <1>6 DEF Exchanging
  <2>2. request[c] = "sign" => response[c] = Reply("TxRequest")
    BY <1>0 DEF Inv, SignOK
  <2> QED
    BY <1>0, <1>4, <2>1, <2>2 DEF SignOK, Own, Reply
<1>10. ~ lostSync' => ChunkOK'
  <2>1. \A d \in Calls : Exchanging(d)' => d = c
    BY <1>0, <1>6 DEF Exchanging
  <2>2. ~ lostSync /\ request[c] = "chunk" => pc[c] = "request"
    BY <1>0 DEF Inv, ChunkOK
  <2> QED
    BY <1>0, <1>1, <2>1, <2>2 DEF ChunkOK
<1>11. ASSUME ~ lostSync' PROVE InboxOK'
  <2>1. ~ lostSync /\ inbox = <<>>
    BY <1>0, <1>11, NoReply
  <2>2. inbox' = <<r>> /\ Fits(c, r)'
    BY <1>3, <1>5, <2>1
  <2>3. Exchanging(c)' /\ awaiting'[c] /\ handle' = "live"
    BY <1>0, <1>1 DEF Exchanging, session
  <2> QED
    BY <1>5, <2>2, <2>3 DEF InboxOK
<1>12. OwnSignature'
  BY <1>0 DEF Inv, OwnSignature, fixed, Own
<1>13. UnlockedWasGranted'
  <2>1. deviceUnlocked => request[c] # "initialize"
    BY <1>0 DEF Inv, OpeningOK, Opening
  <2> QED
    BY <1>0, <1>4, <2>1 DEF Inv, UnlockedWasGranted, session
<1> QED
  BY <1>7, <1>8, <1>9, <1>10, <1>11, <1>12, <1>13 DEF Inv

-----------------------------------------------------------------------------
(* The arrival of a reply, when none is left behind, is that of the one the *)
(* call waits for.                                                          *)
LEMMA TheReply ==
  ASSUME Inv, ~ lostSync, NEW c \in Calls, Exchanging(c), inbox # <<>>
  PROVE  /\ Head(inbox) \in Replies /\ Fits(c, Head(inbox)) /\ Tail(inbox) = <<>>
         /\ handle = "live"
<1>1. PICK d \in Calls, r \in Replies :
        Exchanging(d) /\ handle = "live" /\ inbox = <<r>> /\ Fits(d, r)
  BY DEF Inv, InboxOK
<1>2. d = c
  <2>1. Inside(c) /\ Inside(d)
    BY <1>1 DEF Exchanging, Inside
  <2> QED
    BY <2>1, Alone DEF Inv, Types, TypeOK
<1> QED
  BY <1>1, <1>2

(* Filled with f, the call streams on or is back, with the signature f has. *)
LEMMA StreamOutcome ==
  ASSUME Inv, NEW c \in Calls, NEW f \in Replies, Stream(c, f)
  PROVE  \/ /\ f.asks # 0 /\ sent[c] + f.asks <= Units
            /\ Stays(c, "request") /\ request' = [request EXCEPT ![c] = "chunk"]
            /\ UNCHANGED result
         \/ /\ f.asks = 0 \/ f.asks > Units - sent[c]
            /\ Leave(c, "done") /\ UNCHANGED request
            /\ \/ f.V = 0 /\ UNCHANGED result
               \/ \E k \in {"signed", "rejected"} :
                    /\ f.V # 0 /\ (Parity(f.V) \in {0, 1} => k = "signed")
                    /\ result' = [result EXCEPT ![c] = [f EXCEPT !.kind = k]]
<1>1. f.asks \in 0..Units /\ sent[c] \in 0..Units /\ Units \in Nat
  BY UnitsPositive DEF Inv, Types, TypeOK, Replies
<1>2. CASE f.asks # 0 /\ f.asks <= Units - sent[c]
  BY <1>1, <1>2 DEF Stream, Exchange, Stays
<1>3. CASE ~ (f.asks # 0 /\ f.asks <= Units - sent[c])
  <2>1. /\ Leave(c, "done") /\ UNCHANGED request
        /\ IF f.V = 0 THEN UNCHANGED result
           ELSE result' = [result EXCEPT ![c] =
                  [f EXCEPT !.kind = IF Parity(f.V) \in {0, 1} THEN "signed" ELSE "rejected"]]
    BY <1>3 DEF Stream, Return
  <2>2. f.asks = 0 \/ f.asks > Units - sent[c]
    BY <1>1, <1>3
  <2> QED
    BY <2>1, <2>2
<1> QED
  BY <1>2, <1>3

(* Who waits to sign and gets the whole is a case of OwnSignature.          *)
LEMMA SignedWhole ==
  ASSUME Inv, NEW c \in Calls, NEW f \in Replies, Whole(c, f), NEW k,
         Parity(f.V) \in {0, 1} => k = "signed"
  PROVE  LET s == [f EXCEPT !.kind = k]
         IN  /\ s.kind = "signed" /\ s.over = Own(c, 1, Units)
             /\ s.chain = chain \/ chain >= Word
<1>1. chain \in Nat /\ Word \in Nat \ {0}
  BY ChainsArePositive DEF Inv, Types
<1>2. PICK p \in {0, 1} : f.V = 2 * DeviceChain + 35 + p
  BY DEF Whole
<1>3. k = "signed"
  BY <1>1, <1>2, ParityFits
<1>4. DeviceChain = chain \/ chain >= Word
  BY <1>1 DEF DeviceChain
<1> QED
  BY <1>3, <1>4 DEF Whole, Replies

-----------------------------------------------------------------------------
(* A reply after which the call goes on.                                    *)
Unlocks(c) ==
  /\ deviceUnlocked' = TRUE /\ entry = "TrezorSigner" /\ request'[c] = "sign"
  /\ ~ lostSync => granted

LEMMA GoesOn ==
  ASSUME Inv, NEW c \in Calls, Exchanging(c), handle = "live",
         NEW l \in {"request", "pin", "unlock"}, Stays(c, l),
         UNCHANGED <<fixed, device, handle, faults, sent, result>>,
         inbox' \in Seq(Replies), lostSync = FALSE => inbox' = <<>>,
         request' \in [Calls -> DOMAIN Wanted], response' \in [Calls -> Replies],
         \A d \in Calls : d # c => request'[d] = request[d] /\ response'[d] = response[d],
         UNCHANGED deviceUnlocked \/ Unlocks(c),
         l = "unlock" => request'[c] = "ping",
         request'[c] \in {"initialize", "ping"} => Opening(c),
         request'[c] = "sign" =>
           /\ response'[c] = Reply("TxRequest")
           /\ l = "pin" =>
                sent[c] = 1 /\ (dialogue = "pin" /\ pending = "sign" => onDevice = Own(c, 1, 1)),
         request'[c] = "chunk" /\ l = "request" => sent[c] + response'[c].asks <= Units,
         ~ lostSync /\ request'[c] = "chunk" =>
           l = "request" /\ Streamed(c) /\ response'[c].asks >= 1
  PROVE  Inv'
<1>1. /\ At(c, l) /\ pc' \in [Calls -> Labels] /\ awaiting' \in [Calls -> BOOLEAN]
      /\ Inside(c) /\ UNCHANGED mu /\ UNCHANGED chain /\ UNCHANGED entry /\ UNCHANGED kind
      /\ deviceUnlocked' \in BOOLEAN
  <2>1. TypeOK /\ l \in Labels /\ Goto(c, l) /\ UNCHANGED mu
    BY DEF Inv, Types, Labels, Stays
  <2>2. deviceUnlocked' \in BOOLEAN
    BY <2>1 DEF Unlocks, TypeOK
  <2> QED
    BY <2>1, <2>2, GotoAt, GotoTypes DEF fixed, Exchanging, Inside
<1>2. \A d \in Calls : (Exchanging(d) \/ Inside(d)) => d = c
  <2>1. \A d \in Calls : Exchanging(d) => Inside(d)
    BY DEF Exchanging, Inside
  <2>2. Inside(c) /\ MutexOK /\ entry \in {"TrezorSigner", "Bridge"}
    BY <1>1 DEF Inv, Types, TypeOK
  <2> QED
    BY <2>1, <2>2, Alone
<1>3. \A d \in Calls : Exchanging(d)' => d = c
  BY <1>1, <1>2 DEF At, Exchanging
<1>4. Types'
  <2>1. TypeOK'
    BY <1>1 DEF Inv, Types, TypeOK, Labels, fixed, device, faults
  <2>2. \A d \in Calls : pc'[d] = "request" => d = c /\ l = "request"
    BY <1>1, <1>3 DEF Exchanging, At
  <2> QED
    BY <1>1, <2>1, <2>2 DEF Inv, Types, device
<1>5. MutexOK'
  BY <1>1 DEF Inv, MutexOK, At, Inside, Active
<1>6. OpeningOK'
  <2>1. \A d \in Calls :
          Opening(d)' => d = c /\ Opening(c) /\ request'[c] \in {"initialize", "ping"}
    <3>1. ASSUME NEW d \in Calls, d # c PROVE ~ Opening(d)'
      <4>1. pc[d] # "open" /\ ~ Exchanging(d)
        BY <1>2, <3>1 DEF Inside
      <4> QED
        BY <1>1, <3>1, <4>1 DEF At, Opening, Exchanging
    <3>2. Opening(c)' => request'[c] \in {"initialize", "ping"}
      BY <1>1 DEF At, Opening
    <3> QED
      BY <3>1, <3>2
  <2>2. \A d \in Calls : pc'[d] = "unlock" => request'[d] = "ping"
    <3>1. \A d \in Calls : pc'[d] = "unlock" => d = c
      BY <1>3 DEF Exchanging
    <3> QED
      BY <1>1, <3>1 DEF At
  <2>3. CASE UNCHANGED deviceUnlocked
    BY <1>1, <2>1, <2>2, <2>3 DEF Inv, OpeningOK
  <2>4. CASE Unlocks(c)
    BY <1>1, <2>1, <2>2, <2>4 DEF Inv, OpeningOK, Unlocks
  <2> QED
    BY <2>3, <2>4
<1>7. SignOK'
  BY <1>1, <1>3 DEF SignOK, At, device, Own, Reply
<1>8. ~ lostSync' => ChunkOK'
  BY <1>1, <1>3 DEF ChunkOK, At, Streamed, device, faults, Own
<1>9. ~ lostSync' => InboxOK'
  BY DEF InboxOK, faults, Inv, Types, TypeOK
<1>10. OwnSignature' /\ UnlockedWasGranted'
  BY <1>1 DEF Inv, OwnSignature, UnlockedWasGranted, Unlocks, device, faults, Own
<1> QED
  BY <1>4, <1>5, <1>6, <1>7, <1>8, <1>9, <1>10 DEF Inv

(* A reply after which the call is back, with a signature or without.       *)
LEMMA ComesBack ==
  ASSUME Inv, NEW c \in Calls, Exchanging(c), Leave(c, "done"),
         UNCHANGED <<fixed, device, session, faults, sent, request>>,
         inbox' \in Seq(Replies), lostSync = FALSE => inbox' = <<>>,
         response' \in [Calls -> Replies], result' \in [Calls -> Replies],
         \A d \in Calls : d # c => response'[d] = response[d] /\ result'[d] = result[d],
         ~ lostSync =>
           \/ result'[c] = result[c]
           \/ /\ result'[c].kind = "signed" /\ result'[c].over = Own(c, 1, Units)
              /\ result'[c].chain = chain \/ chain >= Word
  PROVE  Inv'
<1>1. /\ At(c, "done") /\ Goto(c, "done") /\ mu' \in Calls \cup {Nobody}
      /\ mu' # mu => mu = c
      /\ pc' \in [Calls -> Labels] /\ awaiting' \in [Calls -> BOOLEAN]
      /\ UNCHANGED <<entry, kind, chain>>
  <2>1. TypeOK
    BY DEF Inv, Types
  <2>2. /\ At(c, "done") /\ "done" \in Labels /\ Goto(c, "done") /\ mu' \in Calls \cup {Nobody}
        /\ mu' # mu => mu = c
    BY <2>1, LeaveMu
  <2> QED
    BY <2>1, <2>2, GotoTypes DEF fixed
<1>2. Inside(c) /\ \A d \in Calls : Exchanging(d)' => FALSE
  <2>1. Inside(c) /\ \A d \in Calls : Exchanging(d) => Inside(d)
    BY DEF Exchanging, Inside
  <2>2. \A d \in Calls : Exchanging(d) => d = c
    BY <2>1, Alone DEF Inv, Types, TypeOK
  <2> QED
    BY <1>1, <2>1, <2>2 DEF At, Exchanging
<1>3. Types'
  <2>1. TypeOK'
    BY <1>1 DEF Inv, Types, TypeOK, Labels, fixed, device, session, faults
  <2>2. \A d \in Calls : pc'[d] # "request"
    BY <1>2 DEF Exchanging
  <2> QED
    BY <1>1, <2>1, <2>2 DEF Inv, Types, device
<1>4. MutexOK'
  <2>1. \A d \in Calls : Inside(d)' => d # c /\ Inside(d)
    BY <1>1 DEF At, Inside
  <2>2. \A d \in Calls : Active(d)' => d # c /\ Active(d)
    BY <1>1 DEF At, Active
  <2>3. \A d \in Calls : pc'[d] = "mu" => pc[d] = "mu"
    BY <1>1 DEF At
  <2> QED
    BY <1>1, <2>1, <2>2, <2>3 DEF Inv, MutexOK
<1>5. OpeningOK'
  <2>1. \A d \in Calls : (Opening(d)' => Opening(d)) /\ pc'[d] # "unlock"
    <3>1. \A d \in Calls : pc'[d] # "unlock"
      BY <1>2 DEF Exchanging
    <3>2. \A d \in Calls : Opening(d)' => pc'[d] = "open" /\ d # c
      BY <1>1, <1>2 DEF Opening, At
    <3> QED
      BY <1>1, <3>1, <3>2 DEF At, Opening
  <2> QED
    BY <1>1, <2>1 DEF Inv, OpeningOK, session
<1>6. SignOK' /\ ChunkOK'
  BY <1>2 DEF SignOK, ChunkOK
<1>7. ~ lostSync' => InboxOK'
  BY DEF InboxOK, faults, Inv, Types, TypeOK
<1>8. OwnSignature'
  <2>1. ASSUME ~ lostSync', NEW d \in Calls, result'[d].kind # "none"
        PROVE  /\ result'[d].kind = "signed" /\ result'[d].over = Own(d, 1, Units)
               /\ result'[d].chain = chain \/ chain >= Word
    <3>1. ~ lostSync
      BY <2>1 DEF faults
    <3>2. CASE result'[d] = result[d]
      BY <2>1, <3>1, <3>2 DEF Inv, OwnSignature
    <3>3. CASE result'[d] # result[d]
      BY <2>1, <3>1, <3>3
    <3> QED
      BY <3>2, <3>3
  <2> QED
    BY <1>1, <2>1 DEF OwnSignature, Own
<1>9. UnlockedWasGranted'
  BY DEF Inv, UnlockedWasGranted, device, session, faults
<1> QED
  BY <1>3, <1>4, <1>5, <1>6, <1>7, <1>8, <1>9 DEF Inv

-----------------------------------------------------------------------------
LEMMA ReceiveInv ==
  ASSUME Inv, NEW c \in Calls, Receive(c)
  PROVE  Inv'
<1>0. /\ Exchanging(c) /\ Inside(c) /\ awaiting[c] /\ handle = "live" /\ inbox # <<>>
      /\ inbox' = Tail(inbox)
      /\ UNCHANGED <<fixed, device, handle, faults, sent>>
  BY DEF Receive, Exchanging, Inside
<1>1. /\ Head(inbox) \in Replies /\ Tail(inbox) \in Seq(Replies)
      /\ TypeOK /\ Types /\ request[c] \in DOMAIN Wanted
      /\ request \in [Calls -> DOMAIN Wanted]
      /\ response \in [Calls -> Replies] /\ result \in [Calls -> Replies]
      /\ response[c] \in Replies
      /\ entry \in {"TrezorSigner", "Bridge"}
  <2>1. inbox \in Seq(Replies) /\ inbox # <<>>
    BY <1>0 DEF Inv, Types
  <2> QED
    BY <2>1 DEF Inv, Types, TypeOK
<1>2. ~ lostSync => Fits(c, Head(inbox)) /\ Tail(inbox) = <<>>
  BY <1>0, TheReply
<1>3. lostSync = FALSE => inbox' = <<>>
  BY <1>0, <1>2
<1>4. Outcome(c)
  BY <1>1, ReceiveOutcome
<1>5. ~ lostSync /\ request[c] = "chunk" => pc[c] = "request"
  BY <1>0 DEF Inv, ChunkOK
<1>6. request[c] = "sign" =>
        /\ response[c] = Reply("TxRequest") /\ sent[c] = 1
        /\ dialogue = "pin" /\ pending = "sign" => onDevice = Own(c, 1, 1)
  BY <1>0 DEF Inv, SignOK
<1>7. pc[c] = "unlock" => request[c] = "ping"
  BY DEF Inv, OpeningOK
<1>8. ASSUME NEW l \in {"done", "panicked"}, Leave(c, l), Unanswered PROVE Inv'
  <2>1. /\ UNCHANGED <<fixed, device, session, request, sent, response, result>>
        /\ lostSync' = lostSync /\ lostSync' \in BOOLEAN /\ pinFailed' \in BOOLEAN
    BY <1>0, <1>1, <1>8 DEF Unanswered, session, faults, TypeOK
  <2>2. inbox' \in Seq(Replies) /\ (lostSync' = FALSE => inbox' = <<>>)
    BY <1>0, <1>1, <1>3, <2>1
  <2> QED
    BY <1>0, <1>8, <2>1, <2>2, LeaveInv
<1>9. ASSUME NEW l \in {"unlock", "pin"}, Stays(c, l), Unanswered,
             l = "unlock" => request[c] = "ping",
             l = "pin" /\ ~ lostSync => request[c] # "chunk"
      PROVE  Inv'
  <2>1. /\ UNCHANGED <<fixed, device, handle, faults, sent, result>>
        /\ UNCHANGED <<deviceUnlocked, request, response>>
    BY <1>0, <1>9 DEF Unanswered
  <2>2. request[c] \in {"initialize", "ping"} => Opening(c)
    BY <1>0 DEF Opening
  <2>3. /\ inbox' \in Seq(Replies)
        /\ request' \in [Calls -> DOMAIN Wanted] /\ response' \in [Calls -> Replies]
    BY <1>0, <1>1, <2>1
  <2> QED
    BY <1>0, <1>3, <1>6, <1>9, <2>1, <2>2, <2>3, GoesOn
<1>10. CASE pc[c] = "unlock" /\ Stays(c, "unlock") /\ Unanswered
  BY <1>7, <1>9, <1>10
<1>11. CASE /\ pc[c] = "request" /\ Head(inbox).kind = "PinMatrixRequest"
            /\ Stays(c, "pin") /\ Unanswered
  <2>1. ~ lostSync => request[c] # "chunk"
    BY <1>2, <1>11 DEF Fits
  <2> QED
    BY <1>9, <1>11, <2>1
<1>12. CASE request[c] = "ping" /\ Stays(c, "unlock") /\ Unanswered
  BY <1>9, <1>12
<1>13. CASE /\ request[c] = "initialize" /\ pc[c] # "unlock"
            /\ Stays(c, "request") /\ request' = [request EXCEPT ![c] = "ping"]
            /\ response' = response \/ response' = [response EXCEPT ![c] = Head(inbox)]
            /\ UNCHANGED <<deviceUnlocked, result>>
  <2>1. /\ request' \in [Calls -> DOMAIN Wanted] /\ request'[c] = "ping"
        /\ \A d \in Calls : d # c => request'[d] = request[d]
    BY <1>1, <1>13, Requests
  <2>2. /\ response' \in [Calls -> Replies]
        /\ \A d \in Calls : d # c => response'[d] = response[d]
    BY <1>1, <1>13
  <2>3. Opening(c) /\ inbox' \in Seq(Replies)
    BY <1>0, <1>1, <1>13 DEF Opening
  <2> QED
    BY <1>0, <1>3, <1>13, <2>1, <2>2, <2>3, GoesOn
<1>14. CASE /\ Head(inbox).kind = "Success" /\ kind[c] = "Sign"
            /\ request[c] = "ping" \/ pc[c] = "unlock"
            /\ deviceUnlocked' = TRUE /\ Sign(c) /\ UNCHANGED <<mu, result>>
  <2>1. Opening(c) /\ entry = "TrezorSigner"
    <3>1. Opening(c)
      BY <1>0, <1>7, <1>14 DEF Opening
    <3> QED
      BY <1>1, <1>14, <3>1 DEF Inv, OpeningOK
  <2>2. /\ Goto(c, "request") /\ request'[c] = "sign" /\ response'[c] = Reply("TxRequest")
        /\ \A d \in Calls : d # c => request'[d] = request[d] /\ response'[d] = response[d]
        /\ request' \in [Calls -> DOMAIN Wanted] /\ response' \in [Calls -> Replies]
    BY <1>1, <1>14, SignAt
  <2>3. Unlocks(c)
    BY <1>2, <1>14, <2>1, <2>2 DEF Unlocks, Fits
  <2>4. Stays(c, "request") /\ inbox' \in Seq(Replies)
    BY <1>0, <1>1, <1>14, <2>2 DEF Stays
  <2> QED
    BY <1>0, <1>3, <1>14, <2>2, <2>3, <2>4, GoesOn
<1>15. ASSUME NEW f \in Replies, Filled(c, f),
              ~ lostSync => \/ f.asks = 0 /\ f.V = 0
                            \/ More(c, f)
                            \/ Whole(c, f)
       PROVE  Inv'
  <2>1. /\ request[c] \in {"sign", "chunk"} /\ Stream(c, f)
        /\ response' = [response EXCEPT ![c] = f] /\ UNCHANGED deviceUnlocked
    BY <1>15 DEF Filled
  <2>2. /\ response' \in [Calls -> Replies] /\ response'[c] = f
        /\ \A d \in Calls : d # c => response'[d] = response[d]
    BY <1>1, <2>1
  <2>3. f.asks \in 0..Units /\ f.V \in Nat /\ inbox' \in Seq(Replies)
    BY <1>0, <1>1, <1>15 DEF Replies
  <2>4. CASE /\ f.asks # 0 /\ sent[c] + f.asks <= Units
             /\ Stays(c, "request") /\ request' = [request EXCEPT ![c] = "chunk"]
             /\ UNCHANGED result
    <3>1. /\ request' \in [Calls -> DOMAIN Wanted] /\ request'[c] = "chunk"
          /\ \A d \in Calls : d # c => request'[d] = request[d]
      BY <1>1, <2>4, Requests
    <3>2. ~ lostSync => Streamed(c) /\ f.asks >= 1
      BY <1>15, <2>3, <2>4 DEF More, Whole
    <3> QED
      BY <1>0, <1>3, <2>1, <2>2, <2>3, <2>4, <3>1, <3>2, GoesOn
  <2>5. CASE /\ f.asks = 0 \/ f.asks > Units - sent[c]
             /\ Leave(c, "done") /\ UNCHANGED request
             /\ \/ f.V = 0 /\ UNCHANGED result
                \/ \E k \in {"signed", "rejected"} :
                     /\ f.V # 0 /\ (Parity(f.V) \in {0, 1} => k = "signed")
                     /\ result' = [result EXCEPT ![c] = [f EXCEPT !.kind = k]]
    <3>0. UNCHANGED <<fixed, device, session, faults, sent, request>>
      BY <1>0, <2>1, <2>5 DEF session
    <3>1. CASE UNCHANGED result
      BY <1>0, <1>1, <1>3, <2>2, <2>3, <2>5, <3>0, <3>1, ComesBack
    <3>2. CASE ~ UNCHANGED result
      <4>1. PICK k \in {"signed", "rejected"} :
              /\ f.V # 0 /\ (Parity(f.V) \in {0, 1} => k = "signed")
              /\ result' = [result EXCEPT ![c] = [f EXCEPT !.kind = k]]
        BY <2>5, <3>2
      <4>2. [f EXCEPT !.kind = k] \in Replies
        BY DEF Replies, Kinds
      <4>3. /\ result' \in [Calls -> Replies] /\ result'[c] = [f EXCEPT !.kind = k]
            /\ \A d \in Calls : d # c => result'[d] = result[d]
        BY <1>1, <4>1, <4>2
      <4>4. ~ lostSync =>
              /\ result'[c].kind = "signed" /\ result'[c].over = Own(c, 1, Units)
              /\ result'[c].chain = chain \/ chain >= Word
        <5>1. ~ lostSync => Whole(c, f)
          BY <1>15, <4>1 DEF More
        <5> QED
          BY <4>1, <4>3, <5>1, SignedWhole
      <4> QED
        BY <1>0, <1>3, <2>2, <2>3, <2>5, <3>0, <4>3, <4>4, ComesBack
    <3> QED
      BY <3>1, <3>2
  <2> QED
    BY <2>1, <2>4, <2>5, StreamOutcome
<1>16. CASE Head(inbox).kind = "TxRequest" /\ Filled(c, Head(inbox))
  <2>1. ~ lostSync => More(c, Head(inbox)) \/ Whole(c, Head(inbox))
    BY <1>2, <1>16 DEF Fits, Filled
  <2> QED
    BY <1>1, <1>15, <1>16, <2>1
<1>17. CASE pc[c] = "pin" /\ Filled(c, response[c])
  <2>1. ~ lostSync => request[c] = "sign"
    BY <1>5, <1>17 DEF Filled
  <2>2. ~ lostSync => response[c].asks = 0 /\ response[c].V = 0
    BY <1>6, <2>1 DEF Reply
  <2> QED
    BY <1>1, <1>15, <1>17, <2>2
<1> QED
  BY <1>4, <1>8, <1>10, <1>11, <1>12, <1>13, <1>14, <1>16, <1>17 DEF Outcome

-----------------------------------------------------------------------------
LEMMA NextInv == Inv /\ [Next]_vars => Inv'
<1> SUFFICES ASSUME Inv, [Next]_vars PROVE Inv'
  OBVIOUS
<1>1. ASSUME NEW c \in Calls, Begin(c) PROVE Inv'
  BY <1>1, BeginInv
<1>2. ASSUME NEW c \in Calls, Call(c) PROVE Inv'
  BY <1>2, LockMuInv, OpenFailsInv, OpenDeviceInv, SendInv, NoDeviceInv, ExchangeFailsInv,
     ReceiveInv DEF Call
<1>3. CASE Plug \/ Unplug \/ Lock \/ UNCHANGED vars
  BY <1>3, UserInv
<1> QED
  BY <1>1, <1>2, <1>3 DEF Next

LEMMA InvHolds == Spec => []Inv
BY InitInv, NextInv, PTL DEF Spec

(* Every variable keeps its type, whatever the device answers and in         *)
(* whatever order: Sign counts no more data as sent than there is.           *)
THEOREM TypeCorrect == Spec => []TypeOK
<1>1. Inv => TypeOK
  BY DEF Inv, Types
<1> QED
  BY <1>1, InvHolds, PTL

(* Whoever gets a signature gets one of its own transaction, all of it, for   *)
(* its own chain (if that fits in 32 bits), as long as no failed read has     *)
(* left a reply behind: Sign and ethereumSign of                              *)
(* src/account/trezoreum/trezoreum.go, whatever the PIN dialogues between,    *)
(* however the device divides the data, whatever else is asked before, with   *)
(* the plug pulled at any moment.                                             *)
THEOREM OwnSignatureOnly == Spec => []OwnSignature
<1>1. Inv => OwnSignature
  BY DEF Inv
<1> QED
  BY <1>1, InvHolds, PTL

(* deviceUnlocked of src/account/trezoreum/trezor_signer.go is set by a Ping  *)
(* that the device has granted on an opened handle, never by a PIN or         *)
(* passphrase request or a failure, and no later step takes that back.        *)
THEOREM UnlockedOnlyIfGranted == Spec => []UnlockedWasGranted
<1>1. Inv => UnlockedWasGranted
  BY DEF Inv
<1> QED
  BY <1>1, InvHolds, PTL

-----------------------------------------------------------------------------
(* Nobody waits in vain: the mutex is held only by a call that is at the    *)
(* device, and a call that waits for a reply has one on its way, unless the *)
(* connection is gone.                                                      *)
NobodyWaitsInVain ==
  /\ mu # Nobody => Inside(mu)
  /\ \A c \in Calls :
       Exchanging(c) /\ awaiting[c] /\ handle = "live" => inbox # <<>>

(* A call goes from one place to another, with the mutex it needs there.    *)
LEMMA MoveServed ==
  ASSUME NobodyWaitsInVain, mu \in Calls \cup {Nobody}, NEW c \in Calls, NEW l, At(c, l),
         \/ l \in {"done", "panicked"} /\ mu' = IF mu = c THEN Nobody ELSE mu
         \/ l \in {"open", "request", "pin", "unlock"} /\ mu' \in {mu, c}
         \/ l = "mu" /\ mu' = mu /\ mu # c,
         \/ \A d \in Calls : d # c => ~ Exchanging(d)
         \/ UNCHANGED <<handle, inbox>>
  PROVE  NobodyWaitsInVain'
<1>1. mu' # Nobody => Inside(mu)'
  BY NobodyIsNoCall DEF NobodyWaitsInVain, At, Inside
<1>2. ASSUME NEW d \in Calls, Exchanging(d)', awaiting'[d], handle' = "live"
      PROVE  inbox' # <<>>
  <2>1. d # c /\ Exchanging(d) /\ awaiting[d]
    BY <1>2 DEF At, Exchanging
  <2> QED
    BY <1>2, <2>1 DEF NobodyWaitsInVain
<1> QED
  BY <1>1, <1>2 DEF NobodyWaitsInVain

LEMMA ReceiveServed ==
  ASSUME Inv, NobodyWaitsInVain, NEW c \in Calls, Receive(c)
  PROVE  NobodyWaitsInVain'
<1>1. /\ TypeOK /\ mu \in Calls \cup {Nobody} /\ Outcome(c)
      /\ Exchanging(c) /\ Inside(c)
  BY ReceiveOutcome DEF Inv, Types, TypeOK, Receive, Exchanging, Inside
<1>2. \A d \in Calls : d # c => ~ Exchanging(d)
  BY <1>1, Alone DEF Inv, TypeOK, Exchanging, Inside
<1>3. ASSUME NEW l \in {"done", "panicked"}, Leave(c, l) PROVE NobodyWaitsInVain'
  BY <1>1, <1>2, <1>3, GotoAt, MoveServed DEF Leave
<1>4. ASSUME NEW l \in {"request", "pin", "unlock"}, Goto(c, l), UNCHANGED mu
      PROVE  NobodyWaitsInVain'
  BY <1>1, <1>2, <1>4, GotoAt, MoveServed
<1>5. ASSUME NEW r, Stream(c, r) PROVE NobodyWaitsInVain'
  BY <1>3, <1>4, <1>5 DEF Stream, Exchange, Return
<1>6. ASSUME Sign(c), UNCHANGED mu PROVE NobodyWaitsInVain'
  BY <1>4, <1>6 DEF Sign, Exchange
<1> QED
  BY <1>1, <1>3, <1>4, <1>5, <1>6 DEF Outcome, Stays, Filled

LEMMA ServedStep ==
  ASSUME Inv, NobodyWaitsInVain, [Next]_vars
  PROVE  NobodyWaitsInVain'
<1>1. TypeOK /\ mu \in Calls \cup {Nobody} /\ entry \in {"TrezorSigner", "Bridge"}
  BY DEF Inv, Types, TypeOK
<1>2. ASSUME NEW c \in Calls, Begin(c) PROVE NobodyWaitsInVain'
  <2>1. /\ pc[c] = "idle" /\ UNCHANGED <<mu, handle, inbox>>
        /\ Goto(c, "mu") \/ Goto(c, "open") \/ Goto(c, "request")
    BY <1>2 DEF Begin, Sign, Exchange, session
  <2>2. mu # c
    BY <2>1, NobodyIsNoCall DEF NobodyWaitsInVain, Inside
  <2> QED
    BY <1>1, <2>1, <2>2, GotoAt, MoveServed
<1>3. ASSUME NEW c \in Calls, LockMu(c) PROVE NobodyWaitsInVain'
  <2>1. /\ mu' = c /\ UNCHANGED <<handle, inbox>>
        /\ \E l \in {"open", "request"} : Goto(c, l)
    BY <1>3 DEF LockMu, Sign, Exchange, session
  <2> QED
    BY <1>1, <2>1, GotoAt, MoveServed
<1>4. ASSUME NEW c \in Calls, OpenFails(c) \/ NoDevice(c) PROVE NobodyWaitsInVain'
  <2>1. /\ UNCHANGED <<handle, inbox>>
        /\ \E l \in {"done", "panicked"} : Goto(c, l) /\ mu' = IF mu = c THEN Nobody ELSE mu
    BY <1>4 DEF OpenFails, NoDevice, Return, Leave, session
  <2> QED
    BY <1>1, <2>1, GotoAt, MoveServed
<1>5. ASSUME NEW c \in Calls, ExchangeFails(c) PROVE NobodyWaitsInVain'
  <2>1. /\ UNCHANGED <<handle, inbox>>
        /\ \/ Goto(c, "unlock") /\ UNCHANGED mu
           \/ Goto(c, "done") /\ mu' = IF mu = c THEN Nobody ELSE mu
    BY <1>5 DEF ExchangeFails, Fail, Return, Leave, session
  <2> QED
    BY <1>1, <2>1, GotoAt, MoveServed
<1>6. ASSUME NEW c \in Calls, OpenDevice(c) PROVE NobodyWaitsInVain'
  <2>1. Inside(c) /\ Goto(c, "request") /\ UNCHANGED mu
    BY <1>6 DEF OpenDevice, Inside, Exchange
  <2>2. \A d \in Calls : d # c => ~ Exchanging(d)
    BY <1>1, <2>1, Alone DEF Inv, Exchanging, Inside
  <2> QED
    BY <1>1, <2>1, <2>2, GotoAt, MoveServed
<1>7. ASSUME NEW c \in Calls, Send(c) PROVE NobodyWaitsInVain'
  <2>1. UNCHANGED <<mu, pc>>
    BY <1>7 DEF Send
  <2>2. inbox \in Seq(Replies) /\ \E r \in Replies : inbox' = Append(inbox, r)
    BY <1>7, SendEffect DEF Effect, Replied, Inv, Types
  <2>3. inbox' # <<>>
    BY <2>2
  <2> QED
    BY <2>1, <2>3 DEF NobodyWaitsInVain, Inside
<1>8. ASSUME NEW c \in Calls, Receive(c) PROVE NobodyWaitsInVain'
  BY <1>8, ReceiveServed
<1>9. CASE Plug \/ Lock \/ UNCHANGED vars
  BY <1>9 DEF Plug, Lock, vars, NobodyWaitsInVain, Inside, Exchanging, call, session, device
<1>10. CASE Unplug
  <2>1. UNCHANGED <<mu, pc>> /\ handle' # "live"
    BY <1>10 DEF Unplug
  <2> QED
    BY <2>1 DEF NobodyWaitsInVain, Inside
<1> QED
  BY <1>2, <1>3, <1>4, <1>5, <1>6, <1>7, <1>8, <1>9, <1>10 DEF Next, Call

(* No path of TrezorSigner leaves the mutex locked, panics included, and no *)
(* Exchange of the PIN, data and signing dialogues reads a reply that the   *)
(* device does not owe it: what keeps a call from returning is the device   *)
(* or the user, never another call.                                         *)
THEOREM WaitsAreServed == Spec => []NobodyWaitsInVain
<1>1. Init => NobodyWaitsInVain
  BY DEF Init, NobodyWaitsInVain
<1>2. Inv /\ NobodyWaitsInVain /\ [Next]_vars => NobodyWaitsInVain'
  BY ServedStep
<1> QED
  BY <1>1, <1>2, InvHolds, PTL DEF Spec
==============================================================================
