---------------------------- MODULE TrezorSigner -----------------------------
(***************************************************************************)
(* Signing with a Trezor, through TrezorSigner.SignTx, or through the      *)
(* Bridge (Trezoreum's Unlock, Derive and Sign) called directly, one call  *)
(* at a time.  An exchange is two steps: the device gets the message and   *)
(* puts its reply on the way, and the host takes the first reply that      *)
(* comes.  Meanwhile the device locks itself, asks for the PIN or the      *)
(* passphrase, and leads the streaming of the data; the user mistypes      *)
(* PINs, denies, and pulls the plug; reads fail.                           *)
(***************************************************************************)
EXTENDS Integers, Sequences

CONSTANTS
  Calls,    \* calls, each of its own transaction
  Chains,   \* chain IDs a signer may be made for
  Word,     \* what the device's chain ID wraps at; 2^32, of whole bytes
  Units,    \* length of a transaction's data, in units of 1024 bytes
  Nobody

ASSUME UnitsPositive == Units \in Nat \ {0}
ASSUME ChainsArePositive == Chains \subseteq Nat \ {0} /\ Word \in Nat \ {0}
ASSUME WordIsWhole == Word % 128 = 0
ASSUME NobodyIsNoCall == Nobody \notin Calls

VARIABLES
  entry,           \* "TrezorSigner" or "Bridge"
  chain,           \* the chain ID
  passphrase,      \* does the device ask for a passphrase?
  kind,            \* kind[c]: "Sign" or, of the Bridge, "Unlock" or "Derive"
  plugged, locked,
  dialogue,        \* the device waits for: "none", a "pin" or a "passphrase"
  pending,         \* the request that goes on after the PIN
  onDevice,        \* units of the data the device has, in order
  granted,         \* history: has it answered a Ping with Success since Initialize?
  inbox,           \* replies on their way to the host
  handle,          \* core.device: "nil", "live" or "dead"
  deviceUnlocked, mu,
  lostSync,        \* history: has a read failed and left a reply behind?
  pinFailed,       \* history: has a PIN of Unlock's own loop failed: a wrong one, or
                   \*   a write or a read of it that went wrong?
  pc,              \* pc[c]: "idle", "mu", "open", an exchange: "request" for one
                   \*   of trezorExchange, "pin" for the PIN it asks for, "unlock"
                   \*   for Unlock's PIN; "done" or "panicked"
  request,         \* request[c]: which exchange of trezorExchange
  awaiting,        \* awaiting[c]: is its message sent?
  sent,            \* sent[c]: units of the data sent
  response,        \* response[c]: the Features of Init, then the EthereumTxRequest
                   \*   of Sign
  result           \* result[c]: the signature it came to, "signed" or "rejected"

fixed == <<entry, chain, passphrase, kind>>
device == <<plugged, locked, dialogue, pending, onDevice, granted>>
session == <<handle, deviceUnlocked>>
faults == <<lostSync, pinFailed>>
call == <<request, awaiting, sent, response, result>>
vars == <<fixed, device, inbox, session, mu, faults, pc, call>>

Reply(k) == [kind |-> k, asks |-> 0, over |-> <<>>, chain |-> 0, V |-> 0]
Active(c) == pc[c] \notin {"idle", "done", "panicked"}

Init ==
  /\ entry \in {"TrezorSigner", "Bridge"}
  /\ chain \in Chains /\ passphrase \in BOOLEAN
  /\ kind \in [Calls -> IF entry = "Bridge" THEN {"Unlock", "Derive", "Sign"}
                        ELSE {"Sign"}]
  /\ plugged \in BOOLEAN /\ locked \in BOOLEAN
  /\ dialogue = "none" /\ pending = "ping" /\ onDevice = <<>> /\ granted = FALSE
  /\ inbox = <<>>
  /\ handle = "nil" /\ deviceUnlocked = FALSE /\ mu = Nobody
  /\ lostSync = FALSE /\ pinFailed = FALSE
  /\ pc = [c \in Calls |-> "idle"]
  /\ request = [c \in Calls |-> "initialize"]
  /\ awaiting = [c \in Calls |-> FALSE]
  /\ sent = [c \in Calls |-> 0]
  /\ response = [c \in Calls |-> Reply("none")]
  /\ result = [c \in Calls |-> Reply("none")]

-----------------------------------------------------------------------------
(* The device.  Whoever sends it a message also assigns pc and call.       *)
Answer(r) == inbox' = Append(inbox, r)
Refuse == Answer(Reply("Failure")) /\ dialogue' = "none" /\ onDevice' = <<>>

(* request.ChainId = uint32(chainID.Int64()) *)
DeviceChain == chain % Word

(* The user confirms or denies the complete transaction; before, the device *)
(* asks for more of its data.                                               *)
SignOrAsk(data) ==
  \/ /\ Len(data) = Units
     /\ \/ \E parity \in {0, 1} :
             Answer([kind |-> "TxRequest", asks |-> 0, over |-> data,
                     chain |-> DeviceChain, V |-> 2 * DeviceChain + 35 + parity])
        \/ Answer(Reply("Failure"))
     /\ onDevice' = <<>>
  \/ /\ Len(data) < Units
     /\ \E n \in 1..(Units - Len(data)) :
          Answer([Reply("TxRequest") EXCEPT !.asks = n])
     /\ onDevice' = data

(* A request, once the PIN is known. *)
Proceed(r, data) ==
  IF passphrase
    THEN /\ dialogue' = "passphrase" /\ Answer(Reply("PassphraseRequest"))
         /\ onDevice' = data /\ UNCHANGED granted
    ELSE /\ dialogue' = "none"
         /\ granted' = (granted \/ r = "ping")
         /\ IF r = "sign" THEN SignOrAsk(data)
            ELSE /\ Answer(Reply(IF r = "ping" THEN "Success" ELSE "Address"))
                 /\ onDevice' = data

(* Initialize ends whatever the device was at.                             *)
Initialize ==
  /\ Answer(Reply("Features"))
  /\ dialogue' = "none" /\ onDevice' = <<>> /\ granted' = FALSE
  /\ UNCHANGED <<locked, pending>>

(* A new request in the middle of a dialogue is refused or replaces it.    *)
Requested(r, data) ==
  \/ /\ dialogue # "none"
     /\ Refuse
     /\ UNCHANGED <<locked, pending, granted>>
  \/ /\ locked
     /\ Answer(Reply("PinMatrixRequest"))
     /\ dialogue' = "pin" /\ pending' = r /\ onDevice' = data
     /\ UNCHANGED <<locked, granted>>
  \/ /\ ~ locked
     /\ Proceed(r, data)
     /\ UNCHANGED <<locked, pending>>

(* EthereumTxAck *)
MoreData(data) ==
  /\ IF dialogue = "none" /\ onDevice # <<>>
       THEN SignOrAsk(onDevice \o data) /\ UNCHANGED dialogue
       ELSE Refuse
  /\ UNCHANGED <<locked, pending, granted>>

(* PinMatrixAck.  After a wrong PIN the dialogue is over; some firmware may *)
(* ask again.                                                               *)
PinEntered(right) ==
  \/ /\ dialogue = "pin" /\ right
     /\ locked' = FALSE
     /\ Proceed(pending, onDevice)
     /\ UNCHANGED pending
  \/ /\ dialogue # "pin" \/ ~ right
     /\ Refuse
     /\ UNCHANGED <<locked, pending, granted>>
  \/ /\ dialogue = "pin" /\ ~ right
     /\ Answer(Reply("PinMatrixRequest"))
     /\ UNCHANGED <<dialogue, locked, pending, onDevice, granted>>

-----------------------------------------------------------------------------
(* The host.                                                               *)
Goto(c, label) ==
  /\ pc' = [pc EXCEPT ![c] = label]
  /\ awaiting' = [awaiting EXCEPT ![c] = FALSE]

(* The deferred unlocks.                                                   *)
Leave(c, label) == Goto(c, label) /\ mu' = IF mu = c THEN Nobody ELSE mu
Return(c) == Leave(c, "done")

Exchange(c, r) == Goto(c, "request") /\ request' = [request EXCEPT ![c] = r]

(* Faulty variants: a mutex that does not exclude, a PIN request taken for   *)
(* an unlocked device, and trezorExchange asking for PINs as Unlock does.    *)
MuFreeAlways == TRUE
PingedWithoutPin(c, i) ==
  deviceUnlocked' = TRUE /\ Exchange(c, "sign") /\ UNCHANGED <<mu, response>>
FailAsksAgain(c) ==
  IF pc[c] \in {"unlock", "pin"} THEN Goto(c, pc[c]) /\ UNCHANGED mu ELSE Return(c)

(* Sign begins with an empty response.                                     *)
Sign(c) == Exchange(c, "sign") /\ response' = [response EXCEPT ![c] = Reply("TxRequest")]

MuFree == mu = Nobody

Begin(c) ==
  /\ pc[c] = "idle"
  /\ entry = "Bridge" => \A d \in Calls : ~ Active(d)
  /\ IF entry = "TrezorSigner" THEN Goto(c, "mu") /\ UNCHANGED <<request, response>>
     ELSE IF kind[c] = "Unlock" THEN Goto(c, "open") /\ UNCHANGED <<request, response>>
     ELSE IF kind[c] = "Derive" THEN Exchange(c, "derive") /\ UNCHANGED response
     ELSE Sign(c)
  /\ UNCHANGED <<fixed, device, inbox, session, mu, faults, sent, result>>

LockMu(c) ==
  /\ pc[c] = "mu" /\ MuFree
  /\ mu' = c
  /\ IF deviceUnlocked THEN Sign(c) ELSE Goto(c, "open") /\ UNCHANGED <<request, response>>
  /\ UNCHANGED <<fixed, device, inbox, session, faults, sent, result>>

OpenFails(c) ==
  /\ pc[c] = "open"
  /\ Return(c)
  /\ UNCHANGED <<fixed, device, inbox, session, faults, request, sent, response, result>>

(* A new handle may find what was left for the old one.                    *)
OpenDevice(c) ==
  /\ pc[c] = "open" /\ plugged
  /\ handle' = "live"
  /\ inbox' \in {inbox, <<>>}
  /\ Exchange(c, "initialize")
  /\ UNCHANGED <<fixed, device, deviceUnlocked, mu, faults, sent, response, result>>

-----------------------------------------------------------------------------
(* The messages a reply may be, in the order Exchange compares it with: the *)
(* caller's, the PIN request of trezorExchange, and those of UnlockByPin.   *)
Wanted == [
  initialize |-> <<"Features">>,
  ping |-> <<"PinMatrixRequest", "PassphraseRequest", "Success">>,
  derive |-> <<"Address">>, sign |-> <<"TxRequest">>, chunk |-> <<"TxRequest">>]

Expected(c) == Append(Wanted[request[c]], "PinMatrixRequest")
PinResults == <<"Success", "PassphraseRequest">>
Results(c) == CASE pc[c] = "request" -> Expected(c)
                [] pc[c] = "pin" -> Expected(c) \o PinResults
                [] pc[c] = "unlock" -> PinResults

(* The index Exchange returns, from 1; 0 for a failure or another message.  *)
Index(c, k) ==
  LET hits == {i \in DOMAIN Results(c) : Results(c)[i] = k}
  IN  IF hits = {} THEN 0 ELSE CHOOSE i \in hits : \A j \in hits : i <= j

Exchanging(c) == pc[c] \in {"request", "pin", "unlock"}
Own(c, first, last) == [i \in 1..(last - first + 1) |-> <<c, first + i - 1>>]

(* core.Exchange writes the message.  With a chunk goes what the response   *)
(* asked for, with the PIN what the user types.                             *)
Send(c) ==
  /\ Exchanging(c) /\ ~ awaiting[c] /\ handle = "live"
  /\ awaiting' = [awaiting EXCEPT ![c] = TRUE]
  /\ \/ /\ pc[c] = "request"
        /\ \/ request[c] = "initialize" /\ Initialize /\ UNCHANGED sent
           \/ request[c] \in {"ping", "derive"} /\ Requested(request[c], <<>>)
              /\ UNCHANGED sent
           \/ request[c] = "sign" /\ Requested("sign", Own(c, 1, 1))
              /\ sent' = [sent EXCEPT ![c] = 1]
           \/ /\ request[c] = "chunk"
              /\ LET to == sent[c] + response[c].asks
                 IN  MoreData(Own(c, sent[c] + 1, to)) /\ sent' = [sent EXCEPT ![c] = to]
        /\ UNCHANGED pinFailed
     \/ /\ pc[c] \in {"pin", "unlock"}
        /\ \E right \in BOOLEAN :
             /\ PinEntered(right)
             /\ pinFailed' = (pinFailed \/ (pc[c] = "unlock" /\ ~ right))
        /\ UNCHANGED sent
  /\ UNCHANGED <<fixed, plugged, session, mu, lostSync, pc, request, response, result>>

NoDevice(c) ==
  /\ Exchanging(c) /\ handle = "nil"
  /\ Leave(c, "panicked")
  /\ UNCHANGED <<fixed, device, inbox, session, faults, request, sent, response, result>>

(* An error of an exchange: Unlock's own loop prints it and asks for        *)
(* another PIN, everyone else returns it.                                   *)
Fail(c) == IF pc[c] = "unlock" THEN Goto(c, "unlock") /\ UNCHANGED mu ELSE Return(c)

(* The handle is dead, or a write or a read fails on a live one, and the    *)
(* reply stays where it is; the latter is bounded to once.  While writes    *)
(* fail, Unlock's loop asks for PIN after PIN.                              *)
ExchangeFails(c) ==
  /\ Exchanging(c)
  /\ \/ handle = "dead" /\ UNCHANGED lostSync
     \/ handle = "live" /\ ~ awaiting[c] /\ UNCHANGED lostSync
     \/ handle = "live" /\ awaiting[c] /\ ~ lostSync /\ lostSync' = TRUE
  /\ pinFailed' = (pinFailed \/ pc[c] = "unlock")
  /\ Fail(c)
  /\ UNCHANGED <<fixed, device, inbox, session, request, sent, response, result>>

-----------------------------------------------------------------------------
(* Init has returned and Unlock with it.  Without Features it panics.       *)
Ready(c) ==
  IF response[c].kind # "Features"
    THEN Leave(c, "panicked") /\ UNCHANGED <<deviceUnlocked, request, response>>
  ELSE IF kind[c] = "Sign"
    THEN deviceUnlocked' = TRUE /\ Sign(c) /\ UNCHANGED mu
  ELSE Return(c) /\ UNCHANGED <<deviceUnlocked, request, response>>

(* The states of Init, by the index of the Ping's reply.                    *)
Pinged(c, i) ==
  CASE i = 1 /\ response[c].kind = "Features" ->
         Goto(c, "unlock") /\ UNCHANGED <<deviceUnlocked, mu, request, response>>
    [] i = 2 /\ response[c].kind = "Features" ->
         Return(c) /\ UNCHANGED <<deviceUnlocked, request, response>>
    [] OTHER -> Ready(c)

(* signature[64] -= byte(chainID.Uint64()*2 + 35), of one byte of the V     *)
Parity(V) == ((V % 256) - (2 * chain + 35)) % 256

(* The chunk loop of Sign, and what becomes of the signature.               *)
Stream(c, reply) ==
  IF reply.asks # 0 /\ reply.asks <= Units - sent[c]
    THEN Exchange(c, "chunk") /\ UNCHANGED <<mu, result>>
    ELSE /\ Return(c) /\ UNCHANGED request
         /\ IF reply.V = 0 THEN UNCHANGED result
            ELSE result' = [result EXCEPT ![c] =
                   [reply EXCEPT !.kind = IF Parity(reply.V) \in {0, 1} THEN "signed"
                                          ELSE "rejected"]]

(* What the exchange's caller does with its index.  Sign and Derive do not  *)
(* look at it: a reply that is not the one they wait for leaves the         *)
(* response as it was.                                                      *)
Handle(c, i, reply) ==
  CASE request[c] = "initialize" ->
         /\ Exchange(c, "ping")
         /\ response' = IF i = 1 THEN [response EXCEPT ![c] = reply] ELSE response
         /\ UNCHANGED <<deviceUnlocked, mu, result>>
    [] request[c] = "ping" -> Pinged(c, i) /\ UNCHANGED result
    [] request[c] = "derive" ->
         Return(c) /\ UNCHANGED <<deviceUnlocked, request, response, result>>
    [] OTHER ->
         LET filled == IF i = 1 THEN reply ELSE response[c]
         IN  /\ Stream(c, filled)
             /\ response' = [response EXCEPT ![c] = filled]
             /\ UNCHANGED deviceUnlocked

(* UnlockByPin takes the last of its results for an error.                  *)
Receive(c) ==
  /\ Exchanging(c) /\ awaiting[c] /\ handle = "live" /\ inbox # <<>>
  /\ inbox' = Tail(inbox)
  /\ LET i == Index(c, Head(inbox).kind)
         last == Len(Results(c))
     IN  \/ /\ i = 0 \/ (pc[c] # "request" /\ i = last)
            /\ Fail(c)
            /\ UNCHANGED <<deviceUnlocked, request, response, result>>
         \/ /\ pc[c] = "request" /\ i = last
            /\ Goto(c, "pin")
            /\ UNCHANGED <<deviceUnlocked, mu, request, response, result>>
         \/ /\ pc[c] = "unlock" /\ i = 1
            /\ Ready(c)
            /\ UNCHANGED result
         \/ /\ pc[c] # "unlock" /\ i \notin {0, last}
            /\ Handle(c, i, Head(inbox))
  /\ UNCHANGED <<fixed, device, handle, faults, sent>>

Call(c) ==
  \/ LockMu(c) \/ OpenFails(c) \/ OpenDevice(c)
  \/ Send(c) \/ NoDevice(c) \/ ExchangeFails(c) \/ Receive(c)

-----------------------------------------------------------------------------
(* The user, and the device's timer.  Unplugged, a device forgets all.      *)
Plug ==
  /\ ~ plugged
  /\ plugged' = TRUE
  /\ UNCHANGED <<fixed, locked, dialogue, pending, onDevice, granted, inbox, session, mu,
                 faults, pc, call>>

Unplug ==
  /\ plugged
  /\ plugged' = FALSE /\ locked' \in BOOLEAN
  /\ dialogue' = "none" /\ onDevice' = <<>> /\ inbox' = <<>>
  /\ handle' = IF handle = "live" THEN "dead" ELSE handle
  /\ UNCHANGED <<fixed, pending, granted, deviceUnlocked, mu, faults, pc, call>>

Lock ==
  /\ plugged /\ ~ locked /\ dialogue = "none" /\ onDevice = <<>>
  /\ locked' = TRUE
  /\ UNCHANGED <<fixed, plugged, dialogue, pending, onDevice, granted, inbox, session, mu,
                 faults, pc, call>>

Next ==
  \/ \E c \in Calls : Begin(c) \/ Call(c)
  \/ Plug \/ Unplug \/ Lock

(* The device answers and the user types; nothing makes the faults happen.  *)
Spec ==
  /\ Init /\ [][Next]_vars
  /\ \A c \in Calls : WF_vars(Call(c))

-----------------------------------------------------------------------------
TypeOK ==
  /\ entry \in {"TrezorSigner", "Bridge"} /\ chain \in Chains /\ passphrase \in BOOLEAN
  /\ kind \in [Calls -> {"Unlock", "Derive", "Sign"}]
  /\ plugged \in BOOLEAN /\ locked \in BOOLEAN /\ granted \in BOOLEAN
  /\ dialogue \in {"none", "pin", "passphrase"} /\ pending \in {"ping", "derive", "sign"}
  /\ onDevice \in Seq(Calls \X (1..Units))
  /\ handle \in {"nil", "live", "dead"} /\ deviceUnlocked \in BOOLEAN
  /\ mu \in Calls \cup {Nobody} /\ lostSync \in BOOLEAN /\ pinFailed \in BOOLEAN
  /\ pc \in [Calls -> {"idle", "mu", "open", "request", "pin", "unlock", "done", "panicked"}]
  /\ request \in [Calls -> DOMAIN Wanted] /\ awaiting \in [Calls -> BOOLEAN]
  /\ sent \in [Calls -> 0..Units]

(* Who gets a signature gets that of this transaction and of all of it, the  *)
(* byte of V fits, and it is for the signer's chain, unless that has more    *)
(* than 32 bits.  It takes that no failed read has left a reply behind.      *)
OwnSignature ==
  ~ lostSync =>
    \A c \in Calls : result[c].kind # "none" =>
      /\ result[c].kind = "signed"
      /\ result[c].over = Own(c, 1, Units)
      /\ result[c].chain = chain \/ chain >= Word

(* A signer that counts the device as unlocked, for good, has opened it, and *)
(* the device itself has granted the Ping, not a PIN request, a failure or a *)
(* passphrase request taken for that.                                        *)
UnlockedWasGranted ==
  ~ lostSync /\ deviceUnlocked => handle # "nil" /\ granted

(* Every call comes to an end, however often the device asks for the PIN and *)
(* for data, and whatever is denied, if the device stays plugged and needs   *)
(* no passphrase, no reply is lost, and the first PIN Unlock asks for gets   *)
(* to the device and is right.  Each of these is needed: Unlock's loop ends  *)
(* by a success only; there is none for a second PIN, and while its writes   *)
(* fail it goes round for ever.                                              *)
CallsReturn ==
  [](plugged /\ ~ passphrase /\ ~ lostSync /\ ~ pinFailed) =>
    \A c \in Calls : Active(c) ~> ~ Active(c)
=============================================================================
