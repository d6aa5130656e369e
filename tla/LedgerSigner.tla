---------------------------- MODULE LedgerSigner -----------------------------
(***************************************************************************)
(* Signing with a Ledger, through LedgerSigner.SignTx as the accounts do,  *)
(* or through Ledgereum.Unlock and Sign: opening the device, finding out   *)
(* the version of its app, streaming the transaction in chunks, and what   *)
(* becomes of the signature.  Meanwhile the user plugs the device in and   *)
(* out, opens and closes the app, and confirms or denies; writes and reads *)
(* fail on a connection that goes on to work, and a reply nobody read, or  *)
(* the rest of one, is what the next exchange reads.  LedgerSigner         *)
(* serialises its calls; of Ledgereum, that does not, callers make one at  *)
(* a time.  One step is one exchange with the device.                      *)
(***************************************************************************)
EXTENDS Integers, Sequences

CONSTANTS
  Calls,    \* calls, each of its own transaction
  Chains,   \* chain IDs a signer may be made for
  NoChain,  \* the nil chain ID, which asks for a Homestead signature
  Chunks,   \* the largest number of chunks of a transaction
  Nobody

ASSUME ChunksPositive == Chunks \in Nat \ {0}
ASSUME ChainsArePositive == Chains \subseteq Nat \ {0}
ASSUME NilIsNoChain == NoChain \notin Nat
ASSUME NobodyIsNoCall == Nobody \notin Calls

VARIABLES
  entry,           \* "LedgerSigner" or "Ledgereum"
  chain,           \* the chain ID, for Ledgereum maybe NoChain
  installed,       \* the Ethereum app of the device: "old", before 1.0.3, or "new"
  plugged, running,\* is the device there, does it run "app", "browser" or neither
  onDevice,        \* chunks of the transaction the device has, in order
  inbox,           \* replies on their way to the host: [kind, over, V]
  lostSync,        \* history: has an exchange left something behind in inbox?
  handle,          \* driver.device: "nil", "live" or "dead"
  version,         \* driver.version: "zero", "assumed" 1.0.0, "old" or "new"
  deviceUnlocked, mu,
  kind,            \* kind[c]: "Sign" or, of Ledgereum, "Unlock"
  size,            \* size[c]: number of chunks of its transaction
  pc,              \* pc[c]: where the call is, at last "done" or "panicked"
  chunk,           \* chunk[c]: the next chunk to send
  result           \* result[c]: what it returned: [signed, over, V]

deviceVars == <<plugged, running, onDevice>>
session == <<handle, version, deviceUnlocked>>
fixed == <<entry, chain, installed, kind, size>>
usb == <<inbox, lostSync>>
vars == <<fixed, deviceVars, usb, session, mu, pc, chunk, result>>

Bare(k) == [kind |-> k, over |-> <<>>, V |-> 0]
Unsigned == [signed |-> FALSE, over |-> <<>>, V |-> 0]
Active(c) == pc[c] \notin {"idle", "done", "panicked"}

Init ==
  /\ entry \in {"LedgerSigner", "Ledgereum"}
  /\ chain \in Chains \cup (IF entry = "Ledgereum" THEN {NoChain} ELSE {})
  /\ installed \in {"old", "new"}
  /\ plugged \in BOOLEAN /\ running = "none" /\ onDevice = <<>>
  /\ inbox = <<>> /\ lostSync = FALSE
  /\ handle = "nil" /\ version = "zero"
  /\ deviceUnlocked = FALSE /\ mu = Nobody
  /\ kind \in [Calls -> IF entry = "Ledgereum" THEN {"Sign", "Unlock"} ELSE {"Sign"}]
  /\ size \in [Calls -> 1..Chunks]
  /\ pc = [c \in Calls |-> "idle"]
  /\ chunk = [c \in Calls |-> 1]
  /\ result = [c \in Calls |-> Unsigned]

Goto(c, label) == pc' = [pc EXCEPT ![c] = label]

(* defer self.mu.Unlock() *)
Return(c) == Goto(c, "done") /\ mu' = IF mu = c THEN Nobody ELSE mu

(* A panic runs the deferred Unlock too.                                    *)
Panic(c) == Goto(c, "panicked") /\ mu' = IF mu = c THEN Nobody ELSE mu

(* Faulty variants: a mutex that does not exclude, a failed version query   *)
(* that trusts the app, and a signature that is not looked at any more.     *)
MuFreeAlways == TRUE
VersionOnErrorTrusting == "new"
SenderUnchecked(V) == TRUE

MuFree == mu = Nobody
VersionOnError == "assumed"

-----------------------------------------------------------------------------
Begin(c) ==
  /\ pc[c] = "idle"
  /\ entry = "Ledgereum" => \A d \in Calls : ~ Active(d)
  /\ Goto(c, IF entry = "LedgerSigner" THEN "mu"
             ELSE IF kind[c] = "Unlock" THEN "enumerate" ELSE "check")
  /\ UNCHANGED <<fixed, deviceVars, usb, session, mu, chunk, result>>

LockMu(c) ==
  /\ pc[c] = "mu" /\ MuFree
  /\ mu' = c
  /\ Goto(c, IF deviceUnlocked THEN "sign" ELSE "enumerate")
  /\ UNCHANGED <<fixed, deviceVars, usb, session, chunk, result>>

(* Unlock succeeds: the call goes on, if it is to sign.                     *)
Unlocked(c) ==
  /\ deviceUnlocked' = TRUE
  /\ IF kind[c] = "Sign" THEN Goto(c, "sign") /\ UNCHANGED mu ELSE Return(c)

(* No device, or an error of Enumerate or Open.                             *)
UnlockFails(c) ==
  /\ pc[c] \in {"enumerate", "open"}
  /\ Return(c)
  /\ UNCHANGED <<fixed, deviceVars, usb, session, chunk, result>>

(* A device of the vendor, but none of the known products and interfaces:   *)
(* nothing is opened, and this counts as unlocked.                          *)
NoProduct(c) ==
  /\ pc[c] = "enumerate" /\ plugged
  /\ Unlocked(c)
  /\ UNCHANGED <<fixed, deviceVars, usb, handle, version, chunk, result>>

Product(c) ==
  /\ pc[c] = "enumerate" /\ plugged
  /\ Goto(c, "open")
  /\ UNCHANGED <<fixed, deviceVars, usb, session, mu, chunk, result>>

(* A new connection may still find what was left on the old one.           *)
OpenDevice(c) ==
  /\ pc[c] = "open" /\ plugged
  /\ handle' = "live"
  /\ inbox' \in {inbox, <<>>}
  /\ Goto(c, "derive")
  /\ UNCHANGED <<fixed, deviceVars, lostSync, version, deviceUnlocked, mu, chunk, result>>

-----------------------------------------------------------------------------
(* The device.  The app collects the chunks of a transaction; what it has   *)
(* with the one of this exchange, which any other request makes it forget.  *)
Received(c) ==
  IF running # "app" \/ pc[c] # "sign" THEN <<>>
  ELSE IF chunk[c] = 1 THEN <<<<c, 1>>>>
  ELSE IF onDevice = <<>> THEN <<>>
  ELSE Append(onDevice, <<c, chunk[c]>>)

(* The first chunk begins with the length of the transaction.               *)
Complete(data) == data # <<>> /\ Len(data) = size[data[1][1]]

(* The byte of V: an old app, or one asked to, signs in Homestead mode.     *)
DeviceV ==
  IF chain = NoChain THEN {0, 1, 27, 28}
  ELSE IF installed = "old" THEN {27, 28}
  ELSE {(2 * chain + 35) % 256, (2 * chain + 36) % 256}

(* A bare status for a chunk more, a denial, a locked device, a request the *)
(* app does not know, or no app; another header in browser mode; or what    *)
(* was asked for, once the transaction is complete and the user confirms.   *)
Answers(c) ==
  {Bare(IF running = "browser" THEN "foreign" ELSE "status")} \cup
  (IF running = "app" /\ pc[c] = "derive" THEN {Bare("address")} ELSE {}) \cup
  (IF running = "app" /\ pc[c] = "version" THEN {Bare("version")} ELSE {}) \cup
  (IF Complete(Received(c))
     THEN [kind : {"signature"}, over : {Received(c)}, V : DeviceV] ELSE {})

(* The device gets the message and answers.                                 *)
Deliver(c) ==
  /\ handle = "live"
  /\ onDevice' \in {<<>>} \cup (IF Complete(Received(c)) THEN {} ELSE {Received(c)})
Arriving(c) == {Append(inbox, r) : r \in Answers(c)}

(* ledgerExchange: the reply is the first that comes; of the rest of one    *)
(* it would have to cut off a status that is not there.                     *)
Take(c, w) ==
  /\ Deliver(c)
  /\ inbox' = Tail(w)
  /\ lostSync' = (lostSync \/ Tail(w) # <<>>)
Readable(w) == Head(w).kind \notin {"foreign", "rest"}

(* Reads that fail: none of the frames is read, or the first of two, or a   *)
(* foreign one, which may not be the last.                                  *)
Unread(w) ==
  {w} \cup (IF Head(w).kind \in {"address", "signature"}
              THEN {<<Bare("rest")>> \o Tail(w)} ELSE {})
       \cup (IF Head(w).kind = "foreign" THEN {Tail(w)} ELSE {})

(* An exchange that returns an error: a write fails, or a read.             *)
ExchangeError(c) ==
  \/ handle # "nil" /\ UNCHANGED <<onDevice, usb>>
  \/ /\ Deliver(c)
     /\ \E w \in Arriving(c) : inbox' \in Unread(w)
     /\ lostSync' = (lostSync \/ inbox' # <<>>)

(* Open asks for an address to see whether the app runs.  If there is no    *)
(* address in the reply, it leaves the version as it was and reports no     *)
(* error.  A version or a signature may read like an address.               *)
Derive(c) ==
  /\ pc[c] = "derive"
  /\ \/ ExchangeError(c) /\ Unlocked(c)
     \/ \E w \in Arriving(c) :
          /\ Take(c, w) /\ Readable(w)
          /\ \/ /\ Head(w).kind # "status"
                /\ Goto(c, "version") /\ UNCHANGED <<deviceUnlocked, mu>>
             \/ Head(w).kind # "address" /\ Unlocked(c)
  /\ UNCHANGED <<fixed, plugged, running, handle, version, chunk, result>>

(* Apps before 1.0.2 do not know the query.  Only the reply to it has the   *)
(* length of a version.                                                     *)
Version(c) ==
  /\ pc[c] = "version"
  /\ \/ ExchangeError(c) /\ version' = VersionOnError
     \/ \E w \in Arriving(c) :
          /\ Take(c, w) /\ Readable(w)
          /\ version' = IF Head(w).kind = "version" THEN installed ELSE VersionOnError
  /\ Unlocked(c)
  /\ UNCHANGED <<fixed, plugged, running, handle, chunk, result>>

(* ledgerDriver.SignTx, which LedgerSigner does not call.                   *)
CheckVersion(c) ==
  /\ pc[c] = "check"
  /\ IF version # "zero" /\ (chain = NoChain \/ version = "new")
       THEN Goto(c, "sign") /\ UNCHANGED mu
       ELSE Return(c)
  /\ UNCHANGED <<fixed, deviceVars, usb, session, chunk, result>>

-----------------------------------------------------------------------------
(* signature[64] -= byte(chainID.Uint64()*2 + 35) *)
Adjusted(v) == (v - (2 * chain + 35)) % 256

(* go-ethereum: the V of the signed transaction, and the chain the signer's *)
(* Sender derives from it; 27 and 28 are of no chain.                       *)
SignedV(v) == IF chain = NoChain THEN (v + 27) % 256
              ELSE ((Adjusted(v) + 35) % 256) + (2 * chain)
Protected(V) == V \notin {27, 28}
ChainOf(V) == (V - 35) \div 2
SenderKnown(V) == ~ Protected(V) \/ (chain # NoChain /\ ChainOf(V) = chain)

NoDevice(c) ==
  /\ pc[c] = "sign" /\ handle = "nil"
  /\ Panic(c)
  /\ UNCHANGED <<fixed, deviceVars, usb, session, chunk, result>>

(* Of the rest of a reply ledgerExchange makes no reply, but cuts it.       *)
NoStatus(c) ==
  /\ pc[c] \in {"derive", "version", "sign"}
  /\ \E w \in Arriving(c) : Take(c, w) /\ Head(w).kind = "rest"
  /\ Panic(c)
  /\ UNCHANGED <<fixed, plugged, running, session, chunk, result>>

ExchangeFails(c) ==
  /\ pc[c] = "sign" /\ ExchangeError(c)
  /\ Return(c)
  /\ UNCHANGED <<fixed, plugged, running, session, chunk, result>>

(* Nobody looks at the reply to a chunk that is not the last.               *)
SendChunk(c) ==
  /\ pc[c] = "sign" /\ chunk[c] < size[c]
  /\ \E w \in Arriving(c) : Take(c, w) /\ Readable(w)
  /\ chunk' = [chunk EXCEPT ![c] = @ + 1]
  /\ UNCHANGED <<fixed, plugged, running, session, mu, pc, result>>

(* The reply to the last chunk: a signature, if it is as long as one, and   *)
(* the caller has it if its V is one the signer derives a sender from.      *)
LastChunk(c) ==
  /\ pc[c] = "sign" /\ chunk[c] = size[c]
  /\ \E w \in Arriving(c) :
       LET reply == Head(w)
       IN  /\ Take(c, w) /\ Readable(w)
           /\ result' =
                IF reply.kind = "signature" /\ SenderKnown(SignedV(reply.V))
                  THEN [result EXCEPT ![c] = [signed |-> TRUE, over |-> reply.over,
                                              V |-> SignedV(reply.V)]]
                  ELSE result
  /\ Return(c)
  /\ UNCHANGED <<fixed, plugged, running, session, chunk>>

Call(c) ==
  \/ Begin(c) \/ LockMu(c)
  \/ UnlockFails(c) \/ NoProduct(c) \/ Product(c) \/ OpenDevice(c)
  \/ Derive(c) \/ Version(c) \/ CheckVersion(c)
  \/ NoDevice(c) \/ NoStatus(c) \/ ExchangeFails(c) \/ SendChunk(c) \/ LastChunk(c)

-----------------------------------------------------------------------------
Plug ==
  /\ ~ plugged
  /\ plugged' = TRUE /\ running' = "none" /\ onDevice' = <<>>
  /\ UNCHANGED <<fixed, usb, session, mu, pc, chunk, result>>

Unplug ==
  /\ plugged
  /\ plugged' = FALSE /\ running' = "none" /\ onDevice' = <<>>
  /\ handle' = IF handle = "live" THEN "dead" ELSE handle
  /\ UNCHANGED <<fixed, usb, version, deviceUnlocked, mu, pc, chunk, result>>

Switch ==
  /\ plugged
  /\ running' \in {"app", "browser", "none"} \ {running}
  /\ onDevice' = <<>>
  /\ UNCHANGED <<fixed, plugged, usb, session, mu, pc, chunk, result>>

Next ==
  \/ \E c \in Calls : Call(c)
  \/ Plug \/ Unplug \/ Switch

Spec == Init /\ [][Next]_vars

-----------------------------------------------------------------------------
ReplyRecords == [kind : {"address", "version", "signature", "status", "foreign", "rest"},
                 over : Seq(Calls \X (1..Chunks)), V : Nat]

TypeOK ==
  /\ entry \in {"LedgerSigner", "Ledgereum"} /\ chain \in Chains \cup {NoChain}
  /\ installed \in {"old", "new"} /\ kind \in [Calls -> {"Sign", "Unlock"}]
  /\ size \in [Calls -> 1..Chunks]
  /\ plugged \in BOOLEAN /\ running \in {"app", "browser", "none"}
  /\ onDevice \in Seq(Calls \X (1..Chunks))
  /\ inbox \in Seq(ReplyRecords) /\ lostSync \in BOOLEAN
  /\ handle \in {"nil", "live", "dead"}
  /\ version \in {"zero", "assumed", "old", "new"}
  /\ deviceUnlocked \in BOOLEAN /\ mu \in Calls \cup {Nobody}
  /\ pc \in [Calls -> {"idle", "mu", "enumerate", "open", "derive", "version",
                       "check", "sign", "done", "panicked"}]
  /\ chunk \in [Calls -> 1..Chunks]
  /\ result \in [Calls -> [signed : BOOLEAN, over : Seq(Calls \X (1..Chunks)), V : Nat]]

Transaction(c) == [k \in 1..size[c] |-> <<c, k>>]

(* Who gets a signed transaction gets a signature of one whole transaction: *)
(* chunks of two calls never mix on the device, whatever connections, apps, *)
(* exchanges and calls fail in between.  It is the caller's own, unless an  *)
(* exchange has left something behind: the driver takes the next reply that *)
(* comes for the one to its request, and after a read that failed that may  *)
(* be the signature of the call before.                                     *)
OwnSignature ==
  \A c \in Calls : result[c].signed =>
    /\ \E d \in Calls : result[c].over = Transaction(d)
    /\ ~ lostSync => result[c].over = Transaction(c)

(* The V of a signed transaction is that of the signer's chain.  The one    *)
(* byte the device returns is enough for that, for every chain ID; only an  *)
(* old app on a chain up to 14 gets around it.  This is about V alone: on   *)
(* chain 124, and every 128 chains from there, the byte an old app returns  *)
(* wraps around to the chain's V, under a signature of the Homestead hash.  *)
(* A nil chain ID binds to no chain.                                        *)
SignedForChain ==
  \A c \in Calls : result[c].signed /\ chain # NoChain =>
    \/ Protected(result[c].V) /\ ChainOf(result[c].V) = chain
    \/ installed = "old" /\ chain <= 14

(* Through the driver's own SignTx an old app never signs for a chain,      *)
(* however often the device is opened again, whichever query fails, and     *)
(* whatever is left on the connection.  With a nil chain ID, which asks for *)
(* a Homestead signature, the version is not looked at.                     *)
DriverRefusesOld ==
  entry = "Ledgereum" /\ chain # NoChain /\ installed = "old" =>
    \A c \in Calls : ~ result[c].signed

(* "if the version of the Ethereum application running on the Ledger wallet *)
(* is too old to sign EIP-155 transactions, but such is requested           *)
(* nonetheless, an error will be returned opposed to silently signing in    *)
(* Homestead mode"                                                          *)
TooOldIsAnError ==
  \A c \in Calls : installed = "old" /\ chain # NoChain /\ pc[c] = "done" =>
    ~ result[c].signed
=============================================================================
