----------------------------- MODULE HidExchange -----------------------------
(***************************************************************************)
(* The framing of both hardware wallets: ledgerDriver.ledgerExchange and   *)
(* TrezorDriver.Exchange cut a message into USB frames, and put the reply  *)
(* together from frames until its announced length is reached.  Exchanges  *)
(* follow each other on one connection, whatever became of the ones        *)
(* before.  A stretch of bytes is the message it belongs to and where in   *)
(* it it starts and ends.                                                  *)
(***************************************************************************)
EXTENDS Integers, Sequences

CONSTANTS
  Frame,         \* size of a USB frame; 64
  ReqLengths,    \* bytes of a request, after its header
  RepLengths,    \* bytes of a reply, after its header or before its status
  MaxExchanges   \* bound on the exchanges of a connection

ASSUME FrameHoldsHeaders == Frame \in Nat /\ Frame > 9
ASSUME LengthsAreNat == ReqLengths \subseteq Nat /\ RepLengths \subseteq Nat

(* What a frame has room for: to the device, in the first frame of a reply, *)
(* in the others; the header that comes before a request's data, and the    *)
(* two status bytes at the end of a Ledger reply.                           *)
Layout == [
  ledger |-> [out |-> Frame - 5, first |-> Frame - 7, next |-> Frame - 5,
              header |-> 7, status |-> 2],
  trezor |-> [out |-> Frame - 1, first |-> Frame - 9, next |-> Frame - 1,
              header |-> 8, status |-> 0]]

Nil == [n |-> 0, total |-> 0, have |-> 0]

VARIABLES
  driver,   \* the driver of this connection
  at,       \* the host: "idle", "write", "read" or "panicked"
  msg,      \* number of the message that is exchanged
  total,    \* length of its request
  sent,     \* bytes of it that are written
  device,   \* what the device has put together: [n, total, have]
  wire,     \* frames from the device the host has not read
  reply,    \* the host's reply buffer: its capacity, its length and its parts
  returned, \* what the last exchange returned
  failed    \* history: has an exchange broken off on this connection?

host == <<at, msg, total, sent, reply, returned, failed>>
usbVars == <<driver, host, device, wire>>

Rooms == Layout[driver]
NoBuffer == [cap |-> 0, len |-> 0, parts |-> <<>>]
NoReply == [n |-> 0, kind |-> "none", parts |-> <<>>]

UsbInit ==
  /\ driver \in {"ledger", "trezor"}
  /\ at = "idle" /\ msg = 0 /\ total = 0 /\ sent = 0
  /\ device = Nil
  /\ wire = <<>>
  /\ reply = NoBuffer
  /\ returned = NoReply
  /\ failed = FALSE

(* The length test of the read loops: is there more to come after p bytes?  *)
(* Faulty variants: the boundary on the wrong side, either way.             *)
WantsMoreAtEqual(left, p) == left >= p
WantsMoreNever(left, p) == left > p + 1
WantsMore(left, p) == left > p

(* A new message, the request of a call or a ButtonAck.                     *)
NewMessage ==
  /\ \E l \in ReqLengths : total' = Rooms.header + l
  /\ msg' = msg + 1
  /\ sent' = 0
  /\ reply' = NoBuffer
  /\ at' = "write"

Start ==
  /\ at = "idle" /\ msg < MaxExchanges
  /\ NewMessage
  /\ UNCHANGED <<driver, returned, failed, device, wire>>

BreakOff == at' = "idle" /\ returned' = NoReply /\ failed' = TRUE

(* device.Write of the next frame.  A first frame, by its index or its      *)
(* magic bytes, starts a new message in the device; a later one has to fit. *)
Write ==
  /\ at = "write" /\ sent < total
  /\ LET size == IF total - sent > Rooms.out THEN Rooms.out ELSE total - sent
     IN  /\ sent' = sent + size
         /\ device' = IF sent = 0 THEN [n |-> msg, total |-> total, have |-> size]
                      ELSE IF device.n = msg /\ device.have = sent
                        THEN [device EXCEPT !.have = @ + size]
                        ELSE device
  /\ UNCHANGED <<driver, at, msg, total, reply, returned, failed, wire>>

Written ==
  /\ at = "write" /\ sent = total
  /\ at' = "read"
  /\ UNCHANGED <<driver, msg, total, sent, reply, returned, failed, device, wire>>

WriteFails ==
  /\ at = "write"
  /\ BreakOff
  /\ UNCHANGED <<driver, msg, total, sent, reply, device, wire>>

-----------------------------------------------------------------------------
(* The device: it answers a message once it has all of it.  Frames are      *)
(* padded to their room.                                                    *)
ReplyFrames(m, kind, length) ==
  LET count == IF length <= Rooms.first THEN 1
               ELSE 1 + (length - Rooms.first + Rooms.next - 1) \div Rooms.next
      start(k) == IF k = 1 THEN 0 ELSE Rooms.first + (k - 2) * Rooms.next
      end(k) == Rooms.first + (k - 1) * Rooms.next
  IN  [k \in 1..count |->
         [n |-> m, kind |-> kind, length |-> length, first |-> k = 1, good |-> TRUE,
          from |-> start(k), to |-> end(k)]]

Kinds == IF driver = "ledger" THEN {"result"}
         ELSE {"result", "failure"} \cup (IF msg < MaxExchanges THEN {"button"} ELSE {})

DeviceReplies ==
  /\ device # Nil /\ device.have = device.total
  /\ \E kind \in Kinds : \E l \in RepLengths :
       wire' = wire \o ReplyFrames(device.n, kind, Rooms.status + l)
  /\ device' = Nil
  /\ UNCHANGED <<driver, host>>

(* Browser mode: a frame arrives with another header.                       *)
Garble ==
  /\ wire # <<>> /\ Head(wire).good
  /\ wire' = <<[Head(wire) EXCEPT !.good = FALSE]>> \o Tail(wire)
  /\ UNCHANGED <<driver, host, device>>

-----------------------------------------------------------------------------
(* The Ledger's frames are numbered and number 0 starts a reply; in a reply *)
(* of the Trezor the first frame is the one that finds the buffer empty.    *)
Starts(f) == IF driver = "ledger" THEN f.first ELSE reply.len = 0

HeaderFits(f) ==
  f.good /\ (driver = "trezor" /\ Starts(f) => f.first)

(* The frame's part that belongs to the reply, and whether it completes it. *)
Buffer(f) == IF Starts(f) THEN [NoBuffer EXCEPT !.cap = f.length] ELSE reply
Left(f) == Buffer(f).cap - Buffer(f).len
Room(f) == IF Starts(f) THEN Rooms.first ELSE Rooms.next
Taken(f) == IF WantsMore(Left(f), Room(f)) THEN Room(f)
            ELSE IF Left(f) < Room(f) THEN Left(f) ELSE Room(f)
Filled(f) ==
  [Buffer(f) EXCEPT !.len = @ + Taken(f),
     !.parts = Append(@, [n |-> f.n, from |-> f.from, to |-> f.from + Taken(f)])]

ReadBadHeader ==
  /\ at = "read" /\ wire # <<>> /\ ~ HeaderFits(Head(wire))
  /\ wire' = Tail(wire)
  /\ BreakOff
  /\ UNCHANGED <<driver, msg, total, sent, reply, device>>

ReadFails ==
  /\ at = "read"
  /\ BreakOff
  /\ UNCHANGED <<driver, msg, total, sent, reply, device, wire>>

ReadPart ==
  /\ at = "read" /\ wire # <<>> /\ HeaderFits(Head(wire))
  /\ WantsMore(Left(Head(wire)), Room(Head(wire)))
  /\ reply' = Filled(Head(wire))
  /\ wire' = Tail(wire)
  /\ UNCHANGED <<driver, at, msg, total, sent, returned, failed, device>>

(* The reply is complete.  A ButtonRequest is acknowledged and the next     *)
(* reply awaited; the Ledger's two status bytes are cut off, and a buffer   *)
(* without them panics.                                                     *)
ReadLast ==
  /\ at = "read" /\ wire # <<>> /\ HeaderFits(Head(wire))
  /\ ~ WantsMore(Left(Head(wire)), Room(Head(wire)))
  /\ LET f == Head(wire)
         buffer == Filled(f)
     IN  \/ /\ driver = "ledger" /\ buffer.len < 2
            /\ at' = "panicked"
            /\ UNCHANGED <<msg, total, sent, reply, returned>>
         \/ /\ driver = "trezor" /\ f.kind = "button"
            /\ NewMessage
            /\ UNCHANGED returned
         \/ /\ driver = "ledger" => buffer.len >= 2
            /\ driver = "trezor" => f.kind # "button"
            /\ returned' = [n |-> msg, kind |-> f.kind, parts |-> buffer.parts]
            /\ reply' = buffer
            /\ at' = "idle"
            /\ UNCHANGED <<msg, total, sent>>
  /\ wire' = Tail(wire)
  /\ UNCHANGED <<driver, failed, device>>

Finished ==
  /\ \/ at = "panicked"
     \/ at = "idle" /\ msg >= MaxExchanges
  /\ UNCHANGED usbVars

Host ==
  \/ Start \/ Write \/ Written \/ WriteFails
  \/ ReadBadHeader \/ ReadFails \/ ReadPart \/ ReadLast

UsbNext == Host \/ DeviceReplies \/ Garble \/ Finished

(* The host runs and the device answers; errors and garbled frames need not *)
(* happen.                                                                  *)
UsbSpec ==
  /\ UsbInit /\ [][UsbNext]_usbVars
  /\ WF_usbVars(Start \/ Write \/ Written \/ ReadBadHeader \/ ReadPart \/ ReadLast)
  /\ WF_usbVars(DeviceReplies)

-----------------------------------------------------------------------------
Whole(parts, m, length) ==
  /\ \A k \in 1..Len(parts) : parts[k].n = m /\ parts[k].from <= parts[k].to
  /\ \A k \in 1..Len(parts) : parts[k].from = IF k = 1 THEN 0 ELSE parts[k - 1].to
  /\ length = IF parts = <<>> THEN 0 ELSE parts[Len(parts)].to

(* Request and reply stay in step: as long as no exchange has broken off on *)
(* this connection, what one returns is the reply to its own request, whole *)
(* and in order, and it leaves no frame behind that the next exchange would *)
(* take for its reply.                                                      *)
InStep ==
  ~ failed =>
    /\ at # "panicked"
    /\ at = "idle" => /\ wire = <<>>
                      /\ returned.n = msg /\ reply.len = reply.cap
                      /\ Whole(returned.parts, msg, reply.cap)

(* Every exchange comes to an end with a device that answers: the host      *)
(* never waits for a frame the device does not send, however the length of  *)
(* the request and the reply fall on the frames.                            *)
ExchangesEnd == (at = "write") ~> (at \in {"idle", "panicked"})
=============================================================================
