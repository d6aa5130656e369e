---------------------------- MODULE OneNodeReader ----------------------------
(***************************************************************************)
(* The lazily opened connection of reader.OneNodeReader, shared by every   *)
(* call the goroutines of an EthReader make on that node.  Client() and    *)
(* EthClient() look at their field without the mutex, dial under it when   *)
(* they saw nil, and read the field again after unlocking.                 *)
(*                                                                         *)
(* The two looks race with the stores.  The model has the outcomes of an   *)
(* amd64 build: the stores appear in program order, and a goroutine that   *)
(* has neither taken the mutex nor seen the field set may still see nil.   *)
(***************************************************************************)
EXTENDS Naturals, FiniteSets

CONSTANTS
  Calls,    \* the calls made on the node, each in a goroutine of its own
  Nil,      \* the nil pointer
  Err,      \* a non-nil error
  NoOne     \* nobody holds mu

ASSUME Sentinels ==
  /\ Nil \notin Calls /\ Err \notin Calls /\ NoOne \notin Calls
  /\ Nil # Err

VARIABLES
  kind,       \* kind[t]: "eth", or "tx" for a TransactionByHash
  pc,         \* pc[t]: what call t does next
  visit,      \* visit[t]: accessors it has entered: TransactionByHash enters two
  synced,     \* synced[t]: t can no longer miss the stores made so far
  mu,         \* the holder of self.mu
  client,     \* self.client: the call that dialled the connection, or Nil
  ethClient,  \* self.ethClient: the call that dialled what it wraps, or Nil
  dials,      \* dials[t]: rpc.Dial calls made by t
  failed,     \* failed[t]: initConnection returned an error to t
  got         \* got[t]: the handle or the error of t's latest accessor

vars ==
  <<kind, pc, visit, synced, mu, client, ethClient, dials, failed, got>>

(* self.client for TransactionByHash, self.ethClient for the other calls. *)
Field(t) == IF kind[t] = "tx" THEN client ELSE ethClient

Init ==
  /\ kind \in [Calls -> {"eth", "tx"}]
  /\ pc = [t \in Calls |-> "check"]
  /\ visit = [t \in Calls |-> 1]
  /\ synced = [t \in Calls |-> FALSE]
  /\ mu = NoOne
  /\ client = Nil /\ ethClient = Nil
  /\ dials = [t \in Calls |-> 0]
  /\ failed = [t \in Calls |-> FALSE]
  /\ got = [t \in Calls |-> Nil]

(* An accessor returns h.  TransactionByHash then enters the second one, in *)
(* transactionByHashOnNode, unless the first failed.                        *)
Return(t, h) ==
  /\ got' = [got EXCEPT ![t] = h]
  /\ IF kind[t] = "tx" /\ visit[t] = 1 /\ h # Err
       THEN /\ visit' = [visit EXCEPT ![t] = @ + 1]
            /\ pc' = [pc EXCEPT ![t] = "check"]
       ELSE /\ pc' = [pc EXCEPT ![t] = "done"]
            /\ UNCHANGED visit

(* Faulty variants: EthClient() that looks at self.client, a Lock that does *)
(* not exclude, a failed dial that assigns its nil client, and one that     *)
(* returns without unlocking.                                               *)
CheckSetWrongField(t) ==
  /\ pc[t] = "check"
  /\ client # Nil
  /\ synced' = [synced EXCEPT ![t] = TRUE]
  /\ Return(t, Field(t))
  /\ UNCHANGED <<kind, mu, client, ethClient, dials, failed>>
LockFreeAlways == TRUE
DialFailsAssigns(t) ==
  /\ pc[t] = "dial"
  /\ dials' = [dials EXCEPT ![t] = @ + 1]
  /\ failed' = [failed EXCEPT ![t] = TRUE]
  /\ client' = Nil
  /\ pc' = [pc EXCEPT ![t] = "unlock"]
  /\ UNCHANGED <<kind, visit, synced, mu, ethClient, got>>
DialFailsKeepsLock(t) ==
  /\ pc[t] = "dial"
  /\ dials' = [dials EXCEPT ![t] = @ + 1]
  /\ failed' = [failed EXCEPT ![t] = TRUE]
  /\ pc' = [pc EXCEPT ![t] = "reread"]
  /\ UNCHANGED <<kind, visit, synced, mu, client, ethClient, got>>

LockFree == mu = NoOne

(* if self.ethClient != nil { return self.ethClient, nil } *)
CheckSet(t) ==
  /\ pc[t] = "check"
  /\ Field(t) # Nil
  /\ synced' = [synced EXCEPT ![t] = TRUE]
  /\ Return(t, Field(t))
  /\ UNCHANGED <<kind, mu, client, ethClient, dials, failed>>

(* The look finds nil: the field is not set, or its store is not seen yet. *)
CheckNil(t) ==
  /\ pc[t] = "check"
  /\ Field(t) = Nil \/ ~ synced[t]
  /\ pc' = [pc EXCEPT ![t] = "lock"]
  /\ UNCHANGED <<kind, visit, synced, mu, client, ethClient, dials, failed, got>>

Lock(t) ==
  /\ pc[t] = "lock"
  /\ LockFree
  /\ mu' = t
  /\ synced' = [synced EXCEPT ![t] = TRUE]
  /\ pc' = [pc EXCEPT ![t] = "dial"]
  /\ UNCHANGED <<kind, visit, client, ethClient, dials, failed, got>>

(* rpc.Dial, made even if another call has connected in the meantime. *)
DialSucceeds(t) ==
  /\ pc[t] = "dial"
  /\ dials' = [dials EXCEPT ![t] = @ + 1]
  /\ pc' = [pc EXCEPT ![t] = "storeClient"]
  /\ UNCHANGED <<kind, visit, synced, mu, client, ethClient, failed, got>>

DialFails(t) ==
  /\ pc[t] = "dial"
  /\ dials' = [dials EXCEPT ![t] = @ + 1]
  /\ failed' = [failed EXCEPT ![t] = TRUE]
  /\ pc' = [pc EXCEPT ![t] = "unlock"]
  /\ UNCHANGED <<kind, visit, synced, mu, client, ethClient, got>>

StoreClient(t) ==
  /\ pc[t] = "storeClient"
  /\ client' = t
  /\ pc' = [pc EXCEPT ![t] = "storeEthClient"]
  /\ UNCHANGED <<kind, visit, synced, mu, ethClient, dials, failed, got>>

(* self.ethClient = ethclient.NewClient(self.client) *)
StoreEthClient(t) ==
  /\ pc[t] = "storeEthClient"
  /\ ethClient' = client
  /\ pc' = [pc EXCEPT ![t] = "unlock"]
  /\ UNCHANGED <<kind, visit, synced, mu, client, dials, failed, got>>

Unlock(t) ==
  /\ pc[t] = "unlock"
  /\ mu' = NoOne
  /\ pc' = [pc EXCEPT ![t] = "reread"]
  /\ UNCHANGED <<kind, visit, synced, client, ethClient, dials, failed, got>>

(* return self.ethClient, err: the callers use the handle when err is nil. *)
Reread(t) ==
  /\ pc[t] = "reread"
  /\ Return(t, IF failed[t] THEN Err ELSE Field(t))
  /\ UNCHANGED <<kind, synced, mu, client, ethClient, dials, failed>>

Finished == (\A t \in Calls : pc[t] = "done") /\ UNCHANGED vars

Step(t) ==
  \/ CheckSet(t) \/ CheckNil(t)
  \/ Lock(t)
  \/ DialSucceeds(t) \/ DialFails(t)
  \/ StoreClient(t) \/ StoreEthClient(t)
  \/ Unlock(t)
  \/ Reread(t)

Next == (\E t \in Calls : Step(t)) \/ Finished

(* Runnable goroutines run, and a dial ends: it only opens a socket for a   *)
(* WebSocket URL, and then the operating system gives up some day.          *)
Fairness == \A t \in Calls : WF_vars(Step(t))

Spec == Init /\ [][Next]_vars /\ Fairness

-----------------------------------------------------------------------------
TypeOK ==
  /\ kind \in [Calls -> {"eth", "tx"}]
  /\ pc \in [Calls -> {"check", "lock", "dial", "storeClient",
                       "storeEthClient", "unlock", "reread", "done"}]
  /\ visit \in [Calls -> 1..2]
  /\ synced \in [Calls -> BOOLEAN]
  /\ mu \in Calls \cup {NoOne}
  /\ client \in Calls \cup {Nil}
  /\ ethClient \in Calls \cup {Nil}
  /\ dials \in [Calls -> Nat]
  /\ failed \in [Calls -> BOOLEAN]
  /\ got \in [Calls -> Calls \cup {Nil, Err}]

(* Several calls may find no connection and queue to dial, yet whenever the *)
(* mutex is free the two fields name one connection: ethClient never wraps  *)
(* a client that a later dial has replaced.                                 *)
HandlesAgree == mu = NoOne => client = ethClient

(* A call goes on to use its handle only when the handle is there; it fails *)
(* without asking the node only because its own dial failed.                *)
HandleUsable ==
  \A t \in Calls : pc[t] = "done" =>
    /\ got[t] # Nil
    /\ got[t] = Err <=> failed[t]

(* TransactionByHash asks for the client twice, and never dials twice: what *)
(* one accessor has found or stored, the next one finds.                    *)
OneDialPerCall == \A t \in Calls : dials[t] <= 1

(* A connection, once stored, is never lost again, whatever dials fail      *)
(* afterwards: readers without the mutex depend on it.                      *)
NeverDisconnected ==
  [][/\ client # Nil => client' # Nil
     /\ ethClient # Nil => ethClient' # Nil]_vars

(* Every call gets its handle or its error, whichever dials fail.           *)
CallsReturn == <>(\A t \in Calls : pc[t] = "done")
=============================================================================
