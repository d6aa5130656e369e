------------------------- MODULE OneNodeReaderProofs -------------------------
(***************************************************************************)
(* Proofs about the lazily opened connection, for any set of calls.        *)
(***************************************************************************)
EXTENDS OneNodeReader, TLAPS

Holding == {"dial", "storeClient", "storeEthClient", "unlock"}

(* The mutex is held by the call inside initConnection. *)
MutexOK == \A t \in Calls : mu = t <=> pc[t] \in Holding

(* The fields differ only between the two stores of the holder. *)
HandlesOK ==
  /\ ethClient # Nil => client # Nil
  /\ (\A t \in Calls : pc[t] # "storeEthClient") => client = ethClient
  /\ \A t \in Calls : pc[t] = "storeEthClient" => client = t

(* How far a call is, and what it knows of its field. *)
ProgressOK(t) ==
  /\ visit[t] = 2 =>
       pc[t] \in {"check", "done"} /\ synced[t] /\ Field(t) # Nil
  /\ pc[t] \in {"lock", "dial"} => dials[t] = 0
  /\ pc[t] = "check" /\ visit[t] = 1 => dials[t] = 0
  /\ dials[t] <= 1
  /\ failed[t] => pc[t] \in {"unlock", "reread", "done"}
  /\ pc[t] \in {"unlock", "reread"} /\ ~ failed[t] => client # Nil /\ ethClient # Nil
  /\ pc[t] \in {"unlock", "reread"} => synced[t]
  /\ pc[t] \in Holding => synced[t]
  /\ pc[t] = "done" => got[t] # Nil /\ (got[t] = Err <=> failed[t])

Inv == TypeOK /\ MutexOK /\ HandlesOK /\ \A t \in Calls : ProgressOK(t)

-----------------------------------------------------------------------------
LEMMA InitInv == Init => Inv
BY Sentinels DEF Init, Inv, TypeOK, MutexOK, HandlesOK, ProgressOK, Holding, Field

(* What an accessor's return does to the call that returns. *)
LEMMA ReturnInv ==
  ASSUME Inv, NEW t \in Calls, NEW h \in Calls \cup {Err},
         Return(t, h), UNCHANGED <<kind, mu, client, ethClient, dials, failed>>,
         synced' \in [Calls -> BOOLEAN], synced'[t],
         \A u \in Calls \ {t} : synced'[u] = synced[u],
         pc[t] \in {"check", "reread"},
         h = Err <=> failed[t],
         h # Err => Field(t) # Nil
  PROVE  Inv'
<1> USE DEF Inv, Return
<1>1. TypeOK'
  <2>1. visit' \in [Calls -> 1..2] /\ visit[t] \in 1..2
    BY DEF TypeOK
  <2>2. pc' \in [Calls -> {"check", "lock", "dial", "storeClient",
                           "storeEthClient", "unlock", "reread", "done"}]
    BY DEF TypeOK
  <2>3. got' \in [Calls -> Calls \cup {Nil, Err}]
    BY DEF TypeOK
  <2> QED
    BY <2>1, <2>2, <2>3 DEF TypeOK
<1>2. MutexOK'
  BY DEF TypeOK, MutexOK, Holding
<1>3. HandlesOK'
  BY DEF TypeOK, HandlesOK
<1>4. ASSUME NEW u \in Calls PROVE ProgressOK(u)'
  <2>1. CASE u # t
    BY <1>4, <2>1 DEF ProgressOK, TypeOK, Field
  <2>2. CASE u = t
    <3>1. visit[t] = 1 \/ visit[t] = 2
      BY DEF TypeOK
    <3>2. h # Nil
      BY Sentinels
    <3> QED
      BY <2>2, <3>1, <3>2 DEF ProgressOK, TypeOK, Field, Holding
  <2> QED
    BY <2>1, <2>2
<1> QED
  BY <1>1, <1>2, <1>3, <1>4

LEMMA CheckSetInv == ASSUME Inv, NEW t \in Calls, CheckSet(t) PROVE Inv'
<1>1. Field(t) \in Calls
  BY DEF CheckSet, Inv, TypeOK, Field
<1>2. ~ failed[t]
  BY DEF CheckSet, Inv, ProgressOK
<1> QED
  BY <1>1, <1>2, ReturnInv, Sentinels DEF CheckSet, Inv, TypeOK

LEMMA RereadInv == ASSUME Inv, NEW t \in Calls, Reread(t) PROVE Inv'
<1> DEFINE h == IF failed[t] THEN Err ELSE Field(t)
<1>1. ~ failed[t] => Field(t) \in Calls
  BY DEF Reread, Inv, ProgressOK, TypeOK, Field
<1>2. h \in Calls \cup {Err} /\ (h = Err <=> failed[t]) /\ (h # Err => Field(t) # Nil)
  BY <1>1, Sentinels DEF Inv, TypeOK
<1>3. synced[t] /\ synced' = synced /\ synced \in [Calls -> BOOLEAN]
  BY DEF Reread, Inv, ProgressOK, TypeOK
<1>4. Return(t, h) /\ pc[t] = "reread"
      /\ UNCHANGED <<kind, mu, client, ethClient, dials, failed>>
  BY DEF Reread
<1> HIDE DEF h
<1> QED
  BY <1>2, <1>3, <1>4, ReturnInv

(* The remaining steps of a call only move its pc and one more variable. *)
LEMMA WorkInv ==
  ASSUME Inv, NEW t \in Calls,
         \/ CheckNil(t) \/ Lock(t) \/ DialSucceeds(t) \/ DialFails(t)
         \/ StoreClient(t) \/ StoreEthClient(t) \/ Unlock(t)
  PROVE  Inv'
<1> USE DEF Inv, CheckNil, Lock, DialSucceeds, DialFails, StoreClient,
            StoreEthClient, Unlock
<1>1. TypeOK'
  <2>1. CASE CheckNil(t)
    BY <2>1 DEF TypeOK
  <2>2. CASE Lock(t)
    BY <2>2 DEF TypeOK
  <2>3. CASE DialSucceeds(t) \/ DialFails(t)
    <3>1. dials' \in [Calls -> Nat]
      BY <2>3 DEF TypeOK
    <3>2. failed' \in [Calls -> BOOLEAN]
      BY <2>3 DEF TypeOK
    <3>3. pc' \in [Calls -> {"check", "lock", "dial", "storeClient",
                             "storeEthClient", "unlock", "reread", "done"}]
      BY <2>3 DEF TypeOK
    <3> QED
      BY <2>3, <3>1, <3>2, <3>3 DEF TypeOK
  <2>4. CASE StoreClient(t) \/ StoreEthClient(t)
    BY <2>4 DEF TypeOK
  <2>5. CASE Unlock(t)
    BY <2>5 DEF TypeOK
  <2> QED
    BY <2>1, <2>2, <2>3, <2>4, <2>5
<1>2. MutexOK'
  BY Sentinels DEF TypeOK, MutexOK, Holding, LockFree
<1>3. HandlesOK'
  BY Sentinels DEF TypeOK, HandlesOK, MutexOK, Holding
<1>4. ASSUME NEW u \in Calls PROVE ProgressOK(u)'
  BY <1>4, Sentinels DEF ProgressOK, TypeOK, Field, Holding, HandlesOK
<1> QED
  BY <1>1, <1>2, <1>3, <1>4

LEMMA StepInv == Inv /\ [Next]_vars => Inv'
<1> SUFFICES ASSUME Inv, [Next]_vars PROVE Inv'
  OBVIOUS
<1>1. ASSUME NEW t \in Calls, Step(t) PROVE Inv'
  BY <1>1, CheckSetInv, RereadInv, WorkInv DEF Step
<1>2. CASE UNCHANGED vars
  BY <1>2 DEF Inv, TypeOK, MutexOK, HandlesOK, ProgressOK, Field, vars
<1> QED
  BY <1>1, <1>2 DEF Next, Finished

(* The strengthened invariant holds of every behaviour of the node. *)
THEOREM Invariance == Spec => []Inv
BY InitInv, StepInv, PTL DEF Spec

-----------------------------------------------------------------------------
(* With the mutex free, client and ethClient are one connection, however    *)
(* many calls dialled at once.                                              *)
THEOREM OneConnection == Spec => []HandlesAgree
<1>1. Inv => HandlesAgree
  BY Sentinels DEF Inv, MutexOK, HandlesOK, HandlesAgree, Holding
<1> QED
  BY <1>1, Invariance, PTL

(* No call goes on with a nil handle or fails by another call's dial.       *)
THEOREM UsableHandles == Spec => []HandleUsable
<1>1. Inv => HandleUsable
  BY DEF Inv, ProgressOK, HandleUsable
<1> QED
  BY <1>1, Invariance, PTL

(* No call dials twice, TransactionByHash included.                         *)
THEOREM AtMostOneDial == Spec => []OneDialPerCall
<1>1. Inv => OneDialPerCall
  BY DEF Inv, ProgressOK, OneDialPerCall
<1> QED
  BY <1>1, Invariance, PTL

(* A stored connection stays stored.                                        *)
THEOREM StaysConnected == Spec => NeverDisconnected
<1>1. Inv /\ [Next]_vars =>
        [/\ client # Nil => client' # Nil
         /\ ethClient # Nil => ethClient' # Nil]_vars
  <2> SUFFICES ASSUME Inv, NEW t \in Calls, Step(t)
               PROVE  /\ client # Nil => client' # Nil
                      /\ ethClient # Nil => ethClient' # Nil
    BY DEF Next, Finished
  <2>1. CASE StoreClient(t)
    BY <2>1, Sentinels DEF StoreClient
  <2>2. CASE StoreEthClient(t)
    BY <2>2, Sentinels DEF StoreEthClient, Inv, HandlesOK
  <2>3. CASE UNCHANGED <<client, ethClient>>
    BY <2>3
  <2> QED
    BY <2>1, <2>2, <2>3 DEF Step, CheckSet, CheckNil, Lock, DialSucceeds,
       DialFails, Unlock, Reread
<1> QED
  BY <1>1, Invariance, PTL DEF Spec, NeverDisconnected

-----------------------------------------------------------------------------
(* The mutex is held only by a call inside initConnection. *)
MutexInUse == mu # NoOne => pc[mu] \in Holding

(* No path through initConnection leaves the mutex locked, a failed dial    *)
(* included: a call that waits for it waits for one that dials or stores.   *)
THEOREM MutexIsFreed == Spec => []MutexInUse
<1>1. Inv => MutexInUse
  BY DEF Inv, TypeOK, MutexOK, MutexInUse
<1> QED
  BY <1>1, Invariance, PTL
=============================================================================
