------------------------- MODULE GasPriceCacheProofs -------------------------
(***************************************************************************)
(* Proofs about the gas price cache, for any callers, prices and time-out. *)
(***************************************************************************)
EXTENDS GasPriceCache, TLAPS

Inside == {"test", "http", "store", "unlock"}

MutexOK == \A c \in Callers : gpmu = c <=> pc[c] \in Inside

(* The timestamp is the wall clock's second at the moment of the quote. *)
StampOK ==
  /\ quotedAt <= now /\ (~ setForward => skew <= skewAtQuote)
  /\ latestGasPrice # 0 =>
       gasPriceTimestamp = Epoch + (quotedAt \div 2) + skewAtQuote

(* Whoever asks the explorer found the cache out of date. *)
RefreshOK ==
  \A c \in Callers :
    pc[c] \in {"http", "store"} /\ latestGasPrice # 0 /\ ~ setForward
      => now - quotedAt > 2 * CacheTimeOut

Inv == TypeOK /\ MutexOK /\ StampOK /\ RefreshOK

-----------------------------------------------------------------------------
(* Seconds truncated from half seconds. *)
LEMMA Seconds ==
  ASSUME NEW a \in Nat, NEW b \in Nat
  PROVE  /\ (a \div 2) \in Nat
         /\ (a \div 2) - (b \div 2) > CacheTimeOut => a - b > 2 * CacheTimeOut
         /\ (a \div 2) - (b \div 2) <= CacheTimeOut => a - b < 2 * (CacheTimeOut + 1)
BY Bounds

LEMMA InitInv == Init => Inv
<1> SUFFICES ASSUME Init PROVE Inv
  OBVIOUS
<1>1. TypeOK
  <2>1. now \in 0..MaxNow /\ skew \in -MaxSkew..MaxSkew
        /\ quotedAt \in 0..MaxNow /\ skewAtQuote \in -MaxSkew..MaxSkew
    BY Bounds DEF Init
  <2>2. setForward \in BOOLEAN /\ gpmu \in Callers \cup {NoOne}
        /\ latestGasPrice \in Prices \cup {0} /\ gasPriceTimestamp \in Nat
    BY DEF Init
  <2>3. /\ pc \in [Callers -> {"idle", "lock", "test", "http", "store",
                               "unlock", "nodes"}]
        /\ result \in [Callers -> Prices \cup {Err}]
    BY DEF Init
  <2> QED
    BY <2>1, <2>2, <2>3 DEF TypeOK
<1>2. MutexOK /\ RefreshOK
  BY Sentinels DEF Init, MutexOK, RefreshOK, Inside
<1>3. StampOK
  BY DEF Init, StampOK
<1> QED
  BY <1>1, <1>2, <1>3 DEF Inv

LEMMA TypeInv == Inv /\ [Next]_vars => TypeOK'
<1> SUFFICES ASSUME Inv, [Next]_vars PROVE TypeOK'
  OBVIOUS
<1> USE DEF Inv, TypeOK, cache, clock
<1>1. ASSUME NEW c \in Callers, Enter(c) \/ Lock(c) \/ Http(c) PROVE TypeOK'
  BY <1>1 DEF Enter, Lock, Http, HttpAnswers, HttpFails, Goto
<1>2. ASSUME NEW c \in Callers, Fetch(c) \/ Unlock(c) PROVE TypeOK'
  BY <1>2 DEF Fetch, Unlock, Goto
<1>3. ASSUME NEW c \in Callers, UseCache(c) PROVE TypeOK'
  <2>1. latestGasPrice \in Prices
    BY <1>3 DEF UseCache, Stale
  <2> QED
    BY <1>3, <2>1 DEF UseCache, Goto
<1>4. ASSUME NEW c \in Callers, Store(c) PROVE TypeOK'
  <2>1. Unix \in Nat
    <3>1. now \in Nat /\ skew \in Int /\ skew >= -MaxSkew
      BY Bounds
    <3> QED
      BY <3>1, Seconds, Bounds DEF Unix, Epoch
  <2> QED
    BY <1>4, <2>1 DEF Store, Goto
<1>5. ASSUME NEW c \in Callers, AskNodes(c) PROVE TypeOK'
  BY <1>5 DEF AskNodes, Goto
<1>6. CASE Tick \/ SetBack \/ SetForward
  <2>1. now' \in 0..MaxNow /\ skew' \in -MaxSkew..MaxSkew
    BY <1>6, Bounds DEF Tick, SetBack, SetForward
  <2>2. setForward' \in BOOLEAN
    BY <1>6 DEF Tick, SetBack, SetForward
  <2> QED
    BY <1>6, <2>1, <2>2 DEF Tick, SetBack, SetForward
<1>7. CASE UNCHANGED vars
  BY <1>7 DEF vars
<1> QED
  BY <1>1, <1>2, <1>3, <1>4, <1>5, <1>6, <1>7 DEF Next, Work

LEMMA MutexInv == Inv /\ [Next]_vars => MutexOK'
<1> SUFFICES ASSUME Inv, [Next]_vars PROVE MutexOK'
  OBVIOUS
<1> USE Sentinels DEF Inv, TypeOK, MutexOK, Inside
<1>1. ASSUME NEW c \in Callers, Enter(c) \/ Lock(c) \/ Http(c) \/ Work(c)
      PROVE  MutexOK'
  BY <1>1 DEF Enter, Lock, LockFree, Http, HttpAnswers, HttpFails, Work, Fetch,
              UseCache, Store, Unlock, AskNodes, Goto
<1>2. CASE Tick \/ SetBack \/ SetForward \/ UNCHANGED vars
  BY <1>2 DEF Tick, SetBack, SetForward, vars
<1> QED
  BY <1>1, <1>2 DEF Next

(* The mutex lets one caller at a time test and refresh the cache. *)
LEMMA Exclusion ==
  ASSUME Inv, NEW c \in Callers, NEW d \in Callers,
         pc[c] \in Inside, pc[d] \in Inside
  PROVE  c = d
BY DEF Inv, MutexOK

LEMMA StampInv == Inv /\ [Next]_vars => StampOK'
<1> SUFFICES ASSUME Inv, [Next]_vars PROVE StampOK'
  OBVIOUS
<1> USE DEF Inv, TypeOK, StampOK, Epoch, cache, clock
<1>1. ASSUME NEW c \in Callers, Store(c) PROVE StampOK'
  BY <1>1 DEF Store, Unix
<1>2. CASE Tick \/ SetBack \/ SetForward
  BY <1>2 DEF Tick, SetBack, SetForward
<1>3. CASE UNCHANGED <<clock, cache>>
  BY <1>3
<1>4. ASSUME NEW c \in Callers, Enter(c) \/ Lock(c) \/ Http(c)
      PROVE  UNCHANGED <<clock, cache>>
  BY <1>4 DEF Enter, Lock, Http, HttpAnswers, HttpFails
<1>5. ASSUME NEW c \in Callers, Fetch(c) \/ UseCache(c) \/ Unlock(c) \/ AskNodes(c)
      PROVE  UNCHANGED <<clock, cache>>
  BY <1>5 DEF Fetch, UseCache, Unlock, AskNodes
<1> QED
  BY <1>1, <1>2, <1>3, <1>4, <1>5 DEF Next, Work, vars

LEMMA RefreshInv == Inv /\ [Next]_vars => RefreshOK'
<1> SUFFICES ASSUME Inv, [Next]_vars PROVE RefreshOK'
  OBVIOUS
<1> USE DEF Inv, TypeOK, RefreshOK, cache, clock
<1>1. ASSUME NEW c \in Callers, Fetch(c) PROVE RefreshOK'
  <2>1. latestGasPrice # 0 /\ ~ setForward => now - quotedAt > 2 * CacheTimeOut
    <3> SUFFICES ASSUME latestGasPrice # 0, ~ setForward
                 PROVE  now - quotedAt > 2 * CacheTimeOut
      OBVIOUS
    <3>1. Unix - gasPriceTimestamp > CacheTimeOut
      BY <1>1 DEF Fetch, Stale
    <3>2. now \in Nat /\ quotedAt \in Nat /\ skew \in Int /\ skewAtQuote \in Int
      BY Bounds
    <3>3. Unix - gasPriceTimestamp <= (now \div 2) - (quotedAt \div 2)
      BY <3>2, Seconds, Bounds DEF Unix, Epoch, StampOK
    <3>4. (now \div 2) - (quotedAt \div 2) > CacheTimeOut
      BY <3>1, <3>2, <3>3, Seconds, Bounds DEF Unix, Epoch
    <3> QED
      BY <3>2, <3>4, Seconds
  <2> QED
    BY <1>1, <2>1 DEF Fetch, Goto
<1>2. ASSUME NEW c \in Callers, Store(c) PROVE RefreshOK'
  <2>1. \A d \in Callers : pc'[d] \notin {"http", "store"}
    BY <1>2, Exclusion DEF Store, Goto, Inside
  <2> QED
    BY <2>1
<1>3. CASE Tick \/ SetBack \/ SetForward
  BY <1>3, Bounds DEF Tick, SetBack, SetForward, StampOK
<1>4. ASSUME NEW c \in Callers,
             \/ Enter(c) \/ Lock(c) \/ Http(c)
             \/ UseCache(c) \/ Unlock(c) \/ AskNodes(c)
      PROVE  RefreshOK'
  BY <1>4 DEF Enter, Lock, Http, HttpAnswers, HttpFails, UseCache, Unlock,
              AskNodes, Goto
<1>5. CASE UNCHANGED vars
  BY <1>5 DEF vars
<1> QED
  BY <1>1, <1>2, <1>3, <1>4, <1>5 DEF Next, Work

(* The strengthened invariant. *)
THEOREM Invariance == Spec => []Inv
<1>1. Inv /\ [Next]_vars => Inv'
  BY TypeInv, MutexInv, StampInv, RefreshInv DEF Inv
<1> QED
  BY <1>1, InitInv, PTL DEF Spec

-----------------------------------------------------------------------------
(* One caller at a time tests, asks and stores.                             *)
THEOREM OneAtATime == Spec => []SingleFlight
<1>1. Inv => SingleFlight
  BY Exclusion DEF SingleFlight, Inside
<1> QED
  BY <1>1, Invariance, PTL

(* What the cache serves is not zero and not older than its time-out, up to *)
(* the truncation of the clock, unless the clock has been set back.         *)
THEOREM Freshness == Spec => CachedPriceFresh
<1>1. Inv => \A c \in Callers : UseCache(c) =>
               /\ result'[c] # 0
               /\ skew >= skewAtQuote => now - quotedAt < 2 * (CacheTimeOut + 1)
  <2> SUFFICES ASSUME Inv, NEW c \in Callers, UseCache(c)
               PROVE  /\ result'[c] # 0
                      /\ skew >= skewAtQuote =>
                           now - quotedAt < 2 * (CacheTimeOut + 1)
    OBVIOUS
  <2>1. latestGasPrice # 0
    BY DEF UseCache, Stale
  <2>2. result'[c] = latestGasPrice
    BY DEF UseCache, Inv, TypeOK
  <2>3. now \in Nat /\ quotedAt \in Nat /\ skew \in Int /\ skewAtQuote \in Int
        /\ gasPriceTimestamp \in Nat
    BY Bounds DEF Inv, TypeOK
  <2>4. ASSUME skew >= skewAtQuote PROVE now - quotedAt < 2 * (CacheTimeOut + 1)
    <3>1. Unix - gasPriceTimestamp >= (now \div 2) - (quotedAt \div 2)
      BY <2>1, <2>3, <2>4, Seconds, Bounds DEF Unix, Epoch, Inv, StampOK
    <3>2. ~ (Unix - gasPriceTimestamp > CacheTimeOut)
      BY DEF UseCache, Stale
    <3>3. (now \div 2) - (quotedAt \div 2) <= CacheTimeOut
      BY <2>3, <3>1, <3>2, Seconds, Bounds DEF Unix, Epoch
    <3> QED
      BY <2>3, <3>3, Seconds
  <2> QED
    BY <2>1, <2>2, <2>4
<1> QED
  BY <1>1, Invariance, PTL DEF CachedPriceFresh

(* The explorer's answers are stored more than a time-out apart.            *)
THEOREM RateLimited == Spec => AnswersFarApart
<1>1. Inv => \A c \in Callers :
        pc[c] = "store" /\ pc'[c] = "unlock"
          /\ latestGasPrice # 0 /\ ~ setForward
        => now - quotedAt > 2 * CacheTimeOut
  BY DEF Inv, RefreshOK
<1> QED
  BY <1>1, Invariance, PTL DEF AnswersFarApart

-----------------------------------------------------------------------------
(* The mutex is held only by a caller between Lock and Unlock. *)
MutexInUse == gpmu # NoOne => pc[gpmu] \in Inside

(* No path through the cache leaves the mutex locked, a failed request      *)
(* included, and nobody holds it while asking the nodes: a caller that      *)
(* waits for it waits for one at the cache or at the explorer.              *)
THEOREM MutexIsFreed == Spec => []MutexInUse
<1>1. Inv => MutexInUse
  BY DEF Inv, TypeOK, MutexOK, MutexInUse
<1> QED
  BY <1>1, Invariance, PTL
=============================================================================
