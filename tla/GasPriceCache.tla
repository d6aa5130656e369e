---------------------------- MODULE GasPriceCache ----------------------------
(***************************************************************************)
(* The gas price an EthReader recommends: EtherscanLikeExplorer keeps the  *)
(* last price under a mutex and asks the explorer again, with the mutex    *)
(* held, when the price is zero or too old by the wall clock; a caller     *)
(* whose lookup fails falls back on the nodes.  Any number of callers come *)
(* back again and again.  Time advances by half seconds, so that the       *)
(* truncation of time.Now().Unix() shows, and the wall clock may be set    *)
(* back and forward.                                                       *)
(***************************************************************************)
EXTENDS Integers

CONSTANTS
  Callers,      \* goroutines that call RecommendedGasPrice
  Prices,       \* what the explorer or the nodes answer, any floats: also 0,
                \*   negative ones and NaN
  CacheTimeOut, \* CACHE_TIME_OUT, in seconds
  MaxNow,       \* bound on the time modelled, in half seconds
  MaxSkew,      \* bound on how far the clock is set back or forward, in seconds
  Err,          \* a non-nil error
  NoOne         \* nobody holds gpmu

ASSUME Sentinels == NoOne \notin Callers /\ Err \notin Prices
ASSUME Bounds == CacheTimeOut \in Nat /\ MaxNow \in Nat /\ MaxSkew \in Nat

VARIABLES
  now,                \* half seconds since the start
  skew,               \* seconds the wall clock has been set forward, or back
  gpmu,               \* the holder of the mutex
  latestGasPrice,
  gasPriceTimestamp,  \* Unix seconds
  pc,                 \* pc[c]: "idle", "lock", "test", "http", "store",
                      \*   "unlock" or "nodes"
  result,             \* result[c]: what c's call returns, Err until it knows
  quotedAt,           \* history: when the cache was written
  skewAtQuote,        \* history: skew at that moment
  setForward          \* history: has the clock been set forward since?

clock == <<now, skew, setForward>>
cache == <<latestGasPrice, gasPriceTimestamp, quotedAt, skewAtQuote>>
vars == <<clock, gpmu, cache, pc, result>>

(* time.Now().Unix(); the epoch is far enough back for it to be natural.    *)
Epoch == MaxSkew + 1
Unix == Epoch + (now \div 2) + skew

Init ==
  /\ now = 0 /\ skew = 0 /\ setForward = FALSE
  /\ gpmu = NoOne
  /\ latestGasPrice = 0 /\ gasPriceTimestamp = 0
  /\ pc = [c \in Callers |-> "idle"]
  /\ result = [c \in Callers |-> Err]
  /\ quotedAt = 0 /\ skewAtQuote = 0

Goto(c, label) == pc' = [pc EXCEPT ![c] = label]

(* Faulty variants: a Lock that does not exclude, an age test that forgets  *)
(* the age, and a lookup that returns its error without unlocking.          *)
LockFreeAlways == TRUE
StaleNever == latestGasPrice = 0
HttpFailsKeepsLock(c) ==
  /\ pc[c] = "http"
  /\ Goto(c, "nodes")
  /\ UNCHANGED <<clock, gpmu, cache, result>>

LockFree == gpmu = NoOne
Stale == latestGasPrice = 0 \/ Unix - gasPriceTimestamp > CacheTimeOut

Enter(c) ==
  /\ pc[c] = "idle"
  /\ result' = [result EXCEPT ![c] = Err]
  /\ Goto(c, "lock")
  /\ UNCHANGED <<clock, gpmu, cache>>

Lock(c) ==
  /\ pc[c] = "lock"
  /\ LockFree
  /\ gpmu' = c
  /\ Goto(c, "test")
  /\ UNCHANGED <<clock, cache, result>>

Fetch(c) ==
  /\ pc[c] = "test" /\ Stale
  /\ Goto(c, "http")
  /\ UNCHANGED <<clock, gpmu, cache, result>>

UseCache(c) ==
  /\ pc[c] = "test" /\ ~ Stale
  /\ result' = [result EXCEPT ![c] = latestGasPrice]
  /\ Goto(c, "unlock")
  /\ UNCHANGED <<clock, gpmu, cache>>

(* http.Get has no timeout: how long c stays in "http" is up to the server. *)
HttpAnswers(c) ==
  /\ pc[c] = "http"
  /\ Goto(c, "store")
  /\ UNCHANGED <<clock, gpmu, cache, result>>

HttpFails(c) ==
  /\ pc[c] = "http"
  /\ Goto(c, "unlock")
  /\ UNCHANGED <<clock, gpmu, cache, result>>

(* The answer and the time after it are stored, and the price returned.     *)
Store(c) ==
  /\ pc[c] = "store"
  /\ latestGasPrice' \in Prices
  /\ gasPriceTimestamp' = Unix
  /\ quotedAt' = now /\ skewAtQuote' = skew /\ setForward' = FALSE
  /\ result' = [result EXCEPT ![c] = latestGasPrice']
  /\ Goto(c, "unlock")
  /\ UNCHANGED <<now, skew, gpmu>>

(* The deferred Unlock; a failed lookup goes on to the nodes.               *)
Unlock(c) ==
  /\ pc[c] = "unlock"
  /\ gpmu' = NoOne
  /\ Goto(c, IF result[c] = Err THEN "nodes" ELSE "idle")
  /\ UNCHANGED <<clock, cache, result>>

(* GetGasPriceWeiSuggestion answers, or fails on every node.                *)
AskNodes(c) ==
  /\ pc[c] = "nodes"
  /\ \E p \in Prices \cup {Err} : result' = [result EXCEPT ![c] = p]
  /\ Goto(c, "idle")
  /\ UNCHANGED <<clock, gpmu, cache>>

Tick ==
  /\ now < MaxNow
  /\ now' = now + 1
  /\ UNCHANGED <<skew, setForward, gpmu, cache, pc, result>>

SetBack ==
  /\ skew > -MaxSkew
  /\ skew' = skew - 1
  /\ UNCHANGED <<now, setForward, gpmu, cache, pc, result>>

SetForward ==
  /\ skew < MaxSkew
  /\ skew' = skew + 1 /\ setForward' = TRUE
  /\ UNCHANGED <<now, gpmu, cache, pc, result>>

Http(c) == HttpAnswers(c) \/ HttpFails(c)
Work(c) ==
  \/ Fetch(c) \/ UseCache(c) \/ Store(c) \/ Unlock(c) \/ AskNodes(c)

Next ==
  \/ \E c \in Callers : Enter(c) \/ Lock(c) \/ Work(c) \/ Http(c)
  \/ Tick \/ SetBack \/ SetForward

(* Goroutines run, and sync.Mutex hands the lock to a waiter that has been  *)
(* starving, so no caller waits for ever on a mutex that is freed again and *)
(* again.  Nothing is assumed of the HTTP request.                          *)
Fairness == \A c \in Callers : WF_vars(Work(c)) /\ SF_vars(Lock(c))

Spec == Init /\ [][Next]_vars /\ Fairness

-----------------------------------------------------------------------------
TypeOK ==
  /\ now \in 0..MaxNow /\ skew \in -MaxSkew..MaxSkew /\ setForward \in BOOLEAN
  /\ gpmu \in Callers \cup {NoOne}
  /\ latestGasPrice \in Prices \cup {0}
  /\ gasPriceTimestamp \in Nat
  /\ pc \in [Callers -> {"idle", "lock", "test", "http", "store",
                         "unlock", "nodes"}]
  /\ result \in [Callers -> Prices \cup {Err}]
  /\ quotedAt \in 0..MaxNow /\ skewAtQuote \in -MaxSkew..MaxSkew

(* The cache is tested and refreshed by one caller at a time: callers that  *)
(* arrive during a request wait for its answer instead of asking too.       *)
SingleFlight ==
  \A c, d \in Callers :
    pc[c] \in {"test", "http", "store"} /\ pc[d] \in {"test", "http", "store"}
      => c = d

(* A price out of the cache is not the zero of a cache that was never       *)
(* filled and, unless the clock has been set back since, less than          *)
(* CACHE_TIME_OUT + 1 seconds old: truncating both times to seconds costs   *)
(* up to one more.  Any other answer is served: the code does not look at   *)
(* its sign, nor whether it is a number.                                    *)
CachedPriceFresh ==
  [][\A c \in Callers : UseCache(c) =>
       /\ result'[c] # 0
       /\ skew >= skewAtQuote => now - quotedAt < 2 * (CacheTimeOut + 1)]_vars

(* However many callers there are, the explorer's answers are stored more   *)
(* than CACHE_TIME_OUT apart, unless the last one was a zero price or the   *)
(* clock has been set forward since.                                        *)
AnswersFarApart ==
  [][\A c \in Callers :
       pc[c] = "store" /\ pc'[c] = "unlock"
         /\ latestGasPrice # 0 /\ ~ setForward
       => now - quotedAt > 2 * CacheTimeOut]_vars

(* If no request hangs, every caller that waits for the mutex is served: an *)
(* error leaves the mutex free.                                             *)
ServedIfRequestsEnd ==
  (\A c \in Callers : pc[c] = "http" ~> pc[c] # "http") =>
    \A c \in Callers : pc[c] = "lock" ~> pc[c] = "idle"
=============================================================================
