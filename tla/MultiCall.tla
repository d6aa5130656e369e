------------------------------ MODULE MultiCall ------------------------------
(***************************************************************************)
(* reader.MultipleCall: calls are registered with a place for the result   *)
(* and a hook; Do sends them all in one aggregate call, unpacks every      *)
(* result and then runs the hooks in order, until one fails.  A hook may   *)
(* read any of the results and may register further calls.  Do may be      *)
(* called again.                                                           *)
(***************************************************************************)
EXTENDS Naturals, Sequences

CONSTANTS
  Blocks,     \* blocks a node may answer for
  MaxCalls,   \* bound on the registered calls
  MaxDos      \* bound on the calls of Do

Unset == 0
ASSUME BlocksNamed == Unset \notin Blocks

VARIABLES
  results,  \* results[k]: block of the value in the k-th result, or Unset
  dos,      \* number of calls of Do
  at,       \* "idle", "unpack" or "hooks"
  answer,   \* block of the aggregate answer
  calls,    \* number of calls in the aggregate call
  next,     \* counter of the running loop
  ran,      \* the hooks of this Do that have succeeded, in order
  returned  \* [block, failed] of the last Do

multiVars == <<results, dos, at, answer, calls, next, ran, returned>>

NoReturn == [block |-> Unset, failed |-> FALSE]

MultiInit ==
  /\ results = <<>>
  /\ dos = 0 /\ at = "idle"
  /\ answer = Unset /\ calls = 0 /\ next = 1
  /\ ran = <<>>
  /\ returned = NoReturn

Fail == at' = "idle" /\ returned' = [block |-> Unset, failed |-> TRUE]

(* Faulty variants: a hook that runs as soon as its own result is unpacked, *)
(* and a failure that the loop over the hooks steps over.                   *)
UnpackRunsHook ==
  /\ at = "unpack" /\ next <= calls
  /\ results' = [results EXCEPT ![next] = answer]
  /\ ran' = Append(ran, next)
  /\ next' = next + 1
  /\ UNCHANGED <<dos, at, answer, calls, returned>>
HookFailsGoesOn ==
  /\ at = "hooks" /\ next <= calls
  /\ next' = next + 1
  /\ UNCHANGED <<results, dos, at, answer, calls, ran, returned>>

(* RegisterWithHook, between two calls of Do.                               *)
Register ==
  /\ at = "idle" /\ Len(results) < MaxCalls
  /\ results' = Append(results, Unset)
  /\ UNCHANGED <<dos, at, answer, calls, next, ran, returned>>

(* callMCContract packs the calls and reads aggregate from any of the nodes. *)
Do ==
  /\ at = "idle" /\ dos < MaxDos
  /\ dos' = dos + 1
  /\ ran' = <<>>
  /\ \/ /\ \E b \in Blocks : answer' = b
        /\ at' = "unpack" /\ next' = 1 /\ calls' = Len(results)
        /\ UNCHANGED returned
     \/ Fail /\ UNCHANGED <<answer, calls, next>>
  /\ UNCHANGED results

Unpack ==
  /\ at = "unpack" /\ next <= calls
  /\ results' = [results EXCEPT ![next] = answer]
  /\ next' = next + 1
  /\ UNCHANGED <<dos, at, answer, calls, ran, returned>>

(* An answer that does not fit the method: the results before it are set.   *)
UnpackFails ==
  /\ at = "unpack" /\ next <= calls
  /\ Fail
  /\ UNCHANGED <<results, dos, answer, calls, next, ran>>

Unpacked ==
  /\ at = "unpack" /\ next > calls
  /\ at' = "hooks" /\ next' = 1
  /\ UNCHANGED <<results, dos, answer, calls, ran, returned>>

(* for i, result := range mc.results: the range is taken before the first   *)
(* hook runs, so that a call a hook registers waits for the next Do.        *)
Hook ==
  /\ at = "hooks" /\ next <= calls
  /\ \/ UNCHANGED results
     \/ Len(results) < MaxCalls /\ results' = Append(results, Unset)
  /\ ran' = Append(ran, next)
  /\ next' = next + 1
  /\ UNCHANGED <<dos, at, answer, calls, returned>>

HookFails ==
  /\ at = "hooks" /\ next <= calls
  /\ Fail
  /\ UNCHANGED <<results, dos, answer, calls, next, ran>>

DoReturns ==
  /\ at = "hooks" /\ next > calls
  /\ at' = "idle"
  /\ returned' = [block |-> answer, failed |-> FALSE]
  /\ UNCHANGED <<results, dos, answer, calls, next, ran>>

MultiNext ==
  \/ Register
  \/ Do \/ Unpack \/ UnpackFails \/ Unpacked
  \/ Hook \/ HookFails \/ DoReturns

MultiSpec == MultiInit /\ [][MultiNext]_multiVars

-----------------------------------------------------------------------------
(* A hook never sees results of two blocks: whenever one runs, every result *)
(* of this Do is unpacked from the one answer, although an earlier Do may   *)
(* have left values of another block, all or only some of them.             *)
HooksSeeOneBlock ==
  [][ran' # ran /\ ran' # <<>> => \A k \in 1..calls : results[k] = answer]_multiVars

(* A Do without an error means that every hook succeeded once, in the order *)
(* of registration, and it returns the block of all the results; calls that *)
(* hooks registered meanwhile are not among them.                           *)
SuccessIsComplete ==
  [][at = "hooks" /\ at' = "idle" /\ ~ returned'.failed =>
       /\ ran' = [k \in 1..calls |-> k]
       /\ \A k \in 1..calls : results'[k] = returned'.block]_multiVars
=============================================================================
