------------------------------ MODULE Checkout ------------------------------
(***************************************************************************)
(* POST /billing/checkout for one user and one Idempotency-Key             *)
(* (billing/service.py, create_checkout): concurrent requests, a cached    *)
(* result, a lock that is taken with SET NX and never released, and the    *)
(* creation of a Razorpay subscription in a thread that the request stops  *)
(* waiting for after CallTimeout, but that nothing stops.                  *)
(*                                                                         *)
(* Time is counted in ticks.  A subscription has the number of the call    *)
(* that created it.  The key is always sent with the same plan: with       *)
(* another, a cached result is refused with a 409 and nothing changes.     *)
(***************************************************************************)
EXTENDS Integers

CONSTANTS
  Requests,     \* HTTP requests the server runs at a time
  LockTTL,      \* _LOCK_TTL
  CallTimeout,  \* _CALL_TIMEOUT
  ResultTTL,    \* _RESULT_TTL
  ReadTime,     \* bound: ticks between the look at the cache and SET NX
  SaveTime,     \* bound: ticks between the gateway's answer and the cache
  MaxCalls      \* bound: calls to the gateway

ASSUME CheckoutAssumption ==
  /\ LockTTL \in Nat \ {0} /\ CallTimeout \in Nat \ {0} /\ ResultTTL \in Nat \ {0}
  /\ ReadTime \in Nat /\ SaveTime \in Nat /\ MaxCalls \in Nat
  /\ ReadTime + CallTimeout + SaveTime < LockTTL

VARIABLES
  result,    \* the subscription in the result key, 0 if there is none
  kept,      \* ticks until the result key expires
  lock,      \* ticks until the lock key expires, 0 if there is none
  owner,     \* ghost: the call the latest lock was taken for
  calls,     \* calls made so far
  running,   \* calls whose thread has not ended
  subs,      \* subscriptions that exist at the gateway
  req,       \* per request: where it is, its call, ticks its step may still take
  answered   \* ghost: subscriptions answered with a 200 since result was last empty

checkout_vars == <<result, kept, lock, owner, calls, running, subs, req, answered>>

NoRequest == [at |-> "idle", call |-> 0, left |-> 0]

End(r) == req' = [req EXCEPT ![r] = NoRequest]

-----------------------------------------------------------------------------

CheckoutInit ==
  /\ result = 0 /\ kept = 0
  /\ lock = 0 /\ owner = 0
  /\ calls = 0 /\ running = {} /\ subs = {}
  /\ req = [r \in Requests |-> NoRequest]
  /\ answered = {}

\* A replay is answered from the cache; otherwise the plan is read.
Submit(r) ==
  /\ req[r].at = "idle"
  /\ IF result # 0
     THEN answered' = answered \cup {result} /\ UNCHANGED req
     ELSE /\ req' = [req EXCEPT ![r] = [at |-> "reading", call |-> 0, left |-> ReadTime]]
          /\ UNCHANGED answered
  /\ UNCHANGED <<result, kept, lock, owner, calls, running, subs>>

\* The plan is unknown or not configured (404, 503), or the lock is held (409).
Refuse(r) ==
  /\ req[r].at = "reading"
  /\ End(r)
  /\ UNCHANGED <<result, kept, lock, owner, calls, running, subs, answered>>

\* Mutant: no SET NX.
LockUnguarded(r) ==
  /\ req[r].at = "reading"
  /\ calls < MaxCalls
  /\ lock' = LockTTL /\ owner' = calls + 1
  /\ calls' = calls + 1 /\ running' = running \cup {calls + 1}
  /\ req' = [req EXCEPT ![r] = [at |-> "calling", call |-> calls + 1, left |-> CallTimeout]]
  /\ UNCHANGED <<result, kept, subs, answered>>

\* SET NX EX, and at once the call, in a thread.
Lock(r) ==
  /\ req[r].at = "reading"
  /\ lock = 0
  /\ calls < MaxCalls
  /\ lock' = LockTTL /\ owner' = calls + 1
  /\ calls' = calls + 1 /\ running' = running \cup {calls + 1}
  /\ req' = [req EXCEPT ![r] = [at |-> "calling", call |-> calls + 1, left |-> CallTimeout]]
  /\ UNCHANGED <<result, kept, subs, answered>>

\* wait_for gives up (502); the thread goes on, and the lock stays.
TimeOut(r) ==
  /\ req[r].at = "calling" /\ req[r].left = 0
  /\ End(r)
  /\ UNCHANGED <<result, kept, lock, owner, calls, running, subs, answered>>

\* The thread ends.  A call that fails may have created the subscription; its
\* request, if it still waits, answers a 502.
CallEnds(k) ==
  /\ k \in running
  /\ running' = running \ {k}
  /\ \/ subs' = subs \cup {k}
     \/ UNCHANGED subs
  /\ \/ /\ k \in subs'
        /\ req' = [r \in Requests |->
                     IF req[r].at = "calling" /\ req[r].call = k
                     THEN [at |-> "saving", call |-> k, left |-> SaveTime] ELSE req[r]]
     \/ req' = [r \in Requests |->
                  IF req[r].at = "calling" /\ req[r].call = k THEN NoRequest ELSE req[r]]
  /\ UNCHANGED <<result, kept, lock, owner, calls, answered>>

\* Mutant: the lock is released once the result is cached.
SaveAndUnlock(r) ==
  /\ req[r].at = "saving"
  /\ result' = req[r].call /\ kept' = ResultTTL
  /\ answered' = answered \cup {req[r].call}
  /\ lock' = 0
  /\ End(r)
  /\ UNCHANGED <<owner, calls, running, subs>>

\* The result is cached and answered.
Save(r) ==
  /\ req[r].at = "saving"
  /\ result' = req[r].call /\ kept' = ResultTTL
  /\ answered' = answered \cup {req[r].call}
  /\ End(r)
  /\ UNCHANGED <<lock, owner, calls, running, subs>>

\* Redis or Postgres fails a request that waits for it: a 500.
Fail(r) ==
  /\ req[r].at \in {"reading", "saving"}
  /\ End(r)
  /\ UNCHANGED <<result, kept, lock, owner, calls, running, subs, answered>>

\* The server dies with its requests and threads; calls under way may yet have
\* created their subscriptions.
Crash ==
  /\ \E made \in SUBSET running : subs' = subs \cup made
  /\ running' = {}
  /\ req' = [r \in Requests |-> NoRequest]
  /\ UNCHANGED <<result, kept, lock, owner, calls, answered>>

Less(n) == IF n = 0 THEN 0 ELSE n - 1

\* Mutant: an expired lock counts on.
TickPastZero ==
  /\ \A r \in Requests : req[r].at # "idle" => req[r].left > 0
  /\ lock' = lock - 1
  /\ kept' = Less(kept)
  /\ IF kept = 1
     THEN result' = 0 /\ answered' = {}
     ELSE UNCHANGED <<result, answered>>
  /\ req' = [r \in Requests |-> [req[r] EXCEPT !.left = Less(@)]]
  /\ UNCHANGED <<owner, calls, running, subs>>

\* Time passes, but for no request beyond what its step takes.
Tick ==
  /\ \A r \in Requests : req[r].at # "idle" => req[r].left > 0
  /\ lock' = Less(lock)
  /\ kept' = Less(kept)
  /\ IF kept = 1
     THEN result' = 0 /\ answered' = {}
     ELSE UNCHANGED <<result, answered>>
  /\ req' = [r \in Requests |-> [req[r] EXCEPT !.left = Less(@)]]
  /\ UNCHANGED <<owner, calls, running, subs>>

CheckoutNext ==
  \/ \E r \in Requests :
       Submit(r) \/ Refuse(r) \/ Lock(r) \/ TimeOut(r) \/ Save(r) \/ Fail(r)
  \/ \E k \in 1..calls : CallEnds(k)
  \/ Crash \/ Tick

CheckoutSpec == CheckoutInit /\ [][CheckoutNext]_checkout_vars

-----------------------------------------------------------------------------

CheckoutTypeOK ==
  /\ result \in 0..calls /\ kept \in 0..ResultTTL
  /\ lock \in 0..LockTTL /\ owner \in 0..calls
  /\ calls \in 0..MaxCalls
  /\ running \subseteq 1..calls /\ subs \subseteq 1..calls /\ answered \subseteq 1..calls
  /\ req \in [Requests -> [at : {"idle", "reading", "calling", "saving"}, call : 0..calls,
                           left : 0..LockTTL]]

\* "a short-lived NX lock prevents two concurrent identical requests from both
\* creating a subscription", service.py 12-14: no two requests are ever between
\* the lock and the cached result, although the lock expires by itself.
OneCallAwaited ==
  \A r, x \in Requests :
    req[r].at \in {"calling", "saving"} /\ req[x].at \in {"calling", "saving"} => r = x

\* Every 200 sent for the key while a result is kept names the same
\* subscription, whatever timed out, failed or was retried in between, and even
\* for a request that had found the cache empty before the first 200.
SuccessesAgree == \A k \in answered : k = result

\* No 200 names a subscription that the gateway has not: not when a call fails after it was
\* made, is given up after CallTimeout, or dies with the server.
AnswersExist == answered \subseteq subs /\ (result # 0 => result \in subs)
=============================================================================
