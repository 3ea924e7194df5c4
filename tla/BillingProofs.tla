---------------------------- MODULE BillingProofs ----------------------------
(***************************************************************************)
(* What the user pays for, and what it gives him: Checkout for any         *)
(* requests and any times with ReadTime + CallTimeout + SaveTime < LockTTL *)
(* (the lock, which nobody releases and which may expire at any point of a *)
(* run, is long enough), and Subscriptions for any subscriptions,          *)
(* handlers, readers and faults (an event is committed at most once, and   *)
(* none that is marked is forgotten).                                      *)
(*                                                                         *)
(* Checkout's invariants say nothing of time and so are not inductive.     *)
(* Timed relates what is left of the lock to what is left of the step of   *)
(* the request that took it; Settled says that while a result is kept,     *)
(* nobody is creating another, and who still reads will find the lock      *)
(* held.                                                                   *)
(*                                                                         *)
(* Nor is AppliedOnce.  Held says what a delivery under way has done: its  *)
(* event was sent, and once past Mark its key is there.  Unique says that  *)
(* the key lets one delivery through: one handler at most is between the   *)
(* mark and the commit of an event, and none has committed it.             *)
(***************************************************************************)
EXTENDS Checkout, Subscriptions, TLAPS

Step(c) ==
  [at : {"idle", "reading", "calling", "saving"}, call : 0..c, left : 0..LockTTL]

Awaits(r) == req[r].at \in {"calling", "saving"}

Timed ==
  \A r \in Requests :
    /\ req[r].at = "reading" => req[r].left <= ReadTime
    /\ req[r].at = "calling" => req[r].call # 0 /\ lock > req[r].left + SaveTime + ReadTime
    /\ req[r].at = "saving" => req[r].call # 0 /\ lock > req[r].left + ReadTime

Settled ==
  result # 0 => \A r \in Requests :
    /\ req[r].at \in {"idle", "reading"}
    /\ req[r].at = "reading" => lock > req[r].left

CheckoutInv == CheckoutTypeOK /\ Timed /\ OneCallAwaited /\ Settled /\ SuccessesAgree

-----------------------------------------------------------------------------

LEMMA CheckoutInitInv == CheckoutInit => CheckoutInv
<1> SUFFICES ASSUME CheckoutInit PROVE CheckoutInv
  OBVIOUS
<1> USE CheckoutAssumption DEF CheckoutAssumption
<1>1. CheckoutTypeOK
  BY DEF CheckoutInit, CheckoutTypeOK, NoRequest
<1>2. Timed /\ OneCallAwaited /\ Settled /\ SuccessesAgree
  BY DEF CheckoutInit, Timed, OneCallAwaited, Settled, SuccessesAgree, NoRequest
<1> QED
  BY <1>1, <1>2 DEF CheckoutInv

\* What CheckoutTypeOK says, with the constants' types.
LEMMA Types ==
  ASSUME CheckoutTypeOK
  PROVE  /\ calls \in Nat /\ lock \in Nat /\ kept \in Nat
         /\ req \in [Requests -> Step(calls)]
         /\ \A r \in Requests : req[r].left \in Nat
BY CheckoutAssumption DEF CheckoutAssumption, CheckoutTypeOK, Step

\* The requests' steps are typed in every step of the system.
LEMMA ReqTyped == CheckoutTypeOK /\ CheckoutNext => req' \in [Requests -> Step(calls')]
<1> SUFFICES ASSUME CheckoutTypeOK, CheckoutNext PROVE req' \in [Requests -> Step(calls')]
  OBVIOUS
<1> USE CheckoutAssumption DEF CheckoutAssumption
<1>a. calls \in Nat /\ req \in [Requests -> Step(calls)]
  BY Types
<1>b. Step(calls) \subseteq Step(calls + 1) /\ NoRequest \in Step(calls)
  BY <1>a DEF Step, NoRequest
<1>1. ASSUME NEW r \in Requests, Submit(r) PROVE req' \in [Requests -> Step(calls')]
  <2>1. [at |-> "reading", call |-> 0, left |-> ReadTime] \in Step(calls)
    BY <1>a DEF Step
  <2> QED
    BY <1>1, <1>a, <2>1 DEF Submit
<1>2. ASSUME NEW r \in Requests, Lock(r) PROVE req' \in [Requests -> Step(calls')]
  <2>1. [at |-> "calling", call |-> calls + 1, left |-> CallTimeout] \in Step(calls + 1)
    BY <1>a DEF Step
  <2> QED
    BY <1>2, <1>a, <1>b, <2>1 DEF Lock
<1>3. ASSUME NEW r \in Requests, Refuse(r) \/ TimeOut(r) \/ Save(r) \/ Fail(r)
      PROVE  req' \in [Requests -> Step(calls')]
  BY <1>3, <1>a, <1>b DEF Refuse, TimeOut, Save, Fail, End
<1>4. ASSUME NEW k \in 1..calls, CallEnds(k) PROVE req' \in [Requests -> Step(calls')]
  <2>1. [at |-> "saving", call |-> k, left |-> SaveTime] \in Step(calls)
    BY <1>a DEF Step
  <2> QED
    BY <1>4, <1>a, <1>b, <2>1 DEF CallEnds
<1>5. CASE Crash
  BY <1>5, <1>a, <1>b DEF Crash
<1>6. CASE Tick
  <2>1. \A r \in Requests : [req[r] EXCEPT !.left = Less(@)] \in Step(calls)
    BY <1>a DEF Step, Less
  <2> QED
    BY <1>6, <1>a, <2>1 DEF Tick
<1> QED
  BY <1>1, <1>2, <1>3, <1>4, <1>5, <1>6 DEF CheckoutNext

LEMMA TypeStep == CheckoutTypeOK /\ Timed /\ CheckoutNext => CheckoutTypeOK'
<1> SUFFICES ASSUME CheckoutTypeOK, Timed, CheckoutNext PROVE CheckoutTypeOK'
  OBVIOUS
<1> USE CheckoutAssumption DEF CheckoutAssumption
<1>a. req' \in [Requests -> Step(calls')]
  BY ReqTyped
<1>b. calls \in Nat /\ req \in [Requests -> Step(calls)]
  BY Types
<1> SUFFICES /\ result' \in 0..calls' /\ kept' \in 0..ResultTTL
             /\ lock' \in 0..LockTTL /\ owner' \in 0..calls'
             /\ calls' \in 0..MaxCalls
             /\ running' \subseteq 1..calls' /\ subs' \subseteq 1..calls'
             /\ answered' \subseteq 1..calls'
  BY <1>a DEF CheckoutTypeOK, Step
<1>1. ASSUME NEW r \in Requests, Submit(r) \/ Refuse(r) \/ TimeOut(r) \/ Fail(r)
      PROVE  /\ answered' \subseteq 1..calls
             /\ UNCHANGED <<result, kept, lock, owner, calls, running, subs>>
  <2>1. UNCHANGED <<result, kept, lock, owner, calls, running, subs>>
    BY <1>1 DEF Submit, Refuse, TimeOut, Fail
  <2>2. answered \subseteq 1..calls /\ result \in 0..calls
    BY DEF CheckoutTypeOK
  <2>3. CASE answered' = answered
    BY <2>1, <2>2, <2>3
  <2>4. CASE result # 0 /\ answered' = answered \cup {result}
    <3>1. result \in 1..calls
      BY <1>b, <2>2, <2>4
    <3>2. answered' \subseteq 1..calls
      BY <2>2, <2>4, <3>1, Zenon
    <3> QED
      BY <2>1, <3>2
  <2>5. answered' = answered \/ (result # 0 /\ answered' = answered \cup {result})
    BY <1>1 DEF Submit, Refuse, TimeOut, Fail
  <2> QED
    BY <2>3, <2>4, <2>5
<1>2. CASE \E r \in Requests : Submit(r) \/ Refuse(r) \/ TimeOut(r) \/ Fail(r)
  BY <1>1, <1>2 DEF CheckoutTypeOK
<1>3. CASE \E r \in Requests : Lock(r)
  BY <1>3, <1>b DEF Lock, CheckoutTypeOK
<1>4. ASSUME NEW r \in Requests, Save(r)
      PROVE  /\ result' \in 1..calls /\ kept' \in 0..ResultTTL /\ answered' \subseteq 1..calls
             /\ UNCHANGED <<lock, owner, calls, running, subs>>
  <2>1. req[r].call \in 1..calls
    BY <1>4, <1>b DEF Save, Timed, Step
  <2>2. answered \subseteq 1..calls /\ ResultTTL \in 0..ResultTTL
    BY DEF CheckoutTypeOK
  <2>3. result' = req[r].call /\ kept' = ResultTTL /\ answered' = answered \cup {req[r].call}
    BY <1>4 DEF Save
  <2>4. UNCHANGED <<lock, owner, calls, running, subs>>
    BY <1>4 DEF Save
  <2> QED
    BY <2>1, <2>2, <2>3, <2>4
<1>5. CASE \E r \in Requests : Save(r)
  <2>0. /\ result' \in 1..calls /\ kept' \in 0..ResultTTL /\ answered' \subseteq 1..calls
        /\ lock' = lock /\ owner' = owner /\ calls' = calls
        /\ running' = running /\ subs' = subs
    <3>1. PICK r \in Requests : Save(r)
      BY <1>5
    <3> QED
      BY <1>4, <3>1, Zenon
  <2>1. /\ lock \in 0..LockTTL /\ owner \in 0..calls /\ calls \in 0..MaxCalls
        /\ running \subseteq 1..calls /\ subs \subseteq 1..calls
    BY DEF CheckoutTypeOK
  <2>2. result' \in 0..calls
    BY <1>b, <2>0
  <2> QED
    BY <2>0, <2>1, <2>2, Zenon
<1>6. CASE \E k \in 1..calls : CallEnds(k)
  BY <1>6 DEF CallEnds, CheckoutTypeOK
<1>7. CASE Crash
  BY <1>7 DEF Crash, CheckoutTypeOK
<1>8. CASE Tick
  BY <1>8, <1>b DEF Tick, Less, CheckoutTypeOK
<1> QED
  BY <1>2, <1>3, <1>5, <1>6, <1>7, <1>8 DEF CheckoutNext

-----------------------------------------------------------------------------

\* What a step does to the requests: they stay, end, or take their next step.
LEMMA RestStep ==
  CheckoutTypeOK /\ Timed /\ OneCallAwaited /\ Settled /\ SuccessesAgree /\ CheckoutNext
    => Timed' /\ OneCallAwaited' /\ Settled' /\ SuccessesAgree'
<1> SUFFICES ASSUME CheckoutTypeOK, Timed, OneCallAwaited, Settled, SuccessesAgree, CheckoutNext
             PROVE  Timed' /\ OneCallAwaited' /\ Settled' /\ SuccessesAgree'
  OBVIOUS
<1> USE CheckoutAssumption DEF CheckoutAssumption
<1>a. /\ calls \in Nat /\ lock \in Nat /\ req \in [Requests -> Step(calls)]
      /\ \A r \in Requests : req[r].left \in Nat
  BY Types
\* Requests that only end leave everything as it was.
<1>b. ASSUME UNCHANGED <<result, lock, answered>>,
             \A r \in Requests : req'[r] = req[r] \/ req'[r].at = "idle"
      PROVE  Timed' /\ OneCallAwaited' /\ Settled' /\ SuccessesAgree'
  <2>1. Timed'
    BY <1>b DEF Timed
  <2>2. OneCallAwaited'
    BY <1>b DEF OneCallAwaited
  <2>3. Settled'
    BY <1>b DEF Settled
  <2>4. SuccessesAgree'
    BY <1>b DEF SuccessesAgree
  <2> QED
    BY <2>1, <2>2, <2>3, <2>4
<1>1. ASSUME NEW r \in Requests, Submit(r)
      PROVE  Timed' /\ OneCallAwaited' /\ Settled' /\ SuccessesAgree'
  <2>1. CASE result # 0
    <3>1. UNCHANGED <<result, lock, req>> /\ answered' = answered \cup {result}
      BY <1>1, <2>1 DEF Submit
    <3> QED
      BY <3>1 DEF Timed, OneCallAwaited, Settled, SuccessesAgree
  <2>2. CASE result = 0
    <3>1. UNCHANGED <<result, lock, answered>>
      BY <1>1, <2>2 DEF Submit
    <3>2. /\ req'[r].at = "reading" /\ req'[r].left = ReadTime
          /\ \A x \in Requests \ {r} : req'[x] = req[x]
      BY <1>1, <1>a, <2>2 DEF Submit
    <3>3. Timed'
      BY <3>1, <3>2 DEF Timed
    <3>4. OneCallAwaited'
      BY <3>2 DEF OneCallAwaited
    <3> QED
      BY <2>2, <3>1, <3>3, <3>4 DEF Settled, SuccessesAgree
  <2> QED
    BY <2>1, <2>2
<1>2. ASSUME NEW r \in Requests, Refuse(r) \/ TimeOut(r) \/ Fail(r)
      PROVE  Timed' /\ OneCallAwaited' /\ Settled' /\ SuccessesAgree'
  <2>1. /\ UNCHANGED <<result, lock, answered>>
        /\ \A x \in Requests : req'[x] = req[x] \/ req'[x].at = "idle"
    BY <1>2, <1>a DEF Refuse, TimeOut, Fail, End, NoRequest
  <2> QED
    BY <1>b, <2>1
<1>3. ASSUME NEW r \in Requests, Lock(r)
      PROVE  Timed' /\ OneCallAwaited' /\ Settled' /\ SuccessesAgree'
  <2>1. /\ req'[r] = [at |-> "calling", call |-> calls + 1, left |-> CallTimeout]
        /\ \A x \in Requests \ {r} : req'[x] = req[x]
        /\ lock = 0 /\ lock' = LockTTL /\ req[r].at = "reading"
        /\ UNCHANGED <<result, answered>>
    BY <1>3, <1>a DEF Lock
  <2>2. \A x \in Requests : req[x].at \notin {"calling", "saving"}
    BY <1>a, <2>1 DEF Timed
  <2>3. result = 0
    BY <1>a, <2>1 DEF Settled
  <2>4. Timed'
    BY <1>a, <2>1, <2>2 DEF Timed
  <2>5. OneCallAwaited'
    BY <2>1, <2>2 DEF OneCallAwaited
  <2> QED
    BY <2>1, <2>3, <2>4, <2>5 DEF Settled, SuccessesAgree
<1>4. ASSUME NEW r \in Requests, Save(r)
      PROVE  Timed' /\ OneCallAwaited' /\ Settled' /\ SuccessesAgree'
  <2>1. /\ req'[r].at = "idle" /\ \A x \in Requests \ {r} : req'[x] = req[x]
        /\ req[r].at = "saving"
        /\ result' = req[r].call /\ answered' = answered \cup {req[r].call}
        /\ UNCHANGED lock
    BY <1>4, <1>a DEF Save, End, NoRequest
  <2>2. \A x \in Requests \ {r} : req[x].at \in {"idle", "reading"}
    BY <1>a, <2>1 DEF OneCallAwaited, Step
  <2>3. lock > ReadTime
    BY <1>a, <2>1 DEF Timed
  <2>4. \A x \in Requests : req[x].at = "reading" => lock > req[x].left
    BY <1>a, <2>3 DEF Timed
  <2>5. Timed'
    BY <2>1 DEF Timed
  <2>6. OneCallAwaited'
    BY <2>1 DEF OneCallAwaited
  <2>7. Settled'
    BY <2>1, <2>2, <2>4 DEF Settled
  <2>8. result = 0
    BY <2>1 DEF Settled
  <2>9. answered = {}
    BY <2>8 DEF SuccessesAgree, CheckoutTypeOK
  <2>10. SuccessesAgree'
    BY <2>1, <2>9 DEF SuccessesAgree
  <2> QED
    BY <2>5, <2>6, <2>7, <2>10
<1>5. ASSUME NEW k \in 1..calls, CallEnds(k)
      PROVE  Timed' /\ OneCallAwaited' /\ Settled' /\ SuccessesAgree'
  <2>1. UNCHANGED <<result, lock, answered>>
    BY <1>5 DEF CallEnds
  <2>2. \A x \in Requests :
          \/ req'[x] = req[x]
          \/ req'[x].at = "idle"
          \/ /\ req[x].at = "calling"
             /\ req'[x] = [at |-> "saving", call |-> k, left |-> SaveTime]
    BY <1>5, <1>a DEF CallEnds, NoRequest
  <2>3. Timed'
    <3> SUFFICES ASSUME NEW x \in Requests
                 PROVE  /\ req'[x].at = "reading" => req'[x].left <= ReadTime
                        /\ req'[x].at = "calling" =>
                             req'[x].call # 0 /\ lock > req'[x].left + SaveTime + ReadTime
                        /\ req'[x].at = "saving" => req'[x].call # 0 /\ lock > req'[x].left + ReadTime
      BY <2>1 DEF Timed
    <3>1. CASE req'[x] = req[x]
      BY <3>1 DEF Timed
    <3>2. CASE req'[x].at = "idle"
      BY <3>2
    <3>3. CASE req[x].at = "calling" /\ req'[x] = [at |-> "saving", call |-> k, left |-> SaveTime]
      <4>1. lock > req[x].left + SaveTime + ReadTime /\ req[x].left \in Nat
        BY <1>a, <3>3 DEF Timed
      <4> QED
        BY <1>a, <3>3, <4>1
    <3> QED
      BY <2>2, <3>1, <3>2, <3>3
  <2>4. \A x \in Requests :
          req'[x].at \in {"calling", "saving"} => req[x].at \in {"calling", "saving"}
    BY <2>2
  <2>5. OneCallAwaited'
    BY <2>4 DEF OneCallAwaited
  <2>6. Settled'
    BY <2>1, <2>2 DEF Settled
  <2> QED
    BY <2>1, <2>3, <2>5, <2>6 DEF SuccessesAgree
<1>6. CASE Crash
  <2>1. /\ UNCHANGED <<result, lock, answered>>
        /\ \A x \in Requests : req'[x].at = "idle"
    BY <1>6 DEF Crash, NoRequest
  <2> QED
    BY <1>b, <2>1
<1>7. CASE Tick
  <2>1. \A x \in Requests : /\ req'[x].at = req[x].at /\ req'[x].call = req[x].call
                            /\ req'[x].left = Less(req[x].left)
                            /\ req[x].at # "idle" => req[x].left > 0
    BY <1>7, <1>a DEF Tick, Step
  <2>2. lock' = Less(lock)
    BY <1>7 DEF Tick
  <2>3. \A x \in Requests : req[x].at # "idle" => req'[x].left = req[x].left - 1
    BY <1>a, <2>1 DEF Less
  <2>4. lock > 0 => lock' = lock - 1
    BY <1>a, <2>2 DEF Less
  <2>5. Timed'
    BY <1>a, <2>1, <2>3, <2>4 DEF Timed
  <2>6. OneCallAwaited'
    BY <2>1 DEF OneCallAwaited
  <2>7. (result' = 0 /\ answered' = {}) \/ UNCHANGED <<result, answered>>
    BY <1>7 DEF Tick
  <2>8. Settled'
    BY <1>a, <2>1, <2>3, <2>4, <2>7 DEF Settled
  <2>9. SuccessesAgree'
    BY <2>7 DEF SuccessesAgree
  <2> QED
    BY <2>5, <2>6, <2>8, <2>9
<1> QED
  BY <1>1, <1>2, <1>3, <1>4, <1>5, <1>6, <1>7 DEF CheckoutNext

LEMMA CheckoutNextInv == CheckoutInv /\ [CheckoutNext]_checkout_vars => CheckoutInv'
<1> SUFFICES ASSUME CheckoutInv, [CheckoutNext]_checkout_vars PROVE CheckoutInv'
  OBVIOUS
<1>1. CASE CheckoutNext
  BY <1>1, TypeStep, RestStep DEF CheckoutInv
<1>2. CASE UNCHANGED checkout_vars
  BY <1>2
     DEF CheckoutInv, CheckoutTypeOK, Timed, OneCallAwaited, Settled, SuccessesAgree, checkout_vars
<1> QED
  BY <1>1, <1>2

LEMMA CheckoutInvariance == CheckoutSpec => []CheckoutInv
BY CheckoutInitInv, CheckoutNextInv, PTL DEF CheckoutSpec

-----------------------------------------------------------------------------

\* Every variable of the checkout keeps its type.
THEOREM CheckoutTyped == CheckoutSpec => []CheckoutTypeOK
<1>1. CheckoutInv => CheckoutTypeOK
  BY DEF CheckoutInv
<1> QED
  BY <1>1, CheckoutInvariance, PTL

\* The double-charge guard: with a lock that outlives read, call and save, no
\* two requests are ever between the lock and the cached result.
THEOREM OneAwaited == CheckoutSpec => []OneCallAwaited
<1>1. CheckoutInv => OneCallAwaited
  BY DEF CheckoutInv
<1> QED
  BY <1>1, CheckoutInvariance, PTL

\* Under the same condition all the 200s of an Idempotency-Key name the
\* subscription that the cache holds.
THEOREM OneSubscriptionAnswered == CheckoutSpec => []SuccessesAgree
<1>1. CheckoutInv => SuccessesAgree
  BY DEF CheckoutInv
<1> QED
  BY <1>1, CheckoutInvariance, PTL

\* What is about to be saved exists.
Created == AnswersExist /\ \A r \in Requests : req[r].at = "saving" => req[r].call \in subs

LEMMA CreatedStep == CheckoutTypeOK /\ Created /\ CheckoutNext => Created'
<1> SUFFICES ASSUME CheckoutTypeOK, Created, CheckoutNext PROVE Created'
  OBVIOUS
<1>a. DOMAIN req = Requests
  BY DEF CheckoutTypeOK
<1>1. ASSUME NEW r \in Requests, Submit(r) \/ Refuse(r) \/ Lock(r) \/ TimeOut(r) \/ Fail(r)
      PROVE  Created'
  <2>1. /\ result' = result /\ subs' = subs
        /\ answered' = answered \/ (result # 0 /\ answered' = answered \cup {result})
    BY <1>1 DEF Submit, Refuse, Lock, TimeOut, Fail
  <2>2. \A x \in Requests : req'[x].at = "saving" => req'[x] = req[x]
    BY <1>1, <1>a DEF Submit, Refuse, Lock, TimeOut, Fail, End, NoRequest
  <2> QED
    BY <2>1, <2>2 DEF Created, AnswersExist
<1>2. ASSUME NEW r \in Requests, Save(r) PROVE Created'
  <2>1. req[r].call \in subs /\ subs' = subs /\ result' = req[r].call
        /\ answered' = answered \cup {req[r].call}
    BY <1>2 DEF Save, Created
  <2>2. \A x \in Requests : req'[x].at = "saving" => req'[x] = req[x]
    BY <1>2, <1>a DEF Save, End, NoRequest
  <2> QED
    BY <2>1, <2>2 DEF Created, AnswersExist
<1>3. ASSUME NEW k \in 1..calls, CallEnds(k) PROVE Created'
  <2>1. subs \subseteq subs' /\ UNCHANGED <<result, answered>>
    BY <1>3 DEF CallEnds
  <2>2. \A x \in Requests : req'[x].at = "saving" =>
          req'[x] = req[x] \/ (req'[x].call = k /\ k \in subs')
    BY <1>3 DEF CallEnds, NoRequest
  <2> QED
    BY <2>1, <2>2 DEF Created, AnswersExist
<1>4. CASE Crash
  BY <1>4 DEF Crash, Created, AnswersExist, NoRequest
<1>5. CASE Tick
  <2>1. /\ subs' = subs
        /\ (result' = 0 /\ answered' = {}) \/ UNCHANGED <<result, answered>>
    BY <1>5 DEF Tick
  <2>2. \A x \in Requests : req'[x].at = req[x].at /\ req'[x].call = req[x].call
    BY <1>5 DEF Tick, CheckoutTypeOK
  <2> QED
    BY <2>1, <2>2 DEF Created, AnswersExist
<1> QED
  BY <1>1, <1>2, <1>3, <1>4, <1>5 DEF CheckoutNext

\* Whatever the calls to the gateway do, and however long they take, a 200 names a
\* subscription that was created (create_checkout).
THEOREM AnsweredExists == CheckoutSpec => []AnswersExist
<1>1. CheckoutInit => Created
  BY DEF CheckoutInit, Created, AnswersExist, NoRequest
<1>2. CheckoutInv /\ Created /\ [CheckoutNext]_checkout_vars => Created'
  <2>1. CheckoutInv => CheckoutTypeOK
    BY DEF CheckoutInv
  <2>2. Created /\ UNCHANGED checkout_vars => Created'
    BY DEF checkout_vars, Created, AnswersExist
  <2> QED
    BY <2>1, <2>2, CreatedStep
<1>3. Created => AnswersExist
  BY DEF Created
<1> QED
  BY <1>1, <1>2, <1>3, CheckoutInvariance, PTL DEF CheckoutSpec

-----------------------------------------------------------------------------

\* The webhook.
Held ==
  \A h \in Handlers :
    /\ handler[h].at # "looked"
    /\ handler[h].at # "idle" => handler[h].event \in Sent
    /\ handler[h].at \in {"marked", "committed"} => handler[h].event \in marked

Unique ==
  /\ \A h \in Handlers : handler[h].at = "marked" => applied[handler[h].event] = 0
  /\ \A h, g \in Handlers :
       handler[h].at = "marked" /\ handler[g].at = "marked" /\ handler[h].event = handler[g].event => h = g
  /\ \A e \in Events : applied[e] # 0 => e \in marked

\* TypeOK without the types of status and applied, and applied's real type.
Typed ==
  /\ status \in [Subs -> Statuses] /\ rows \in [Subs -> Statuses]
  /\ acked \subseteq marked /\ marked \subseteq Sent /\ spoilt \subseteq marked
  /\ tier \in Tiers /\ cache \in Tiers \cup {"none"}
  /\ handler \in [Handlers -> Deliveries]
  /\ reader \in [Readers -> [at : {"idle"}] \cup [at : {"read"}, tier : Tiers]]
  /\ faults \in 0..MaxFaults /\ plans \in 0..MaxPlans
  /\ applied \in [Events -> {0, 1}]

Inv == Typed /\ Held /\ Unique

-----------------------------------------------------------------------------

\* A delivery that takes its next step stays a delivery, of the same event.
LEMMA Advance ==
  ASSUME NEW d \in Deliveries, d.at # "idle",
         NEW p \in {"verified", "looked", "marked", "committed"}
  PROVE  /\ [d EXCEPT !.at = p] \in Deliveries
         /\ [d EXCEPT !.at = p].at = p
         /\ [d EXCEPT !.at = p].event = d.event
         /\ d.event \in Events
BY DEF Deliveries

LEMMA InitInv == Init => Inv
<1> SUFFICES ASSUME Init PROVE Inv
  OBVIOUS
<1>1. Typed
  BY SubscriptionsAssumption
     DEF SubscriptionsAssumption, Init, Typed, Statuses, Tiers, NoDelivery, NoRead, Deliveries
<1>2. Held
  BY DEF Init, Held, NoDelivery
<1>3. Unique
  BY DEF Init, Unique, NoDelivery
<1> QED
  BY <1>1, <1>2, <1>3 DEF Inv

\* A change at Razorpay sends events and takes none back.
LEMMA SentGrows ==
  Typed /\ RazorpayChanges => status' \in [Subs -> Statuses] /\ Sent \subseteq Sent'
<1> SUFFICES ASSUME Typed, RazorpayChanges
             PROVE  status' \in [Subs -> Statuses] /\ Sent \subseteq Sent'
  OBVIOUS
<1>1. PICK s \in Subs :
        \/ status[s] = "none" /\ status' = [status EXCEPT ![s] = "active"]
        \/ status[s] = "active" /\ status' = [status EXCEPT ![s] = "cancelled"]
  BY DEF RazorpayChanges
<1>2. status \in [Subs -> Statuses]
  BY DEF Typed
<1>3. status' \in [Subs -> Statuses]
  BY <1>1, <1>2 DEF Statuses
<1>4. ASSUME NEW e \in Events, e \in Sent PROVE e \in Sent'
  <2>1. e.sub \in Subs /\ e.status \in {"active", "cancelled"}
    BY DEF Events
  <2>2. status[e.sub] = e.status \/ status[e.sub] = "cancelled"
    BY <1>4 DEF Sent
  <2>3. status'[e.sub] = e.status \/ status'[e.sub] = "cancelled"
    BY <1>1, <1>2, <2>1, <2>2
  <2> QED
    BY <2>3 DEF Sent
<1> QED
  BY <1>3, <1>4 DEF Sent

-----------------------------------------------------------------------------

\* What remains true when no delivery moves and no event is marked or committed.
LEMMA Elsewhere ==
  ASSUME Inv, UNCHANGED <<handler, marked, applied, rows, faults, acked, spoilt>>,
         status' \in [Subs -> Statuses], Sent \subseteq Sent',
         tier' \in Tiers, cache' \in Tiers \cup {"none"}, plans' \in 0..MaxPlans,
         reader' \in [Readers -> [at : {"idle"}] \cup [at : {"read"}, tier : Tiers]]
  PROVE  Inv'
<1>1. Typed'
  BY DEF Inv, Typed
<1>2. Held'
  BY DEF Inv, Held
<1>3. Unique'
  BY DEF Inv, Unique
<1> QED
  BY <1>1, <1>2, <1>3 DEF Inv

LEMMA ElsewhereStep ==
  ASSUME Inv,
         \/ RazorpayChanges \/ SetPlan \/ CacheExpires
         \/ \E r \in Readers : ReadTier(r) \/ FillCache(r) \/ ReadFails(r)
  PROVE  Inv'
<1> DEFINE Reads == [at : {"idle"}] \cup [at : {"read"}, tier : Tiers]
<1>a. /\ Typed /\ tier \in Tiers /\ cache \in Tiers \cup {"none"} /\ plans \in 0..MaxPlans
      /\ reader \in [Readers -> Reads] /\ status \in [Subs -> Statuses]
  BY DEF Inv, Typed
<1>1. CASE RazorpayChanges
  <2>1. UNCHANGED <<handler, marked, applied, rows, faults, acked, spoilt, tier, cache, plans, reader>>
    BY <1>1 DEF RazorpayChanges, stored
  <2> QED
    BY <1>a, <1>1, <2>1, SentGrows, Elsewhere
<1>2. CASE SetPlan
  <2>1. /\ UNCHANGED <<handler, marked, applied, rows, faults, acked, spoilt, status, cache, reader>>
        /\ tier' \in Tiers /\ plans < MaxPlans /\ plans' = plans + 1
    BY <1>2 DEF SetPlan, gateway
  <2>2. plans' \in 0..MaxPlans
    BY <1>a, <2>1, SubscriptionsAssumption DEF SubscriptionsAssumption
  <2>3. Sent' = Sent
    BY <2>1 DEF Sent
  <2> QED
    BY <1>a, <2>1, <2>2, <2>3, Elsewhere
<1>3. CASE CacheExpires
  <2>1. /\ UNCHANGED <<handler, marked, applied, rows, faults, acked, spoilt, status, tier, plans, reader>>
        /\ cache' = "none"
    BY <1>3 DEF CacheExpires, gateway, stored
  <2>2. Sent' = Sent
    BY <2>1 DEF Sent
  <2> QED
    BY <1>a, <2>1, <2>2, Elsewhere
<1>4. ASSUME NEW r \in Readers, ReadTier(r) \/ FillCache(r) \/ ReadFails(r) PROVE Inv'
  <2>1. UNCHANGED <<handler, marked, applied, rows, faults, acked, spoilt, status, tier, plans>>
    BY <1>4 DEF ReadTier, FillCache, ReadFails, gateway, stored
  <2>2. Sent' = Sent
    BY <2>1 DEF Sent
  <2>3. reader' \in [Readers -> Reads]
    <3>1. [at |-> "read", tier |-> tier] \in Reads /\ NoRead \in Reads
      BY <1>a DEF NoRead
    <3> HIDE DEF Reads
    <3> QED
      BY <1>a, <1>4, <3>1 DEF ReadTier, FillCache, ReadFails
  <2>4. cache' \in Tiers \cup {"none"}
    <3>1. reader[r].at = "read" => reader[r].tier \in Tiers
      BY <1>a
    <3> QED
      BY <1>a, <1>4, <3>1 DEF ReadTier, FillCache, ReadFails
  <2> QED
    BY <1>a, <2>1, <2>2, <2>3, <2>4, Elsewhere
<1> QED
  BY <1>1, <1>2, <1>3, <1>4

-----------------------------------------------------------------------------

\* The deliveries: handler h moves, the others stay.
LEMMA HandlerStep ==
  ASSUME Inv, NEW h \in Handlers,
         \/ \E e \in Events : Deliver(h, e)
         \/ Mark(h) \/ Ignore(h) \/ Commit(h) \/ Flush(h) \/ DeliveryFails(h)
  PROVE  Inv'
<1> DEFINE d == handler[h]
<1>a. /\ Typed /\ Held /\ Unique
      /\ handler \in [Handlers -> Deliveries] /\ d \in Deliveries
      /\ acked \subseteq marked /\ marked \subseteq Sent /\ spoilt \subseteq marked
      /\ applied \in [Events -> {0, 1}] /\ faults \in 0..MaxFaults
  BY DEF Inv, Typed
<1>b. /\ NoDelivery \in Deliveries /\ NoDelivery.at = "idle"
      /\ \A e \in Events : [at |-> "verified", event |-> e] \in Deliveries
  BY DEF NoDelivery, Deliveries
<1>c. status' = status /\ Sent' = Sent /\ UNCHANGED <<reader, plans>>
  <2>1. status' = status /\ UNCHANGED <<reader, plans>>
    BY DEF Deliver, Mark, Ignore, Commit, Flush, DeliveryFails, gateway
  <2> QED
    BY <2>1 DEF Sent
\* The delivery ends or begins: nothing is marked or committed.
<1>1. ASSUME NEW n \in Deliveries, handler' = [handler EXCEPT ![h] = n],
             \/ n.at = "idle"
             \/ n.at = "verified" /\ n.event \in Sent,
             UNCHANGED <<marked, rows, applied>>, tier' = tier,
             acked' \subseteq marked, spoilt' \subseteq marked,
             cache' \in {cache, "none"}, faults' \in 0..MaxFaults
      PROVE  Inv'
  <2>1. Typed'
    BY <1>a, <1>c, <1>1 DEF Typed
  <2>2. \A g \in Handlers : handler'[g] = IF g = h THEN n ELSE handler[g]
    BY <1>a, <1>1
  <2>3. Held'
    BY <1>a, <1>c, <1>1, <2>2 DEF Held
  <2>4. Unique'
    BY <1>a, <1>1, <2>2 DEF Unique
  <2> QED
    BY <2>1, <2>3, <2>4 DEF Inv
<1>2. ASSUME NEW e \in Events, Deliver(h, e) PROVE Inv'
  <2>1. /\ e \in Sent
        /\ handler' = [handler EXCEPT ![h] = [at |-> "verified", event |-> e]]
        /\ UNCHANGED <<acked, marked, rows, tier, applied, cache, spoilt>>
    BY <1>2 DEF Deliver, gateway, stored
  <2>2. faults' \in 0..MaxFaults
    BY <1>a, <1>2, SubscriptionsAssumption DEF Deliver, SubscriptionsAssumption
  <2> QED
    BY <1>a, <1>b, <1>1, <2>1, <2>2
<1>3. CASE Mark(h)
  <2>1. /\ d.at = "verified" /\ d.event \notin marked /\ marked' = marked \cup {d.event}
        /\ handler' = [handler EXCEPT ![h] = [d EXCEPT !.at = "marked"]]
        /\ UNCHANGED <<acked, rows, tier, applied, cache, faults, spoilt>>
    BY <1>3, <1>a DEF Mark, gateway, stored
  <2>2. /\ [d EXCEPT !.at = "marked"] \in Deliveries /\ d.event \in Events
        /\ [d EXCEPT !.at = "marked"].at = "marked"
        /\ [d EXCEPT !.at = "marked"].event = d.event
    BY <1>a, <2>1, Advance
  <2>3. d.event \in Sent
    BY <1>a, <2>1 DEF Held
  <2>4. /\ handler'[h].at = "marked" /\ handler'[h].event = d.event
        /\ \A g \in Handlers \ {h} : handler'[g] = handler[g]
        /\ handler' \in [Handlers -> Deliveries]
    BY <1>a, <2>1, <2>2
  <2>5. Typed'
    BY <1>a, <1>c, <2>1, <2>3, <2>4 DEF Typed
  <2>6. Held'
    BY <1>a, <1>c, <2>1, <2>3, <2>4 DEF Held
  <2>7. applied[d.event] = 0
    BY <1>a, <2>1, <2>2 DEF Unique
  <2>8. \A g \in Handlers \ {h} : handler[g].at = "marked" => handler[g].event # d.event
    BY <1>a, <2>1 DEF Held
  <2>9. Unique'
    BY <1>a, <2>1, <2>4, <2>7, <2>8 DEF Unique
  <2> QED
    BY <2>5, <2>6, <2>9 DEF Inv
<1>4. CASE Ignore(h)
  <2>1. /\ acked' = acked \cup {d.event} /\ d.event \in marked
        /\ handler' = [handler EXCEPT ![h] = NoDelivery]
        /\ UNCHANGED <<marked, rows, tier, applied, cache, faults, spoilt>>
    BY <1>4 DEF Ignore, stored
  <2> QED
    BY <1>a, <1>b, <1>1, <2>1
<1>5. CASE Commit(h)
  <2>1. /\ d.at = "marked"
        /\ rows' = [rows EXCEPT ![d.event.sub] = d.event.status]
        /\ tier' = DerivedTier(d.event.status)
        /\ applied' = [applied EXCEPT ![d.event] = @ + 1]
        /\ handler' = [handler EXCEPT ![h] = [d EXCEPT !.at = "committed"]]
        /\ UNCHANGED <<acked, marked, cache, faults, spoilt>>
    BY <1>5, <1>a DEF Commit, gateway
  <2>2. /\ [d EXCEPT !.at = "committed"] \in Deliveries /\ d.event \in Events
        /\ [d EXCEPT !.at = "committed"].at = "committed"
        /\ [d EXCEPT !.at = "committed"].event = d.event
    BY <1>a, <2>1, Advance
  <2>3. d.event \in marked /\ d.event \in Sent /\ applied[d.event] = 0
    BY <1>a, <2>1 DEF Held, Unique
  <2>4. /\ handler'[h].at = "committed" /\ handler'[h].event = d.event
        /\ \A g \in Handlers \ {h} : handler'[g] = handler[g]
        /\ handler' \in [Handlers -> Deliveries]
    BY <1>a, <2>1, <2>2
  <2>5. /\ applied' \in [Events -> {0, 1}]
        /\ \A e \in Events : applied'[e] = IF e = d.event THEN 1 ELSE applied[e]
    <3>1. applied' = [applied EXCEPT ![d.event] = 1]
      BY <1>a, <2>1, <2>2, <2>3
    <3> QED
      BY <1>a, <2>2, <3>1
  <2>6. tier' \in Tiers /\ rows' \in [Subs -> Statuses]
    <3>1. d.event.status \in Statuses
      BY <2>2 DEF Events, Statuses
    <3> QED
      BY <1>a, <2>1, <3>1 DEF Typed, DerivedTier, Tiers
  <2>7. Typed'
    BY <1>a, <1>c, <2>1, <2>4, <2>5, <2>6 DEF Typed
  <2>8. Held'
    BY <1>a, <1>c, <2>1, <2>3, <2>4 DEF Held
  <2>9. \A g \in Handlers \ {h} : handler[g].at = "marked" => handler[g].event # d.event
    BY <1>a, <2>1 DEF Unique
  <2>10. \A g \in Handlers : handler[g].at = "marked" => handler[g].event \in Events
    BY <1>a, Advance
  <2>11. Unique'
    BY <1>a, <2>1, <2>3, <2>4, <2>5, <2>9, <2>10 DEF Unique
  <2> QED
    BY <2>7, <2>8, <2>11 DEF Inv
<1>6. CASE Flush(h)
  <2>1. /\ acked' = acked \cup {d.event} /\ d.at = "committed" /\ cache' = "none"
        /\ handler' = [handler EXCEPT ![h] = NoDelivery]
        /\ UNCHANGED <<marked, rows, tier, applied, faults, spoilt>>
    BY <1>6 DEF Flush, stored
  <2>2. d.event \in marked
    BY <1>a, <2>1 DEF Held
  <2> QED
    BY <1>a, <1>b, <1>1, <2>1, <2>2
<1>7. CASE DeliveryFails(h)
  <2>1. /\ handler' = [handler EXCEPT ![h] = NoDelivery]
        /\ UNCHANGED <<acked, marked, rows, tier, applied>>
        /\ faults < MaxFaults /\ faults' = faults + 1
    BY <1>7 DEF DeliveryFails, gateway, stored
  <2>2. cache' \in {cache, "none"}
    BY <1>7 DEF DeliveryFails
  <2>3. spoilt' \subseteq marked
    BY <1>a, <1>7 DEF DeliveryFails, Held
  <2>4. faults' \in 0..MaxFaults
    BY <1>a, <2>1, SubscriptionsAssumption DEF SubscriptionsAssumption
  <2> QED
    BY <1>a, <1>b, <1>1, <2>1, <2>2, <2>3, <2>4
<1> QED
  BY <1>2, <1>3, <1>4, <1>5, <1>6, <1>7

LEMMA NextInv == Inv /\ [Next]_vars => Inv'
<1> SUFFICES ASSUME Inv, [Next]_vars PROVE Inv'
  OBVIOUS
<1>1. CASE Next
  BY <1>1, ElsewhereStep, HandlerStep DEF Next
<1>2. CASE UNCHANGED vars
  BY <1>2 DEF Inv, Typed, Held, Unique, Sent, vars
<1> QED
  BY <1>1, <1>2

LEMMA Invariance == Spec => []Inv
BY InitInv, NextInv, PTL DEF Spec

-----------------------------------------------------------------------------

\* Every variable of the webhook and of the tier cache keeps its type: no event
\* is marked before Razorpay has sent it, none acknowledged or spoilt unmarked.
THEOREM SubscriptionsTyped == Spec => []TypeOK
<1>1. Inv => TypeOK
  BY SubscriptionsAssumption DEF SubscriptionsAssumption, Inv, Typed, TypeOK
<1> QED
  BY <1>1, Invariance, PTL

\* However many deliveries of an event are handled at once, fail or are
\* repeated, SET NX lets one of them commit it.
THEOREM EventsAppliedOnce == Spec => []AppliedOnce
<1>1. Inv => AppliedOnce
  BY DEF Inv, Typed, AppliedOnce
<1> QED
  BY <1>1, Invariance, PTL

\* A mark is followed by its commit, or by a fault that is recorded.
LEMMA AccountedStep == Inv /\ MarkedAccounted /\ Next => MarkedAccounted'
<1> SUFFICES ASSUME Inv, MarkedAccounted, Next PROVE MarkedAccounted'
  OBVIOUS
<1>a. /\ handler \in [Handlers -> Deliveries] /\ applied \in [Events -> {0, 1}]
      /\ marked \subseteq Events
  BY DEF Inv, Typed, Sent
<1>b. \A h \in Handlers : handler[h].at = "marked" => handler[h].event \in Events /\ applied[handler[h].event] = 0
  BY <1>a, Advance DEF Inv, Unique
<1>1. CASE UNCHANGED <<marked, applied, spoilt, handler>>
  BY <1>1 DEF MarkedAccounted
\* A delivery moves that has not marked its event, or has committed it.
<1>2. ASSUME NEW h \in Handlers, NEW n, handler' = [handler EXCEPT ![h] = n],
             handler[h].at # "marked", UNCHANGED <<marked, applied, spoilt>>
      PROVE  MarkedAccounted'
  <2>1. \A g \in Handlers \ {h} : handler'[g] = handler[g]
    BY <1>a, <1>2
  <2> QED
    BY <1>2, <2>1 DEF MarkedAccounted
<1>3. ASSUME NEW h \in Handlers, Mark(h) PROVE MarkedAccounted'
  <2>1. /\ marked' = marked \cup {handler[h].event} /\ handler[h].at = "verified"
        /\ handler' = [handler EXCEPT ![h] = [handler[h] EXCEPT !.at = "marked"]]
        /\ UNCHANGED <<applied, spoilt>>
    BY <1>3, <1>a DEF Mark, stored
  <2>2. /\ [handler[h] EXCEPT !.at = "marked"].at = "marked"
        /\ [handler[h] EXCEPT !.at = "marked"].event = handler[h].event
    BY <1>a, <2>1, Advance
  <2>3. /\ handler'[h].at = "marked" /\ handler'[h].event = handler[h].event
        /\ \A g \in Handlers \ {h} : handler'[g] = handler[g]
    BY <1>a, <2>1, <2>2
  <2> QED
    BY <2>1, <2>3 DEF MarkedAccounted
<1>4. ASSUME NEW h \in Handlers, Commit(h) PROVE MarkedAccounted'
  <2>1. /\ applied' = [applied EXCEPT ![handler[h].event] = @ + 1] /\ handler[h].at = "marked"
        /\ handler' = [handler EXCEPT ![h].at = "committed"]
        /\ UNCHANGED <<marked, spoilt>>
    BY <1>4 DEF Commit
  <2> DEFINE d == handler[h].event
  <2>2. d \in Events /\ applied[d] = 0 /\ applied' = [applied EXCEPT ![d] = @ + 1]
    BY <1>b, <2>1
  <2>4. applied'[d] = 1 /\ \A e \in Events : applied[e] = 1 => applied'[e] = 1
    <3> HIDE DEF d
    <3> QED
      BY <1>a, <2>2
  <2>3. \A g \in Handlers \ {h} : handler'[g] = handler[g]
    BY <1>a, <2>1
  <2> QED
    BY <1>a, <2>1, <2>3, <2>4 DEF MarkedAccounted
<1>5. ASSUME NEW h \in Handlers, DeliveryFails(h) PROVE MarkedAccounted'
  <2>1. /\ spoilt' = IF handler[h].at = "marked" THEN spoilt \cup {handler[h].event} ELSE spoilt
        /\ handler' = [handler EXCEPT ![h] = NoDelivery]
        /\ UNCHANGED <<marked, applied>>
    BY <1>5 DEF DeliveryFails, stored
  <2>2. \A g \in Handlers \ {h} : handler'[g] = handler[g]
    BY <1>a, <2>1
  <2> QED
    BY <2>1, <2>2 DEF MarkedAccounted
<1>6. ASSUME NEW h \in Handlers, (\E e \in Events : Deliver(h, e)) \/ Ignore(h) \/ Flush(h)
      PROVE  MarkedAccounted'
  <2>1. handler[h].at # "marked" /\ UNCHANGED <<marked, applied, spoilt>>
    BY <1>6 DEF Deliver, Ignore, Flush, stored
  <2>2. \E n : handler' = [handler EXCEPT ![h] = n]
    BY <1>6 DEF Deliver, Ignore, Flush
  <2> QED
    BY <1>2, <2>1, <2>2
<1>7. RazorpayChanges \/ SetPlan \/ CacheExpires \/ (\E r \in Readers : ReadTier(r) \/ FillCache(r) \/ ReadFails(r))
        => UNCHANGED <<marked, applied, spoilt, handler>>
  BY DEF RazorpayChanges, SetPlan, CacheExpires, ReadTier, FillCache, ReadFails, stored
<1> QED
  BY <1>1, <1>3, <1>4, <1>5, <1>6, <1>7 DEF Next

\* No 200 is sent for an event that is forgotten: whichever deliveries race, repeat or fail,
\* what the webhook has marked is committed or accounted for by a fault.
THEOREM NoMarkForgotten == Spec => []MarkedAccounted
<1>1. Init => MarkedAccounted
  BY DEF Init, MarkedAccounted
<1>2. MarkedAccounted /\ UNCHANGED vars => MarkedAccounted'
  BY DEF MarkedAccounted, vars
<1> QED
  BY <1>1, <1>2, Invariance, AccountedStep, PTL DEF Spec
=============================================================================
