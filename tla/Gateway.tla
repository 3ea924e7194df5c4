------------------------------- MODULE Gateway -------------------------------
(***************************************************************************)
(* dhanradar/ai_gateway/gateway.py: OpenRouterGateway.complete, the only   *)
(* place a model is called, for concurrent callers that share one ticker   *)
(* (or task) and so one strike counter.  budget_guard appears as what the  *)
(* module Budget shows it to be: an atomic admission with a reservation,   *)
(* reconciled on a clean exit and rolled back on an exception.             *)
(*                                                                         *)
(* The groundedness judge is left out: it is never billed to the budget    *)
(* and never changes a result.                                             *)
(***************************************************************************)
EXTENDS Integers, FiniteSets

CONSTANTS
  Callers,
  FreeModels,    \* size of the free pool (_models_for)
  PaidModels,    \* size of the paid fallback list
  Tasks,         \* kinds of task asked for: "plain", "stakes" (high stakes)
                 \* or "fallback" (_paid_fallback_tasks)
  FreeCap, PremiumCap,
  PremiumReserve,
  MaxCalls       \* bound: completions asked for in the day

StrikeLimit == 3

ASSUME GatewayAssumption ==
  /\ IsFiniteSet(Callers)
  /\ MaxCalls \in Nat
  /\ FreeModels \in Nat \ {0} /\ PaidModels \in Nat
  /\ Tasks \subseteq {"plain", "stakes", "fallback"}
  /\ FreeCap \in Nat \ {0} /\ PremiumCap \in Nat \ {0}
  /\ PremiumReserve \in Nat \ {0}

VARIABLES
  used,      \* the two Redis counters: free units, premium cost
  strikes,   \* ai:strike:{ticker}:{day}
  task,      \* the kind of task each caller is completing
  pc,        \* where each caller is in complete()
  next,      \* the model it tries next in the current pool
  meter,     \* what its BudgetMeter shows
  bad,       \* last_quality_error is not None
  verdict,   \* how the latest complete() to end, ended
  calls,     \* completions asked for so far
  billed,    \* ghost: the replies that came back, by budget kind
  uncounted  \* ghost: those of them no counter has or will have, because the
             \* code puts them on no meter or throws the meter away

vars == <<used, strikes, task, pc, next, meter, bad, verdict, calls, billed, uncounted>>

Places  == {"idle", "free", "escalate", "paid", "sonnet", "strike"}
Verdicts == {"none", "ok", "budget", "credit", "allfailed", "quality", "skip", "raised"}

ReserveOf(kind) == IF kind = "free" THEN 1 ELSE PremiumReserve
CapOf(kind)     == IF kind = "free" THEN FreeCap ELSE PremiumCap
KindAt(c)       == IF pc[c] = "free" THEN "free" ELSE "premium"
InGuard         == {c \in Callers : pc[c] \in {"free", "paid", "sonnet"}}

-----------------------------------------------------------------------------

Go(c, place) == pc' = [pc EXCEPT ![c] = place]

\* complete() returns or raises.
End(c, how) ==
  /\ Go(c, "idle")
  /\ verdict' = how
  /\ task' = [task EXCEPT ![c] = "plain"]
  /\ next' = [next EXCEPT ![c] = 1]
  /\ meter' = [meter EXCEPT ![c] = 0]
  /\ bad' = [bad EXCEPT ![c] = FALSE]

\* Mutant: the reservation is not taken.
EnterGuardUnreserved(c, job, kind, place) ==
  IF used[kind] < CapOf(kind)
  THEN /\ Go(c, place)
       /\ task' = [task EXCEPT ![c] = job]
       /\ next' = [next EXCEPT ![c] = 1]
       /\ meter' = [meter EXCEPT ![c] = 0]
       /\ UNCHANGED <<used, verdict, bad>>
  ELSE /\ End(c, "budget")
       /\ UNCHANGED used

\* async with budget_guard(kind): admitted below the cap, or BudgetExhausted.
EnterGuard(c, job, kind, place) ==
  IF used[kind] < CapOf(kind)
  THEN /\ used' = [used EXCEPT ![kind] = @ + ReserveOf(kind)]
       /\ Go(c, place)
       /\ task' = [task EXCEPT ![c] = job]
       /\ next' = [next EXCEPT ![c] = 1]
       /\ meter' = [meter EXCEPT ![c] = 0]
       /\ UNCHANGED <<verdict, bad>>
  ELSE /\ End(c, "budget")
       /\ UNCHANGED used

\* Clean exit: the counter keeps what the meter shows.
SettleAt(c, recorded) ==
  used' = [used EXCEPT ![KindAt(c)] = @ - ReserveOf(KindAt(c)) + recorded]

\* Exit by exception: the counter keeps nothing, whatever the meter shows.
RollBack(c) ==
  used' = [used EXCEPT ![KindAt(c)] = @ - ReserveOf(KindAt(c))]

Bill(c) == billed' = [billed EXCEPT ![KindAt(c)] = @ + 1]

Lose(c, replies) == uncounted' = [uncounted EXCEPT ![KindAt(c)] = @ + replies]

Init ==
  /\ used = [free |-> 0, premium |-> 0]
  /\ strikes = 0
  /\ task = [c \in Callers |-> "plain"]
  /\ pc = [c \in Callers |-> "idle"]
  /\ next = [c \in Callers |-> 1]
  /\ meter = [c \in Callers |-> 0]
  /\ bad = [c \in Callers |-> FALSE]
  /\ verdict = "none"
  /\ calls = 0
  /\ billed = [free |-> 0, premium |-> 0]
  /\ uncounted = [free |-> 0, premium |-> 0]

Complete(c) ==
  /\ pc[c] = "idle"
  /\ calls < MaxCalls
  /\ calls' = calls + 1
  /\ \E job \in Tasks : EnterGuard(c, job, "free", "free")
  /\ UNCHANGED <<strikes, billed, uncounted>>

\* 429, unreachable, timed out, another upstream error: on to the next model.
Rotate(c) ==
  /\ \/ pc[c] = "free" /\ next[c] <= FreeModels
     \/ pc[c] = "paid" /\ next[c] <= PaidModels
  /\ next' = [next EXCEPT ![c] = @ + 1]
  /\ UNCHANGED <<used, strikes, task, pc, meter, bad, verdict, calls, billed, uncounted>>

\* A free model answers with something unusable: not JSON, or failing the
\* quality validator.  It costs a unit.
FreeAnswersBadly(c) ==
  /\ pc[c] = "free" /\ next[c] <= FreeModels
  /\ Bill(c)
  /\ meter' = [meter EXCEPT ![c] = @ + 1]
  /\ bad' = [bad EXCEPT ![c] = TRUE]
  /\ next' = [next EXCEPT ![c] = @ + 1]
  /\ UNCHANGED <<used, strikes, task, pc, verdict, calls, uncounted>>

FreeAnswers(c) ==
  /\ pc[c] = "free" /\ next[c] <= FreeModels
  /\ Bill(c)
  /\ SettleAt(c, meter[c] + 1)
  /\ End(c, "ok")
  /\ UNCHANGED <<strikes, calls, uncounted>>

\* Mutant: only a usable answer costs a unit.
LeaveFreePoolFree(c) ==
  /\ pc[c] = "free" /\ next[c] > FreeModels
  /\ RollBack(c)
  /\ Go(c, "escalate")
  /\ UNCHANGED <<strikes, task, next, meter, bad, verdict, calls, billed, uncounted>>

\* Mutant: a pool in which nothing answered is tried again from the start.
LeaveFreePoolRetrying(c) ==
  /\ pc[c] = "free" /\ next[c] > FreeModels
  /\ IF bad[c]
     THEN SettleAt(c, meter[c]) /\ Go(c, "escalate") /\ UNCHANGED next
     ELSE next' = [next EXCEPT ![c] = 1] /\ UNCHANGED <<used, pc>>
  /\ UNCHANGED <<strikes, task, meter, bad, verdict, calls, billed, uncounted>>

\* The pool is exhausted: the guard is left cleanly, with the units used.
LeaveFreePool(c) ==
  /\ pc[c] = "free" /\ next[c] > FreeModels
  /\ SettleAt(c, meter[c])
  /\ Go(c, "escalate")
  /\ UNCHANGED <<strikes, task, next, meter, bad, verdict, calls, billed, uncounted>>

\* Which way out of the free pool: the paid fallback for the tasks it owns,
\* Sonnet for high-stakes tasks that got an unusable answer, a strike for
\* other unusable answers, and an error when nothing answered.
Escalate(c) ==
  /\ pc[c] = "escalate"
  /\ \/ /\ task[c] = "fallback" /\ PaidModels > 0
        /\ EnterGuard(c, task[c], "premium", "paid")
     \/ /\ task[c] = "stakes" /\ bad[c]
        /\ EnterGuard(c, task[c], "premium", "sonnet")
     \/ /\ task[c] = "plain" \/ (task[c] = "fallback" /\ PaidModels = 0)
        /\ bad[c]
        /\ Go(c, "strike")
        /\ UNCHANGED <<used, task, next, meter, bad, verdict>>
     \/ /\ task[c] # "fallback" \/ PaidModels = 0
        /\ ~bad[c]
        /\ End(c, "allfailed")
        /\ UNCHANGED used
  /\ UNCHANGED <<strikes, calls, billed, uncounted>>

\* A paid model's answer is charged before it is validated.
PaidAnswersBadly(c) ==
  /\ pc[c] = "paid" /\ next[c] <= PaidModels
  /\ Bill(c)
  /\ meter' = [meter EXCEPT ![c] = @ + 1]
  /\ next' = [next EXCEPT ![c] = @ + 1]
  /\ UNCHANGED <<used, strikes, task, pc, bad, verdict, calls, uncounted>>

\* A paid reply that is not JSON is billed and left off the meter; the loop
\* goes on, and the guard is left cleanly in the end.
PaidAnswersGarbage(c) ==
  /\ pc[c] = "paid" /\ next[c] <= PaidModels
  /\ Bill(c)
  /\ Lose(c, 1)
  /\ next' = [next EXCEPT ![c] = @ + 1]
  /\ UNCHANGED <<used, strikes, task, pc, meter, bad, verdict, calls>>

PaidAnswers(c) ==
  /\ pc[c] = "paid" /\ next[c] <= PaidModels
  /\ Bill(c)
  /\ SettleAt(c, meter[c] + 1)
  /\ End(c, "ok")
  /\ UNCHANGED <<strikes, calls, uncounted>>

\* No paid model was usable: back to the unusable free answer, if there was
\* one, and never on to Sonnet.
LeavePaidPool(c) ==
  /\ pc[c] = "paid" /\ next[c] > PaidModels
  /\ SettleAt(c, meter[c])
  /\ IF bad[c] THEN Go(c, "strike") /\ UNCHANGED <<task, next, meter, bad, verdict>>
               ELSE End(c, "allfailed")
  /\ UNCHANGED <<strikes, calls, billed, uncounted>>

\* Sonnet answers: the cost is debited, then the answer is validated.
SonnetAnswers(c) ==
  /\ pc[c] = "sonnet"
  /\ Bill(c)
  /\ SettleAt(c, 1)
  /\ \/ End(c, "ok")
     \/ Go(c, "strike") /\ UNCHANGED <<task, next, meter, bad, verdict>>
  /\ UNCHANGED <<strikes, calls, uncounted>>

\* Sonnet is rate-limited, unreachable or timed out: nothing is billed.
SonnetFails(c) ==
  /\ pc[c] = "sonnet"
  /\ RollBack(c)
  /\ \E how \in {"allfailed", "raised"} : End(c, how)
  /\ UNCHANGED <<strikes, calls, billed, uncounted>>

\* Sonnet replies with something that is not JSON: _call raises after the
\* reply, inside the guard.
SonnetAnswersGarbage(c) ==
  /\ pc[c] = "sonnet"
  /\ Bill(c)
  /\ Lose(c, 1)
  /\ RollBack(c)
  /\ End(c, "raised")
  /\ UNCHANGED <<strikes, calls>>

\* A 402, or the caller's own timeout cancelling the task, at any model of
\* any pool: what the meter shows is thrown away with the reservation.
Abort(c) ==
  /\ c \in InGuard
  /\ RollBack(c)
  /\ Lose(c, meter[c])
  /\ \E how \in {"credit", "raised"} : End(c, how)
  /\ UNCHANGED <<strikes, calls, billed>>

\* _record_strike, and the verdict on the count it returns.
RecordStrike(c) ==
  /\ pc[c] = "strike"
  /\ strikes' = strikes + 1
  /\ End(c, IF strikes + 1 >= StrikeLimit THEN "skip" ELSE "quality")
  /\ UNCHANGED <<used, calls, billed, uncounted>>

\* The steps of a completion under way.
Proceed(c) ==
  \/ Rotate(c)
  \/ FreeAnswersBadly(c)
  \/ FreeAnswers(c)
  \/ LeaveFreePool(c)
  \/ Escalate(c)
  \/ PaidAnswersBadly(c)
  \/ PaidAnswersGarbage(c)
  \/ PaidAnswers(c)
  \/ LeavePaidPool(c)
  \/ SonnetAnswers(c)
  \/ SonnetFails(c)
  \/ SonnetAnswersGarbage(c)
  \/ Abort(c)
  \/ RecordStrike(c)

Next == \E c \in Callers : Complete(c) \/ Proceed(c)

\* Every upstream request is bounded (AI_REQUEST_TIMEOUT_S, _SONNET_TIMEOUT_S),
\* so a completion under way always takes its next step.
Fairness == \A c \in Callers : WF_vars(Proceed(c))

Spec == Init /\ [][Next]_vars /\ Fairness

-----------------------------------------------------------------------------

TypeOK ==
  /\ used \in [{"free", "premium"} -> Nat]
  /\ strikes \in Nat
  /\ task \in [Callers -> Tasks \cup {"plain"}]
  /\ pc \in [Callers -> Places]
  /\ next \in [Callers -> Nat] /\ meter \in [Callers -> Nat]
  /\ bad \in [Callers -> BOOLEAN]
  /\ verdict \in Verdicts
  /\ calls \in 0..MaxCalls
  /\ billed \in [{"free", "premium"} -> Nat]
  /\ uncounted \in [{"free", "premium"} -> Nat]

\* The replies that the counters have, or will have once the open guards are left.
Accountable(kind) == billed[kind] - uncounted[kind]

\* When no guard is open, the two counters are what the provider served, but
\* for the replies that were not JSON in the paid pool or at Sonnet and those
\* on a meter whose guard was left by an exception: rotation, quality failures,
\* fallback and spillover by any number of concurrent callers lose and double
\* no other, and those are lost once each.
EveryAnswerCounted ==
  InGuard = {} => \A kind \in {"free", "premium"} : used[kind] = Accountable(kind)

\* The free cap counts calls, and one completion may use the whole pool on a
\* reservation of one: beyond those lost with their guard, a day's free calls
\* pass the cap by at most the rest of one pool per concurrent caller.
FreeOvershootBounded ==
  Accountable("free") <= FreeCap + (FreeModels - 1) * Cardinality(Callers)

\* No combination of rate limits, bad answers and exhausted budgets leaves a
\* completion rotating for ever: it returns or raises.
CompletionEnds == \A c \in Callers : pc[c] # "idle" ~> pc[c] = "idle"

\* The premium budget as module DailyAllowance has it: what the guards of the paid pool and
\* of Sonnet hold is reserved, and the rest of the counter is spent.
PremiumGuards == {c \in Callers : pc[c] \in {"paid", "sonnet"}}

Premium == INSTANCE DailyAllowance WITH
  Reserve <- PremiumReserve, CapLimit <- PremiumCap,
  spent <- used["premium"] - PremiumReserve * Cardinality(PremiumGuards),
  reserved <- PremiumReserve * Cardinality(PremiumGuards)

\* The gateway keeps its side of budget_guard's bargain: whichever way complete() takes,
\* from the free pool over the paid fallback or Sonnet to a strike or an error, it leaves
\* every premium guard it has entered, once, with at most its reservation spent.
ImplementsAllowance == Premium!Spec

\* The premium cap is the hard one, for the replies that are charged: beyond those that
\* were not JSON or were lost with their guard, the day's billed premium answers pass it by
\* less than one reservation, however many completions are admitted just below it.
PremiumSpendBounded == Accountable("premium") < PremiumCap + PremiumReserve

\* The steps that a completion may still take from a place, before the n-th model: one for
\* each model left in its pools, and one each for leaving them, for Sonnet and for a strike.
StepsFrom(place, n) ==
  CASE place = "idle"     -> 0
    [] place = "strike"   -> 1
    [] place = "sonnet"   -> 2
    [] place = "paid"     -> PaidModels + 3 - n
    [] place = "escalate" -> PaidModels + 3
    [] place = "free"     -> FreeModels + PaidModels + 5 - n

StepsLeft(c) == StepsFrom(pc[c], next[c])

\* CompletionEnds without fairness: no step of a completion leads back, to a model that was
\* tried or to a pool that was left, and no other completion sets it back.
OnwardOnly ==
  [][\A c \in Callers :
       /\ Proceed(c) => StepsLeft(c)' < StepsLeft(c)
       /\ pc[c] # "idle" => StepsLeft(c)' <= StepsLeft(c)]_vars

\* One complete() takes at most as many steps as there are models, and four more.
ShortCompletions == \A c \in Callers : StepsLeft(c) \in 0..(FreeModels + PaidModels + 4)
=============================================================================
