------------------------------- MODULE Budget -------------------------------
(***************************************************************************)
(* dhanradar/budget.py: the per-day AI budget of one kind ("free" or       *)
(* "premium").  The whole shared state is one Redis counter; every caller  *)
(* of budget_guard runs the same sequence of separate Redis commands, and  *)
(* the commands of different callers interleave.                           *)
(*                                                                         *)
(* Amounts are integers (a free unit, or a fraction of a dollar).          *)
(***************************************************************************)
EXTENDS Integers, FiniteSets

CONSTANTS
  Callers,      \* concurrent users of the guard
  Reserve,      \* _DEFAULT_RESERVE of the kind
  MaxActual,    \* largest cost a body records on its meter
  DefaultCap,   \* _CAPS of the kind
  Overrides,    \* values an admin may push as cap override; 0: key absent,
                \* malformed or not positive
  CapLimit,     \* no effective cap is above it
  MaxDay,       \* bound: midnights modelled
  MaxFaults     \* bound: crashes and failed releases in a day

ASSUME BudgetAssumption ==
  /\ IsFiniteSet(Callers)
  /\ Reserve \in Nat \ {0}
  /\ MaxActual \in Nat
  /\ CapLimit \in Nat
  /\ DefaultCap \in 1..CapLimit
  /\ Overrides \subseteq 0..CapLimit
  /\ MaxDay \in Nat
  /\ MaxFaults \in Nat

VARIABLES
  key,        \* the Redis counter: does it exist, its value, has it a TTL
  override,   \* the admin override key
  pc,         \* the command each caller issues next
  cap,        \* the cap each caller read
  cost,       \* what a finished body recorded on its BudgetMeter
  spent,      \* ghost: cost incurred since the last midnight
  day,        \* ghost: midnights passed
  faults,     \* ghost: crashes and swallowed Redis failures since midnight
  straddled   \* ghost: some midnight fell inside a guarded call

vars == <<key, override, pc, cap, cost, spent, day, faults, straddled>>

Steps == {"idle", "init", "reserve", "reject", "body", "settle", "rollback"}

\* Callers whose reservation is in the counter, and those of them admitted.
Holding  == {c \in Callers : pc[c] \in {"reject", "body", "settle", "rollback"}}
Admitted == {c \in Callers : pc[c] \in {"body", "settle", "rollback"}}

(***************************************************************************)
(* The Redis commands.  INCRBYFLOAT keeps a TTL, and on an absent key it   *)
(* creates one that has none.                                              *)
(***************************************************************************)
Absent == [live |-> FALSE, val |-> 0, ttl |-> FALSE]

\* Mutant: SET without NX.
SetExat(k) == [live |-> TRUE, val |-> 0, ttl |-> TRUE]

SetNxExat(k) == IF k.live THEN k ELSE [live |-> TRUE, val |-> 0, ttl |-> TRUE]

IncrBy(k, amount) == [live |-> TRUE, val |-> k.val + amount, ttl |-> k.ttl]

\* Mutant: an override is taken as it is.
UncheckedCap == override

EffectiveCap == IF override > 0 THEN override ELSE DefaultCap

Goto(c, step) == pc' = [pc EXCEPT ![c] = step]

\* The guard is left: its local variables are gone.
Leave(c) ==
  /\ Goto(c, "idle")
  /\ cap' = [cap EXCEPT ![c] = DefaultCap]
  /\ cost' = [cost EXCEPT ![c] = 0]

-----------------------------------------------------------------------------

Init ==
  /\ key = Absent
  /\ override = 0
  /\ pc = [c \in Callers |-> "idle"]
  /\ cap = [c \in Callers |-> DefaultCap]
  /\ cost = [c \in Callers |-> 0]
  /\ spent = 0
  /\ day = 0
  /\ faults = 0
  /\ straddled = FALSE

\* get_effective_caps: a failed read falls back to the default, never raises.
ReadCaps(c) ==
  /\ pc[c] = "idle"
  /\ \E seen \in {EffectiveCap, DefaultCap} : cap' = [cap EXCEPT ![c] = seen]
  /\ Goto(c, "init")
  /\ UNCHANGED <<key, override, cost, spent, day, faults, straddled>>

\* _init_key_if_missing.
InitKey(c) ==
  /\ pc[c] = "init"
  /\ key' = SetNxExat(key)
  /\ Goto(c, "reserve")
  /\ UNCHANGED <<override, cap, cost, spent, day, faults, straddled>>

\* Mutant: the cap itself still admits.
ReserveThenDecideLate(c) ==
  /\ pc[c] = "reserve"
  /\ key' = IncrBy(key, Reserve)
  /\ Goto(c, IF key.val > cap[c] THEN "reject" ELSE "body")
  /\ cap' = [cap EXCEPT ![c] = DefaultCap]
  /\ UNCHANGED <<override, cost, spent, day, faults, straddled>>

\* The reservation and the verdict on it: one INCRBYFLOAT, whose reply tells
\* the counter as it was before.
ReserveThenDecide(c) ==
  /\ pc[c] = "reserve"
  /\ key' = IncrBy(key, Reserve)
  /\ Goto(c, IF key.val >= cap[c] THEN "reject" ELSE "body")
  /\ cap' = [cap EXCEPT ![c] = DefaultCap]
  /\ UNCHANGED <<override, cost, spent, day, faults, straddled>>

\* A Redis error before the reservation takes effect leaves the guard with
\* nothing to undo.
GuardFails(c) ==
  /\ pc[c] \in {"init", "reserve"}
  /\ Leave(c)
  /\ UNCHANGED <<key, override, spent, day, faults, straddled>>

\* The guarded block ends normally, with its cost on the meter ...
BodyReturns(c) ==
  /\ pc[c] = "body"
  /\ \E actual \in 0..MaxActual : cost' = [cost EXCEPT ![c] = actual]
  /\ Goto(c, "settle")
  /\ UNCHANGED <<key, override, cap, spent, day, faults, straddled>>

\* ... or raises (cancellation included): nothing is taken to be consumed.
BodyRaises(c) ==
  /\ pc[c] = "body"
  /\ Goto(c, "rollback")
  /\ UNCHANGED <<key, override, cap, cost, spent, day, faults, straddled>>

\* _adjust_quietly: one INCRBYFLOAT whose failure is swallowed.
AdjustQuietly(amount) ==
  \/ /\ key' = IncrBy(key, amount)
     /\ UNCHANGED faults
  \/ /\ faults < MaxFaults
     /\ faults' = faults + 1
     /\ UNCHANGED key

\* Mutant: a rejection keeps its reservation in the counter.
ReleaseFailedOnly(c) ==
  /\ pc[c] \in {"reject", "rollback"}
  /\ IF pc[c] = "reject" THEN UNCHANGED <<key, faults>> ELSE AdjustQuietly(-Reserve)
  /\ Leave(c)
  /\ UNCHANGED <<override, spent, day, straddled>>

\* Release of a rejected or of a failed call.
Release(c) ==
  /\ pc[c] \in {"reject", "rollback"}
  /\ AdjustQuietly(-Reserve)
  /\ Leave(c)
  /\ UNCHANGED <<override, spent, day, straddled>>

\* Mutant: a clean exit gives the whole reservation back.
SettleForgetsCost(c) ==
  /\ pc[c] = "settle"
  /\ AdjustQuietly(-Reserve)
  /\ spent' = spent + cost[c]
  /\ Leave(c)
  /\ UNCHANGED <<override, day, straddled>>

\* Clean exit: reconcile to the recorded cost; no command when they agree.
Settle(c) ==
  /\ pc[c] = "settle"
  /\ IF cost[c] = Reserve THEN UNCHANGED <<key, faults>>
                          ELSE AdjustQuietly(cost[c] - Reserve)
  /\ spent' = spent + cost[c]
  /\ Leave(c)
  /\ UNCHANGED <<override, day, straddled>>

\* The process dies with its reservation in the counter.  A call that was
\* being served, or had been, may have been billed.
Crash(c) ==
  /\ c \in Holding
  /\ faults < MaxFaults
  /\ faults' = faults + 1
  /\ \E billed \in CASE pc[c] = "body"   -> 0..MaxActual
                     [] pc[c] = "settle" -> {cost[c]}
                     [] OTHER            -> {0} : spent' = spent + billed
  /\ Leave(c)
  /\ UNCHANGED <<key, override, day, straddled>>

\* POST /admin/ai/cost/caps, live and without a restart.
SetCapOverride ==
  /\ \E value \in Overrides : override' = value
  /\ UNCHANGED <<key, pc, cap, cost, spent, day, faults, straddled>>

\* UTC midnight: a counter with a TTL expires, one without survives.
Midnight ==
  /\ day < MaxDay
  /\ day' = day + 1
  /\ key' = IF key.ttl THEN Absent ELSE key
  /\ spent' = 0
  /\ faults' = 0
  /\ straddled' = (straddled \/ \E c \in Callers : pc[c] \notin {"idle", "init"})
  /\ UNCHANGED <<override, pc, cap, cost>>

CallerStep(c) ==
  \/ ReadCaps(c)
  \/ InitKey(c)
  \/ ReserveThenDecide(c)
  \/ GuardFails(c)
  \/ BodyReturns(c)
  \/ BodyRaises(c)
  \/ Release(c)
  \/ Settle(c)
  \/ Crash(c)

Next == SetCapOverride \/ Midnight \/ \E c \in Callers : CallerStep(c)

Spec == Init /\ [][Next]_vars

-----------------------------------------------------------------------------

TypeOK ==
  /\ key \in [live : BOOLEAN, val : Int, ttl : BOOLEAN]
  /\ override \in Overrides \cup {0}
  /\ pc \in [Callers -> Steps]
  /\ cap \in [Callers -> 1..CapLimit]
  /\ cost \in [Callers -> 0..MaxActual]
  /\ spent \in Nat
  /\ day \in 0..MaxDay
  /\ faults \in 0..MaxFaults
  /\ straddled \in BOOLEAN

\* The counter never under-reports the day: whatever crashed, and whichever
\* releases Redis lost, it shows at least what was spent plus every
\* outstanding reservation -- so every error of budget_guard is on the safe
\* side -- as long as no guarded call was open at a midnight and no call
\* costs more than its reserve (budget.py 53-60).
NeverUnderReports ==
  ~straddled /\ MaxActual <= Reserve
    => key.val >= spent + Reserve * Cardinality(Holding)

\* The hard cap under concurrency (docstring of budget_guard, B18): a day's
\* spend, with everything still admitted counted at its full reservation,
\* passes the highest cap by less than one reservation, however many callers
\* race for the last of it.
DailySpendBounded ==
  ~straddled /\ MaxActual <= Reserve
    => spent + Reserve * Cardinality(Admitted) < CapLimit + Reserve

\* A rejected or failed call leaves no trace: on a day without crashes and
\* Redis failures the counter is the spend plus the outstanding reservations,
\* so at rest it is the spend ("must not inflate the counter and permanently
\* wedge the budget", budget.py 257-263), and what leaked on an earlier day
\* is gone.
NoReservationLost ==
  ~straddled /\ faults = 0
    => key.val = spent + Reserve * Cardinality(Holding)

\* No cap change, default or fallback lets a caller in above the cap it read:
\* every admission happens while spend and admitted reservations are below
\* that caller's cap.
AdmitsBelowOwnCap ==
  [][~straddled /\ MaxActual <= Reserve =>
       \A c \in Callers : c \notin Admitted /\ c \in Admitted'
          => spent + Reserve * Cardinality(Admitted) < cap[c]]_vars

\* The guard implements the allowance it promises.  A day in which a guarded
\* call was open at midnight is void in the abstraction.
Allowance == INSTANCE DailyAllowance WITH
  spent    <- IF straddled THEN 0 ELSE spent,
  reserved <- IF straddled THEN 0 ELSE Reserve * Cardinality(Admitted)

ImplementsAllowance == Allowance!Spec
=============================================================================
