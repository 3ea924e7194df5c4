---------------------------- MODULE BudgetProofs ----------------------------
(***************************************************************************)
(* Budget for any finite set of callers, any reserve, caps and overrides.  *)
(*                                                                         *)
(* The invariants the runs check are not inductive: a counter that may be  *)
(* recreated without its TTL, or that is absent while a reservation is     *)
(* held, breaks them in one step.  BudgetInv adds that, until a midnight   *)
(* falls inside a guarded call, the counter exists and expires whenever    *)
(* some caller is past _init_key_if_missing.                               *)
(***************************************************************************)
EXTENDS Budget, FiniteSetTheorems, TLAPS

Expires ==
  /\ key.live => key.ttl
  /\ \A c \in Callers : pc[c] \notin {"idle", "init"} => key.live

BudgetInv ==
  /\ TypeOK
  /\ ~key.live => key.val = 0
  /\ ~straddled => Expires
  /\ NeverUnderReports
  /\ DailySpendBounded
  /\ NoReservationLost

HoldingSteps  == {"reject", "body", "settle", "rollback"}
AdmittedSteps == {"body", "settle", "rollback"}

-----------------------------------------------------------------------------

\* A swallowed adjustment keeps the counter a counter.
LEMMA AdjustTyped ==
  ASSUME TypeOK, NEW amount \in Int, AdjustQuietly(amount)
  PROVE  /\ key' \in [live : BOOLEAN, val : Int, ttl : BOOLEAN]
         /\ faults' \in 0..MaxFaults
<1>1. key \in [live : BOOLEAN, val : Int, ttl : BOOLEAN]
  BY DEF TypeOK
<1>2. IncrBy(key, amount) \in [live : BOOLEAN, val : Int, ttl : BOOLEAN]
  BY <1>1 DEF IncrBy
<1>3. faults' \in 0..MaxFaults
  BY BudgetAssumption DEF BudgetAssumption, AdjustQuietly, TypeOK
<1> QED
  BY <1>1, <1>2, <1>3 DEF AdjustQuietly

\* Every action assigns values of the declared types.
LEMMA TypedStep == TypeOK /\ [Next]_vars => TypeOK'
<1> SUFFICES ASSUME TypeOK, [Next]_vars PROVE TypeOK'
  OBVIOUS
<1> USE BudgetAssumption DEF BudgetAssumption, TypeOK, Steps
<1>1. ASSUME NEW c \in Callers, ReadCaps(c) PROVE TypeOK'
  BY <1>1 DEF ReadCaps, EffectiveCap, Goto
<1>2. ASSUME NEW c \in Callers, InitKey(c) PROVE TypeOK'
  BY <1>2 DEF InitKey, SetNxExat, Goto
<1>3. ASSUME NEW c \in Callers, ReserveThenDecide(c) PROVE TypeOK'
  BY <1>3 DEF ReserveThenDecide, IncrBy, Goto
<1>4. ASSUME NEW c \in Callers, GuardFails(c) PROVE TypeOK'
  BY <1>4 DEF GuardFails, Leave, Goto
<1>5. ASSUME NEW c \in Callers, BodyReturns(c) PROVE TypeOK'
  BY <1>5 DEF BodyReturns, Goto
<1>6. ASSUME NEW c \in Callers, BodyRaises(c) PROVE TypeOK'
  BY <1>6 DEF BodyRaises, Goto
<1>7. ASSUME NEW c \in Callers, Release(c) PROVE TypeOK'
  <2>1. -Reserve \in Int
    OBVIOUS
  <2>2. key' \in [live : BOOLEAN, val : Int, ttl : BOOLEAN] /\ faults' \in 0..MaxFaults
    BY <1>7, <2>1, AdjustTyped DEF Release
  <2> QED
    BY <1>7, <2>2 DEF Release, Leave, Goto
<1>8. ASSUME NEW c \in Callers, Settle(c) PROVE TypeOK'
  <2>1. cost[c] \in Nat /\ cost[c] - Reserve \in Int
    OBVIOUS
  <2>2. key' \in [live : BOOLEAN, val : Int, ttl : BOOLEAN] /\ faults' \in 0..MaxFaults
    BY <1>8, <2>1, AdjustTyped DEF Settle
  <2> QED
    BY <1>8, <2>1, <2>2 DEF Settle, Leave, Goto
<1>9. ASSUME NEW c \in Callers, Crash(c) PROVE TypeOK'
  BY <1>9 DEF Crash, Leave, Goto, Holding
<1>10. CASE SetCapOverride
  BY <1>10 DEF SetCapOverride
<1>11. CASE Midnight
  BY <1>11 DEF Midnight, Absent
<1>12. CASE UNCHANGED vars
  BY <1>12 DEF vars
<1> QED
  BY <1>1, <1>2, <1>3, <1>4, <1>5, <1>6, <1>7, <1>8, <1>9, <1>10, <1>11, <1>12
     DEF Next, CallerStep

\* Initially every variable has its type.
LEMMA InitTyped == Init => TypeOK
<1> SUFFICES ASSUME Init PROVE TypeOK
  OBVIOUS
<1> USE BudgetAssumption DEF BudgetAssumption, Init
<1>1. key \in [live : BOOLEAN, val : Int, ttl : BOOLEAN]
  BY DEF Absent
<1>2. /\ pc \in [Callers -> Steps]
      /\ cap \in [Callers -> 1..CapLimit]
      /\ cost \in [Callers -> 0..MaxActual]
  BY DEF Steps
<1>3. straddled \in BOOLEAN
  OBVIOUS
<1>4. /\ override \in Overrides \cup {0}
      /\ spent \in Nat
      /\ day \in 0..MaxDay
      /\ faults \in 0..MaxFaults
  OBVIOUS
<1> QED
  BY <1>1, <1>2, <1>3, <1>4 DEF TypeOK

\* The type invariant, for every set of callers and every caps and bounds.
THEOREM BudgetTyped == Spec => []TypeOK
BY InitTyped, TypedStep, PTL DEF Spec

-----------------------------------------------------------------------------

\* How many hold a reservation after one caller moves to another step.
LEMMA HoldingCount ==
  ASSUME TypeOK, NEW c \in Callers, NEW step \in Steps, Goto(c, step)
  PROVE  /\ Cardinality(Holding) \in Nat
         /\ Cardinality(Holding)' =
              IF step \in HoldingSteps
              THEN IF pc[c] \in HoldingSteps THEN Cardinality(Holding)
                                             ELSE Cardinality(Holding) + 1
              ELSE IF pc[c] \in HoldingSteps THEN Cardinality(Holding) - 1
                                             ELSE Cardinality(Holding)
<1>1. IsFiniteSet(Holding) /\ Cardinality(Holding) \in Nat
  BY BudgetAssumption, FS_Subset, FS_CardinalityType DEF BudgetAssumption, Holding
<1>2. c \in Holding <=> pc[c] \in HoldingSteps
  BY DEF Holding, HoldingSteps
<1>3. Holding' = IF step \in HoldingSteps THEN Holding \cup {c} ELSE Holding \ {c}
  BY DEF Goto, TypeOK, Holding, HoldingSteps
<1>4. /\ Cardinality(Holding \cup {c}) =
           IF c \in Holding THEN Cardinality(Holding) ELSE Cardinality(Holding) + 1
      /\ Cardinality(Holding \ {c}) =
           IF c \in Holding THEN Cardinality(Holding) - 1 ELSE Cardinality(Holding)
  BY <1>1, FS_AddElement, FS_RemoveElement
<1> QED
  BY <1>1, <1>2, <1>3, <1>4

\* The same count for the admitted callers.
LEMMA AdmittedCount ==
  ASSUME TypeOK, NEW c \in Callers, NEW step \in Steps, Goto(c, step)
  PROVE  /\ Cardinality(Admitted) \in Nat
         /\ Cardinality(Admitted)' =
              IF step \in AdmittedSteps
              THEN IF pc[c] \in AdmittedSteps THEN Cardinality(Admitted)
                                              ELSE Cardinality(Admitted) + 1
              ELSE IF pc[c] \in AdmittedSteps THEN Cardinality(Admitted) - 1
                                              ELSE Cardinality(Admitted)
<1>1. IsFiniteSet(Admitted) /\ Cardinality(Admitted) \in Nat
  BY BudgetAssumption, FS_Subset, FS_CardinalityType DEF BudgetAssumption, Admitted
<1>2. c \in Admitted <=> pc[c] \in AdmittedSteps
  BY DEF Admitted, AdmittedSteps
<1>3. Admitted' = IF step \in AdmittedSteps THEN Admitted \cup {c} ELSE Admitted \ {c}
  BY DEF Goto, TypeOK, Admitted, AdmittedSteps
<1>4. /\ Cardinality(Admitted \cup {c}) =
           IF c \in Admitted THEN Cardinality(Admitted) ELSE Cardinality(Admitted) + 1
      /\ Cardinality(Admitted \ {c}) =
           IF c \in Admitted THEN Cardinality(Admitted) - 1 ELSE Cardinality(Admitted)
  BY <1>1, FS_AddElement, FS_RemoveElement
<1> QED
  BY <1>1, <1>2, <1>3, <1>4

\* An admitted caller holds a reservation, so fewer are admitted than hold.
LEMMA AdmittedHold ==
  /\ Cardinality(Holding) \in Nat
  /\ Cardinality(Admitted) \in Nat
  /\ Reserve * Cardinality(Admitted) <= Reserve * Cardinality(Holding)
<1>1. IsFiniteSet(Holding) /\ Admitted \subseteq Holding
  BY BudgetAssumption, FS_Subset DEF BudgetAssumption, Holding, Admitted
<1>2. IsFiniteSet(Admitted) /\ Cardinality(Admitted) <= Cardinality(Holding)
  BY <1>1, FS_Subset
<1>3. Cardinality(Holding) \in Nat /\ Cardinality(Admitted) \in Nat
  BY <1>1, <1>2, FS_CardinalityType
<1>4. ASSUME NEW m \in Nat, NEW n \in Nat, NEW r \in Nat, m <= n
      PROVE  r * m <= r * n
  BY <1>4
<1> QED
  BY <1>2, <1>3, <1>4, BudgetAssumption DEF BudgetAssumption

\* One reservation more, or one less.
LEMMA OneMore ==
  ASSUME NEW n \in Int
  PROVE  /\ Reserve * n \in Int
         /\ Reserve * (n + 1) = Reserve * n + Reserve
         /\ Reserve * (n - 1) = Reserve * n - Reserve
BY BudgetAssumption DEF BudgetAssumption
-----------------------------------------------------------------------------

\* A step that leaves the counter alone and moves a caller between steps
\* that hold the same reservations.
LEMMA QuietMove ==
  ASSUME BudgetInv, TypeOK',
         NEW c \in Callers, NEW step \in Steps, Goto(c, step),
         step \in HoldingSteps <=> pc[c] \in HoldingSteps,
         step \in AdmittedSteps <=> pc[c] \in AdmittedSteps,
         step \in {"idle", "init"} \/ pc[c] \notin {"idle", "init"},
         UNCHANGED <<key, spent, faults, straddled>>
  PROVE  BudgetInv'
<1> USE DEF BudgetInv
<1>1. Cardinality(Holding)' = Cardinality(Holding)
  BY HoldingCount
<1>2. Cardinality(Admitted)' = Cardinality(Admitted)
  BY AdmittedCount
<1>3. ~straddled => Expires'
  BY DEF Expires, Goto, TypeOK
<1>4. NeverUnderReports'
  BY <1>1 DEF NeverUnderReports
<1>5. DailySpendBounded'
  BY <1>2 DEF DailySpendBounded
<1>6. NoReservationLost'
  BY <1>1 DEF NoReservationLost
<1> QED
  BY <1>3, <1>4, <1>5, <1>6

\* Reserving: the reservation is added to the counter together with the
\* verdict, so a caller admitted below its cap takes the admitted total past
\* that cap by less than one reservation.
LEMMA ReserveStep ==
  ASSUME BudgetInv, TypeOK', NEW c \in Callers, ReserveThenDecide(c)
  PROVE  BudgetInv'
<1> USE DEF BudgetInv
<1>1. PICK step \in {"reject", "body"} :
        /\ Goto(c, step)
        /\ step = "body" => key.val < cap[c]
  BY DEF ReserveThenDecide, TypeOK
<1>2. /\ key'.val = key.val + Reserve
      /\ key'.live
      /\ key'.ttl = key.ttl
      /\ UNCHANGED <<spent, faults, straddled>>
      /\ pc[c] = "reserve"
  BY DEF ReserveThenDecide, IncrBy
<1>3. /\ Cardinality(Holding) \in Nat
      /\ Cardinality(Holding)' = Cardinality(Holding) + 1
  BY <1>1, <1>2, HoldingCount DEF HoldingSteps, Steps
<1>4. /\ Cardinality(Admitted) \in Nat
      /\ Cardinality(Admitted)' =
           IF step = "body" THEN Cardinality(Admitted) + 1 ELSE Cardinality(Admitted)
  BY <1>1, <1>2, AdmittedCount DEF AdmittedSteps, Steps
<1>5. /\ Reserve * Cardinality(Holding) \in Int
      /\ Reserve * Cardinality(Holding)' = Reserve * Cardinality(Holding) + Reserve
  BY <1>3, OneMore
<1>6. /\ Reserve * Cardinality(Admitted) \in Int
      /\ step = "body" =>
           Reserve * Cardinality(Admitted)' = Reserve * Cardinality(Admitted) + Reserve
  BY <1>4, OneMore
<1>7. /\ key.val \in Int /\ spent \in Int /\ cap[c] \in Int /\ cap[c] <= CapLimit
      /\ Reserve \in Int /\ CapLimit \in Int
  BY BudgetAssumption DEF BudgetAssumption, TypeOK
<1>8. ~straddled => Expires'
  <2> SUFFICES ASSUME ~straddled PROVE Expires'
    OBVIOUS
  <2>1. key.ttl
    BY <1>2 DEF Expires
  <2> QED
    BY <1>2, <2>1 DEF Expires
<1>9. NeverUnderReports'
  BY <1>2, <1>5, <1>7 DEF NeverUnderReports
<1>10. DailySpendBounded'
  <2> SUFFICES ASSUME ~straddled, MaxActual <= Reserve
               PROVE  spent + Reserve * Cardinality(Admitted)' < CapLimit + Reserve
    BY <1>2 DEF DailySpendBounded
  <2>1. CASE step = "reject"
    BY <1>4, <2>1 DEF DailySpendBounded
  <2>2. CASE step = "body"
    <3>1. key.val >= spent + Reserve * Cardinality(Holding)
      BY DEF NeverUnderReports
    <3>2. Reserve * Cardinality(Admitted) <= Reserve * Cardinality(Holding)
      BY AdmittedHold
    <3>3. key.val < cap[c]
      BY <1>1, <2>2
    <3> QED
      BY <1>5, <1>6, <1>7, <2>2, <3>1, <3>2, <3>3
  <2> QED
    BY <2>1, <2>2
<1>11. NoReservationLost'
  BY <1>2, <1>5, <1>7 DEF NoReservationLost
<1> QED
  BY <1>2, <1>8, <1>9, <1>10, <1>11

\* Leaving the guard with a reservation held: the counter gives back at most
\* the reservation less what the call cost.
LEMMA LeaveStep ==
  ASSUME BudgetInv, TypeOK', NEW c \in Callers, Leave(c),
         pc[c] \in HoldingSteps,
         NEW paid \in Nat, spent' = spent + paid,
         MaxActual <= Reserve => paid <= Reserve,
         pc[c] = "reject" => paid = 0,
         straddled' = straddled,
         ~key'.live => key'.val = 0,
         key.live => /\ key'.live /\ key'.ttl = key.ttl
                     /\ \/ key'.val = key.val + (paid - Reserve) /\ faults' = faults
                        \/ key'.val = key.val /\ faults' = faults + 1
  PROVE  BudgetInv'
<1> USE DEF BudgetInv
<1>1. Goto(c, "idle")
  BY DEF Leave
<1>2. /\ Cardinality(Holding) \in Nat
      /\ Cardinality(Holding)' = Cardinality(Holding) - 1
  BY <1>1, HoldingCount DEF HoldingSteps, Steps
<1>3. /\ Cardinality(Admitted) \in Nat
      /\ Cardinality(Admitted)' =
           IF pc[c] = "reject" THEN Cardinality(Admitted) ELSE Cardinality(Admitted) - 1
  BY <1>1, AdmittedCount DEF AdmittedSteps, HoldingSteps, Steps
<1>4. /\ Reserve * Cardinality(Holding) \in Int
      /\ Reserve * Cardinality(Holding)' = Reserve * Cardinality(Holding) - Reserve
  BY <1>2, OneMore
<1>5. /\ Reserve * Cardinality(Admitted) \in Int
      /\ pc[c] # "reject" =>
           Reserve * Cardinality(Admitted)' = Reserve * Cardinality(Admitted) - Reserve
  BY <1>3, OneMore
<1>6. /\ key.val \in Int /\ spent \in Int /\ Reserve \in Int /\ CapLimit \in Int
      /\ faults \in Nat
  BY BudgetAssumption DEF BudgetAssumption, TypeOK
<1>7. ~straddled => key.live
  BY DEF Expires, HoldingSteps
<1>8. ~straddled => Expires'
  BY <1>1, <1>7 DEF Expires, Goto, TypeOK
<1>9. NeverUnderReports'
  BY <1>4, <1>6, <1>7 DEF NeverUnderReports
<1>10. DailySpendBounded'
  BY <1>3, <1>5, <1>6 DEF DailySpendBounded
<1>11. NoReservationLost'
  BY <1>4, <1>6, <1>7 DEF NoReservationLost
<1> QED
  BY <1>8, <1>9, <1>10, <1>11

\* Every step of the program keeps the invariant: each action is a quiet move,
\* a reservation, a leave, or touches no caller.
LEMMA BudgetStep == BudgetInv /\ [Next]_vars => BudgetInv'
<1> SUFFICES ASSUME BudgetInv, [Next]_vars PROVE BudgetInv'
  OBVIOUS
<1>0. TypeOK /\ TypeOK'
  BY TypedStep DEF BudgetInv
<1>1. ASSUME NEW c \in Callers, ReadCaps(c) PROVE BudgetInv'
  BY <1>0, <1>1, QuietMove DEF ReadCaps, HoldingSteps, AdmittedSteps, Steps
<1>2. ASSUME NEW c \in Callers, InitKey(c) PROVE BudgetInv'
  <2>1. /\ Goto(c, "reserve") /\ pc[c] = "init"
        /\ UNCHANGED <<spent, faults, straddled>>
    BY <1>2 DEF InitKey
  <2>2. Cardinality(Holding)' = Cardinality(Holding)
    BY <1>0, <2>1, HoldingCount DEF HoldingSteps, Steps
  <2>3. Cardinality(Admitted)' = Cardinality(Admitted)
    BY <1>0, <2>1, AdmittedCount DEF AdmittedSteps, Steps
  <2>4. key'.live /\ key'.val = key.val /\ (key'.ttl = (~key.live \/ key.ttl))
    <3>1. CASE key.live
      BY <1>0, <1>2, <3>1 DEF InitKey, SetNxExat, BudgetInv, TypeOK
    <3>2. CASE ~key.live
      BY <1>0, <1>2, <3>2 DEF InitKey, SetNxExat, BudgetInv, TypeOK
    <3> QED
      BY <3>1, <3>2
  <2>5. ~straddled => Expires'
    BY <2>4 DEF BudgetInv, Expires
  <2>6. NeverUnderReports'
    BY <2>1, <2>2, <2>4 DEF BudgetInv, NeverUnderReports
  <2>7. DailySpendBounded'
    BY <2>1, <2>3 DEF BudgetInv, DailySpendBounded
  <2>8. NoReservationLost'
    BY <2>1, <2>2, <2>4 DEF BudgetInv, NoReservationLost
  <2> QED
    BY <1>0, <2>1, <2>4, <2>5, <2>6, <2>7, <2>8 DEF BudgetInv
<1>3. ASSUME NEW c \in Callers, ReserveThenDecide(c) PROVE BudgetInv'
  BY <1>0, <1>3, ReserveStep
<1>4. ASSUME NEW c \in Callers, GuardFails(c) PROVE BudgetInv'
  BY <1>0, <1>4, QuietMove DEF GuardFails, Leave, HoldingSteps, AdmittedSteps, Steps
<1>5. ASSUME NEW c \in Callers, BodyReturns(c) PROVE BudgetInv'
  BY <1>0, <1>5, QuietMove DEF BodyReturns, HoldingSteps, AdmittedSteps, Steps
<1>6. ASSUME NEW c \in Callers, BodyRaises(c) PROVE BudgetInv'
  BY <1>0, <1>6, QuietMove DEF BodyRaises, HoldingSteps, AdmittedSteps, Steps
<1>7. ASSUME NEW c \in Callers, Release(c) PROVE BudgetInv'
  <2>1. /\ Leave(c) /\ spent' = spent + 0 /\ straddled' = straddled
        /\ pc[c] \in HoldingSteps
    BY <1>0, <1>7 DEF Release, HoldingSteps, TypeOK
  <2>2. \/ key' = IncrBy(key, 0 - Reserve) /\ faults' = faults
        \/ key' = key /\ faults' = faults + 1
    <3>1. -Reserve = 0 - Reserve
      BY BudgetAssumption DEF BudgetAssumption
    <3> QED
      BY <1>7, <3>1 DEF Release, AdjustQuietly
  <2>3. ~key'.live => key'.val = 0
    BY <2>2 DEF IncrBy, BudgetInv
  <2>4. key.live => /\ key'.live /\ key'.ttl = key.ttl
                    /\ \/ key'.val = key.val + (0 - Reserve) /\ faults' = faults
                       \/ key'.val = key.val /\ faults' = faults + 1
    BY <2>2 DEF IncrBy
  <2> QED
    BY <1>0, <2>1, <2>3, <2>4, LeaveStep, BudgetAssumption DEF BudgetAssumption
<1>8. ASSUME NEW c \in Callers, Settle(c) PROVE BudgetInv'
  <2>1. /\ Leave(c) /\ spent' = spent + cost[c] /\ straddled' = straddled
        /\ pc[c] = "settle" /\ pc[c] \in HoldingSteps
    BY <1>8 DEF Settle, HoldingSteps
  <2>2. cost[c] \in Nat /\ (MaxActual <= Reserve => cost[c] <= Reserve)
    BY <1>0, BudgetAssumption DEF BudgetAssumption, TypeOK
  <2>3. CASE cost[c] = Reserve
    <3>1. key' = key /\ faults' = faults
      BY <1>8, <2>3 DEF Settle
    <3>2. key.val = key.val + (cost[c] - Reserve)
      BY <1>0, <2>3, BudgetAssumption DEF BudgetAssumption, TypeOK
    <3> QED
      BY <1>0, <2>1, <2>2, <3>1, <3>2, LeaveStep DEF BudgetInv
  <2>4. CASE cost[c] # Reserve
    <3>1. \/ key' = IncrBy(key, cost[c] - Reserve) /\ faults' = faults
          \/ key' = key /\ faults' = faults + 1
      BY <1>8, <2>4 DEF Settle, AdjustQuietly
    <3>2. ~key'.live => key'.val = 0
      BY <3>1 DEF IncrBy, BudgetInv
    <3>3. key.live => /\ key'.live /\ key'.ttl = key.ttl
                      /\ \/ key'.val = key.val + (cost[c] - Reserve) /\ faults' = faults
                         \/ key'.val = key.val /\ faults' = faults + 1
      BY <3>1 DEF IncrBy
    <3> QED
      BY <1>0, <2>1, <2>2, <3>2, <3>3, LeaveStep
  <2> QED
    BY <2>3, <2>4
<1>9. ASSUME NEW c \in Callers, Crash(c) PROVE BudgetInv'
  <2>1. PICK billed \in Nat :
          /\ spent' = spent + billed
          /\ billed <= MaxActual
          /\ pc[c] = "reject" => billed = 0
    BY <1>0, <1>9, BudgetAssumption
       DEF BudgetAssumption, Crash, Holding, TypeOK
  <2>2. /\ Leave(c) /\ key' = key /\ straddled' = straddled /\ faults' = faults + 1
        /\ pc[c] \in HoldingSteps
    BY <1>9 DEF Crash, Holding, HoldingSteps
  <2> QED
    BY <1>0, <2>1, <2>2, LeaveStep, BudgetAssumption
       DEF BudgetAssumption, BudgetInv
<1>10. CASE SetCapOverride
  BY <1>0, <1>10 DEF SetCapOverride, BudgetInv, Expires, NeverUnderReports,
     DailySpendBounded, NoReservationLost, Holding, Admitted
<1>11. CASE Midnight
  <2>1. ~straddled' =>
          /\ ~straddled
          /\ \A c \in Callers : pc'[c] \in {"idle", "init"}
    BY <1>0, <1>11 DEF Midnight, TypeOK
  <2>2. ~straddled' => Cardinality(Holding)' = 0 /\ Cardinality(Admitted)' = 0
    BY <2>1, FS_EmptySet DEF Holding, Admitted
  <2>3. ~key'.live => key'.val = 0
    BY <1>11 DEF Midnight, Absent, BudgetInv
  <2>4. ~straddled' => key'.val = 0 /\ ~key'.live
    BY <1>11, <2>1 DEF Midnight, Absent, BudgetInv, Expires
  <2>5. spent' = 0
    BY <1>11 DEF Midnight
  <2>6. Reserve * 0 = 0 /\ CapLimit + Reserve > 0
    BY BudgetAssumption DEF BudgetAssumption
  <2>7. ~straddled' => Expires'
    BY <2>1, <2>4 DEF Expires
  <2> QED
    BY <1>0, <2>2, <2>3, <2>4, <2>5, <2>6, <2>7
       DEF BudgetInv, NeverUnderReports, DailySpendBounded, NoReservationLost
<1>12. CASE UNCHANGED vars
  BY <1>0, <1>12 DEF vars, BudgetInv, Expires, NeverUnderReports,
     DailySpendBounded, NoReservationLost, Holding, Admitted
<1> QED
  BY <1>1, <1>2, <1>3, <1>4, <1>5, <1>6, <1>7, <1>8, <1>9, <1>10, <1>11, <1>12
     DEF Next, CallerStep

LEMMA BudgetInit == Init => BudgetInv
<1> SUFFICES ASSUME Init PROVE BudgetInv
  OBVIOUS
<1>1. TypeOK
  BY InitTyped
<1>2. Holding = {} /\ Admitted = {}
  BY DEF Init, Holding, Admitted
<1>3. Cardinality(Holding) = 0 /\ Cardinality(Admitted) = 0
  BY <1>2, FS_EmptySet
<1>4. key.val = 0 /\ ~key.live /\ spent = 0
  BY DEF Init, Absent
<1>5. \A c \in Callers : pc[c] = "idle"
  BY DEF Init
<1>6. Reserve * 0 = 0 /\ CapLimit + Reserve > 0
  BY BudgetAssumption DEF BudgetAssumption
<1> QED
  BY <1>1, <1>3, <1>4, <1>5, <1>6
     DEF BudgetInv, Expires, NeverUnderReports, DailySpendBounded, NoReservationLost

\* BudgetInv holds in every behaviour.
THEOREM BudgetInvariant == Spec => []BudgetInv
BY BudgetInit, BudgetStep, PTL DEF Spec

\* The counter shows at least the day's spend and every outstanding
\* reservation, for any callers, caps, crashes and lost releases.
THEOREM NeverUnderReportsHolds == Spec => []NeverUnderReports
<1>1. BudgetInv => NeverUnderReports
  BY DEF BudgetInv
<1> QED
  BY <1>1, BudgetInvariant, PTL

\* The hard cap: a day's spend passes it by less than one reservation, however
\* many callers race.
THEOREM HardCapHolds == Spec => []DailySpendBounded
<1>1. BudgetInv => DailySpendBounded
  BY DEF BudgetInv
<1> QED
  BY <1>1, BudgetInvariant, PTL

\* Without faults no reservation outlives its call.
THEOREM NothingLost == Spec => []NoReservationLost
<1>1. BudgetInv => NoReservationLost
  BY DEF BudgetInv
<1> QED
  BY <1>1, BudgetInvariant, PTL

-----------------------------------------------------------------------------

\* The only action that admits a caller is the reservation.
LEMMA OnlyReserveAdmits ==
  ASSUME TypeOK, [Next]_vars, NEW c \in Callers, c \notin Admitted, c \in Admitted'
  PROVE  ReserveThenDecide(c) /\ key.val < cap[c]
<1>1. pc[c] \notin AdmittedSteps /\ pc'[c] \in AdmittedSteps
  BY DEF Admitted, AdmittedSteps
<1>2. ASSUME NEW d \in Callers, CallerStep(d) PROVE d = c /\ ReserveThenDecide(c)
  <2>1. ASSUME Goto(d, "idle") \/ Goto(d, "init") \/ Goto(d, "reserve") PROVE FALSE
    BY <1>1, <2>1 DEF Goto, TypeOK, AdmittedSteps
  <2>2. ASSUME pc[d] = "body", Goto(d, "settle") \/ Goto(d, "rollback") PROVE FALSE
    BY <1>1, <2>2 DEF Goto, TypeOK, AdmittedSteps
  <2>3. ReserveThenDecide(d)
    BY <1>2, <2>1, <2>2 DEF CallerStep, ReadCaps, InitKey, GuardFails,
       BodyReturns, BodyRaises, Release, Settle, Crash, Leave
  <2> QED
    BY <1>1, <2>3 DEF ReserveThenDecide, Goto, TypeOK
<1>3. ~UNCHANGED vars /\ ~SetCapOverride /\ ~Midnight
  BY <1>1 DEF vars, SetCapOverride, Midnight
<1>4. ReserveThenDecide(c)
  BY <1>2, <1>3 DEF Next
<1> QED
  BY <1>1, <1>4 DEF ReserveThenDecide, Goto, TypeOK, AdmittedSteps

\* A caller is let in only below the cap it read.
THEOREM AdmissionHolds == Spec => AdmitsBelowOwnCap
<1>1. BudgetInv /\ [Next]_vars =>
        [~straddled /\ MaxActual <= Reserve =>
           \A c \in Callers : c \notin Admitted /\ c \in Admitted'
              => spent + Reserve * Cardinality(Admitted) < cap[c]]_vars
  <2> SUFFICES ASSUME BudgetInv, [Next]_vars, ~straddled, MaxActual <= Reserve,
                      NEW c \in Callers, c \notin Admitted, c \in Admitted'
               PROVE  spent + Reserve * Cardinality(Admitted) < cap[c]
    OBVIOUS
  <2>1. key.val < cap[c]
    BY OnlyReserveAdmits DEF BudgetInv
  <2>2. key.val >= spent + Reserve * Cardinality(Holding)
    BY DEF BudgetInv, NeverUnderReports
  <2>3. /\ Cardinality(Holding) \in Nat /\ Cardinality(Admitted) \in Nat
        /\ Reserve * Cardinality(Admitted) <= Reserve * Cardinality(Holding)
    BY AdmittedHold
  <2>4. /\ Reserve * Cardinality(Holding) \in Int
        /\ Reserve * Cardinality(Admitted) \in Int
    BY <2>3, OneMore
  <2>5. key.val \in Int /\ spent \in Int /\ cap[c] \in Int
    BY BudgetAssumption DEF BudgetAssumption, BudgetInv, TypeOK
  <2> QED
    BY <2>1, <2>2, <2>3, <2>4, <2>5
<1> QED
  BY <1>1, BudgetInvariant, PTL DEF Spec, AdmitsBelowOwnCap

-----------------------------------------------------------------------------

\* Outside a midnight, a step of the guard that changes who is admitted, or
\* the spend, is one call admitted below the cap or one call finishing.
LEMMA AdmitOrFinish ==
  ASSUME BudgetInv, ~straddled, MaxActual <= Reserve,
         NEW c \in Callers, CallerStep(c)
  PROVE  \/ UNCHANGED <<spent, Admitted>>
         \/ /\ c \notin Admitted /\ Admitted' = Admitted \cup {c} /\ spent' = spent
            /\ spent + Reserve * Cardinality(Admitted) < CapLimit
         \/ /\ c \in Admitted /\ Admitted' = Admitted \ {c}
            /\ \E paid \in 0..Reserve : spent' = spent + paid
<1> USE DEF BudgetInv
<1>0. TypeOK
  OBVIOUS
<1>1. ASSUME NEW step \in Steps, Goto(c, step)
      PROVE  Admitted' = IF step \in AdmittedSteps THEN Admitted \cup {c}
                                                   ELSE Admitted \ {c}
  BY <1>0, <1>1 DEF Goto, TypeOK, Admitted, AdmittedSteps
<1>2. c \in Admitted <=> pc[c] \in AdmittedSteps
  BY DEF Admitted, AdmittedSteps
<1>3. CASE ReadCaps(c) \/ InitKey(c) \/ GuardFails(c) \/ BodyReturns(c) \/ BodyRaises(c)
  <2>1. PICK step \in Steps : Goto(c, step) /\ (step \in AdmittedSteps <=> pc[c] \in AdmittedSteps)
    BY <1>3 DEF ReadCaps, InitKey, GuardFails, BodyReturns, BodyRaises, Leave,
       AdmittedSteps, Steps
  <2>2. spent' = spent
    BY <1>3 DEF ReadCaps, InitKey, GuardFails, BodyReturns, BodyRaises
  <2>3. Admitted' = Admitted
    BY <1>1, <1>2, <2>1
  <2> QED
    BY <2>2, <2>3
<1>4. CASE ReserveThenDecide(c)
  <2>1. pc[c] = "reserve" /\ spent' = spent
    BY <1>4 DEF ReserveThenDecide
  <2>2. CASE Goto(c, "reject")
    BY <1>1, <1>2, <2>1, <2>2 DEF AdmittedSteps, Steps
  <2>3. CASE Goto(c, "body") /\ key.val < cap[c]
    <3>1. c \notin Admitted /\ Admitted' = Admitted \cup {c}
      BY <1>1, <1>2, <2>1, <2>3 DEF AdmittedSteps, Steps
    <3>2. key.val >= spent + Reserve * Cardinality(Holding)
      BY DEF NeverUnderReports
    <3>3. /\ Cardinality(Holding) \in Nat /\ Cardinality(Admitted) \in Nat
          /\ Reserve * Cardinality(Admitted) <= Reserve * Cardinality(Holding)
      BY AdmittedHold
    <3>4. /\ Reserve * Cardinality(Holding) \in Int
          /\ Reserve * Cardinality(Admitted) \in Int
      BY <3>3, OneMore
    <3>5. /\ key.val \in Int /\ spent \in Int /\ cap[c] \in Int
          /\ cap[c] <= CapLimit /\ CapLimit \in Int
      BY BudgetAssumption DEF BudgetAssumption, TypeOK
    <3>6. spent + Reserve * Cardinality(Admitted) < CapLimit
      BY <2>3, <3>2, <3>3, <3>4, <3>5
    <3> QED
      BY <2>1, <3>1, <3>6
  <2> QED
    BY <1>4, <2>2, <2>3, BudgetAssumption
       DEF BudgetAssumption, ReserveThenDecide, TypeOK
<1>5. CASE Release(c)
  <2>1. Goto(c, "idle") /\ spent' = spent /\ pc[c] \in {"reject", "rollback"}
    BY <1>5 DEF Release, Leave
  <2>2. Admitted' = Admitted \ {c}
    BY <1>1, <2>1 DEF AdmittedSteps, Steps
  <2>3. 0 \in 0..Reserve /\ spent' = spent + 0
    BY <1>0, <2>1, BudgetAssumption DEF BudgetAssumption, TypeOK
  <2> QED
    BY <1>2, <2>1, <2>2, <2>3 DEF AdmittedSteps
<1>6. CASE Settle(c)
  <2>1. Goto(c, "idle") /\ spent' = spent + cost[c] /\ pc[c] = "settle"
    BY <1>6 DEF Settle, Leave
  <2>2. c \in Admitted /\ Admitted' = Admitted \ {c}
    BY <1>1, <1>2, <2>1 DEF AdmittedSteps, Steps
  <2>3. cost[c] \in 0..Reserve
    BY <1>0, BudgetAssumption DEF BudgetAssumption, TypeOK
  <2> QED
    BY <2>1, <2>2, <2>3
<1>7. CASE Crash(c)
  <2>1. PICK billed \in 0..Reserve :
          spent' = spent + billed /\ (pc[c] = "reject" => billed = 0)
    BY <1>0, <1>7, BudgetAssumption DEF BudgetAssumption, Crash, Holding, TypeOK
  <2>2. Goto(c, "idle") /\ pc[c] \in HoldingSteps
    BY <1>7 DEF Crash, Leave, Holding, HoldingSteps
  <2>3. Admitted' = Admitted \ {c}
    BY <1>1, <2>2 DEF AdmittedSteps, Steps
  <2>4. CASE pc[c] = "reject"
    <3>1. c \notin Admitted /\ spent' = spent
      BY <1>0, <1>2, <2>1, <2>4 DEF AdmittedSteps, TypeOK
    <3> QED
      BY <2>3, <3>1
  <2>5. CASE pc[c] # "reject"
    BY <1>2, <2>1, <2>2, <2>3, <2>5 DEF AdmittedSteps, HoldingSteps
  <2> QED
    BY <2>4, <2>5
<1> QED
  BY <1>3, <1>4, <1>5, <1>6, <1>7 DEF CallerStep

\* budget_guard implements the daily allowance when no call costs more than
\* its reserve: whatever Redis, crashes and the other callers do, each step
\* is an admission below the cap, the end of an admitted call, a new day, or
\* invisible.
THEOREM GuardImplementsAllowance ==
  ASSUME MaxActual <= Reserve
  PROVE  Spec => ImplementsAllowance
<1>1. Init => Allowance!Init
  <2> SUFFICES ASSUME Init PROVE Allowance!Init
    OBVIOUS
  <2>1. spent = 0 /\ Cardinality(Admitted) = 0
    BY FS_EmptySet DEF Init, Admitted
  <2>2. Reserve * Cardinality(Admitted) = 0
    BY <2>1, BudgetAssumption DEF BudgetAssumption
  <2> QED
    BY <2>1, <2>2 DEF Allowance!Init
<1>2. BudgetInv /\ [Next]_vars => [Allowance!Next]_(Allowance!vars)
  <2> SUFFICES ASSUME BudgetInv, [Next]_vars
               PROVE  Allowance!Next \/ UNCHANGED Allowance!vars
    OBVIOUS
  <2>1. CASE Midnight
    <3>1. CASE straddled
      <4>1. straddled'
        BY <2>1, <3>1 DEF Midnight
      <4> QED
        BY <3>1, <4>1 DEF Allowance!vars
    <3>2. CASE ~straddled
      <4>1. spent' = 0
        BY <2>1 DEF Midnight
      <4>2. CASE straddled'
        BY <4>1, <4>2 DEF Allowance!Next, Allowance!NewDay
      <4>3. CASE ~straddled'
        <5>1. Admitted' = {}
          BY <2>1, <4>3 DEF Midnight, Admitted
        <5>2. Reserve * Cardinality(Admitted)' = 0
          BY <5>1, FS_EmptySet, BudgetAssumption DEF BudgetAssumption
        <5> QED
          BY <4>1, <4>3, <5>2 DEF Allowance!Next, Allowance!NewDay
      <4> QED
        BY <4>2, <4>3
    <3> QED
      BY <3>1, <3>2
  <2>2. ASSUME NEW c \in Callers, CallerStep(c)
        PROVE  Allowance!Next \/ UNCHANGED Allowance!vars
    <3>1. straddled' = straddled
      BY <2>2 DEF CallerStep, ReadCaps, InitKey, ReserveThenDecide, GuardFails,
         BodyReturns, BodyRaises, Release, Settle, Crash
    <3>2. CASE straddled
      BY <3>1, <3>2 DEF Allowance!vars
    <3>3. IsFiniteSet(Admitted) /\ Cardinality(Admitted) \in Nat
      BY BudgetAssumption, FS_Subset, FS_CardinalityType DEF BudgetAssumption, Admitted
    <3>4. CASE ~straddled
      <4>1. CASE UNCHANGED <<spent, Admitted>>
        BY <3>1, <4>1 DEF Allowance!vars
      <4>2. CASE /\ c \notin Admitted /\ Admitted' = Admitted \cup {c} /\ spent' = spent
                 /\ spent + Reserve * Cardinality(Admitted) < CapLimit
        <5>1. Reserve * Cardinality(Admitted)' = Reserve * Cardinality(Admitted) + Reserve
          <6>1. Cardinality(Admitted)' = Cardinality(Admitted) + 1
            BY <3>3, <4>2, FS_AddElement
          <6> QED
            BY <3>3, <6>1, OneMore
        <5>2. Allowance!Admit
          BY <3>1, <3>4, <4>2, <5>1 DEF Allowance!Admit
        <5> QED
          BY <5>2 DEF Allowance!Next
      <4>3. CASE /\ c \in Admitted /\ Admitted' = Admitted \ {c}
                 /\ \E paid \in 0..Reserve : spent' = spent + paid
        <5>1. Cardinality(Admitted)' = Cardinality(Admitted) - 1
          BY <3>3, <4>3, FS_RemoveElement
        <5>2. Reserve * Cardinality(Admitted)' = Reserve * Cardinality(Admitted) - Reserve
          BY <3>3, <5>1, OneMore
        <5>3. Reserve * Cardinality(Admitted)' \in Nat
          <6>1. IsFiniteSet(Admitted')
            BY <3>3, <4>3, FS_RemoveElement
          <6>2. Cardinality(Admitted)' \in Nat
            BY <6>1, FS_CardinalityType
          <6> QED
            BY <6>2, BudgetAssumption DEF BudgetAssumption
        <5>4. Reserve * Cardinality(Admitted) >= Reserve
          BY <3>3, <5>2, <5>3, OneMore, BudgetAssumption DEF BudgetAssumption
        <5>5. Allowance!Finish
          BY <3>1, <3>4, <4>3, <5>2, <5>4 DEF Allowance!Finish
        <5> QED
          BY <5>5 DEF Allowance!Next
      <4> QED
        BY <2>2, <3>4, <4>1, <4>2, <4>3, AdmitOrFinish
    <3> QED
      BY <3>2, <3>4
  <2>3. CASE SetCapOverride \/ UNCHANGED vars
    BY <2>3 DEF SetCapOverride, vars, Allowance!vars, Admitted
  <2> QED
    BY <2>1, <2>2, <2>3 DEF Next
<1> QED
  BY <1>1, <1>2, BudgetInvariant, PTL DEF Spec, ImplementsAllowance, Allowance!Spec

=============================================================================
