---------------------------- MODULE GatewayProofs ----------------------------
(***************************************************************************)
(* The gateway's books for any callers, pools, caps and prices.            *)
(*                                                                         *)
(* The counters and the accountable replies differ while guards are open,  *)
(* so the properties are not inductive.  Balance says by how much: by the  *)
(* reservations of the open guards and by the answers on their meters.     *)
(* The sum of the meters is the size of a set, with an element for every   *)
(* answer of every open guard.  Room bounds the free counter together with *)
(* all that the open guards may yet add to it.                             *)
(*                                                                         *)
(* Every action does to either budget one of four things: nothing, open a  *)
(* guard, put an answer on a meter, or close a guard.  The last three are  *)
(* what DailyAllowance admits, leaves alone and finishes, where a          *)
(* reservation pays for the pool.                                          *)
(***************************************************************************)
EXTENDS Gateway, FiniteSetTheorems, TLAPS

Kinds == {"free", "premium"}

Spots(kind) == IF kind = "free" THEN {"free"} ELSE {"paid", "sonnet"}

\* The callers with an open guard of a kind.
At(kind) == {c \in Callers : pc[c] \in Spots(kind)}

Pool == FreeModels + PaidModels

Answers(S, m) == {p \in S \X (1..Pool) : p[2] <= m[p[1]]}

\* The answers on the meters of open guards.
Unsettled(kind) == Answers(At(kind), meter)

Balance(kind) ==
  Accountable(kind) + ReserveOf(kind) * Cardinality(At(kind))
    = used[kind] + Cardinality(Unsettled(kind))

Floor(kind) == used[kind] >= ReserveOf(kind) * Cardinality(At(kind))

Metered ==
  \A c \in Callers :
    /\ pc[c] = "free" => meter[c] < next[c] /\ next[c] <= FreeModels + 1
    /\ pc[c] = "paid" => meter[c] < next[c] /\ next[c] <= PaidModels + 1
    /\ pc[c] = "sonnet" => meter[c] = 0

Room ==
  used["free"] + (FreeModels - 1) * Cardinality(At("free"))
    <= FreeCap + (FreeModels - 1) * Cardinality(Callers)

Inv == /\ TypeOK /\ Metered /\ Room
       /\ \A kind \in Kinds : Balance(kind) /\ Floor(kind)

-----------------------------------------------------------------------------

\* A step that touches neither the counter nor an open guard of the kind.
Stays(kind) ==
  /\ At(kind)' = At(kind)
  /\ \A x \in At(kind) : meter'[x] = meter[x]
  /\ used'[kind] = used[kind]
  /\ Accountable(kind)' = Accountable(kind)

Enters(kind, c) ==
  /\ c \notin At(kind) /\ At(kind)' = At(kind) \cup {c}
  /\ meter'[c] = 0 /\ \A x \in At(kind) : meter'[x] = meter[x]
  /\ used[kind] < CapOf(kind)
  /\ used'[kind] = used[kind] + ReserveOf(kind)
  /\ Accountable(kind)' = Accountable(kind)

Meters(kind, c) ==
  /\ c \in At(kind) /\ At(kind)' = At(kind)
  /\ meter[c] + 1 <= Pool
  /\ meter'[c] = meter[c] + 1 /\ \A x \in At(kind) \ {c} : meter'[x] = meter[x]
  /\ used'[kind] = used[kind]
  /\ Accountable(kind)' = Accountable(kind) + 1

Leaves(kind, c, recorded) ==
  /\ c \in At(kind) /\ At(kind)' = At(kind) \ {c}
  /\ \A x \in At(kind) \ {c} : meter'[x] = meter[x]
  /\ used'[kind] = used[kind] - ReserveOf(kind) + recorded
  /\ kind = "free" => recorded <= FreeModels
  /\ kind = "premium" => recorded <= PaidModels \/ recorded <= 1
  /\ meter[c] <= Pool
  /\ Accountable(kind)' = Accountable(kind) + recorded - meter[c]

-----------------------------------------------------------------------------

\* What the constants are.
LEMMA Constants ==
  /\ IsFiniteSet(Callers)
  /\ FreeModels \in Nat \ {0} /\ PaidModels \in Nat /\ Pool \in Nat
  /\ FreeCap \in Nat /\ PremiumCap \in Nat
  /\ \A kind \in Kinds : ReserveOf(kind) \in Nat
  /\ MaxCalls \in Nat
BY GatewayAssumption DEF GatewayAssumption, Pool, Kinds, ReserveOf

LEMMA AtFinite ==
  \A kind \in Kinds : IsFiniteSet(At(kind)) /\ Cardinality(At(kind)) \in Nat
<1>1. \A kind \in Kinds : At(kind) \subseteq Callers
  BY DEF At
<1> QED
  BY <1>1, Constants, FS_Subset, FS_CardinalityType

\* There are as many answers as the meters add up to, and so ...
LEMMA AnswersFinite ==
  ASSUME NEW S, IsFiniteSet(S), NEW m
  PROVE  IsFiniteSet(Answers(S, m)) /\ Cardinality(Answers(S, m)) \in Nat
<1>1. IsFiniteSet(1..Pool)
  BY Constants, FS_Interval
<1>2. IsFiniteSet(S \X (1..Pool))
  BY <1>1, FS_Product
<1>3. Answers(S, m) \subseteq S \X (1..Pool)
  BY DEF Answers
<1> QED
  BY <1>2, <1>3, FS_Subset, FS_CardinalityType

\* ... they depend on the meters of the callers in question only,
LEMMA AnswersSame ==
  ASSUME NEW S, NEW m, NEW n, \A x \in S : m[x] = n[x]
  PROVE  Answers(S, m) = Answers(S, n)
BY DEF Answers

\* a caller whose meter is at zero adds none,
LEMMA AnswersIn ==
  ASSUME NEW S, NEW c, NEW m, m[c] = 0
  PROVE  Answers(S \cup {c}, m) = Answers(S, m)
BY Constants DEF Answers

\* any other takes away what its meter shows,
LEMMA AnswersOut ==
  ASSUME NEW S, IsFiniteSet(S), NEW c \in S, NEW m, m[c] \in 0..Pool
  PROVE  Cardinality(Answers(S, m)) = Cardinality(Answers(S \ {c}, m)) + m[c]
<1> DEFINE Own == {c} \X (1..m[c])
<1>1. /\ IsFiniteSet(Own) /\ Cardinality(Own) = m[c]
  <2>1. IsFiniteSet({c}) /\ Cardinality({c}) = 1
    BY FS_Singleton
  <2>2. m[c] \in Nat
    BY Constants
  <2>3. \A k \in Nat : IsFiniteSet(1..k) /\ Cardinality(1..k) = k
    BY FS_Interval, SMTT(60)
  <2>4. IsFiniteSet(1..m[c]) /\ Cardinality(1..m[c]) = m[c]
    BY <2>2, <2>3
  <2>5. IsFiniteSet(Own) /\ Cardinality(Own) = Cardinality({c}) * Cardinality(1..m[c])
    BY <2>1, <2>4, FS_Product
  <2> QED
    BY <2>1, <2>2, <2>4, <2>5
<1>2. IsFiniteSet(S \ {c})
  BY FS_RemoveElement
<1>3. IsFiniteSet(Answers(S \ {c}, m)) /\ Cardinality(Answers(S \ {c}, m)) \in Nat
  BY <1>2, AnswersFinite
<1>4. Answers(S, m) = Answers(S \ {c}, m) \cup Own
  BY Constants DEF Answers
<1>5. Answers(S \ {c}, m) \cap Own = {}
  BY DEF Answers
<1>6. Cardinality(Answers(S \ {c}, m) \cap Own) = 0
  BY <1>5, FS_EmptySet
<1> HIDE DEF Own
<1>7. Cardinality(Answers(S, m)) =
        Cardinality(Answers(S \ {c}, m)) + Cardinality(Own)
          - Cardinality(Answers(S \ {c}, m) \cap Own)
  BY <1>1, <1>3, <1>4, FS_Union
<1> QED
  BY <1>1, <1>3, <1>6, <1>7, Constants

\* and one answer more is one more.
LEMMA AnswersMore ==
  ASSUME NEW S, IsFiniteSet(S), NEW c \in S, NEW m, NEW n,
         m[c] \in Nat, m[c] + 1 <= Pool, n[c] = m[c] + 1,
         \A x \in S \ {c} : n[x] = m[x]
  PROVE  Cardinality(Answers(S, n)) = Cardinality(Answers(S, m)) + 1
<1>1. m[c] \in 0..Pool /\ n[c] \in 0..Pool
  BY Constants
<1>2. Answers(S \ {c}, n) = Answers(S \ {c}, m)
  BY AnswersSame
<1>3. Cardinality(Answers(S \ {c}, m)) \in Nat
  BY FS_RemoveElement, AnswersFinite
<1>4. Cardinality(Answers(S, m)) = Cardinality(Answers(S \ {c}, m)) + m[c]
  BY <1>1, AnswersOut
<1>5. Cardinality(Answers(S, n)) = Cardinality(Answers(S \ {c}, n)) + n[c]
  BY <1>1, AnswersOut
<1> QED
  BY <1>2, <1>3, <1>4, <1>5

-----------------------------------------------------------------------------

LEMMA Times ==
  \A r, n \in Nat : /\ r * n \in Nat
                    /\ r * (n + 1) = r * n + r
                    /\ r * (n - 1) = r * n - r
OBVIOUS

\* What a kind's books say and what its guards may still add.
Book(kind) == Balance(kind) /\ Floor(kind)

\* The numbers of a kind in a state, and what the books say of them.
LEMMA Numbers ==
  ASSUME TypeOK, NEW kind \in Kinds
  PROVE  /\ used[kind] \in Nat /\ Accountable(kind) \in Int
         /\ ReserveOf(kind) \in Nat
         /\ Cardinality(At(kind)) \in Nat /\ Cardinality(Unsettled(kind)) \in Nat
         /\ ReserveOf(kind) * Cardinality(At(kind)) \in Nat
<1>1. used[kind] \in Nat /\ Accountable(kind) \in Int
  BY Constants DEF TypeOK, Kinds, Accountable
<1>2. /\ ReserveOf(kind) \in Nat /\ Cardinality(At(kind)) \in Nat
      /\ Cardinality(Unsettled(kind)) \in Nat
  BY Constants, AtFinite, AnswersFinite DEF Unsettled
<1> QED
  BY <1>1, <1>2, Times

LEMMA StaysBook ==
  ASSUME TypeOK, NEW kind \in Kinds, Book(kind), Stays(kind)
  PROVE  Book(kind)'
<1>1. Unsettled(kind)' = Unsettled(kind)
  BY AnswersSame DEF Stays, Unsettled
<1> QED
  BY <1>1 DEF Stays, Book, Balance, Floor

LEMMA EntersBook ==
  ASSUME TypeOK, NEW kind \in Kinds, Book(kind), NEW c, Enters(kind, c)
  PROVE  Book(kind)'
<1>1. Unsettled(kind)' = Unsettled(kind)
  <2>1. Answers(At(kind) \cup {c}, meter') = Answers(At(kind), meter')
    BY AnswersIn DEF Enters
  <2>2. Answers(At(kind), meter') = Answers(At(kind), meter)
    BY AnswersSame DEF Enters
  <2> QED
    BY <2>1, <2>2 DEF Enters, Unsettled
<1>2. Cardinality(At(kind))' = Cardinality(At(kind)) + 1
  <2>1. /\ IsFiniteSet(At(kind)) /\ c \notin At(kind)
        /\ At(kind)' = At(kind) \cup {c}
    BY AtFinite DEF Enters
  <2>2. Cardinality(At(kind) \cup {c}) = Cardinality(At(kind)) + 1
    BY <2>1, FS_AddElement
  <2> QED
    BY <2>1, <2>2, Zenon
<1>3. ReserveOf(kind) * Cardinality(At(kind))' = ReserveOf(kind) * Cardinality(At(kind)) + ReserveOf(kind)
  BY <1>2, Numbers, Times
<1>4. used'[kind] = used[kind] + ReserveOf(kind) /\ Accountable(kind)' = Accountable(kind)
  BY DEF Enters
<1> QED
  BY <1>1, <1>3, <1>4, Numbers DEF Book, Balance, Floor

LEMMA MetersBook ==
  ASSUME TypeOK, NEW kind \in Kinds, Book(kind), NEW c \in Callers, Meters(kind, c)
  PROVE  Book(kind)'
<1>1. Cardinality(Unsettled(kind))' = Cardinality(Unsettled(kind)) + 1
  <2>1. meter[c] \in Nat
    BY DEF TypeOK
  <2>2. Cardinality(Answers(At(kind), meter')) = Cardinality(Answers(At(kind), meter)) + 1
    BY <2>1, AtFinite, AnswersMore DEF Meters
  <2> QED
    BY <2>2 DEF Meters, Unsettled
<1>2. At(kind)' = At(kind) /\ used'[kind] = used[kind] /\ Accountable(kind)' = Accountable(kind) + 1
  BY DEF Meters
<1> QED
  BY <1>1, <1>2, Numbers DEF Book, Balance, Floor

LEMMA LeavesBook ==
  ASSUME TypeOK, NEW kind \in Kinds, Book(kind), NEW c \in Callers, NEW recorded \in Nat,
         Leaves(kind, c, recorded)
  PROVE  Book(kind)'
<1>1. meter[c] \in 0..Pool
  BY Constants DEF TypeOK, Leaves
<1>2. Cardinality(Unsettled(kind))' = Cardinality(Unsettled(kind)) - meter[c]
  <2>1. Cardinality(Answers(At(kind), meter)) = Cardinality(Answers(At(kind) \ {c}, meter)) + meter[c]
    BY <1>1, AtFinite, AnswersOut DEF Leaves
  <2>2. Answers(At(kind) \ {c}, meter') = Answers(At(kind) \ {c}, meter)
    BY AnswersSame DEF Leaves
  <2>3. Cardinality(Answers(At(kind) \ {c}, meter)) \in Nat
    BY AtFinite, FS_RemoveElement, AnswersFinite
  <2>4. Unsettled(kind)' = Answers(At(kind) \ {c}, meter)
    BY <2>2 DEF Leaves, Unsettled
  <2> QED
    BY <1>1, <2>1, <2>3, <2>4 DEF Unsettled
<1>3. Cardinality(At(kind))' = Cardinality(At(kind)) - 1
  BY AtFinite, FS_RemoveElement DEF Leaves
<1>4. ReserveOf(kind) * Cardinality(At(kind))' = ReserveOf(kind) * Cardinality(At(kind)) - ReserveOf(kind)
  BY <1>3, Numbers, Times
<1>5. used'[kind] = used[kind] - ReserveOf(kind) + recorded
  BY DEF Leaves
<1>6. Accountable(kind)' = Accountable(kind) + recorded - meter[c]
  BY DEF Leaves
<1>7. Balance(kind)'
  <2>1. meter[c] \in Nat
    BY <1>1, Constants
  <2>2. Accountable(kind) + ReserveOf(kind) * Cardinality(At(kind))
          = used[kind] + Cardinality(Unsettled(kind))
    BY DEF Book, Balance
  <2> DEFINE b == Accountable(kind)
             p == ReserveOf(kind) * Cardinality(At(kind))
             u == used[kind]
             n == Cardinality(Unsettled(kind))
             r == ReserveOf(kind)
             m == meter[c]
  <2>3. b \in Int /\ p \in Nat /\ u \in Nat /\ n \in Nat /\ r \in Nat /\ m \in Nat
    BY <2>1, Numbers
  <2>4. b + p = u + n
    BY <2>2
  <2>5. /\ Accountable(kind)' = b + recorded - m /\ used'[kind] = u - r + recorded
        /\ ReserveOf(kind) * Cardinality(At(kind))' = p - r
        /\ Cardinality(Unsettled(kind))' = n - m
    BY <1>2, <1>4, <1>5, <1>6
  <2>6. Balance(kind)' <=> (b + recorded - m) + (p - r) = (u - r + recorded) + (n - m)
    BY <2>5 DEF Balance
  <2> HIDE DEF b, p, u, n, r, m
  <2>7. (b + recorded - m) + (p - r) = (u - r + recorded) + (n - m)
    BY <2>3, <2>4
  <2> QED
    BY <2>6, <2>7
<1>8. Floor(kind)'
  <2>1. used[kind] >= ReserveOf(kind) * Cardinality(At(kind))
    BY DEF Book, Floor
  <2> QED
    BY <2>1, <1>4, <1>5, Numbers DEF Floor
<1> QED
  BY <1>7, <1>8 DEF Book

-----------------------------------------------------------------------------

\* A counter never goes below zero: what is given back had been set aside.
LEMMA LeavesNat ==
  ASSUME TypeOK, NEW kind \in Kinds, Floor(kind), NEW c \in Callers, NEW recorded \in Nat,
         Leaves(kind, c, recorded)
  PROVE  used'[kind] \in Nat
<1>1. Cardinality(At(kind) \ {c}) = Cardinality(At(kind)) - 1 /\ Cardinality(At(kind) \ {c}) \in Nat
  BY AtFinite, FS_RemoveElement, FS_CardinalityType DEF Leaves
<1>2. ReserveOf(kind) * (Cardinality(At(kind)) - 1) \in Nat
  BY <1>1, Numbers, Times
<1>3. ReserveOf(kind) * (Cardinality(At(kind)) - 1) = ReserveOf(kind) * Cardinality(At(kind)) - ReserveOf(kind)
  BY Numbers, Times
<1>4. used[kind] - ReserveOf(kind) \in Nat
  BY <1>2, <1>3, Numbers DEF Floor
<1> QED
  BY <1>4 DEF Leaves

Effect(kind) ==
  \/ Stays(kind)
  \/ \E c \in Callers :
       \/ Enters(kind, c)
       \/ Meters(kind, c)
       \/ \E recorded \in Nat : Leaves(kind, c, recorded)

LEMMA EffectBook ==
  ASSUME TypeOK, NEW kind \in Kinds, Book(kind), Effect(kind)
  PROVE  Book(kind)' /\ used'[kind] \in Nat
<1>1. CASE Stays(kind)
  BY <1>1, StaysBook, Numbers DEF Stays
<1>2. ASSUME NEW c \in Callers, Enters(kind, c) PROVE Book(kind)' /\ used'[kind] \in Nat
  BY <1>2, EntersBook, Numbers DEF Enters
<1>3. ASSUME NEW c \in Callers, Meters(kind, c) PROVE Book(kind)' /\ used'[kind] \in Nat
  BY <1>3, MetersBook, Numbers DEF Meters
<1>4. ASSUME NEW c \in Callers, NEW recorded \in Nat, Leaves(kind, c, recorded)
      PROVE  Book(kind)' /\ used'[kind] \in Nat
  BY <1>4, LeavesBook, LeavesNat DEF Book
<1> QED
  BY <1>1, <1>2, <1>3, <1>4 DEF Effect

-----------------------------------------------------------------------------

\* An admission is below the cap, and a guard adds at most the rest of the pool.
LEMMA EffectRoom ==
  ASSUME TypeOK, Room, Effect("free")
  PROVE  Room'
<1> DEFINE w == FreeModels - 1
           n == Cardinality(At("free"))
           most == Cardinality(Callers)
<1>1. w \in Nat /\ n \in Nat /\ most \in Nat /\ used["free"] \in Nat
  BY Constants, AtFinite, FS_CardinalityType DEF TypeOK, Kinds
<1>2. used["free"] + w * n <= FreeCap + w * most
  BY DEF Room
<1>3. Room' <=> used'["free"] + w * Cardinality(At("free"))' <= FreeCap + w * most
  BY DEF Room
<1>4. w * (n + 1) = w * n + w /\ w * (n - 1) = w * n - w /\ w * n \in Nat /\ w * most \in Nat
  BY <1>1, Times
<1>5. CASE Stays("free")
  BY <1>2, <1>3, <1>5 DEF Stays
<1>6. ASSUME NEW c \in Callers, Enters("free", c) PROVE Room'
  <2>1. Cardinality(At("free"))' = n + 1
    BY <1>6, AtFinite, FS_AddElement DEF Enters, Kinds
  <2>2. At("free") \cup {c} \subseteq Callers
    BY DEF At
  <2>3. n + 1 <= most
    BY <2>1, <2>2, <1>6, Constants, FS_Subset DEF Enters
  <2>4. w * (n + 1) <= w * most
    <3>1. \A a, x, y \in Nat : x <= y => a * x <= a * y
      OBVIOUS
    <3> QED
      BY <2>3, <3>1, <1>1
  <2>5. used'["free"] = used["free"] + 1 /\ used["free"] < FreeCap
    BY <1>6 DEF Enters, ReserveOf, CapOf
  <2> HIDE DEF w, n, most
  <2> QED
    BY <2>1, <2>4, <2>5, <1>1, <1>3, <1>4, Constants
<1>7. ASSUME NEW c \in Callers, Meters("free", c) PROVE Room'
  BY <1>2, <1>3, <1>7 DEF Meters
<1>8. ASSUME NEW c \in Callers, NEW recorded \in Nat, Leaves("free", c, recorded) PROVE Room'
  <2>1. Cardinality(At("free"))' = n - 1
    BY <1>8, AtFinite, FS_RemoveElement DEF Leaves, Kinds
  <2>2. used'["free"] = used["free"] - 1 + recorded /\ recorded <= w + 1
    BY <1>8, Constants DEF Leaves, ReserveOf
  <2> HIDE DEF w, n, most
  <2> QED
    BY <2>1, <2>2, <1>1, <1>2, <1>3, <1>4, Constants
<1> QED
  BY <1>5, <1>6, <1>7, <1>8 DEF Effect

-----------------------------------------------------------------------------

\* A step of one caller, who ends up at a place with a meter.
Moves(c, place, shown) ==
  /\ pc' = [pc EXCEPT ![c] = place]
  /\ meter' = [meter EXCEPT ![c] = shown]

LEMMA AtMoves ==
  ASSUME TypeOK, NEW c \in Callers, NEW place, NEW shown, Moves(c, place, shown),
         NEW kind \in Kinds
  PROVE  /\ At(kind)' = IF place \in Spots(kind) THEN At(kind) \cup {c} ELSE At(kind) \ {c}
         /\ c \in At(kind) <=> pc[c] \in Spots(kind)
         /\ meter'[c] = shown /\ \A x \in At(kind) \ {c} : meter'[x] = meter[x]
<1>1. pc \in [Callers -> Places] /\ meter \in [Callers -> Nat]
  BY DEF TypeOK
<1>2. \A x \in Callers : pc'[x] = IF x = c THEN place ELSE pc[x]
  BY <1>1 DEF Moves
<1>3. \A x \in Callers : meter'[x] = IF x = c THEN shown ELSE meter[x]
  BY <1>1 DEF Moves
<1> QED
  BY <1>2, <1>3 DEF At

LEMMA MovesStays ==
  ASSUME TypeOK, NEW c \in Callers, NEW place, NEW shown, Moves(c, place, shown),
         NEW kind \in Kinds,
         pc[c] \in Spots(kind) <=> place \in Spots(kind),
         pc[c] \in Spots(kind) => shown = meter[c],
         used'[kind] = used[kind],
         Accountable(kind)' = Accountable(kind)
  PROVE  Effect(kind)
<1>1. At(kind)' = At(kind)
  BY AtMoves
<1>2. \A x \in At(kind) : meter'[x] = meter[x]
  BY AtMoves
<1> QED
  BY <1>1, <1>2 DEF Effect, Stays

LEMMA MovesEnters ==
  ASSUME TypeOK, NEW c \in Callers, NEW place, Moves(c, place, 0),
         NEW kind \in Kinds,
         pc[c] \notin Spots(kind), place \in Spots(kind),
         used[kind] < CapOf(kind), used'[kind] = used[kind] + ReserveOf(kind),
         Accountable(kind)' = Accountable(kind)
  PROVE  Effect(kind)
<1>1. c \notin At(kind) /\ At(kind)' = At(kind) \cup {c}
  BY AtMoves
<1>2. meter'[c] = 0 /\ \A x \in At(kind) : meter'[x] = meter[x]
  BY <1>1, AtMoves
<1>3. Enters(kind, c)
  BY <1>1, <1>2 DEF Enters
<1> QED
  BY <1>3 DEF Effect

LEMMA MovesMeters ==
  ASSUME TypeOK, NEW c \in Callers, Moves(c, pc[c], meter[c] + 1),
         NEW kind \in Kinds,
         pc[c] \in Spots(kind), meter[c] + 1 <= Pool,
         used'[kind] = used[kind], Accountable(kind)' = Accountable(kind) + 1
  PROVE  Effect(kind)
<1>1. c \in At(kind) /\ At(kind)' = At(kind)
  <2>1. /\ At(kind)' = IF pc[c] \in Spots(kind) THEN At(kind) \cup {c} ELSE At(kind) \ {c}
        /\ c \in At(kind) <=> pc[c] \in Spots(kind)
    BY AtMoves
  <2> QED
    BY <2>1
<1>2. meter'[c] = meter[c] + 1 /\ \A x \in At(kind) \ {c} : meter'[x] = meter[x]
  BY AtMoves
<1>3. Meters(kind, c)
  BY <1>1, <1>2 DEF Meters
<1> QED
  BY <1>3 DEF Effect

LEMMA MovesLeaves ==
  ASSUME TypeOK, NEW c \in Callers, NEW place, NEW shown, Moves(c, place, shown),
         NEW kind \in Kinds, NEW recorded \in Nat,
         pc[c] \in Spots(kind), place \notin Spots(kind),
         used'[kind] = used[kind] - ReserveOf(kind) + recorded,
         kind = "free" => recorded <= FreeModels,
         kind = "premium" => recorded <= PaidModels \/ recorded <= 1,
         meter[c] <= Pool,
         Accountable(kind)' = Accountable(kind) + recorded - meter[c]
  PROVE  Effect(kind)
<1>1. c \in At(kind) /\ At(kind)' = At(kind) \ {c}
  BY AtMoves
<1>2. \A x \in At(kind) \ {c} : meter'[x] = meter[x]
  BY AtMoves
<1>3. Leaves(kind, c, recorded)
  BY <1>1, <1>2 DEF Leaves
<1> QED
  BY <1>3 DEF Effect

\* What the meter of a caller shows is within its pool.
LEMMA MeterBounds ==
  ASSUME TypeOK, Metered, NEW c \in Callers
  PROVE  /\ meter[c] \in Nat /\ next[c] \in Nat
         /\ pc[c] = "free" => meter[c] <= FreeModels
         /\ pc[c] = "free" /\ next[c] <= FreeModels => meter[c] + 1 <= FreeModels
         /\ pc[c] = "paid" => meter[c] <= PaidModels
         /\ pc[c] = "paid" /\ next[c] <= PaidModels => meter[c] + 1 <= PaidModels
         /\ pc[c] = "sonnet" => meter[c] = 0
         /\ c \in InGuard => meter[c] <= Pool
<1>1. meter[c] \in Nat /\ next[c] \in Nat
  BY DEF TypeOK
<1> QED
  BY <1>1, Constants DEF Metered, InGuard, Pool

\* A step at which nothing comes back and nothing is lost.
LEMMA AccountableStays ==
  ASSUME billed' = billed, uncounted' = uncounted
  PROVE  \A kind \in Kinds : Accountable(kind)' = Accountable(kind)
BY DEF Accountable

\* One reply of a kind that comes back and is not lost.
LEMMA AccountableBill ==
  ASSUME TypeOK, NEW c, Bill(c), uncounted' = uncounted
  PROVE  \A kind \in Kinds :
           Accountable(kind)' = IF kind = KindAt(c) THEN Accountable(kind) + 1 ELSE Accountable(kind)
BY DEF TypeOK, Kinds, Accountable, Bill

\* One that comes back and is lost.
LEMMA AccountableWaste ==
  ASSUME TypeOK, NEW c, Bill(c), Lose(c, 1)
  PROVE  \A kind \in Kinds : Accountable(kind)' = Accountable(kind)
BY DEF TypeOK, Kinds, Accountable, Bill, Lose

\* Those on a meter, lost together.
LEMMA AccountableLose ==
  ASSUME TypeOK, NEW c, NEW n \in Nat, billed' = billed, Lose(c, n)
  PROVE  \A kind \in Kinds :
           Accountable(kind)' = IF kind = KindAt(c) THEN Accountable(kind) - n ELSE Accountable(kind)
BY DEF TypeOK, Kinds, Accountable, Lose

-----------------------------------------------------------------------------

\* Every action has one of the four effects on either budget.
LEMMA CompleteEffect ==
  ASSUME TypeOK, NEW c \in Callers, Complete(c), NEW kind \in Kinds
  PROVE  Effect(kind)
<1>1. PICK job \in Tasks : EnterGuard(c, job, "free", "free")
  BY DEF Complete
<1>2. pc[c] = "idle" /\ Accountable(kind)' = Accountable(kind) /\ used \in [Kinds -> Nat]
  BY AccountableStays DEF Complete, TypeOK, Kinds
<1>3. CASE used["free"] < CapOf("free")
  <2>1. Moves(c, "free", 0) /\ used' = [used EXCEPT !["free"] = @ + ReserveOf("free")]
    BY <1>1, <1>3 DEF EnterGuard, Go, Moves
  <2>2. CASE kind = "free"
    BY <1>2, <1>3, <2>1, <2>2, MovesEnters DEF Spots, Kinds
  <2>3. CASE kind = "premium"
    BY <1>2, <2>1, <2>3, MovesStays DEF Spots, Kinds
  <2> QED
    BY <2>2, <2>3 DEF Kinds
<1>4. CASE ~(used["free"] < CapOf("free"))
  <2>1. Moves(c, "idle", 0) /\ used' = used
    BY <1>1, <1>4 DEF EnterGuard, End, Go, Moves
  <2> QED
    BY <1>2, <2>1, MovesStays DEF Spots
<1> QED
  BY <1>3, <1>4

LEMMA EscalateEffect ==
  ASSUME TypeOK, NEW c \in Callers, Escalate(c), NEW kind \in Kinds
  PROVE  Effect(kind)
<1>1. pc[c] = "escalate" /\ Accountable(kind)' = Accountable(kind) /\ used \in [Kinds -> Nat]
  BY AccountableStays DEF Escalate, TypeOK, Kinds
<1>2. ASSUME NEW place \in {"paid", "sonnet"}, EnterGuard(c, task[c], "premium", place)
      PROVE  Effect(kind)
  <2>1. CASE used["premium"] < CapOf("premium")
    <3>1. Moves(c, place, 0) /\ used' = [used EXCEPT !["premium"] = @ + ReserveOf("premium")]
      BY <1>2, <2>1 DEF EnterGuard, Go, Moves
    <3>2. CASE kind = "premium"
      BY <1>1, <2>1, <3>1, <3>2, MovesEnters DEF Spots, Kinds
    <3>3. CASE kind = "free"
      BY <1>1, <3>1, <3>3, MovesStays DEF Spots, Kinds
    <3> QED
      BY <3>2, <3>3 DEF Kinds
  <2>2. CASE ~(used["premium"] < CapOf("premium"))
    <3>1. Moves(c, "idle", 0) /\ used' = used
      BY <1>2, <2>2 DEF EnterGuard, End, Go, Moves
    <3> QED
      BY <1>1, <3>1, MovesStays DEF Spots
  <2> QED
    BY <2>1, <2>2
<1>3. CASE Go(c, "strike") /\ UNCHANGED <<used, meter>>
  <2>1. Moves(c, "strike", meter[c])
    BY <1>3 DEF Go, Moves, TypeOK
  <2> QED
    BY <1>1, <1>3, <2>1, MovesStays DEF Spots
<1>4. CASE End(c, "allfailed") /\ UNCHANGED used
  <2>1. Moves(c, "idle", 0)
    BY <1>4 DEF End, Go, Moves
  <2> QED
    BY <1>1, <1>4, <2>1, MovesStays DEF Spots
<1> QED
  BY <1>2, <1>3, <1>4 DEF Escalate

\* In the free pool.
LEMMA FreeEffects ==
  ASSUME TypeOK, Metered, NEW c \in Callers, pc[c] = "free", NEW kind \in Kinds,
         FreeAnswersBadly(c) \/ FreeAnswers(c) \/ LeaveFreePool(c)
  PROVE  Effect(kind)
<1>1. used \in [Kinds -> Nat] /\ Accountable(kind) \in Int /\ KindAt(c) = "free"
  BY Numbers DEF TypeOK, Kinds, KindAt
<1>2. Pool \in Nat /\ FreeModels <= Pool /\ meter[c] \in Nat
  BY Constants, MeterBounds DEF Pool
<1>3. CASE FreeAnswersBadly(c)
  <2>1. Moves(c, pc[c], meter[c] + 1) /\ used' = used
    BY <1>3 DEF FreeAnswersBadly, Moves, TypeOK
  <2>2. Accountable(kind)' = IF kind = "free" THEN Accountable(kind) + 1 ELSE Accountable(kind)
    BY <1>1, <1>3, AccountableBill DEF FreeAnswersBadly
  <2>3. meter[c] + 1 <= Pool
    BY <1>2, <1>3, MeterBounds, Constants DEF FreeAnswersBadly
  <2>4. CASE kind = "free"
    BY <1>1, <2>1, <2>2, <2>3, <2>4, MovesMeters DEF Spots, Kinds
  <2>5. CASE kind = "premium"
    BY <1>1, <2>1, <2>2, <2>5, MovesStays DEF Spots, Kinds
  <2> QED
    BY <2>4, <2>5 DEF Kinds
<1>4. CASE FreeAnswers(c)
  <2>1. Moves(c, "idle", 0)
    BY <1>4 DEF FreeAnswers, End, Go, Moves
  <2>2. Accountable(kind)' = IF kind = "free" THEN Accountable(kind) + 1 ELSE Accountable(kind)
    BY <1>1, <1>4, AccountableBill DEF FreeAnswers
  <2>3. used' = [used EXCEPT !["free"] = @ - ReserveOf("free") + (meter[c] + 1)]
    BY <1>1, <1>4 DEF FreeAnswers, SettleAt
  <2>4. meter[c] + 1 <= FreeModels /\ meter[c] + 1 \in Nat /\ meter[c] <= Pool
    BY <1>2, <1>4, MeterBounds, Constants DEF FreeAnswers
  <2>5. CASE kind = "free"
    <3>1. Accountable(kind)' = Accountable(kind) + (meter[c] + 1) - meter[c]
      BY <1>1, <1>2, <2>2, <2>5
    <3>2. used'[kind] = used[kind] - ReserveOf(kind) + (meter[c] + 1)
      BY <1>1, <2>3, <2>5
    <3> QED
      BY <2>1, <2>4, <2>5, <3>1, <3>2, MovesLeaves DEF Spots
  <2>6. CASE kind = "premium"
    BY <1>1, <2>1, <2>2, <2>3, <2>6, MovesStays DEF Spots, Kinds
  <2> QED
    BY <2>5, <2>6 DEF Kinds
<1>5. CASE LeaveFreePool(c)
  <2>1. Moves(c, "escalate", meter[c]) /\ Accountable(kind)' = Accountable(kind)
    BY <1>5, AccountableStays DEF LeaveFreePool, Go, Moves, TypeOK
  <2>2. used' = [used EXCEPT !["free"] = @ - ReserveOf("free") + meter[c]]
    BY <1>1, <1>5 DEF LeaveFreePool, SettleAt
  <2>3. meter[c] <= FreeModels /\ meter[c] <= Pool
    BY <1>2, MeterBounds, Constants
  <2>4. CASE kind = "free"
    <3>1. Accountable(kind)' = Accountable(kind) + meter[c] - meter[c]
      BY <1>1, <1>2, <2>1, <2>4
    <3>2. used'[kind] = used[kind] - ReserveOf(kind) + meter[c]
      BY <1>1, <2>2, <2>4
    <3>3. pc[c] \in Spots(kind) /\ "escalate" \notin Spots(kind)
      BY <2>4 DEF Spots
    <3> QED
      BY <1>2, <2>1, <2>3, <2>4, <3>1, <3>2, <3>3, MovesLeaves
  <2>5. CASE kind = "premium"
    BY <1>1, <2>1, <2>2, <2>5, MovesStays DEF Spots, Kinds
  <2> QED
    BY <2>4, <2>5 DEF Kinds
<1> QED
  BY <1>3, <1>4, <1>5

-----------------------------------------------------------------------------

\* In the paid pool: a reply that is billed and not metered is lost at once.
LEMMA PaidEffects ==
  ASSUME TypeOK, Metered, NEW c \in Callers, pc[c] = "paid", NEW kind \in Kinds,
         PaidAnswersBadly(c) \/ PaidAnswersGarbage(c) \/ PaidAnswers(c) \/ LeavePaidPool(c)
  PROVE  Effect(kind)
<1>1. used \in [Kinds -> Nat] /\ Accountable(kind) \in Int /\ KindAt(c) = "premium"
  BY Numbers DEF TypeOK, Kinds, KindAt
<1>2. Pool \in Nat /\ PaidModels <= Pool /\ meter[c] \in Nat /\ meter[c] <= Pool
  BY Constants, MeterBounds DEF Pool
<1>3. "idle" \notin Spots(kind) /\ "strike" \notin Spots(kind)
  BY DEF Spots
<1>4. CASE PaidAnswersBadly(c)
  <2>1. Moves(c, pc[c], meter[c] + 1) /\ used' = used
    BY <1>4 DEF PaidAnswersBadly, Moves, TypeOK
  <2>2. Accountable(kind)' = IF kind = "premium" THEN Accountable(kind) + 1 ELSE Accountable(kind)
    BY <1>1, <1>4, AccountableBill DEF PaidAnswersBadly
  <2>3. meter[c] + 1 <= Pool
    BY <1>2, <1>4, MeterBounds, Constants DEF PaidAnswersBadly
  <2>4. CASE kind = "premium"
    BY <1>1, <2>1, <2>2, <2>3, <2>4, MovesMeters DEF Spots, Kinds
  <2>5. CASE kind = "free"
    BY <1>1, <2>1, <2>2, <2>5, MovesStays DEF Spots, Kinds
  <2> QED
    BY <2>4, <2>5 DEF Kinds
<1>5. CASE PaidAnswersGarbage(c)
  <2>1. Moves(c, pc[c], meter[c]) /\ used' = used
    BY <1>5 DEF PaidAnswersGarbage, Moves, TypeOK
  <2>2. Accountable(kind)' = Accountable(kind)
    BY <1>5, AccountableWaste DEF PaidAnswersGarbage
  <2> QED
    BY <2>1, <2>2, MovesStays
<1>6. CASE PaidAnswers(c)
  <2>1. Moves(c, "idle", 0)
    BY <1>6 DEF PaidAnswers, End, Go, Moves
  <2>2. Accountable(kind)' = IF kind = "premium" THEN Accountable(kind) + 1 ELSE Accountable(kind)
    BY <1>1, <1>6, AccountableBill DEF PaidAnswers
  <2>3. used' = [used EXCEPT !["premium"] = @ - ReserveOf("premium") + (meter[c] + 1)]
    BY <1>1, <1>6 DEF PaidAnswers, SettleAt
  <2>4. CASE kind = "premium"
    <3>1. Accountable(kind)' = Accountable(kind) + (meter[c] + 1) - meter[c]
      BY <1>1, <1>2, <2>2, <2>4
    <3>2. used'[kind] = used[kind] - ReserveOf(kind) + (meter[c] + 1) /\ meter[c] + 1 \in Nat
      BY <1>1, <1>2, <2>3, <2>4
    <3>3. pc[c] \in Spots(kind) /\ kind # "free"
      BY <2>4 DEF Spots
    <3>4. meter[c] + 1 <= PaidModels
      BY <1>6, MeterBounds DEF PaidAnswers
    <3> QED
      BY <1>2, <1>3, <2>1, <3>1, <3>2, <3>3, <3>4, MovesLeaves
  <2>5. CASE kind = "free"
    BY <1>1, <2>1, <2>2, <2>3, <2>5, MovesStays DEF Spots, Kinds
  <2> QED
    BY <2>4, <2>5 DEF Kinds
<1>7. CASE LeavePaidPool(c)
  <2>1. PICK place \in {"strike", "idle"} : \E shown : Moves(c, place, shown)
    <3>1. CASE bad[c]
      <4>1. Moves(c, "strike", meter[c])
        BY <1>7, <3>1 DEF LeavePaidPool, Go, Moves, TypeOK
      <4> QED
        BY <4>1
    <3>2. CASE ~bad[c]
      <4>1. Moves(c, "idle", 0)
        BY <1>7, <3>2 DEF LeavePaidPool, End, Go, Moves
      <4> QED
        BY <4>1
    <3> QED
      BY <3>1, <3>2
  <2>2. /\ used' = [used EXCEPT !["premium"] = @ - ReserveOf("premium") + meter[c]]
        /\ Accountable(kind)' = Accountable(kind)
    BY <1>1, <1>7, AccountableStays DEF LeavePaidPool, SettleAt
  <2>3. place \notin Spots(kind)
    BY <1>3, <2>1
  <2>4. CASE kind = "premium"
    <3>1. Accountable(kind)' = Accountable(kind) + meter[c] - meter[c]
      BY <1>1, <1>2, <2>2, <2>4
    <3>2. used'[kind] = used[kind] - ReserveOf(kind) + meter[c]
      BY <1>1, <2>2, <2>4
    <3>3. pc[c] \in Spots(kind) /\ kind # "free"
      BY <2>4 DEF Spots
    <3>4. meter[c] <= PaidModels
      BY MeterBounds
    <3> QED
      BY <1>2, <2>1, <2>3, <3>1, <3>2, <3>3, <3>4, MovesLeaves
  <2>5. CASE kind = "free"
    <3>1. pc[c] \notin Spots(kind) /\ used'[kind] = used[kind]
      BY <1>1, <2>2, <2>5 DEF Spots
    <3> QED
      BY <2>1, <2>2, <2>3, <3>1, MovesStays
  <2> QED
    BY <2>4, <2>5 DEF Kinds
<1> QED
  BY <1>4, <1>5, <1>6, <1>7

\* At Sonnet, whose meter shows nothing before the guard is left.
LEMMA SonnetEffects ==
  ASSUME TypeOK, Metered, NEW c \in Callers, pc[c] = "sonnet", NEW kind \in Kinds,
         SonnetAnswers(c) \/ SonnetFails(c) \/ SonnetAnswersGarbage(c)
  PROVE  Effect(kind)
<1>1. used \in [Kinds -> Nat] /\ Accountable(kind) \in Int /\ KindAt(c) = "premium"
  BY Numbers DEF TypeOK, Kinds, KindAt
<1>2. meter[c] = 0 /\ meter[c] <= Pool /\ meter \in [Callers -> Nat]
  BY Constants, MeterBounds DEF TypeOK
<1>3. PICK place \in {"strike", "idle"}, shown \in Nat : Moves(c, place, shown)
  <2>1. CASE Go(c, "strike") /\ UNCHANGED meter
    <3>1. Moves(c, "strike", meter[c])
      BY <1>2, <2>1 DEF Go, Moves
    <3> QED
      BY <1>2, <3>1
  <2>2. CASE \E how : End(c, how)
    <3>1. Moves(c, "idle", 0)
      BY <2>2 DEF End, Go, Moves
    <3> QED
      BY <3>1
  <2> QED
    BY <2>1, <2>2 DEF SonnetAnswers, SonnetFails, SonnetAnswersGarbage
<1>4. place \notin Spots(kind)
  BY <1>3 DEF Spots
<1>0. used["premium"] - ReserveOf("premium") + 0 = used["premium"] - ReserveOf("premium")
  BY <1>1, Constants DEF Kinds
<1>5. PICK recorded \in {0, 1} :
        /\ used' = [used EXCEPT !["premium"] = @ - ReserveOf("premium") + recorded]
        /\ Accountable(kind)' = IF kind = "premium" THEN Accountable(kind) + recorded
                                                     ELSE Accountable(kind)
  <2>1. CASE SonnetAnswers(c)
    <3>1. used' = [used EXCEPT !["premium"] = @ - ReserveOf("premium") + 1]
      BY <1>1, <2>1 DEF SonnetAnswers, SettleAt
    <3>2. Accountable(kind)' = IF kind = "premium" THEN Accountable(kind) + 1
                                                   ELSE Accountable(kind)
      BY <1>1, <2>1, AccountableBill DEF SonnetAnswers
    <3> QED
      BY <3>1, <3>2
  <2>2. CASE SonnetFails(c)
    <3>1. used' = [used EXCEPT !["premium"] = @ - ReserveOf("premium") + 0]
      BY <1>1, <1>0, <2>2 DEF SonnetFails, RollBack
    <3>2. Accountable(kind)' = Accountable(kind)
      BY <2>2, AccountableStays DEF SonnetFails
    <3> QED
      BY <1>1, <3>1, <3>2
  <2>3. CASE SonnetAnswersGarbage(c)
    <3>1. used' = [used EXCEPT !["premium"] = @ - ReserveOf("premium") + 0]
      BY <1>1, <1>0, <2>3 DEF SonnetAnswersGarbage, RollBack
    <3>2. Accountable(kind)' = Accountable(kind)
      BY <2>3, AccountableWaste DEF SonnetAnswersGarbage
    <3> QED
      BY <1>1, <3>1, <3>2
  <2> QED
    BY <2>1, <2>2, <2>3
<1>6. CASE kind = "premium"
  <2>1. Accountable(kind)' = Accountable(kind) + recorded - meter[c]
    BY <1>1, <1>2, <1>5, <1>6
  <2>2. used'[kind] = used[kind] - ReserveOf(kind) + recorded /\ recorded \in Nat
    BY <1>1, <1>5, <1>6
  <2>3. pc[c] \in Spots(kind) /\ kind # "free" /\ recorded <= 1
    BY <1>6 DEF Spots
  <2> QED
    BY <1>2, <1>3, <1>4, <2>1, <2>2, <2>3, MovesLeaves
<1>7. CASE kind = "free"
  <2>1. /\ pc[c] \notin Spots(kind) /\ used'[kind] = used[kind]
        /\ Accountable(kind)' = Accountable(kind)
    BY <1>1, <1>5, <1>7 DEF Spots
  <2> QED
    BY <1>3, <1>4, <2>1, MovesStays
<1> QED
  BY <1>6, <1>7 DEF Kinds

LEMMA AbortEffect ==
  ASSUME TypeOK, Metered, NEW c \in Callers, Abort(c), NEW kind \in Kinds
  PROVE  Effect(kind)
<1>1. /\ c \in InGuard /\ used \in [Kinds -> Nat] /\ Accountable(kind) \in Int
      /\ meter[c] \in Nat
  BY Numbers DEF Abort, TypeOK, Kinds
<1>0. Accountable(kind)' = IF kind = KindAt(c) THEN Accountable(kind) - meter[c]
                                               ELSE Accountable(kind)
  BY <1>1, AccountableLose DEF Abort
<1>2. Moves(c, "idle", 0) /\ "idle" \notin Spots(kind)
  BY DEF Abort, End, Go, Moves, Spots
<1>3. used' = [used EXCEPT ![KindAt(c)] = @ - ReserveOf(KindAt(c))]
  BY DEF Abort, RollBack
<1>4. pc[c] \in Spots(kind) <=> KindAt(c) = kind
  BY <1>1 DEF InGuard, KindAt, Spots, Kinds
<1>5. CASE KindAt(c) = kind
  <2>1. used'[kind] = used[kind] - ReserveOf(kind) + 0
    BY <1>1, <1>3, <1>5, Constants
  <2>2. 0 \in Nat /\ (kind = "free" => 0 <= FreeModels) /\ 0 <= 1 /\ meter[c] <= Pool
    BY <1>1, Constants, MeterBounds
  <2>3. Accountable(kind)' = Accountable(kind) + 0 - meter[c]
    BY <1>0, <1>1, <1>5
  <2> QED
    BY <1>2, <1>4, <1>5, <2>1, <2>2, <2>3, MovesLeaves
<1>6. CASE KindAt(c) # kind
  <2>1. used'[kind] = used[kind]
    BY <1>1, <1>3, <1>6
  <2> QED
    BY <1>0, <1>2, <1>4, <1>6, <2>1, MovesStays
<1> QED
  BY <1>5, <1>6

\* Neither the next model nor a strike is in the books.
LEMMA QuietEffect ==
  ASSUME TypeOK, NEW c \in Callers, Rotate(c) \/ RecordStrike(c), NEW kind \in Kinds
  PROVE  Effect(kind)
<1>1. CASE Rotate(c)
  <2>1. Moves(c, pc[c], meter[c]) /\ used' = used /\ Accountable(kind)' = Accountable(kind)
    BY <1>1, AccountableStays DEF Rotate, Moves, TypeOK
  <2> QED
    BY <2>1, MovesStays
<1>2. CASE RecordStrike(c)
  <2>1. Moves(c, "idle", 0) /\ used' = used /\ Accountable(kind)' = Accountable(kind)
    BY <1>2, AccountableStays DEF RecordStrike, End, Go, Moves
  <2>2. pc[c] \notin Spots(kind) /\ "idle" \notin Spots(kind)
    BY <1>2 DEF RecordStrike, Spots
  <2> QED
    BY <2>1, <2>2, MovesStays
<1> QED
  BY <1>1, <1>2

LEMMA NextEffect ==
  ASSUME TypeOK, Metered, Next, NEW kind \in Kinds
  PROVE  Effect(kind)
<1>1. PICK c \in Callers : Complete(c) \/ Proceed(c)
  BY DEF Next
<1>2. FreeAnswersBadly(c) \/ FreeAnswers(c) \/ LeaveFreePool(c) => pc[c] = "free"
  BY DEF FreeAnswersBadly, FreeAnswers, LeaveFreePool
<1>3. PaidAnswersBadly(c) \/ PaidAnswersGarbage(c) \/ PaidAnswers(c) \/ LeavePaidPool(c)
        => pc[c] = "paid"
  BY DEF PaidAnswersBadly, PaidAnswersGarbage, PaidAnswers, LeavePaidPool
<1>4. SonnetAnswers(c) \/ SonnetFails(c) \/ SonnetAnswersGarbage(c) => pc[c] = "sonnet"
  BY DEF SonnetAnswers, SonnetFails, SonnetAnswersGarbage
<1> QED
  BY <1>1, <1>2, <1>3, <1>4, CompleteEffect, EscalateEffect, FreeEffects, PaidEffects,
     SonnetEffects, AbortEffect, QuietEffect DEF Proceed

-----------------------------------------------------------------------------

\* Everything but the two counters.
RestTyped ==
  /\ strikes \in Nat
  /\ task \in [Callers -> Tasks \cup {"plain"}]
  /\ pc \in [Callers -> Places]
  /\ next \in [Callers -> Nat] /\ meter \in [Callers -> Nat]
  /\ bad \in [Callers -> BOOLEAN]
  /\ verdict \in Verdicts
  /\ calls \in 0..MaxCalls
  /\ billed \in [Kinds -> Nat]
  /\ uncounted \in [Kinds -> Nat]

\* A counter is a counter, the meters are ahead of nothing.
Shape ==
  /\ RestTyped
  /\ \E f : used = [kind \in Kinds |-> f[kind]]
  /\ Metered

LEMMA SetUsed ==
  ASSUME used \in [Kinds -> Nat], NEW kind \in Kinds, NEW n, used' = [used EXCEPT ![kind] = n]
  PROVE  \E f : used' = [k \in Kinds |-> f[k]]
<1>1. used' = [k \in Kinds |-> used'[k]]
  OBVIOUS
<1> QED
  BY <1>1

LEMMA BillTyped ==
  ASSUME billed \in [Kinds -> Nat], NEW c, Bill(c)
  PROVE  billed' \in [Kinds -> Nat]
BY DEF Bill, KindAt, Kinds

LEMMA LoseTyped ==
  ASSUME uncounted \in [Kinds -> Nat], NEW c, NEW n \in Nat, Lose(c, n)
  PROVE  uncounted' \in [Kinds -> Nat]
BY DEF Lose, KindAt, Kinds

\* The end of a completion, and the way into a guard.
LEMMA EndShape ==
  ASSUME TypeOK, Metered, NEW c \in Callers, NEW how \in Verdicts, End(c, how)
  PROVE  /\ pc' \in [Callers -> Places] /\ next' \in [Callers -> Nat] /\ meter' \in [Callers -> Nat]
         /\ task' \in [Callers -> Tasks \cup {"plain"}] /\ bad' \in [Callers -> BOOLEAN]
         /\ verdict' \in Verdicts
         /\ Metered'
BY DEF TypeOK, Metered, End, Go, Places

LEMMA GuardShape ==
  ASSUME TypeOK, Metered, NEW c \in Callers, NEW job \in Tasks \cup {"plain"}, NEW kind \in Kinds,
         NEW place \in {"free", "paid", "sonnet"}, EnterGuard(c, job, kind, place)
  PROVE  /\ pc' \in [Callers -> Places] /\ next' \in [Callers -> Nat] /\ meter' \in [Callers -> Nat]
         /\ task' \in [Callers -> Tasks \cup {"plain"}] /\ bad' \in [Callers -> BOOLEAN]
         /\ verdict' \in Verdicts
         /\ Metered'
         /\ \E f : used' = [k \in Kinds |-> f[k]]
<1>1. used \in [Kinds -> Nat]
  BY DEF TypeOK, Kinds
<1>2. CASE used[kind] < CapOf(kind)
  <2>1. /\ pc' = [pc EXCEPT ![c] = place] /\ task' = [task EXCEPT ![c] = job]
        /\ next' = [next EXCEPT ![c] = 1] /\ meter' = [meter EXCEPT ![c] = 0]
        /\ verdict' = verdict /\ bad' = bad
        /\ used' = [used EXCEPT ![kind] = used[kind] + ReserveOf(kind)]
    BY <1>2 DEF EnterGuard, Go
  <2>2. \E f : used' = [k \in Kinds |-> f[k]]
    BY <1>1, <2>1, SetUsed
  <2>3. place \in Places
    BY DEF Places
  <2>4. Metered'
    BY <2>1, Constants DEF TypeOK, Metered
  <2> QED
    BY <2>1, <2>2, <2>3, <2>4 DEF TypeOK
<1>3. CASE ~(used[kind] < CapOf(kind))
  <2>1. End(c, "budget") /\ used' = used
    BY <1>3 DEF EnterGuard
  <2>2. used' = [k \in Kinds |-> used[k]]
    BY <1>1, <2>1
  <2> QED
    BY <2>1, <2>2, EndShape DEF Verdicts
<1> QED
  BY <1>2, <1>3

-----------------------------------------------------------------------------
\* One step per action: the meters stay behind the next model.
LEMMA ProceedShape ==
  ASSUME TypeOK, Metered, NEW c \in Callers, Proceed(c)
  PROVE  Shape'
<1> USE DEF Shape, RestTyped
<1>1. /\ used \in [Kinds -> Nat] /\ billed \in [Kinds -> Nat] /\ KindAt(c) \in Kinds
      /\ uncounted \in [Kinds -> Nat]
  BY DEF TypeOK, Kinds, KindAt
<1>2. used' = used => \E f : used' = [k \in Kinds |-> f[k]]
  <2>1. used = [k \in Kinds |-> used[k]]
    BY <1>1
  <2> QED
    BY <2>1
<1>3. ASSUME NEW n, SettleAt(c, n) PROVE \E f : used' = [k \in Kinds |-> f[k]]
  <2>1. used' = [used EXCEPT ![KindAt(c)] = used[KindAt(c)] - ReserveOf(KindAt(c)) + n]
    BY <1>3 DEF SettleAt
  <2> QED
    BY <1>1, <2>1, SetUsed
<1>4. RollBack(c) => \E f : used' = [k \in Kinds |-> f[k]]
  <2>1. SUFFICES ASSUME RollBack(c) PROVE \E f : used' = [k \in Kinds |-> f[k]]
    OBVIOUS
  <2>2. used' = [used EXCEPT ![KindAt(c)] = used[KindAt(c)] - ReserveOf(KindAt(c))]
    BY <2>1 DEF RollBack
  <2> QED
    BY <1>1, <2>2, SetUsed
<1>5. Bill(c) => billed' \in [Kinds -> Nat]
  BY <1>1, BillTyped
<1>6. Lose(c, 1) \/ Lose(c, meter[c]) => uncounted' \in [Kinds -> Nat]
  BY <1>1, LoseTyped DEF TypeOK
<1>7. {"ok", "allfailed", "raised", "credit", "skip", "quality"} \subseteq Verdicts
  BY DEF Verdicts
<1>8. CASE Rotate(c)
  <2>1. Metered'
    BY <1>8, Constants DEF Rotate, TypeOK, Metered
  <2> QED
    BY <1>1, <1>2, <1>8, <2>1 DEF Rotate, TypeOK
<1>9. CASE FreeAnswersBadly(c)
  <2>1. Metered'
    BY <1>9, Constants DEF FreeAnswersBadly, TypeOK, Metered
  <2> QED
    BY <1>1, <1>2, <1>5, <1>9, <2>1 DEF FreeAnswersBadly, TypeOK
<1>10. CASE FreeAnswers(c)
  BY <1>1, <1>3, <1>5, <1>7, <1>10, EndShape DEF FreeAnswers, TypeOK
<1>11. CASE LeaveFreePool(c)
  <2>1. Metered' /\ pc' \in [Callers -> Places]
    BY <1>11 DEF LeaveFreePool, Go, TypeOK, Metered, Places
  <2> QED
    BY <1>1, <1>3, <1>11, <2>1 DEF LeaveFreePool, TypeOK
<1>12. CASE Escalate(c)
  <2>1. CASE \E job \in Tasks \cup {"plain"}, place \in {"paid", "sonnet"} :
               EnterGuard(c, job, "premium", place)
    BY <1>1, <1>12, <2>1, GuardShape DEF Escalate, TypeOK, Kinds
  <2>2. CASE Go(c, "strike") /\ UNCHANGED <<used, task, next, meter, bad, verdict>>
    <3>1. Metered' /\ pc' \in [Callers -> Places]
      BY <2>2 DEF Go, TypeOK, Metered, Places
    <3> QED
      BY <1>1, <1>2, <1>12, <2>2, <3>1 DEF Escalate, TypeOK
  <2>3. CASE End(c, "allfailed") /\ UNCHANGED used
    BY <1>1, <1>2, <1>7, <1>12, <2>3, EndShape DEF Escalate, TypeOK
  <2> QED
    BY <1>12, <2>1, <2>2, <2>3 DEF Escalate, TypeOK
<1>13. CASE PaidAnswersBadly(c)
  <2>1. Metered'
    BY <1>13, Constants DEF PaidAnswersBadly, TypeOK, Metered
  <2> QED
    BY <1>1, <1>2, <1>5, <1>13, <2>1 DEF PaidAnswersBadly, TypeOK
<1>14. CASE PaidAnswersGarbage(c)
  <2>1. Metered'
    BY <1>14, Constants DEF PaidAnswersGarbage, TypeOK, Metered
  <2> QED
    BY <1>1, <1>2, <1>5, <1>6, <1>14, <2>1 DEF PaidAnswersGarbage, TypeOK
<1>15. CASE PaidAnswers(c)
  BY <1>1, <1>3, <1>5, <1>7, <1>15, EndShape DEF PaidAnswers, TypeOK
<1>16. CASE LeavePaidPool(c)
  <2>1. CASE bad[c]
    <3>1. Metered' /\ pc' \in [Callers -> Places]
      BY <1>16, <2>1 DEF LeavePaidPool, Go, TypeOK, Metered, Places
    <3> QED
      BY <1>1, <1>3, <1>16, <2>1, <3>1 DEF LeavePaidPool, TypeOK
  <2>2. CASE ~bad[c]
    BY <1>1, <1>3, <1>7, <1>16, <2>2, EndShape DEF LeavePaidPool, TypeOK
  <2> QED
    BY <2>1, <2>2
<1>17. CASE SonnetAnswers(c)
  <2>1. CASE End(c, "ok")
    BY <1>1, <1>3, <1>5, <1>7, <1>17, <2>1, EndShape DEF SonnetAnswers, TypeOK
  <2>2. CASE Go(c, "strike") /\ UNCHANGED <<task, next, meter, bad, verdict>>
    <3>1. Metered' /\ pc' \in [Callers -> Places]
      BY <2>2 DEF Go, TypeOK, Metered, Places
    <3> QED
      BY <1>1, <1>3, <1>5, <1>17, <2>2, <3>1 DEF SonnetAnswers, TypeOK
  <2> QED
    BY <1>17, <2>1, <2>2 DEF SonnetAnswers
<1>18. CASE SonnetFails(c)
  BY <1>1, <1>4, <1>7, <1>18, EndShape DEF SonnetFails, TypeOK
<1>19. CASE SonnetAnswersGarbage(c)
  BY <1>4, <1>5, <1>6, <1>7, <1>19, EndShape DEF SonnetAnswersGarbage, TypeOK
<1>20. CASE Abort(c)
  BY <1>1, <1>4, <1>6, <1>7, <1>20, EndShape DEF Abort, TypeOK
<1>21. CASE RecordStrike(c)
  BY <1>1, <1>2, <1>7, <1>21, EndShape DEF RecordStrike, TypeOK
<1> QED
  BY <1>8, <1>9, <1>10, <1>11, <1>12, <1>13, <1>14, <1>15, <1>16, <1>17, <1>18, <1>19,
     <1>20, <1>21 DEF Proceed

LEMMA CompleteShape ==
  ASSUME TypeOK, Metered, NEW c \in Callers, Complete(c)
  PROVE  Shape'
<1>1. PICK job \in Tasks : EnterGuard(c, job, "free", "free")
  BY DEF Complete
<1>2. calls' \in 0..MaxCalls
  BY Constants DEF Complete, TypeOK
<1>3. "free" \in Kinds /\ job \in Tasks \cup {"plain"}
  BY DEF Kinds
<1> QED
  BY <1>1, <1>2, <1>3, GuardShape DEF Complete, TypeOK, Shape, RestTyped, Kinds

LEMMA NextShape ==
  ASSUME TypeOK, Metered, Next
  PROVE  Shape'
BY ProceedShape, CompleteShape DEF Next

-----------------------------------------------------------------------------
LEMMA InitInv == Init => Inv
<1> SUFFICES ASSUME Init PROVE Inv
  OBVIOUS
<1>1. TypeOK /\ Metered
  BY Constants DEF Init, TypeOK, Metered, Places, Verdicts
<1>2. \A kind \in Kinds : At(kind) = {}
  BY DEF Init, At, Spots
<1>3. \A kind \in Kinds : Unsettled(kind) = {}
  BY <1>2 DEF Unsettled, Answers
<1>4. Cardinality({}) = 0
  BY FS_EmptySet
<1>5. \A kind \in Kinds : used[kind] = 0 /\ Accountable(kind) = 0
  BY DEF Init, Kinds, Accountable
<1>6. \A r \in Nat : r * 0 = 0
  OBVIOUS
<1>7. \A kind \in Kinds : Balance(kind) /\ Floor(kind)
  BY <1>2, <1>3, <1>4, <1>5, <1>6, Constants DEF Balance, Floor
<1>8. Room
  <2>1. FreeModels - 1 \in Nat /\ Cardinality(Callers) \in Nat /\ FreeCap \in Nat
    BY Constants, FS_CardinalityType
  <2>2. (FreeModels - 1) * Cardinality(Callers) \in Nat /\ (FreeModels - 1) * 0 = 0
    BY <2>1, Times, <1>6
  <2>3. Cardinality(At("free")) = 0 /\ used["free"] = 0
    BY <1>2, <1>4, <1>5 DEF Kinds
  <2> QED
    BY <2>1, <2>2, <2>3 DEF Room
<1> QED
  BY <1>1, <1>7, <1>8 DEF Inv

LEMMA NextInv == Inv /\ Next => Inv'
<1> SUFFICES ASSUME Inv, Next PROVE Inv'
  OBVIOUS
<1>1. TypeOK /\ Metered /\ Room /\ \A kind \in Kinds : Book(kind)
  BY DEF Inv, Book
<1>2. \A kind \in Kinds : Effect(kind)
  BY <1>1, NextEffect
<1>3. Shape'
  BY <1>1, NextShape
<1>4. \A kind \in Kinds : Book(kind)' /\ used'[kind] \in Nat
  BY <1>1, <1>2, <1>3, EffectBook
<1>5. Room'
  BY <1>1, <1>2, EffectRoom DEF Kinds
<1>6. used' \in [Kinds -> Nat]
  BY <1>3, <1>4 DEF Shape
<1>7. TypeOK' /\ Metered'
  BY <1>3, <1>6 DEF Shape, RestTyped, TypeOK, Kinds
<1> QED
  BY <1>4, <1>5, <1>7 DEF Inv, Book

LEMMA StutterInv == Inv /\ UNCHANGED vars => Inv'
BY DEF vars, Inv, TypeOK, Metered, Room, Balance, Floor, Unsettled, Answers, At, Accountable

LEMMA Invariance == Spec => []Inv
BY InitInv, NextInv, StutterInv, PTL DEF Spec

-----------------------------------------------------------------------------

\* The shared counters stay natural numbers: a roll-back or a settlement by
\* any caller gives back only what it had set aside (budget_guard's exits).
THEOREM GatewayTyped == Spec => []TypeOK
<1>1. Inv => TypeOK
  BY DEF Inv
<1> QED
  BY <1>1, Invariance, PTL

\* With no guard open, the counters are what the provider served but for the
\* replies that gateway.py itself drops, non-JSON ones of the paid models and
\* those of a guard left by an exception: rotation, spillover, paid fallback and
\* escalation count every other once, whatever the callers' interleaving.
THEOREM AnswersCounted == Spec => []EveryAnswerCounted
<1>1. Inv => EveryAnswerCounted
  <2> SUFFICES ASSUME Inv, InGuard = {}
               PROVE  \A kind \in Kinds : used[kind] = Accountable(kind)
    BY DEF EveryAnswerCounted, Kinds
  <2>1. \A kind \in Kinds : At(kind) = {}
    BY DEF At, Spots, InGuard, Kinds
  <2>2. \A kind \in Kinds : Unsettled(kind) = {}
    BY <2>1 DEF Unsettled, Answers
  <2>3. Cardinality({}) = 0 /\ \A r \in Nat : r * 0 = 0
    BY FS_EmptySet
  <2>4. \A kind \in Kinds : used[kind] \in Nat /\ Accountable(kind) \in Int
    BY Numbers DEF Inv
  <2>5. \A kind \in Kinds : Accountable(kind) + ReserveOf(kind) * 0 = used[kind] + 0
    BY <2>1, <2>2, <2>3 DEF Inv, Balance
  <2> QED
    BY <2>3, <2>4, <2>5, Constants
<1> QED
  BY <1>1, Invariance, PTL

\* Guards with at most so many answers on their meters each have so many times their number.
LEMMA AtMostAPool ==
  ASSUME TypeOK, NEW kind \in Kinds, NEW most \in Nat, \A c \in At(kind) : meter[c] <= most
  PROVE  Cardinality(Unsettled(kind)) <= most * Cardinality(At(kind))
<1> DEFINE Most == At(kind) \X (1..most)
<1>1. IsFiniteSet(At(kind))
  BY AtFinite
<1>2. IsFiniteSet(1..most) /\ Cardinality(1..most) = most
  BY FS_Interval
<1>3. IsFiniteSet(Most) /\ Cardinality(Most) = Cardinality(At(kind)) * most
  BY <1>1, <1>2, FS_Product
<1>4. Unsettled(kind) \subseteq Most
  <2>1. SUFFICES ASSUME NEW p \in Unsettled(kind) PROVE p \in Most
    OBVIOUS
  <2>2. p \in At(kind) \X (1..Pool) /\ p[2] <= meter[p[1]]
    BY DEF Unsettled, Answers
  <2>3. p[1] \in At(kind) /\ p[2] \in 1..Pool /\ p = <<p[1], p[2]>>
    BY <2>2
  <2>4. meter[p[1]] \in Nat /\ meter[p[1]] <= most
    BY <2>3 DEF TypeOK, At
  <2>5. p[2] \in 1..most
    BY <2>2, <2>3, <2>4, Constants
  <2> QED
    BY <2>3, <2>5
<1>5. Cardinality(Unsettled(kind)) <= Cardinality(Most)
  BY <1>3, <1>4, FS_Subset
<1>6. Cardinality(At(kind)) \in Nat
  BY <1>1, FS_CardinalityType
<1>7. Cardinality(At(kind)) * most = most * Cardinality(At(kind))
  BY <1>6
<1> QED
  BY <1>3, <1>5, <1>7

\* The free cap is soft by the rest of one pool per caller and no more,
\* however many callers are admitted just below it.
THEOREM OvershootBounded == Spec => []FreeOvershootBounded
<1>1. Inv => FreeOvershootBounded
  <2> SUFFICES ASSUME Inv
               PROVE  Accountable("free") <= FreeCap + (FreeModels - 1) * Cardinality(Callers)
    BY DEF FreeOvershootBounded
  <2> DEFINE b == Accountable("free")
             u == used["free"]
             n == Cardinality(At("free"))
             m == Cardinality(Unsettled("free"))
             most == FreeCap + (FreeModels - 1) * Cardinality(Callers)
  <2>1. ReserveOf("free") = 1 /\ 1 * n = n
    BY AtFinite DEF ReserveOf, Kinds
  <2>2. b + n = u + m
    BY <2>1 DEF Inv, Balance, Kinds
  <2>3. m <= FreeModels * n
    <3>1. \A c \in At("free") : meter[c] <= FreeModels
      BY Constants DEF Inv, At, Spots, Metered, TypeOK
    <3> QED
      BY <3>1, AtMostAPool, Constants DEF Inv, Kinds
  <2>4. u + (FreeModels - 1) * n <= most
    BY DEF Inv, Room
  <2>5. b \in Int /\ u \in Nat /\ n \in Nat /\ m \in Nat
    BY Numbers DEF Inv, Kinds
  <2>6. FreeModels - 1 \in Nat /\ Cardinality(Callers) \in Nat /\ FreeCap \in Nat
    BY Constants, FS_CardinalityType
  <2>7. (FreeModels - 1) * n = FreeModels * n - n /\ FreeModels * n \in Nat
    <3>1. \A k, j \in Nat : (k - 1) * j = k * j - j /\ k * j \in Nat
      OBVIOUS
    <3> QED
      BY <3>1, <2>5, Constants
  <2>8. most \in Nat
    BY <2>6, Times
  <2> DEFINE all == FreeModels * n
  <2>9. b + n = u + m /\ m <= all /\ u + (all - n) <= most
    BY <2>2, <2>3, <2>4, <2>7
  <2>10. all \in Nat
    BY <2>7
  <2> HIDE DEF b, u, n, m, most, all
  <2>11. b <= most
    BY <2>5, <2>8, <2>9, <2>10
  <2> QED
    BY <2>11 DEF b, most
<1> QED
  BY <1>1, Invariance, PTL

\* With a pool whose answers cost no more than a reservation, the gateway uses the premium
\* budget as the daily allowance has it: any interleaving of rotations, escalations, cancellations
\* and answers is admissions below the cap and ends of admitted calls.
THEOREM GatewayImplementsAllowance ==
  ASSUME PaidModels <= PremiumReserve
  PROVE  Spec => ImplementsAllowance
<1> DEFINE n == Cardinality(At("premium"))
           u == used["premium"]
<1>0. PremiumGuards = At("premium") /\ PremiumGuards' = At("premium")'
  BY DEF PremiumGuards, At, Spots
<1>1. Init => Premium!Init
  <2> SUFFICES ASSUME Init PROVE Premium!Init
    OBVIOUS
  <2>1. PremiumGuards = {} /\ u = 0
    BY DEF Init, PremiumGuards
  <2>2. Cardinality(PremiumGuards) = 0 /\ PremiumReserve * 0 = 0
    BY <2>1, FS_EmptySet, GatewayAssumption DEF GatewayAssumption
  <2> QED
    BY <2>1, <2>2 DEF Premium!Init
<1>2. Inv /\ [Next]_vars => [Premium!Next]_(Premium!vars)
  <2> SUFFICES ASSUME Inv, [Next]_vars
               PROVE  Premium!Next \/ UNCHANGED Premium!vars
    OBVIOUS
  <2> DEFINE held == PremiumReserve * n
  <2>1. u \in Nat /\ n \in Nat /\ held \in Nat /\ held <= u
    BY Numbers DEF Inv, Floor, Kinds, ReserveOf
  <2>2. PremiumReserve \in Nat \ {0} /\ PremiumCap \in Nat
    BY GatewayAssumption DEF GatewayAssumption
  <2>3. IsFiniteSet(At("premium"))
    BY AtFinite DEF Kinds
  <2>4. CASE UNCHANGED vars
    BY <2>4 DEF vars, Premium!vars, PremiumGuards
  <2>5. ASSUME Next PROVE Premium!Next \/ UNCHANGED Premium!vars
    <3>1. Effect("premium")
      BY <2>5, NextEffect DEF Inv, Kinds
    <3>2. CASE Stays("premium") \/ \E c \in Callers : Meters("premium", c)
      BY <1>0, <3>2 DEF Stays, Meters, Premium!vars
    <3>3. ASSUME NEW c \in Callers, Enters("premium", c) PROVE Premium!Next
      <4>1. Cardinality(At("premium"))' = n + 1
        BY <2>3, <3>3, FS_AddElement DEF Enters
      <4>2. u < PremiumCap /\ used'["premium"] = u + PremiumReserve
        BY <3>3 DEF Enters, ReserveOf, CapOf
      <4>3. PremiumReserve * (n + 1) = held + PremiumReserve
        BY <2>1, <2>2, Times
      <4> HIDE DEF n, u, held
      <4>4. /\ (u - held) + held < PremiumCap
            /\ used'["premium"] - (held + PremiumReserve) = u - held
        BY <2>1, <2>2, <4>2
      <4>5. Premium!Admit
        BY <1>0, <4>1, <4>3, <4>4 DEF n, u, held, Premium!Admit
      <4> QED
        BY <4>5 DEF Premium!Next
    <3>4. ASSUME NEW c \in Callers, NEW recorded \in Nat, Leaves("premium", c, recorded)
          PROVE  Premium!Next
      <4>0. c \in At("premium") /\ At("premium")' = At("premium") \ {c}
        BY <3>4 DEF Leaves
      <4>1. Cardinality(At("premium"))' = n - 1 /\ n - 1 \in Nat
        <5>1. IsFiniteSet(At("premium") \ {c}) /\ Cardinality(At("premium") \ {c}) = n - 1
          BY <2>3, <4>0, FS_RemoveElement
        <5> QED
          BY <4>0, <5>1, FS_CardinalityType
      <4>2. used'["premium"] = u - PremiumReserve + recorded /\ recorded \in 0..PremiumReserve
        BY <2>2, <3>4, Constants DEF Leaves, ReserveOf
      <4>3. PremiumReserve * (n - 1) = held - PremiumReserve /\ PremiumReserve * (n - 1) \in Nat
        BY <2>1, <2>2, <4>1, Times
      <4> HIDE DEF n, u, held
      <4>4. /\ held >= PremiumReserve
            /\ used'["premium"] - (held - PremiumReserve) = (u - held) + recorded
        BY <2>1, <2>2, <4>2, <4>3
      <4>5. Premium!Finish
        BY <1>0, <4>1, <4>2, <4>3, <4>4 DEF n, u, held, Premium!Finish
      <4> QED
        BY <4>5 DEF Premium!Next
    <3> QED
      BY <3>1, <3>2, <3>3, <3>4 DEF Effect
  <2> QED
    BY <2>4, <2>5
<1> QED
  BY <1>1, <1>2, Invariance, PTL DEF Spec, ImplementsAllowance, Premium!Spec

\* A premium guard is left with no more than it set aside, and so the counter is above the
\* cap by less than the last reservation that was let in.
Capped == used["premium"] < PremiumCap + PremiumReserve

LEMMA CappedStep ==
  ASSUME PaidModels <= PremiumReserve, Inv, Capped, Next
  PROVE  Capped'
<1>1. used["premium"] \in Nat /\ PremiumReserve \in Nat \ {0} /\ PremiumCap \in Nat
  BY Numbers, GatewayAssumption DEF GatewayAssumption, Inv, Kinds
<1>2. Effect("premium")
  BY NextEffect DEF Inv, Kinds
<1>3. CASE Stays("premium") \/ \E c \in Callers : Meters("premium", c)
  BY <1>3 DEF Stays, Meters, Capped
<1>4. ASSUME NEW c \in Callers, Enters("premium", c) PROVE Capped'
  BY <1>1, <1>4 DEF Enters, Capped, ReserveOf, CapOf
<1>5. ASSUME NEW c \in Callers, NEW recorded \in Nat, Leaves("premium", c, recorded)
      PROVE  Capped'
  <2>1. used'["premium"] = used["premium"] - PremiumReserve + recorded
    BY <1>5 DEF Leaves, ReserveOf
  <2>2. recorded <= PremiumReserve
    BY <1>1, <1>5, Constants DEF Leaves
  <2> QED
    BY <1>1, <2>1, <2>2 DEF Capped
<1> QED
  BY <1>2, <1>3, <1>4, <1>5 DEF Effect

\* budget.py's reserve makes the premium cap hold under concurrency for what gateway.py
\* charges, as long as what one guard can cost, the whole paid pool, fits into it.
THEOREM PremiumBounded ==
  ASSUME PaidModels <= PremiumReserve
  PROVE  Spec => []PremiumSpendBounded
<1>1. Init => Capped
  BY GatewayAssumption DEF GatewayAssumption, Init, Capped
<1>2. Inv /\ Capped /\ [Next]_vars => Capped'
  BY CappedStep DEF vars, Capped
<1>3. Inv /\ Capped => PremiumSpendBounded
  <2> SUFFICES ASSUME Inv, Capped
               PROVE  Accountable("premium") < PremiumCap + PremiumReserve
    BY DEF PremiumSpendBounded
  <2> DEFINE b == Accountable("premium")
             u == used["premium"]
             m == Cardinality(Unsettled("premium"))
             held == PremiumReserve * Cardinality(At("premium"))
             limit == PremiumCap + PremiumReserve
  <2>1. b \in Int /\ u \in Nat /\ m \in Nat /\ held \in Nat /\ limit \in Nat
    BY Numbers, Constants, GatewayAssumption DEF GatewayAssumption, Inv, Kinds, ReserveOf
  <2>2. b + held = u + m
    BY DEF Inv, Balance, Kinds, ReserveOf
  <2>3. \A c \in At("premium") : meter[c] <= PremiumReserve
    BY Constants, GatewayAssumption DEF GatewayAssumption, Inv, At, Spots, Metered, TypeOK
  <2>4. m <= held
    BY <2>3, AtMostAPool, GatewayAssumption DEF GatewayAssumption, Inv, Kinds
  <2>5. u < limit
    BY DEF Capped
  <2> HIDE DEF b, u, m, held, limit
  <2>6. b < limit
    BY <2>1, <2>2, <2>4, <2>5
  <2> QED
    BY <2>6 DEF b, limit
<1> QED
  BY <1>1, <1>2, <1>3, Invariance, PTL DEF Spec

-----------------------------------------------------------------------------

\* The places, in steps.
LEMMA StepsTable ==
  \A n \in Nat :
    /\ StepsFrom("idle", n) = 0 /\ StepsFrom("strike", n) = 1 /\ StepsFrom("sonnet", n) = 2
    /\ StepsFrom("paid", n) = PaidModels + 3 - n
    /\ StepsFrom("escalate", n) = PaidModels + 3
    /\ StepsFrom("free", n) = FreeModels + PaidModels + 5 - n
BY DEF StepsFrom

\* Where a caller's loop over a pool stands.
LEMMA Position ==
  ASSUME Inv, NEW c \in Callers
  PROVE  /\ pc[c] \in Places /\ next[c] \in Nat
         /\ pc[c] = "free" => next[c] \in 1..(FreeModels + 1)
         /\ pc[c] = "paid" => next[c] \in 1..(PaidModels + 1)
<1>1. /\ pc[c] \in Places /\ next[c] \in Nat /\ meter[c] \in Nat
      /\ FreeModels \in Nat /\ PaidModels \in Nat
  BY Constants DEF Inv, TypeOK
<1> QED
  BY <1>1 DEF Inv, Metered

LEMMA InvShort == Inv => ShortCompletions
<1> SUFFICES ASSUME Inv, NEW c \in Callers
             PROVE  StepsFrom(pc[c], next[c]) \in 0..(FreeModels + PaidModels + 4)
  BY DEF ShortCompletions, StepsLeft
<1>1. FreeModels \in Nat /\ PaidModels \in Nat
  BY Constants
<1>2. CASE pc[c] = "free"
  BY <1>1, <1>2, Position, StepsTable
<1>3. CASE pc[c] = "paid"
  BY <1>1, <1>3, Position, StepsTable
<1>4. CASE pc[c] \in Places \ {"free", "paid"}
  BY <1>1, <1>4, Position, StepsTable DEF Places
<1> QED
  BY <1>2, <1>3, <1>4, Position

\* A step of one completion leaves the others where they are.
LEMMA OthersRest ==
  ASSUME TypeOK, NEW c \in Callers, Complete(c) \/ Proceed(c), NEW x \in Callers \ {c}
  PROVE  pc'[x] = pc[x] /\ next'[x] = next[x]
<1>1. pc \in [Callers -> Places] /\ next \in [Callers -> Nat]
  BY DEF TypeOK
<1>2. /\ pc' = pc \/ \E p \in Places : pc' = [pc EXCEPT ![c] = p]
      /\ next' = next \/ \E n \in Nat : next' = [next EXCEPT ![c] = n]
  <2>1. \A p \in Places : Go(c, p) => \E q \in Places : pc' = [pc EXCEPT ![c] = q]
    BY DEF Go
  <2>2. next[c] + 1 \in Nat
    BY <1>1
  <2>3. \A how : End(c, how) => /\ \E p \in Places : pc' = [pc EXCEPT ![c] = p]
                                /\ \E n \in Nat : next' = [next EXCEPT ![c] = n]
    BY DEF End, Go, Places
  <2>4. \A job, kind : \A p \in Places : EnterGuard(c, job, kind, p) =>
           /\ \E q \in Places : pc' = [pc EXCEPT ![c] = q]
           /\ \E n \in Nat : next' = [next EXCEPT ![c] = n]
    BY <2>1, <2>3 DEF EnterGuard
  <2>5. CASE Complete(c)
    BY <2>4, <2>5 DEF Complete, Places
  <2>6. CASE Rotate(c) \/ FreeAnswersBadly(c) \/ PaidAnswersBadly(c) \/ PaidAnswersGarbage(c)
    BY <2>2, <2>6 DEF Rotate, FreeAnswersBadly, PaidAnswersBadly, PaidAnswersGarbage
  <2>7. CASE LeaveFreePool(c) \/ LeavePaidPool(c)
    BY <2>1, <2>3, <2>7 DEF LeaveFreePool, LeavePaidPool, Places
  <2>8. CASE Escalate(c)
    BY <2>1, <2>3, <2>4, <2>8 DEF Escalate, Places
  <2>9. CASE SonnetAnswers(c) \/ SonnetFails(c) \/ SonnetAnswersGarbage(c)
    BY <2>1, <2>3, <2>9 DEF SonnetAnswers, SonnetFails, SonnetAnswersGarbage, Places
  <2>10. CASE FreeAnswers(c) \/ PaidAnswers(c) \/ Abort(c) \/ RecordStrike(c)
    BY <2>3, <2>10 DEF FreeAnswers, PaidAnswers, Abort, RecordStrike
  <2> QED
    BY <2>5, <2>6, <2>7, <2>8, <2>9, <2>10 DEF Proceed
<1> QED
  BY <1>1, <1>2

\* What a completion does next, it has not done before.
LEMMA Onward ==
  ASSUME Inv, NEW c \in Callers, Proceed(c)
  PROVE  StepsLeft(c)' < StepsLeft(c)
<1> SUFFICES StepsFrom(pc'[c], next'[c]) < StepsFrom(pc[c], next[c])
  BY DEF StepsLeft
<1>a. /\ pc \in [Callers -> Places] /\ next \in [Callers -> Nat]
      /\ FreeModels \in Nat /\ PaidModels \in Nat
  BY Constants DEF Inv, TypeOK
<1>b. /\ pc[c] = "free" => next[c] \in 1..(FreeModels + 1)
      /\ pc[c] = "paid" => next[c] \in 1..(PaidModels + 1)
  BY Position
<1>c. \A p \in Places : Go(c, p) => pc'[c] = p
  BY <1>a DEF Go
<1>d. \A how : End(c, how) => pc'[c] = "idle" /\ next'[c] = 1
  BY <1>a, <1>c DEF End, Places
<1>e. \A job, kind : \A p \in Places : EnterGuard(c, job, kind, p) =>
        \/ pc'[c] = "idle" /\ next'[c] = 1
        \/ pc'[c] = p /\ next'[c] = 1
  BY <1>a, <1>c, <1>d DEF EnterGuard
\* It returns,
<1>1. ASSUME pc[c] # "idle", pc'[c] = "idle", next'[c] = 1
      PROVE  StepsFrom(pc'[c], next'[c]) < StepsFrom(pc[c], next[c])
  BY <1>1, <1>a, <1>b, StepsTable DEF Places
\* goes on to another place,
<1>2. ASSUME next'[c] \in Nat,
             \/ pc[c] = "free" /\ pc'[c] = "escalate"
             \/ pc[c] = "escalate" /\ pc'[c] \in {"sonnet", "strike"}
             \/ pc[c] = "escalate" /\ pc'[c] = "paid" /\ next'[c] = 1
             \/ pc[c] \in {"paid", "sonnet"} /\ pc'[c] = "strike"
      PROVE  StepsFrom(pc'[c], next'[c]) < StepsFrom(pc[c], next[c])
  BY <1>2, <1>a, <1>b, StepsTable
\* or to the next model.
<1>3. ASSUME pc[c] \in {"free", "paid"}, pc'[c] = pc[c], next'[c] = next[c] + 1
      PROVE  StepsFrom(pc'[c], next'[c]) < StepsFrom(pc[c], next[c])
  BY <1>3, <1>a, <1>b, StepsTable
<1>4. CASE Rotate(c) \/ FreeAnswersBadly(c) \/ PaidAnswersBadly(c) \/ PaidAnswersGarbage(c)
  BY <1>3, <1>4, <1>a DEF Rotate, FreeAnswersBadly, PaidAnswersBadly, PaidAnswersGarbage
<1>5. CASE LeaveFreePool(c)
  BY <1>2, <1>5, <1>a, <1>c DEF LeaveFreePool, Places
<1>6. CASE LeavePaidPool(c)
  BY <1>1, <1>2, <1>6, <1>a, <1>c, <1>d DEF LeavePaidPool, Places
<1>7. CASE Escalate(c)
  <2>1. CASE EnterGuard(c, task[c], "premium", "paid") \/ EnterGuard(c, task[c], "premium", "sonnet")
    BY <1>1, <1>2, <1>7, <2>1, <1>e DEF Escalate, Places
  <2>2. CASE Go(c, "strike") /\ UNCHANGED next
    BY <1>2, <1>7, <2>2, <1>a, <1>c DEF Escalate, Places
  <2>3. CASE End(c, "allfailed")
    BY <1>1, <1>7, <2>3, <1>d DEF Escalate
  <2> QED
    BY <1>7, <2>1, <2>2, <2>3 DEF Escalate
<1>8. CASE SonnetAnswers(c)
  BY <1>1, <1>2, <1>8, <1>a, <1>c, <1>d DEF SonnetAnswers, Places
<1>9. CASE FreeAnswers(c) \/ PaidAnswers(c) \/ SonnetFails(c) \/ SonnetAnswersGarbage(c)
           \/ Abort(c) \/ RecordStrike(c)
  BY <1>1, <1>9, <1>d
     DEF FreeAnswers, PaidAnswers, SonnetFails, SonnetAnswersGarbage, Abort, RecordStrike, InGuard
<1> QED
  BY <1>4, <1>5, <1>6, <1>7, <1>8, <1>9 DEF Proceed

\* complete() goes from the free pool over the escalation to its end, and never back: for any
\* callers, pools, caps and answers there is a bound on its steps, and each step uses one up.
THEOREM CompletionsAreShort == Spec => []ShortCompletions /\ OnwardOnly
<1>1. Inv /\ [Next]_vars =>
        [\A c \in Callers : /\ Proceed(c) => StepsLeft(c)' < StepsLeft(c)
                            /\ pc[c] # "idle" => StepsLeft(c)' <= StepsLeft(c)]_vars
  <2> SUFFICES ASSUME Inv, Next, NEW x \in Callers
               PROVE  /\ Proceed(x) => StepsLeft(x)' < StepsLeft(x)
                      /\ pc[x] # "idle" => StepsLeft(x)' <= StepsLeft(x)
    OBVIOUS
  <2>1. PICK c \in Callers : Complete(c) \/ Proceed(c)
    BY DEF Next
  <2>2. StepsLeft(x) \in Nat
    BY InvShort DEF ShortCompletions
  <2>3. Proceed(x) => StepsLeft(x)' < StepsLeft(x)
    BY Onward
  <2>4. CASE x = c
    <3>1. Complete(c) => pc[c] = "idle"
      BY DEF Complete
    <3>2. CASE Proceed(x)
      <4>1. StepsLeft(x)' \in Nat
        <5>1. Inv'
          BY NextInv
        <5>2. ShortCompletions'
          BY <5>1, InvShort, PTL
        <5> QED
          BY <5>2 DEF ShortCompletions
      <4> QED
        BY <2>2, <2>3, <3>2, <4>1
    <3> QED
      BY <2>1, <2>3, <2>4, <3>1, <3>2
  <2>5. CASE x # c
    <3>1. pc'[x] = pc[x] /\ next'[x] = next[x]
      BY <2>1, <2>5, OthersRest DEF Inv
    <3>2. StepsLeft(x)' = StepsLeft(x)
      BY <3>1 DEF StepsLeft
    <3> QED
      BY <2>2, <2>3, <3>2
  <2> QED
    BY <2>3, <2>4, <2>5
<1> QED
  BY <1>1, InvShort, Invariance, PTL DEF Spec, OnwardOnly
=============================================================================
