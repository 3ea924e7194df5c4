--------------------------- MODULE EmailOtpProofs ---------------------------
(***************************************************************************)
(* EmailOtp for any finite set of logins and any times with                *)
(* 2 * LoginTime < CodeTTL: a code opens one session, and the lock lets no *)
(* more failures through than the limit and the logins under way.          *)
(*                                                                         *)
(* SpentOnce is not inductive.  Winners says that the marker of a code     *)
(* lives longer than its winner and any login that can have read the code  *)
(* before the winner deletes it; Spent, that once the code is spent it is  *)
(* stored no more, and that a login that still holds it finds the marker.  *)
(* FailuresBounded follows from two counts of the logins under way.        *)
(***************************************************************************)
EXTENDS EmailOtp, FiniteSetTheorems, TLAPS

Step(c) == [at : Places, code : 0..c, left : 0..LoginTime]

Holders == \A r \in Logins : login[r].at \in {"matched", "won"} => login[r].code \in 1..codes

Winners ==
  /\ \A r \in Logins : login[r].at = "won" =>
       /\ spent[login[r].code] = 0
       /\ used[login[r].code] > LoginTime + login[r].left
  /\ \A r, x \in Logins :
       login[r].at = "won" /\ login[x].at = "won" /\ login[r].code = login[x].code => r = x

Spent ==
  \A c \in Codes : spent[c] # 0 =>
    /\ spent[c] = 1 /\ c <= codes /\ code # c
    /\ \A r \in Logins : login[r].at = "matched" /\ login[r].code = c => used[c] > login[r].left

Busy == {r \in Logins : login[r].at # "idle"}
Failing == {r \in Logins : login[r].at \in {"failing", "counting"}}

Counted ==
  /\ attempts.count + Cardinality(Busy) <= LockLimit - 1 + Cardinality(Logins)
  /\ failed <= attempts.count + Cardinality(Failing) + lost

Inv == TypeOK /\ Holders /\ Winners /\ Spent /\ Counted

-----------------------------------------------------------------------------

LEMMA InitInv == Init => Inv
<1> SUFFICES ASSUME Init PROVE Inv
  OBVIOUS
<1> USE EmailOtpAssumption DEF EmailOtpAssumption
<1>1. TypeOK
  <2>1. NoKey \in Keys
    BY DEF NoKey, Keys
  <2>2. NoLogin \in [at : Places, code : 0..codes, left : 0..LoginTime]
    BY DEF Init, NoLogin, Places
  <2>3. login \in [Logins -> [at : Places, code : 0..codes, left : 0..LoginTime]]
    BY <2>2 DEF Init
  <2>4. used \in [Codes -> 0..CodeTTL] /\ spent \in [Codes -> Nat]
    BY DEF Init
  <2>5. sender \in [Senders -> {"idle", "cooled", "counting", "capped"}]
    BY DEF Init
  <2>6. attempts \in Keys /\ sends \in Keys
    BY <2>1 DEF Init
  <2>7. cooling \in BOOLEAN
    BY DEF Init
  <2>8. codes \in 0..MaxCodes /\ code \in 0..codes /\ failed \in Nat /\ lost \in 0..MaxFaults
    BY DEF Init
  <2> QED
    BY <2>3, <2>4, <2>5, <2>6, <2>7, <2>8 DEF TypeOK
<1>2. Holders /\ Winners /\ Spent
  BY DEF Init, Holders, Winners, Spent, NoLogin
<1>3. Counted
  <2>1. Busy = {} /\ Failing = {}
    BY DEF Init, Busy, Failing, NoLogin
  <2>2. Cardinality(Busy) = 0 /\ Cardinality(Failing) = 0 /\ Cardinality(Logins) \in Nat
    BY <2>1, FS_EmptySet, FS_CardinalityType
  <2> QED
    BY <2>2 DEF Init, Counted, NoKey
<1> QED
  BY <1>1, <1>2, <1>3 DEF Inv

\* What TypeOK says, with the constants' types.
LEMMA Types ==
  ASSUME TypeOK
  PROVE  /\ codes \in Nat /\ codes <= MaxCodes /\ code \in 0..codes
         /\ used \in [Codes -> Nat] /\ spent \in [Codes -> Nat]
         /\ attempts.count \in Nat /\ attempts.expires \in BOOLEAN /\ attempts \in Keys
         /\ failed \in Nat /\ lost \in Nat
         /\ login \in [Logins -> Step(codes)]
         /\ \A r \in Logins : login[r].left \in 0..LoginTime /\ login[r].left \in Nat
BY EmailOtpAssumption DEF EmailOtpAssumption, TypeOK, Step, Keys, Codes

\* What Goto and End do to the logins.
LEMMA Moves ==
  ASSUME TypeOK, NEW r \in Logins
  PROVE  /\ \A p \in Places : Goto(r, p) =>
              /\ login' \in [Logins -> Step(codes)]
              /\ login'[r].at = p /\ login'[r].code = login[r].code /\ login'[r].left = login[r].left
              /\ \A x \in Logins \ {r} : login'[x] = login[x]
         /\ End(r) =>
              /\ login' \in [Logins -> Step(codes)]
              /\ login'[r].at = "idle"
              /\ \A x \in Logins \ {r} : login'[x] = login[x]
<1>a. login \in [Logins -> Step(codes)] /\ codes \in Nat /\ LoginTime \in Nat
  BY Types, EmailOtpAssumption DEF EmailOtpAssumption
<1>1. ASSUME NEW p \in Places, Goto(r, p)
      PROVE  /\ login' \in [Logins -> Step(codes)]
             /\ login'[r].at = p /\ login'[r].code = login[r].code /\ login'[r].left = login[r].left
             /\ \A x \in Logins \ {r} : login'[x] = login[x]
  <2>1. /\ [login[r] EXCEPT !.at = p] \in Step(codes)
        /\ [login[r] EXCEPT !.at = p].at = p
        /\ [login[r] EXCEPT !.at = p].code = login[r].code
        /\ [login[r] EXCEPT !.at = p].left = login[r].left
    BY <1>a DEF Step
  <2>2. login' = [login EXCEPT ![r] = [login[r] EXCEPT !.at = p]]
    BY <1>a, <1>1 DEF Goto
  <2> QED
    BY <1>a, <2>1, <2>2
<1>2. ASSUME End(r)
      PROVE  /\ login' \in [Logins -> Step(codes)]
             /\ login'[r].at = "idle"
             /\ \A x \in Logins \ {r} : login'[x] = login[x]
  <2>1. NoLogin \in Step(codes) /\ NoLogin.at = "idle"
    BY <1>a DEF Step, NoLogin, Places
  <2> QED
    BY <1>a, <1>2, <2>1 DEF End
<1> QED
  BY <1>1, <1>2

\* The counts when one login moves and the others stay.
LEMMA Counts ==
  ASSUME NEW r \in Logins, \A x \in Logins \ {r} : login'[x] = login[x]
  PROVE  /\ Cardinality(Busy) \in Nat /\ Cardinality(Busy') \in Nat
         /\ Cardinality(Failing) \in Nat /\ Cardinality(Failing') \in Nat
         /\ Cardinality(Logins) \in Nat /\ Cardinality(Busy') <= Cardinality(Logins)
         /\ login[r].at # "idle" /\ login'[r].at = "idle" =>
              Cardinality(Busy') = Cardinality(Busy) - 1
         /\ login[r].at # "idle" /\ login'[r].at # "idle" => Busy' = Busy
         /\ r \in Failing /\ r \notin Failing' => Cardinality(Failing') = Cardinality(Failing) - 1
         /\ r \notin Failing /\ r \in Failing' => Cardinality(Failing') = Cardinality(Failing) + 1
         /\ (r \in Failing <=> r \in Failing') => Failing' = Failing
<1>1. IsFiniteSet(Logins) /\ Cardinality(Logins) \in Nat
  BY EmailOtpAssumption, FS_CardinalityType DEF EmailOtpAssumption
<1>2. /\ Busy \subseteq Logins /\ Busy' \subseteq Logins
      /\ Failing \subseteq Logins /\ Failing' \subseteq Logins
  BY DEF Busy, Failing
<1>3. /\ IsFiniteSet(Busy) /\ IsFiniteSet(Busy') /\ IsFiniteSet(Failing) /\ IsFiniteSet(Failing')
      /\ Cardinality(Busy') <= Cardinality(Logins)
  BY <1>1, <1>2, FS_Subset
<1>4. /\ Cardinality(Busy) \in Nat /\ Cardinality(Busy') \in Nat
      /\ Cardinality(Failing) \in Nat /\ Cardinality(Failing') \in Nat
  BY <1>3, FS_CardinalityType
<1>5. ASSUME login[r].at # "idle", login'[r].at = "idle"
      PROVE  Cardinality(Busy') = Cardinality(Busy) - 1
  <2>1. Busy' = Busy \ {r} /\ r \in Busy
    BY <1>5 DEF Busy
  <2> QED
    BY <1>3, <2>1, FS_RemoveElement
<1>6. ASSUME login[r].at # "idle", login'[r].at # "idle" PROVE Busy' = Busy
  BY <1>6 DEF Busy
<1>7. ASSUME r \in Failing, r \notin Failing'
      PROVE  Cardinality(Failing') = Cardinality(Failing) - 1
  <2>1. Failing' = Failing \ {r}
    BY <1>7 DEF Failing
  <2> QED
    BY <1>3, <1>7, <2>1, FS_RemoveElement
<1>8. ASSUME r \notin Failing, r \in Failing'
      PROVE  Cardinality(Failing') = Cardinality(Failing) + 1
  <2>1. Failing' = Failing \cup {r}
    BY <1>8 DEF Failing
  <2> QED
    BY <1>3, <1>8, <2>1, FS_AddElement
<1>9. ASSUME r \in Failing <=> r \in Failing' PROVE Failing' = Failing
  BY <1>9 DEF Failing
<1> QED
  BY <1>1, <1>3, <1>4, <1>5, <1>6, <1>7, <1>8, <1>9

-----------------------------------------------------------------------------

\* The counters' keys stay keys.
LEMMA KeysStay ==
  /\ NoKey \in Keys /\ NoKey.count = 0
  /\ Placed \in Keys /\ Placed.count = 1
  /\ \A k \in Keys : Incr(k) \in Keys /\ Incr(k).count = k.count + 1
<1>1. NoKey \in Keys /\ NoKey.count = 0 /\ Placed \in Keys /\ Placed.count = 1
  BY DEF NoKey, Placed, Keys
<1>2. ASSUME NEW k \in Keys PROVE Incr(k) \in Keys /\ Incr(k).count = k.count + 1
  <2>1. k.count + 1 \in Nat /\ (k.expires /\ k.count > 0) \in BOOLEAN
    BY DEF Keys
  <2> QED
    BY <2>1 DEF Incr, Keys
<1> QED
  BY <1>1, <1>2

\* The requests for a code disturb nothing but the stored code.
LEMMA SenderStep ==
  ASSUME Inv, NEW s \in Senders,
         Cool(s) \/ CountFirst(s) \/ CountSend(s) \/ Store(s) \/ SendFails(s)
  PROVE  Inv'
<1> USE EmailOtpAssumption DEF EmailOtpAssumption
<1>a. TypeOK /\ Holders /\ Winners /\ Spent /\ Counted
  BY DEF Inv
<1>b. /\ codes \in Nat /\ codes <= MaxCodes /\ code \in 0..codes
      /\ login \in [Logins -> Step(codes)]
  BY <1>a, Types
<1>c. UNCHANGED <<used, attempts, failed, lost, login, spent>>
  BY DEF Cool, CountFirst, CountSend, Store, SendFails, counted
<1>1. /\ codes' \in 0..MaxCodes /\ codes <= codes' /\ code' \in 0..codes'
      /\ (code' = code /\ codes' = codes) \/ (code' = codes + 1 /\ codes' = codes + 1)
  BY <1>b DEF Cool, CountFirst, CountSend, Store, SendFails
<1>2. sends' \in Keys
  <2>1. sends \in Keys
    BY <1>a DEF TypeOK
  <2>2. sends' = sends \/ sends' = Placed \/ sends' = Incr(sends)
    BY DEF Cool, CountFirst, CountSend, Store, SendFails
  <2> QED
    BY <2>1, <2>2, KeysStay
<1>3. cooling' \in BOOLEAN
  <2>1. cooling \in BOOLEAN /\ (cooling' = cooling \/ cooling' = TRUE)
    BY <1>a DEF TypeOK, Cool, CountFirst, CountSend, Store, SendFails
  <2> QED
    BY <2>1
<1>4. sender' \in [Senders -> {"idle", "cooled", "counting", "capped"}]
  BY <1>a DEF TypeOK, Cool, CountFirst, CountSend, Store, SendFails
<1>5. login' \in [Logins -> Step(codes')]
  <2>1. Step(codes) \subseteq Step(codes')
    BY <1>b, <1>1 DEF Step
  <2> QED
    BY <1>b, <1>c, <2>1
<1>6. TypeOK'
  BY <1>a, <1>c, <1>1, <1>2, <1>3, <1>4, <1>5 DEF TypeOK, Step
<1>7. Holders'
  BY <1>a, <1>b, <1>c, <1>1 DEF Holders
<1>8. Winners'
  BY <1>a, <1>c DEF Winners
<1>9. Spent'
  BY <1>a, <1>b, <1>c, <1>1 DEF Spent, Codes
<1>10. Counted'
  BY <1>a, <1>c DEF Counted, Busy, Failing
<1> QED
  BY <1>6, <1>7, <1>8, <1>9, <1>10 DEF Inv

\* A key expires.
LEMMA ExpiryStep ==
  ASSUME Inv, KeyExpires
  PROVE  Inv'
<1> USE EmailOtpAssumption DEF EmailOtpAssumption
<1>a. TypeOK /\ Holders /\ Winners /\ Spent /\ Counted
  BY DEF Inv
<1>b. /\ attempts.count \in Nat /\ attempts \in Keys /\ failed \in Nat /\ lost \in Nat
      /\ codes \in Nat /\ code \in 0..codes
  BY <1>a, Types
<1>c. UNCHANGED <<used, codes, login, sender, spent>>
  BY DEF KeyExpires
<1>1. code' = code \/ code' = 0
  BY DEF KeyExpires, Expire
<1>2. UNCHANGED <<attempts, failed, lost>> \/ (attempts' = NoKey /\ failed' = 0 /\ lost' = 0)
  BY DEF KeyExpires, Expire, counted
<1>3. (sends' = sends \/ sends' = NoKey) /\ (cooling' = cooling \/ cooling' = FALSE)
  BY DEF KeyExpires, Expire
<1>4. TypeOK'
  <2>1. attempts' \in Keys /\ sends' \in Keys
    BY <1>a, <1>2, <1>3, KeysStay DEF TypeOK
  <2>2. cooling' \in BOOLEAN
    BY <1>a, <1>3 DEF TypeOK
  <2>3. failed' \in Nat /\ lost' \in 0..MaxFaults
    BY <1>a, <1>2 DEF TypeOK
  <2>4. code' \in 0..codes
    BY <1>b, <1>1
  <2> QED
    BY <1>a, <1>c, <2>1, <2>2, <2>3, <2>4 DEF TypeOK
<1>5. Holders' /\ Winners'
  BY <1>a, <1>c DEF Holders, Winners
<1>6. Spent'
  BY <1>a, <1>c, <1>1 DEF Spent, Codes
<1>7. Counted'
  <2>1. Busy' = Busy /\ Failing' = Failing
    BY <1>c DEF Busy, Failing
  <2>2. Cardinality(Busy) \in Nat /\ Cardinality(Failing) \in Nat /\ Cardinality(Logins) \in Nat
    <3>1. Busy \subseteq Logins /\ Failing \subseteq Logins
      BY DEF Busy, Failing
    <3> QED
      BY <3>1, FS_Subset, FS_CardinalityType
  <2> QED
    BY <1>a, <1>b, <1>2, <2>1, <2>2, KeysStay DEF Counted
<1> QED
  BY <1>4, <1>5, <1>6, <1>7 DEF Inv

\* Time passes for every login under way and every marker alike.
LEMMA TickStep ==
  ASSUME Inv, Tick
  PROVE  Inv'
<1> USE EmailOtpAssumption DEF EmailOtpAssumption
<1>a. TypeOK /\ Holders /\ Winners /\ Spent /\ Counted
  BY DEF Inv
<1>b. /\ used \in [Codes -> Nat] /\ login \in [Logins -> Step(codes)] /\ codes \in Nat
      /\ \A r \in Logins : login[r].left \in Nat /\ login[r].left \in 0..LoginTime
      /\ codes <= MaxCodes
  BY <1>a, Types
<1>c. UNCHANGED <<code, attempts, failed, lost, sends, cooling, codes, sender, spent>>
  BY DEF Tick, counted, sending
<1>1. \A r \in Logins : [login[r] EXCEPT !.left = Less(@)] \in Step(codes)
  BY <1>b DEF Step, Less
<1>2. login' = [r \in Logins |-> [login[r] EXCEPT !.left = Less(@)]]
  BY DEF Tick
<1>3. login' \in [Logins -> Step(codes)]
  BY <1>1, <1>2
<1>4. \A r \in Logins : /\ login'[r].at = login[r].at /\ login'[r].code = login[r].code
                        /\ login[r].at # "idle" => login'[r].left = login[r].left - 1
  BY <1>b, <1>2 DEF Tick, Less, Step
<1>5. /\ used' \in [Codes -> 0..CodeTTL]
      /\ \A c \in Codes : used[c] > 0 => used'[c] = used[c] - 1
  <2>1. used' = [c \in Codes |-> Less(used[c])]
    BY DEF Tick
  <2>2. \A c \in Codes : used[c] \in 0..CodeTTL
    BY <1>a DEF TypeOK
  <2>3. \A c \in Codes : Less(used[c]) \in 0..CodeTTL /\ (used[c] > 0 => Less(used[c]) = used[c] - 1)
    BY <2>2 DEF Less
  <2> QED
    BY <2>1, <2>3
<1>6. TypeOK'
  BY <1>a, <1>c, <1>3, <1>5 DEF TypeOK, Step
<1>7. Holders'
  BY <1>a, <1>c, <1>4 DEF Holders
<1>8. Winners'
  <2>1. ASSUME NEW r \in Logins, login'[r].at = "won"
        PROVE  spent'[login'[r].code] = 0 /\ used'[login'[r].code] > LoginTime + login'[r].left
    <3>1. /\ login[r].at = "won" /\ login[r].code \in Codes
          /\ login'[r].code = login[r].code /\ login'[r].left = login[r].left - 1
      BY <1>a, <1>b, <1>4, <2>1 DEF Holders, Codes
    <3>2. used[login[r].code] > LoginTime + login[r].left /\ spent[login[r].code] = 0
      BY <1>a, <3>1 DEF Winners
    <3>3. used'[login[r].code] = used[login[r].code] - 1 /\ used[login[r].code] \in Nat
      BY <1>b, <1>5, <3>1, <3>2
    <3> QED
      BY <1>b, <1>c, <3>1, <3>2, <3>3
  <2> QED
    BY <1>a, <1>4, <2>1 DEF Winners
<1>9. Spent'
  <2>1. ASSUME NEW c \in Codes, spent[c] # 0, NEW r \in Logins, login'[r].at = "matched", login'[r].code = c
        PROVE  used'[c] > login'[r].left
    <3>1. used[c] > login[r].left /\ login'[r].left = login[r].left - 1
      BY <1>a, <1>4, <2>1 DEF Spent
    <3>2. used'[c] = used[c] - 1 /\ used[c] \in Nat
      BY <1>b, <1>5, <3>1
    <3> QED
      BY <1>b, <3>1, <3>2
  <2> QED
    BY <1>a, <1>c, <2>1 DEF Spent
<1>10. Counted'
  <2>1. Busy' = Busy /\ Failing' = Failing
    BY <1>4 DEF Busy, Failing
  <2> QED
    BY <1>a, <1>c, <2>1 DEF Counted
<1> QED
  BY <1>6, <1>7, <1>8, <1>9, <1>10 DEF Inv
-----------------------------------------------------------------------------

\* The steps of a login.
LoginStep(r) ==
  \/ \E c \in 0..codes : Submit(r, c)
  \/ Compare(r) \/ Consume(r) \/ FailFirst(r) \/ FailAgain(r)
  \/ Refuse(r) \/ Succeed(r) \/ LoginFails(r)

\* A step of login r that touches neither code nor marker: it fails, goes on
\* failing, or ends.
LEMMA FailureStep ==
  ASSUME Inv, NEW r \in Logins,
         UNCHANGED <<code, used, sending, spent>>,
         login' \in [Logins -> Step(codes)],
         \A x \in Logins \ {r} : login'[x] = login[x],
         login[r].at # "idle", login'[r].at \in {"idle", "failing", "counting"},
         attempts' \in Keys, failed' \in Nat, lost' \in 0..MaxFaults,
         Counted'
  PROVE  Inv'
<1>a. TypeOK /\ Holders /\ Winners /\ Spent
  BY DEF Inv
<1>b. UNCHANGED <<sends, cooling, codes, sender>>
  BY DEF sending
<1>1. TypeOK'
  BY <1>a, <1>b DEF TypeOK, Step
<1>2. Holders'
  BY <1>a, <1>b DEF Holders
<1>3. Winners'
  BY <1>a, <1>b DEF Winners
<1>4. Spent'
  BY <1>a, <1>b DEF Spent
<1> QED
  BY <1>1, <1>2, <1>3, <1>4 DEF Inv

LEMMA LoginSteps ==
  ASSUME Inv, NEW r \in Logins, LoginStep(r)
  PROVE  Inv'
<1> USE EmailOtpAssumption DEF EmailOtpAssumption
<1>a. TypeOK /\ Holders /\ Winners /\ Spent /\ Counted
  BY DEF Inv
<1>b. /\ codes \in Nat /\ codes <= MaxCodes /\ code \in 0..codes
      /\ used \in [Codes -> Nat] /\ spent \in [Codes -> Nat]
      /\ attempts.count \in Nat /\ attempts \in Keys
      /\ failed \in Nat /\ lost \in Nat
      /\ login \in [Logins -> Step(codes)]
      /\ \A x \in Logins : login[x].left \in 0..LoginTime /\ login[x].left \in Nat
  BY <1>a, Types
<1>c. /\ attempts \in Keys /\ failed \in Nat /\ lost \in 0..MaxFaults
      /\ used \in [Codes -> 0..CodeTTL]
  BY <1>a DEF TypeOK
<1>d. /\ attempts.count + Cardinality(Busy) <= LockLimit - 1 + Cardinality(Logins)
      /\ failed <= attempts.count + Cardinality(Failing) + lost
  BY <1>a DEF Counted
<1>1. ASSUME NEW c \in 0..codes, Submit(r, c) PROVE Inv'
  <2> DEFINE new == [at |-> "checked", code |-> c, left |-> LoginTime]
  <2>1. /\ login[r].at = "idle" /\ attempts.count < LockLimit
        /\ login' = [login EXCEPT ![r] = new]
    BY <1>1 DEF Submit
  <2>2. UNCHANGED <<code, used, attempts, failed, lost, sends, cooling, codes, sender, spent>>
    BY <1>1 DEF Submit, counted, sending
  <2>3. new \in Step(codes) /\ new.at = "checked"
    BY <1>b DEF Step, Places
  <2>4. /\ login' \in [Logins -> Step(codes)] /\ login'[r].at = "checked"
        /\ \A x \in Logins \ {r} : login'[x] = login[x]
    BY <1>b, <2>1, <2>3
  <2>5. TypeOK'
    BY <1>a, <2>2, <2>4 DEF TypeOK, Step
  <2>6. Holders' /\ Winners' /\ Spent'
    BY <1>a, <2>2, <2>4 DEF Holders, Winners, Spent
  <2>7. /\ Cardinality(Busy') <= Cardinality(Logins)
        /\ Cardinality(Busy') \in Nat /\ Cardinality(Logins) \in Nat
    BY <2>4, Counts
  <2>8. Failing' = Failing
    BY <2>1, <2>4 DEF Failing
  <2>9. Counted'
    BY <1>b, <1>d, <2>1, <2>2, <2>7, <2>8 DEF Counted
  <2> QED
    BY <2>5, <2>6, <2>9 DEF Inv
\* A comparison or a consumption that fails.
<1>2. ASSUME login[r].at \in {"checked", "matched"}, Goto(r, "failing"), failed' = failed + 1,
             UNCHANGED <<code, used, attempts, lost, sending, spent>>
      PROVE  Inv'
  <2>1. /\ login' \in [Logins -> Step(codes)] /\ login'[r].at = "failing"
        /\ \A x \in Logins \ {r} : login'[x] = login[x]
    BY <1>a, <1>2, Moves DEF Places
  <2>2. r \notin Failing /\ r \in Failing'
    BY <1>2, <2>1 DEF Failing
  <2>3. /\ Cardinality(Failing') = Cardinality(Failing) + 1 /\ Busy' = Busy
        /\ Cardinality(Failing) \in Nat
    BY <1>2, <2>1, <2>2, Counts
  <2>4. Counted'
    BY <1>b, <1>d, <1>2, <2>3 DEF Counted
  <2>5. failed' \in Nat
    BY <1>b, <1>2
  <2> QED
    BY <1>c, <1>2, <2>1, <2>4, <2>5, FailureStep
<1>3. CASE Compare(r)
  <2>1. CASE code # 0 /\ login[r].code = code
    <3>1. login[r].at = "checked" /\ Goto(r, "matched")
      BY <1>3, <2>1 DEF Compare
    <3>2. UNCHANGED <<code, used, attempts, failed, lost, sends, cooling, codes, sender, spent>>
      BY <1>3, <2>1 DEF Compare, sending
    <3>3. /\ login' \in [Logins -> Step(codes)] /\ login'[r].at = "matched"
          /\ login'[r].code = code
          /\ \A x \in Logins \ {r} : login'[x] = login[x]
      BY <1>a, <2>1, <3>1, Moves DEF Places
    <3>4. TypeOK'
      BY <1>a, <3>2, <3>3 DEF TypeOK, Step
    <3>5. code \in 1..codes
      BY <1>b, <2>1
    <3>6. Holders'
      BY <1>a, <3>2, <3>3, <3>5 DEF Holders
    <3>7. Winners'
      BY <1>a, <3>2, <3>3 DEF Winners
    <3>8. Spent'
      BY <1>a, <3>2, <3>3 DEF Spent
    <3>9. Busy' = Busy /\ Failing' = Failing
      BY <3>1, <3>3 DEF Busy, Failing
    <3>10. Counted'
      BY <1>a, <3>2, <3>9 DEF Counted
    <3> QED
      BY <3>4, <3>6, <3>7, <3>8, <3>10 DEF Inv
  <2>2. CASE ~(code # 0 /\ login[r].code = code)
    BY <1>2, <1>3, <2>2 DEF Compare
  <2> QED
    BY <2>1, <2>2
<1>4. CASE Consume(r)
  <2> DEFINE c == login[r].code
  <2>0. login[r].at = "matched" /\ c \in Codes
    BY <1>4, <1>a, <1>b DEF Consume, Holders, Codes
  <2>1. CASE used[c] = 0
    <3>1. used' = [used EXCEPT ![c] = CodeTTL] /\ Goto(r, "won")
      BY <1>4, <2>1 DEF Consume
    <3>2. UNCHANGED <<code, attempts, failed, lost, sends, cooling, codes, sender, spent>>
      BY <1>4, <2>1 DEF Consume, sending
    <3>3. /\ login' \in [Logins -> Step(codes)] /\ login'[r].at = "won"
          /\ login'[r].code = c /\ login'[r].left = login[r].left
          /\ \A x \in Logins \ {r} : login'[x] = login[x]
      BY <1>a, <3>1, Moves DEF Places
    <3>4. /\ used' \in [Codes -> 0..CodeTTL] /\ used'[c] = CodeTTL
          /\ \A d \in Codes \ {c} : used'[d] = used[d]
      BY <1>c, <2>0, <3>1
    <3>5. spent[c] = 0
      BY <1>a, <1>b, <2>0, <2>1 DEF Spent
    <3>6. \A x \in Logins \ {r} : login[x].at = "won" => login[x].code # c
      BY <1>a, <1>b, <2>1 DEF Winners
    <3>7. TypeOK'
      BY <1>a, <3>2, <3>3, <3>4 DEF TypeOK, Step
    <3>8. Holders'
      BY <1>a, <2>0, <3>2, <3>3 DEF Holders
    <3>9. Winners'
      <4>1. CodeTTL > LoginTime + login[r].left
        BY <1>b
      <4>2. ASSUME NEW x \in Logins \ {r}, login[x].at = "won"
            PROVE  used'[login[x].code] = used[login[x].code]
        <5>1. login[x].code \in Codes
          BY <1>a, <1>b, <4>2 DEF Holders, Codes
        <5>2. login[x].code # c
          BY <3>6, <4>2
        <5> QED
          BY <3>4, <5>1, <5>2
      <4> QED
        BY <1>a, <3>2, <3>3, <3>4, <3>5, <3>6, <4>1, <4>2 DEF Winners
    <3>10. Spent'
      BY <1>a, <3>2, <3>3, <3>4, <3>5 DEF Spent
    <3>11. Busy' = Busy /\ Failing' = Failing
      BY <2>0, <3>3 DEF Busy, Failing
    <3>12. Counted'
      BY <1>a, <3>2, <3>11 DEF Counted
    <3> QED
      BY <3>7, <3>8, <3>9, <3>10, <3>12 DEF Inv
  <2>2. CASE used[c] # 0
    BY <1>2, <1>4, <2>2 DEF Consume
  <2> QED
    BY <2>1, <2>2
<1>5. CASE FailFirst(r)
  <2>0. /\ login[r].at = "failing" /\ r \in Failing
        /\ UNCHANGED <<code, used, failed, lost, sending, spent>>
    BY <1>5 DEF FailFirst, Failing
  <2>1. CASE attempts.count = 0
    <3>1. attempts' = Placed /\ End(r)
      BY <1>5, <2>1 DEF FailFirst
    <3>2. /\ login' \in [Logins -> Step(codes)] /\ login'[r].at = "idle"
          /\ \A x \in Logins \ {r} : login'[x] = login[x]
      BY <1>a, <3>1, Moves
    <3>3. r \notin Failing'
      BY <3>2 DEF Failing
    <3>4. /\ Cardinality(Failing') = Cardinality(Failing) - 1
          /\ Cardinality(Busy') = Cardinality(Busy) - 1
          /\ Cardinality(Failing) \in Nat /\ Cardinality(Busy) \in Nat /\ Cardinality(Logins) \in Nat
      BY <2>0, <3>2, <3>3, Counts
    <3>5. Counted'
      BY <1>b, <1>d, <2>0, <2>1, <3>1, <3>4, KeysStay DEF Counted
    <3> QED
      BY <1>c, <2>0, <3>1, <3>2, <3>5, KeysStay, FailureStep
  <2>2. CASE attempts.count # 0
    <3>1. attempts' = attempts /\ Goto(r, "counting")
      BY <1>5, <2>2 DEF FailFirst
    <3>2. /\ login' \in [Logins -> Step(codes)] /\ login'[r].at = "counting"
          /\ \A x \in Logins \ {r} : login'[x] = login[x]
      BY <1>a, <3>1, Moves DEF Places
    <3>3. Busy' = Busy /\ Failing' = Failing
      BY <2>0, <3>2 DEF Busy, Failing
    <3>4. Counted'
      BY <1>a, <2>0, <3>1, <3>3 DEF Counted
    <3> QED
      BY <1>c, <2>0, <3>1, <3>2, <3>4, FailureStep
  <2> QED
    BY <2>1, <2>2
<1>6. CASE FailAgain(r)
  <2>1. /\ login[r].at = "counting" /\ attempts' = Incr(attempts) /\ End(r)
        /\ UNCHANGED <<code, used, failed, lost, sending, spent>>
    BY <1>6 DEF FailAgain
  <2>2. /\ login' \in [Logins -> Step(codes)] /\ login'[r].at = "idle"
        /\ \A x \in Logins \ {r} : login'[x] = login[x]
    BY <1>a, <2>1, Moves
  <2>3. r \in Failing /\ r \notin Failing'
    BY <2>1, <2>2 DEF Failing
  <2>4. /\ Cardinality(Failing') = Cardinality(Failing) - 1
        /\ Cardinality(Busy') = Cardinality(Busy) - 1
        /\ Cardinality(Failing) \in Nat /\ Cardinality(Busy) \in Nat /\ Cardinality(Logins) \in Nat
    BY <2>1, <2>2, <2>3, Counts
  <2>5. attempts' \in Keys /\ attempts'.count = attempts.count + 1
    BY <1>c, <2>1, KeysStay
  <2>6. Counted'
    BY <1>b, <1>d, <2>1, <2>4, <2>5 DEF Counted
  <2> QED
    BY <1>c, <2>1, <2>2, <2>5, <2>6, FailureStep
<1>7. CASE Refuse(r) \/ LoginFails(r)
  <2>1. /\ login[r].at # "idle" /\ End(r)
        /\ UNCHANGED <<code, used, attempts, failed, sending, spent>>
    BY <1>7 DEF Refuse, LoginFails, counted
  <2>2. /\ login' \in [Logins -> Step(codes)] /\ login'[r].at = "idle"
        /\ \A x \in Logins \ {r} : login'[x] = login[x]
    BY <1>a, <2>1, Moves
  <2>3. /\ lost' = IF r \in Failing THEN lost + 1 ELSE lost
        /\ r \in Failing => lost < MaxFaults
    BY <1>7 DEF Refuse, LoginFails, counted, Failing
  <2>4. lost' \in 0..MaxFaults
    BY <1>c, <2>3
  <2>5. r \notin Failing'
    BY <2>2 DEF Failing
  <2>6. /\ Cardinality(Busy') = Cardinality(Busy) - 1
        /\ Cardinality(Failing) \in Nat /\ Cardinality(Busy) \in Nat /\ Cardinality(Logins) \in Nat
        /\ r \in Failing => Cardinality(Failing') = Cardinality(Failing) - 1
        /\ r \notin Failing => Failing' = Failing
    BY <2>1, <2>2, <2>5, Counts
  <2>7. Counted'
    BY <1>b, <1>d, <2>1, <2>3, <2>6 DEF Counted
  <2> QED
    BY <1>c, <2>1, <2>2, <2>4, <2>7, FailureStep
<1>8. CASE Succeed(r)
  <2> DEFINE c == login[r].code
  <2>1. /\ login[r].at = "won" /\ End(r)
        /\ code' = 0 /\ attempts' = NoKey /\ failed' = 0 /\ lost' = 0
        /\ spent' = [spent EXCEPT ![c] = spent[c] + 1]
        /\ UNCHANGED <<used, sends, cooling, codes, sender>>
    BY <1>8, <1>b DEF Succeed, sending
  <2>2. /\ c \in Codes /\ c <= codes /\ spent[c] = 0 /\ used[c] > LoginTime
        /\ \A x \in Logins \ {r} : login[x].at = "won" => login[x].code # c
    <3>1. c \in 1..codes /\ spent[c] = 0 /\ used[c] > LoginTime + login[r].left
      BY <1>a, <2>1 DEF Holders, Winners
    <3>2. \A x \in Logins \ {r} : login[x].at = "won" => login[x].code # c
      BY <1>a, <2>1 DEF Winners
    <3>3. c \in Codes /\ used[c] \in Nat /\ login[r].left \in Nat
      BY <1>b, <3>1 DEF Codes
    <3> QED
      BY <1>b, <3>1, <3>2, <3>3
  <2>3. /\ login' \in [Logins -> Step(codes)] /\ login'[r].at = "idle"
        /\ \A x \in Logins \ {r} : login'[x] = login[x]
    BY <1>a, <2>1, Moves
  <2>4. /\ spent' \in [Codes -> Nat] /\ spent'[c] = 1
        /\ \A d \in Codes \ {c} : spent'[d] = spent[d]
    BY <1>b, <2>1, <2>2
  <2>5. TypeOK'
    BY <1>a, <1>b, <2>1, <2>3, <2>4, KeysStay DEF TypeOK, Step
  <2>6. Holders'
    BY <1>a, <2>1, <2>3 DEF Holders
  <2>7. Winners'
    <3>1. ASSUME NEW x \in Logins \ {r}, login[x].at = "won"
          PROVE  spent'[login[x].code] = spent[login[x].code]
      <4>1. login[x].code \in Codes
        BY <1>a, <1>b, <3>1 DEF Holders, Codes
      <4>2. login[x].code # c
        BY <2>2, <3>1
      <4> QED
        BY <2>4, <4>1, <4>2
    <3> QED
      BY <1>a, <2>1, <2>3, <3>1 DEF Winners
  <2>8. Spent'
    <3>1. \A x \in Logins : used[c] > login[x].left
      BY <1>b, <2>2
    <3>2. \A d \in Codes : d # 0
      BY DEF Codes
    <3> QED
      BY <1>a, <2>1, <2>2, <2>3, <2>4, <3>1, <3>2 DEF Spent
  <2>9. Counted'
    <3>1. /\ Cardinality(Busy') = Cardinality(Busy) - 1 /\ Cardinality(Busy) \in Nat
          /\ Cardinality(Failing') \in Nat /\ Cardinality(Logins) \in Nat
      BY <2>1, <2>3, Counts
    <3> QED
      BY <1>b, <1>d, <2>1, <3>1, KeysStay DEF Counted
  <2> QED
    BY <2>5, <2>6, <2>7, <2>8, <2>9 DEF Inv
<1> QED
  BY <1>1, <1>3, <1>4, <1>5, <1>6, <1>7, <1>8 DEF LoginStep

LEMMA NextInv == Inv /\ [Next]_vars => Inv'
<1> SUFFICES ASSUME Inv, [Next]_vars PROVE Inv'
  OBVIOUS
<1>1. CASE Next
  BY <1>1, SenderStep, LoginSteps, ExpiryStep, TickStep DEF Next, LoginStep
<1>2. CASE UNCHANGED vars
  BY <1>2 DEF Inv, TypeOK, Holders, Winners, Spent, Counted, Busy, Failing, vars
<1> QED
  BY <1>1, <1>2

LEMMA Invariance == Spec => []Inv
BY InitInv, NextInv, PTL DEF Spec

-----------------------------------------------------------------------------

\* Every key of the account, and every request, keeps its type.
THEOREM EmailOtpTyped == Spec => []TypeOK
<1>1. Inv => TypeOK
  BY DEF Inv
<1> QED
  BY <1>1, Invariance, PTL

\* consume_code's marker makes a code good for one session, for any number of
\* logins, failures and lost accounts, as long as a login takes less than half
\* the marker's life.
THEOREM CodesSpentOnce == Spec => []SpentOnce
<1>1. Inv => SpentOnce
  BY DEF Inv, Spent, SpentOnce
<1> QED
  BY <1>1, Invariance, PTL

\* The lock overshoots by the logins under way and no more, although it is
\* checked before and counted after each comparison, in two steps.
THEOREM LockHolds == Spec => []FailuresBounded
<1>1. Inv => FailuresBounded
  <2> SUFFICES ASSUME Inv PROVE FailuresBounded
    OBVIOUS
  <2>2. /\ attempts.count + Cardinality(Busy) <= LockLimit - 1 + Cardinality(Logins)
        /\ failed <= attempts.count + Cardinality(Failing) + lost
        /\ attempts.count \in Nat /\ failed \in Nat /\ lost \in Nat
    <3>1. TypeOK /\ Counted
      BY DEF Inv
    <3> QED
      BY <3>1, Types DEF Counted
  <2>3. Failing \subseteq Busy /\ Busy \subseteq Logins
    BY DEF Failing, Busy
  <2>4. /\ Cardinality(Failing) <= Cardinality(Busy)
        /\ Cardinality(Failing) \in Nat /\ Cardinality(Busy) \in Nat /\ Cardinality(Logins) \in Nat
    BY <2>3, EmailOtpAssumption, FS_Subset, FS_CardinalityType DEF EmailOtpAssumption
  <2> QED
    BY <2>2, <2>4, EmailOtpAssumption DEF EmailOtpAssumption, FailuresBounded
<1> QED
  BY <1>1, Invariance, PTL

-----------------------------------------------------------------------------

\* The codes held, when one login moves and the others stay.
LEMMA ClaimedMoves ==
  ASSUME NEW r \in Logins, \A x \in Logins \ {r} : login'[x] = login[x],
         \A x \in Logins \ {r} : login[x].at = "won" /\ login[r].at = "won" => login[x].code # login[r].code
  PROVE  /\ login[r].at # "won" /\ login'[r].at # "won" => Claimed' = Claimed
         /\ login[r].at # "won" /\ login'[r].at = "won" => Claimed' = Claimed \cup {login'[r].code}
         /\ login[r].at = "won" /\ login'[r].at # "won" =>
              login[r].code \in Claimed /\ Claimed' = Claimed \ {login[r].code}
BY DEF Claimed

\* Every step claims a code, uses or gives up one that is claimed, mails one, or does none
\* of these.
LEMMA CodeStep ==
  ASSUME Inv, Next
  PROVE  Code!Next \/ UNCHANGED Code!vars
<1>a. TypeOK /\ Holders /\ Winners /\ Spent
  BY DEF Inv
<1>b. /\ codes \in Nat /\ codes <= MaxCodes /\ MaxCodes \in Nat
      /\ used \in [Codes -> Nat] /\ spent \in [Codes -> Nat]
      /\ login \in [Logins -> Step(codes)] /\ LoginTime \in Nat
  BY <1>a, Types, EmailOtpAssumption DEF EmailOtpAssumption
<1>c. \A r, x \in Logins :
        r # x /\ login[x].at = "won" /\ login[r].at = "won" => login[x].code # login[r].code
  BY <1>a DEF Winners
<1>1. ASSUME NEW s \in Senders,
             Cool(s) \/ CountFirst(s) \/ CountSend(s) \/ Store(s) \/ SendFails(s)
      PROVE  Code!Mail \/ UNCHANGED Code!vars
  <2>1. /\ codes' = codes \/ codes' = codes + 1
        /\ UNCHANGED <<login, spent>>
    BY <1>1 DEF Cool, CountFirst, CountSend, Store, SendFails
  <2>2. Claimed' = Claimed
    BY <2>1 DEF Claimed
  <2> QED
    BY <2>1, <2>2 DEF Code!Mail, Code!vars
<1>2. CASE KeyExpires
  BY <1>2 DEF KeyExpires, Claimed, Code!vars
<1>3. CASE Tick
  <2>1. UNCHANGED <<codes, spent>>
    BY <1>3 DEF Tick, sending
  <2>2. \A x \in Logins : login'[x].at = login[x].at /\ login'[x].code = login[x].code
    BY <1>3, <1>b DEF Tick, Step
  <2>3. Claimed' = Claimed
    BY <2>2 DEF Claimed
  <2> QED
    BY <2>1, <2>3 DEF Code!vars
<1>4. ASSUME NEW r \in Logins, LoginStep(r)
      PROVE  (\E c \in 1..codes : Code!Claim(c) \/ Code!Open(c) \/ Code!GiveUp(c))
             \/ UNCHANGED Code!vars
  <2> DEFINE c == login[r].code
  <2>1. ASSUME NEW d \in 0..codes, Submit(r, d) PROVE UNCHANGED Code!vars
    <3>1. /\ UNCHANGED <<codes, spent>>
          /\ login[r].at = "idle" /\ login'[r].at = "checked"
          /\ \A x \in Logins \ {r} : login'[x] = login[x]
      BY <1>b, <2>1 DEF Submit, sending
    <3> QED
      BY <1>c, <3>1, ClaimedMoves DEF Code!vars
  <2>2. ASSUME Goto(r, "matched") \/ Goto(r, "failing") \/ Goto(r, "counting") \/ End(r),
               login[r].at # "won", UNCHANGED <<codes, spent>>
        PROVE  UNCHANGED Code!vars
    <3>1. login'[r].at # "won" /\ \A x \in Logins \ {r} : login'[x] = login[x]
      BY <1>a, <2>2, Moves DEF Places
    <3> QED
      BY <1>c, <2>2, <3>1, ClaimedMoves DEF Code!vars
  <2>3. CASE Compare(r) \/ FailFirst(r) \/ FailAgain(r)
    BY <2>2, <2>3 DEF Compare, FailFirst, FailAgain, sending
  <2>4. CASE Consume(r)
    <3>0. login[r].at = "matched" /\ UNCHANGED <<codes, spent>>
      BY <2>4 DEF Consume, sending
    <3>1. c \in 1..codes /\ c \in Codes
      <4>1. c \in 1..codes
        BY <1>a, <3>0 DEF Holders
      <4> QED
        BY <1>b, <4>1 DEF Codes
    <3>2. CASE used[c] = 0
      <4>1. Goto(r, "won")
        BY <2>4, <3>2 DEF Consume
      <4>2. /\ login'[r].at = "won" /\ login'[r].code = c
            /\ \A x \in Logins \ {r} : login'[x] = login[x]
        BY <1>a, <4>1, Moves DEF Places
      <4>3. Claimed' = Claimed \cup {c}
        BY <1>c, <3>0, <4>2, ClaimedMoves
      <4>4. spent[c] = 0
        <5>1. login[r].left \in Nat
          BY <1>a, Types
        <5> QED
          BY <1>a, <3>0, <3>1, <3>2, <5>1 DEF Spent
      <4>5. c \notin Claimed
        <5>1. ASSUME NEW x \in Logins, login[x].at = "won" PROVE login[x].code # c
          <6>1. used[login[x].code] > LoginTime + login[x].left /\ login[x].left \in Nat
            BY <1>a, <5>1, Types DEF Winners
          <6> QED
            BY <1>b, <3>2, <6>1
        <5> QED
          BY <5>1 DEF Claimed
      <4> QED
        BY <3>0, <3>1, <4>3, <4>4, <4>5 DEF Code!Claim
    <3>3. CASE used[c] # 0
      BY <2>2, <2>4, <3>0, <3>3 DEF Consume
    <3> QED
      BY <3>2, <3>3
  <2>5. ASSUME login[r].at = "won", End(r)
        PROVE  c \in 1..codes /\ c \in Codes /\ c \in Claimed /\ Claimed' = Claimed \ {c}
    <3>1. login'[r].at # "won" /\ \A x \in Logins \ {r} : login'[x] = login[x]
      BY <1>a, <2>5, Moves
    <3>2. c \in Claimed /\ Claimed' = Claimed \ {c}
      BY <1>c, <2>5, <3>1, ClaimedMoves
    <3>3. c \in 1..codes
      BY <1>a, <2>5 DEF Holders
    <3> QED
      BY <1>b, <3>2, <3>3 DEF Codes
  <2>6. CASE Refuse(r) \/ LoginFails(r)
    <3>1. End(r) /\ UNCHANGED <<codes, spent>>
      BY <2>6 DEF Refuse, LoginFails, sending
    <3>2. CASE login[r].at = "won"
      BY <2>5, <3>1, <3>2 DEF Code!GiveUp
    <3>3. CASE login[r].at # "won"
      BY <2>2, <3>1, <3>3
    <3> QED
      BY <3>2, <3>3
  <2>7. CASE Succeed(r)
    <3>1. /\ login[r].at = "won" /\ End(r) /\ UNCHANGED codes
          /\ spent' = [spent EXCEPT ![c] = spent[c] + 1]
      BY <1>b, <2>7 DEF Succeed, sending
    <3>2. spent[c] = 0
      BY <1>a, <3>1 DEF Winners
    <3>3. spent' = [spent EXCEPT ![c] = 1]
      BY <3>1, <3>2
    <3> QED
      BY <2>5, <3>1, <3>3 DEF Code!Open
  <2> QED
    BY <1>4, <2>1, <2>3, <2>4, <2>6, <2>7 DEF LoginStep
<1> QED
  BY <1>1, <1>2, <1>3, <1>4 DEF Next, LoginStep, Code!Next

\* For any logins, failures and expiring keys, at most one login at a time holds a code, and
\* after it has opened a session, none does.
THEOREM CodesAreOneTime == Spec => ImplementsOneTimeCode
<1>1. Init => Code!Init
  BY DEF Init, Code!Init, Claimed, NoLogin
<1>2. Inv /\ [Next]_vars => [Code!Next]_(Code!vars)
  <2>1. UNCHANGED vars => UNCHANGED Code!vars
    BY DEF vars, Claimed, Code!vars
  <2> QED
    BY <2>1, CodeStep
<1> QED
  BY <1>1, <1>2, Invariance, PTL DEF Spec, ImplementsOneTimeCode, Code!Spec
=============================================================================
