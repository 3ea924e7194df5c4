------------------------------ MODULE EmailOtp ------------------------------
(***************************************************************************)
(* Sign-in with a one-time code by mail, for one account                   *)
(* (auth/email_otp.py; auth/service.py, request_email_otp and              *)
(* authenticate_email_otp): concurrent requests for a code and logins      *)
(* share five kinds of Redis keys, most of which expire by themselves.     *)
(*                                                                         *)
(* A code is the number of its storing: no two are equal, and no guess     *)
(* hits one by chance.  Time is counted in ticks for what the single use   *)
(* of a code depends on, its marker and the length of a login; the other   *)
(* keys with a TTL may expire at any moment.                               *)
(***************************************************************************)
EXTENDS Integers, FiniteSets

CONSTANTS
  Logins,      \* logins the server handles at a time
  Senders,     \* requests for a code it handles at a time
  CodeTTL,     \* EMAIL_OTP_TTL, of a code and of its marker
  LockLimit,   \* EMAIL_OTP_LOCK_LIMIT
  DailyCap,    \* EMAIL_OTP_DAILY_CAP
  LoginTime,   \* bound: ticks a login takes
  MaxCodes,    \* bound: codes stored
  MaxFaults    \* bound: logins that fail before they have counted their failure

ASSUME EmailOtpAssumption ==
  /\ IsFiniteSet(Logins)
  /\ CodeTTL \in Nat /\ LockLimit \in Nat \ {0} /\ DailyCap \in Nat \ {0}
  /\ LoginTime \in Nat /\ MaxCodes \in Nat /\ MaxFaults \in Nat
  /\ 2 * LoginTime < CodeTTL

VARIABLES
  code,      \* the stored code, 0 if there is none
  used,      \* per code, ticks until its used-marker expires, 0 if there is none
  attempts,  \* the failed-attempt counter: its count, 0 if there is no key; has it a TTL
  sends,     \* the daily counter, likewise
  cooling,   \* is the cooldown key there
  codes,     \* codes stored so far
  login,     \* per login: where it is, the code it was sent, ticks it may still take
  sender,    \* per request for a code: where it is
  failed,    \* ghost: logins that have failed since attempts last expired or was deleted
  lost,      \* ghost: those of them whose failure was never counted
  spent      \* ghost: per code, the logins it has opened

vars == <<code, used, attempts, sends, cooling, codes, login, sender, failed, lost, spent>>
sending == <<sends, cooling, codes, sender>>
counted == <<attempts, failed, lost>>

Codes == 1..MaxCodes

NoKey == [count |-> 0, expires |-> TRUE]

\* SET key 1 EX ttl NX
Placed == [count |-> 1, expires |-> TRUE]

\* INCR, which makes a key without a TTL when there is none.
Incr(key) == [count |-> key.count + 1, expires |-> key.expires /\ key.count > 0]

NoLogin == [at |-> "idle", code |-> 0, left |-> 0]

Goto(r, place) == login' = [login EXCEPT ![r].at = place]
End(r) == login' = [login EXCEPT ![r] = NoLogin]

-----------------------------------------------------------------------------

Init ==
  /\ code = 0 /\ codes = 0
  /\ used = [c \in Codes |-> 0]
  /\ attempts = NoKey /\ sends = NoKey /\ cooling = FALSE
  /\ login = [r \in Logins |-> NoLogin]
  /\ sender = [s \in Senders |-> "idle"]
  /\ failed = 0 /\ lost = 0
  /\ spent = [c \in Codes |-> 0]

\* request_email_otp: the cooldown's SET NX; who does not get it returns.
\* (Bounds: there are codes left to store, and one request beyond the cap.)
Cool(s) ==
  /\ sender[s] = "idle"
  /\ ~cooling
  /\ codes < MaxCodes /\ sends.count <= DailyCap
  /\ cooling' = TRUE
  /\ sender' = [sender EXCEPT ![s] = "cooled"]
  /\ UNCHANGED <<code, used, counted, sends, codes, login, spent>>

\* The first send of the day places the counter, with its TTL.
CountFirst(s) ==
  /\ sender[s] = "cooled"
  /\ IF sends.count = 0
     THEN sends' = Placed /\ sender' = [sender EXCEPT ![s] = "capped"]
     ELSE sender' = [sender EXCEPT ![s] = "counting"] /\ UNCHANGED sends
  /\ UNCHANGED <<code, used, counted, cooling, codes, login, spent>>

\* A later one increments it, and returns above the cap.
CountSend(s) ==
  /\ sender[s] = "counting"
  /\ sends' = Incr(sends)
  /\ sender' = [sender EXCEPT ![s] = IF sends'.count <= DailyCap THEN "capped" ELSE "idle"]
  /\ UNCHANGED <<code, used, counted, cooling, codes, login, spent>>

\* Mutant: a new code clears the strikes.
StoreAndReset(s) ==
  /\ sender[s] = "capped"
  /\ codes < MaxCodes
  /\ codes' = codes + 1 /\ code' = codes + 1
  /\ attempts' = NoKey
  /\ sender' = [sender EXCEPT ![s] = "idle"]
  /\ UNCHANGED <<used, failed, lost, sends, cooling, login, spent>>

\* The new code takes the place of the old one, and is mailed.
Store(s) ==
  /\ sender[s] = "capped"
  /\ codes < MaxCodes
  /\ codes' = codes + 1 /\ code' = codes + 1
  /\ sender' = [sender EXCEPT ![s] = "idle"]
  /\ UNCHANGED <<used, counted, sends, cooling, login, spent>>

\* Redis fails, or the server dies.
SendFails(s) ==
  /\ sender[s] # "idle"
  /\ sender' = [sender EXCEPT ![s] = "idle"]
  /\ UNCHANGED <<code, used, counted, sends, cooling, codes, login, spent>>

\* authenticate_email_otp, with a code ever mailed or with a wrong one (0); an
\* account that is locked is refused at once.
Submit(r, c) ==
  /\ login[r].at = "idle"
  /\ attempts.count < LockLimit
  /\ login' = [login EXCEPT ![r] = [at |-> "checked", code |-> c, left |-> LoginTime]]
  /\ UNCHANGED <<code, used, counted, sending, spent>>

\* The code is compared with the stored one, if there is still one.
Compare(r) ==
  /\ login[r].at = "checked"
  /\ IF code # 0 /\ login[r].code = code
     THEN Goto(r, "matched") /\ UNCHANGED failed
     ELSE Goto(r, "failing") /\ failed' = failed + 1
  /\ UNCHANGED <<code, used, attempts, lost, sending, spent>>

\* consume_code: SET NX of the code's marker; the loser has failed.
Consume(r) ==
  /\ login[r].at = "matched"
  /\ IF used[login[r].code] = 0
     THEN /\ used' = [used EXCEPT ![login[r].code] = CodeTTL]
          /\ Goto(r, "won") /\ UNCHANGED failed
     ELSE Goto(r, "failing") /\ failed' = failed + 1 /\ UNCHANGED used
  /\ UNCHANGED <<code, attempts, lost, sending, spent>>

\* increment_attempts: the first failure places the counter, with its TTL.
FailFirst(r) ==
  /\ login[r].at = "failing"
  /\ IF attempts.count = 0
     THEN attempts' = Placed /\ End(r)
     ELSE Goto(r, "counting") /\ UNCHANGED attempts
  /\ UNCHANGED <<code, used, failed, lost, sending, spent>>

\* A later one increments it.
FailAgain(r) ==
  /\ login[r].at = "counting"
  /\ attempts' = Incr(attempts)
  /\ End(r)
  /\ UNCHANGED <<code, used, failed, lost, sending, spent>>

\* The account is suspended or about to be deleted: 403, and the code is spent.
Refuse(r) ==
  /\ login[r].at = "won"
  /\ End(r)
  /\ UNCHANGED <<code, used, counted, sending, spent>>

\* Mutant: the marker is cleaned up with the other keys.
SucceedAndUnmark(r) ==
  /\ login[r].at = "won"
  /\ code' = 0 /\ attempts' = NoKey /\ failed' = 0 /\ lost' = 0
  /\ used' = [used EXCEPT ![login[r].code] = 0]
  /\ spent' = [spent EXCEPT ![login[r].code] = @ + 1]
  /\ End(r)
  /\ UNCHANGED sending

\* delete_code_and_attempts, in one DEL, and the session is issued.
Succeed(r) ==
  /\ login[r].at = "won"
  /\ code' = 0 /\ attempts' = NoKey /\ failed' = 0 /\ lost' = 0
  /\ spent' = [spent EXCEPT ![login[r].code] = @ + 1]
  /\ End(r)
  /\ UNCHANGED <<used, sending>>

\* Redis fails a login, or the server dies.
LoginFails(r) ==
  /\ login[r].at # "idle"
  /\ IF login[r].at \in {"failing", "counting"}
     THEN lost < MaxFaults /\ lost' = lost + 1 ELSE UNCHANGED lost
  /\ End(r)
  /\ UNCHANGED <<code, used, attempts, failed, sending, spent>>

\* A key with a TTL expires.
Expire ==
  \/ code # 0 /\ code' = 0 /\ UNCHANGED <<counted, sends, cooling>>
  \/ attempts # NoKey /\ attempts.expires
     /\ attempts' = NoKey /\ failed' = 0 /\ lost' = 0 /\ UNCHANGED <<code, sends, cooling>>
  \/ sends # NoKey /\ sends.expires /\ sends' = NoKey /\ UNCHANGED <<code, counted, cooling>>
  \/ cooling /\ cooling' = FALSE /\ UNCHANGED <<code, counted, sends>>

KeyExpires == Expire /\ UNCHANGED <<used, codes, login, sender, spent>>

Less(n) == IF n = 0 THEN 0 ELSE n - 1

\* Mutant: a marker's time runs on when it has expired.
TickPastZero ==
  /\ \A r \in Logins : login[r].at # "idle" => login[r].left > 0
  /\ used' = [c \in Codes |-> used[c] - 1]
  /\ login' = [r \in Logins |-> [login[r] EXCEPT !.left = Less(@)]]
  /\ UNCHANGED <<code, counted, sending, spent>>

\* Time passes, but for no login beyond LoginTime.
Tick ==
  /\ \A r \in Logins : login[r].at # "idle" => login[r].left > 0
  /\ used' = [c \in Codes |-> Less(used[c])]
  /\ login' = [r \in Logins |-> [login[r] EXCEPT !.left = Less(@)]]
  /\ UNCHANGED <<code, counted, sending, spent>>

Next ==
  \/ \E s \in Senders :
       Cool(s) \/ CountFirst(s) \/ CountSend(s) \/ Store(s) \/ SendFails(s)
  \/ \E r \in Logins :
       \/ \E c \in 0..codes : Submit(r, c)
       \/ Compare(r) \/ Consume(r) \/ FailFirst(r) \/ FailAgain(r)
       \/ Refuse(r) \/ Succeed(r) \/ LoginFails(r)
  \/ KeyExpires \/ Tick

Spec == Init /\ [][Next]_vars

-----------------------------------------------------------------------------

Keys == [count : Nat, expires : BOOLEAN]
Places == {"idle", "checked", "matched", "won", "failing", "counting"}

TypeOK ==
  /\ codes \in 0..MaxCodes /\ code \in 0..codes
  /\ used \in [Codes -> 0..CodeTTL] /\ spent \in [Codes -> Nat]
  /\ attempts \in Keys /\ sends \in Keys /\ cooling \in BOOLEAN
  /\ login \in [Logins -> [at : Places, code : 0..codes, left : 0..LoginTime]]
  /\ sender \in [Senders -> {"idle", "cooled", "counting", "capped"}]
  /\ failed \in Nat /\ lost \in 0..MaxFaults

\* "Exactly ONE concurrent caller receives True and may proceed to session
\* issuance", email_otp.py 187-188: a code opens one session at most, although
\* its marker expires, and may while logins that read the code are under way.
SpentOnce == \A c \in Codes : spent[c] <= 1

\* The lock is looked at before a login is compared and counted after it; still,
\* from a success or the counter's expiry to the next, however many codes are
\* requested in between, no more logins fail than the limit and those under way
\* together allow, and those whose failure was never counted.
FailuresBounded == failed <= LockLimit - 1 + Cardinality(Logins) + lost

\* The codes that a login has won and not yet used.
Claimed == {login[r].code : r \in {x \in Logins : login[x].at = "won"}}

Code == INSTANCE OneTimeCode WITH mailed <- codes, claimed <- Claimed, sessions <- spent

\* consume_code as a lock: from the marker to the end of the login one caller holds the code,
\* also when the marker expires under him, and once he has his session nobody gets it again.
ImplementsOneTimeCode == Code!Spec
=============================================================================
