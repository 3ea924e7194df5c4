----------------------------- MODULE OneTimeCode -----------------------------
(***************************************************************************)
(* What sign-in by mailed code promises of a code, without Redis keys,     *)
(* markers, strikes and time: a login may claim a code that was mailed,    *)
(* no two claim one at a time, and who has claimed it opens a session, or  *)
(* gives up.  A code that has opened a session is never claimed again.     *)
(***************************************************************************)
EXTENDS Integers

VARIABLES mailed,    \* codes mailed so far
          claimed,   \* those a login has claimed
          sessions   \* per code, the sessions it has opened

vars == <<mailed, claimed, sessions>>

Init ==
  /\ mailed = 0 /\ claimed = {}
  /\ \A c \in DOMAIN sessions : sessions[c] = 0

Mail ==
  /\ mailed' = mailed + 1
  /\ UNCHANGED <<claimed, sessions>>

Claim(c) ==
  /\ c \notin claimed /\ sessions[c] = 0
  /\ claimed' = claimed \cup {c}
  /\ UNCHANGED <<mailed, sessions>>

Open(c) ==
  /\ c \in claimed
  /\ claimed' = claimed \ {c}
  /\ sessions' = [sessions EXCEPT ![c] = 1]
  /\ UNCHANGED mailed

\* The account is suspended, or the login fails.
GiveUp(c) ==
  /\ c \in claimed
  /\ claimed' = claimed \ {c}
  /\ UNCHANGED <<mailed, sessions>>

Next == Mail \/ \E c \in 1..mailed : Claim(c) \/ Open(c) \/ GiveUp(c)

Spec == Init /\ [][Next]_vars
=============================================================================
