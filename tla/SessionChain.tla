---------------------------- MODULE SessionChain ----------------------------
(***************************************************************************)
(* What rotation promises of the sessions of an account, without tokens,   *)
(* Redis keys and requests: each sign-in starts one session, which is open *)
(* or, while its token is exchanged for the next, in between; and once it  *)
(* is neither, it has ended and is never open again.                       *)
(***************************************************************************)

CONSTANT SignIns

VARIABLES started,   \* the sign-ins there have been
          open,      \* of these, those whose session has a token that is accepted
          between    \* and those whose token is being exchanged

vars == <<started, open, between>>

Init == started = {} /\ open = {} /\ between = {}

Start(s) ==
  /\ s \notin started
  /\ started' = started \cup {s} /\ open' = open \cup {s}
  /\ UNCHANGED between

Exchange(s) ==
  /\ s \in open \ between
  /\ open' = open \ {s} /\ between' = between \cup {s}
  /\ UNCHANGED started

Resume(s) ==
  /\ s \in between \ open
  /\ between' = between \ {s} /\ open' = open \cup {s}
  /\ UNCHANGED started

\* A request that dies takes the session it is exchanging the token of along.
GiveUp(s) ==
  /\ s \in between
  /\ between' = between \ {s}
  /\ UNCHANGED <<started, open>>

\* Logout, a sweep, a refused rotation, expiry.
End(S) ==
  /\ open' = open \ S
  /\ UNCHANGED <<started, between>>

Next ==
  \/ \E s \in SignIns : Start(s) \/ Exchange(s) \/ Resume(s) \/ GiveUp(s)
  \/ \E S \in SUBSET open : End(S)

Spec == Init /\ [][Next]_vars
=============================================================================
