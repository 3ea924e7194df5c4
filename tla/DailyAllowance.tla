--------------------------- MODULE DailyAllowance ---------------------------
(***************************************************************************)
(* What budget_guard promises its callers, without Redis: a day's spend    *)
(* grows only by calls that were admitted, each by at most its             *)
(* reservation, and a call is admitted only while what is spent plus what  *)
(* is still reserved lies below the cap.                                   *)
(***************************************************************************)
EXTENDS Integers

CONSTANTS Reserve,   \* amount set aside for one call
          CapLimit   \* no effective cap is above it

VARIABLES spent,     \* cost incurred today
          reserved   \* set aside for calls admitted and not finished

vars == <<spent, reserved>>

Init == spent = 0 /\ reserved = 0

Admit ==
  /\ spent + reserved < CapLimit
  /\ reserved' = reserved + Reserve
  /\ UNCHANGED spent

Finish ==
  /\ reserved >= Reserve
  /\ reserved' = reserved - Reserve
  /\ \E cost \in 0..Reserve : spent' = spent + cost

\* UTC midnight: the allowance starts afresh.
NewDay == spent' = 0 /\ reserved' = 0

Next == Admit \/ Finish \/ NewDay

Spec == Init /\ [][Next]_vars
=============================================================================
