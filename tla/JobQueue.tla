------------------------------ MODULE JobQueue ------------------------------
(***************************************************************************)
(* What the notification queue promises of a job, without Redis lists,     *)
(* channels, gates and messengers: one job is in hand at a time, it comes  *)
(* back as it was or with an attempt more, fewer than RetryCap, and what   *)
(* is closed, or lost by a fault, never comes back.                        *)
(***************************************************************************)
EXTENDS Integers

CONSTANT RetryCap   \* attempts per job

VARIABLES waiting,    \* the jobs in the queue, with the attempts made
          inHand,     \* the job that is handled, if any
          published,  \* how many jobs have been
          closed,     \* jobs with a result
          lost        \* jobs without one

vars == <<waiting, inHand, published, closed, lost>>

Init ==
  /\ waiting = {} /\ inHand = {} /\ published = 0
  /\ closed = {} /\ lost = {}

Publish ==
  /\ published' = published + 1
  /\ waiting' = waiting \cup {[id |-> published', attempts |-> 0]}
  /\ UNCHANGED <<inHand, closed, lost>>

Take ==
  /\ inHand = {}
  /\ \E job \in waiting : inHand' = {job} /\ waiting' = waiting \ {job}
  /\ UNCHANGED <<published, closed, lost>>

\* For later, or for another attempt.
PutBack ==
  /\ \E job \in inHand, more \in {0, 1} :
       /\ more = 1 => job.attempts + more < RetryCap
       /\ waiting' = waiting \cup {[job EXCEPT !.attempts = @ + more]}
  /\ inHand' = {}
  /\ UNCHANGED <<published, closed, lost>>

Close ==
  /\ \E job \in inHand : closed' = closed \cup {job.id}
  /\ inHand' = {}
  /\ UNCHANGED <<waiting, published, lost>>

Lose ==
  /\ \E job \in inHand : lost' = lost \cup {job.id}
  /\ inHand' = {}
  /\ UNCHANGED <<waiting, published, closed>>

Next == Publish \/ Take \/ PutBack \/ Close \/ Lose

Spec == Init /\ [][Next]_vars
=============================================================================
