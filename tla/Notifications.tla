--------------------------- MODULE Notifications ---------------------------
(***************************************************************************)
(* Notifications of one user, from the queues that publish_notification    *)
(* fills (notifications/service.py) to the messengers, by the drain that   *)
(* the misc worker, a single process, runs every minute (tasks/misc.py).   *)
(* A message leaves the country, so that the drain asks for the consent    *)
(* of module Consent, which the user may revoke meanwhile.                 *)
(*                                                                         *)
(* E-mail is queued and popped like the rest, but goes to verified         *)
(* addresses only, and nothing in the code ever verifies one.              *)
(***************************************************************************)
EXTENDS Consent, Sequences, SequencesExt, FiniteSets

CONSTANTS
  Channel,       \* the channels of what is published, in this order
  High,          \* the jobs of high priority, by their place in it
  RateCap,       \* messages a day, by Telegram
  RetryCap,      \* attempts per job
  PerTick,       \* jobs a drain takes from a queue, at most
  MaxDay         \* bound: days

Channels == <<"telegram", "email">>

ASSUME NotificationsAssumption ==
  /\ Channel \in Seq(Range(Channels)) /\ High \subseteq 1..Len(Channel)
  /\ {RateCap, RetryCap, PerTick, MaxDay} \subseteq Nat \ {0}

VARIABLES
  queue,      \* per channel, its head first; a job with the attempts made
  enabled,    \* the channels the user has opted in to
  day,
  count,      \* today's counter of the daily cap
  drain,      \* the drain's channel, how many jobs it has left to pop there, what the
              \* time was when it began, where it is, and with which job
  published,  \* how many jobs have been
  logged,     \* jobs with a last row in notification_log
  lost,       \* ghost: jobs that a fault took from the drain's hands
  reached,    \* ghost: messages that reached the user today
  doubtful,   \* ghost: of these, those whose answer, or whose count, was lost
  late        \* ghost: messages sent since the consent was revoked

vars == <<consent_vars, queue, enabled, day, count, drain, published, logged,
          lost, reached, doubtful, late>>

\* What only the user and the clock change, and what they do not.
outside == <<consent_vars, enabled, day, published>>
ghosts  == <<lost, reached, doubtful, late>>

Resting == [at |-> "idle", ch |-> 0, left |-> 0, night |-> FALSE,
            job |-> [id |-> 0, attempts |-> 0]]

Handling == {"prefs", "consent", "quiet", "cap", "send", "count", "log", "retry"}

InHand == drain.at \in Handling

Goto(place) == drain' = [drain EXCEPT !.at = place]

Done == drain' = [drain EXCEPT !.at = "pop", !.job = Resting.job]

Push(ch, job) == queue' = [queue EXCEPT ![ch] = <<job>> \o @]

Log(id) == logged' = logged \cup {id} /\ Done

-----------------------------------------------------------------------------

Init ==
  /\ ConsentInit
  /\ queue = [ch \in Range(Channels) |-> <<>>] /\ enabled = Range(Channels)
  /\ day = 1 /\ count = 0 /\ drain = Resting
  /\ published = 0 /\ logged = {}
  /\ lost = {} /\ reached = 0 /\ doubtful = 0 /\ late = 0

Publish ==
  /\ published < Len(Channel)
  /\ published' = published + 1
  /\ Push(Channel[published'], [id |-> published', attempts |-> 0])
  /\ UNCHANGED <<consent_vars, enabled, day, count, drain, logged, ghosts>>

\* The user's preferences.
Toggle(ch) ==
  /\ enabled' = IF ch \in enabled THEN enabled \ {ch} ELSE enabled \cup {ch}
  /\ UNCHANGED <<consent_vars, queue, day, count, drain, published, logged, ghosts>>

\* The counter's key has the date in it.
Midnight ==
  /\ day < MaxDay
  /\ day' = day + 1 /\ count' = 0 /\ reached' = 0 /\ doubtful' = 0
  /\ UNCHANGED <<consent_vars, queue, enabled, drain, published, logged, lost, late>>

ChangeConsent ==
  /\ ConsentNext
  /\ late' = IF consent' THEN 0 ELSE late
  /\ UNCHANGED <<queue, enabled, day, count, drain, published, logged, lost,
                 reached, doubtful>>

-----------------------------------------------------------------------------

\* The beat's drain reads the clock once, which is in the user's quiet hours or not, and
\* the length of the queue once per channel.
Tick ==
  /\ drain.at = "idle"
  /\ \E night \in BOOLEAN : drain' = [Resting EXCEPT !.at = "channel", !.night = night]
  /\ UNCHANGED <<outside, queue, count, logged, ghosts>>

NextChannel ==
  /\ drain.at = "channel"
  /\ IF drain.ch = Len(Channels)
     THEN drain' = Resting
     ELSE LET waiting == Len(queue[Channels[drain.ch + 1]])
          IN  drain' = [drain EXCEPT !.at = "pop", !.ch = @ + 1,
                          !.left = IF waiting < PerTick THEN waiting ELSE PerTick]
  /\ UNCHANGED <<outside, queue, count, logged, ghosts>>

\* The oldest job, at the tail.
Pop ==
  /\ drain.at = "pop"
  /\ LET ch == Channels[drain.ch]
     IN  IF drain.left = 0
         THEN Goto("channel") /\ UNCHANGED queue
         ELSE /\ drain' = [drain EXCEPT !.at = "prefs", !.left = @ - 1,
                                        !.job = Last(queue[ch])]
              /\ queue' = [queue EXCEPT ![ch] = Front(@)]
  /\ UNCHANGED <<outside, count, logged, ghosts>>

ReadPreferences ==
  /\ drain.at = "prefs"
  /\ IF Channels[drain.ch] \in enabled
     THEN Goto("consent") /\ UNCHANGED logged
     ELSE Log(drain.job.id)
  /\ UNCHANGED <<outside, queue, count, ghosts>>

\* Mutant: the consent is asked for at a job's first attempt only.
CheckConsentOnce ==
  /\ drain.at = "consent"
  /\ IF consent \/ drain.job.attempts > 0
     THEN Goto("quiet") /\ UNCHANGED logged
     ELSE Log(drain.job.id)
  /\ UNCHANGED <<outside, queue, count, ghosts>>

CheckConsent ==
  /\ drain.at = "consent"
  /\ IF consent
     THEN Goto("quiet") /\ UNCHANGED logged
     ELSE Log(drain.job.id)
  /\ UNCHANGED <<outside, queue, count, ghosts>>

\* Mutant: the return after the push is missing.
DeferAndGoOn ==
  /\ drain.at = "quiet"
  /\ IF drain.night /\ drain.job.id \notin High
     THEN Push(Channels[drain.ch], drain.job) ELSE UNCHANGED queue
  /\ Goto("cap")
  /\ UNCHANGED <<outside, count, logged, ghosts>>

\* In quiet hours, unless it is of high priority, a job goes back to the head.
Defer ==
  /\ drain.at = "quiet"
  /\ IF drain.night /\ drain.job.id \notin High
     THEN Push(Channels[drain.ch], drain.job) /\ Done
     ELSE Goto("cap") /\ UNCHANGED queue
  /\ UNCHANGED <<outside, count, logged, ghosts>>

\* Mutant: off by one.
CapPassed ==
  /\ drain.at = "cap"
  /\ IF Channels[drain.ch] = "telegram" /\ count <= RateCap
     THEN Goto("send") /\ UNCHANGED logged
     ELSE Log(drain.job.id)
  /\ UNCHANGED <<outside, queue, count, ghosts>>

CheckCap ==
  /\ drain.at = "cap"
  /\ IF Channels[drain.ch] = "telegram" /\ count < RateCap
     THEN Goto("send") /\ UNCHANGED logged
     ELSE Log(drain.job.id)
  /\ UNCHANGED <<outside, queue, count, ghosts>>

\* The messenger's answer: sent; refused for good; or try again, which it may also be
\* after a message that has reached the user, when the answer is late.
Send ==
  /\ drain.at = "send"
  /\ late' = IF consent THEN 0 ELSE late + 1
  /\ \/ Goto("count") /\ reached' = reached + 1 /\ UNCHANGED doubtful
     \/ Goto("log") /\ UNCHANGED <<reached, doubtful>>
     \/ Goto("retry") /\ UNCHANGED <<reached, doubtful>>
     \/ Goto("retry") /\ reached' = reached + 1 /\ doubtful' = doubtful + 1
  /\ UNCHANGED <<outside, queue, count, logged, lost>>

CountSent ==
  /\ drain.at = "count"
  /\ count' = count + 1
  /\ Goto("log")
  /\ UNCHANGED <<outside, queue, logged, ghosts>>

LogResult ==
  /\ drain.at = "log"
  /\ Log(drain.job.id)
  /\ UNCHANGED <<outside, queue, count, ghosts>>

\* Mutant: one attempt too many.
RetryMore ==
  /\ drain.at = "retry"
  /\ IF drain.job.attempts < RetryCap
     THEN /\ Push(Channels[drain.ch], [drain.job EXCEPT !.attempts = @ + 1])
          /\ Done /\ UNCHANGED logged
     ELSE Log(drain.job.id) /\ UNCHANGED queue
  /\ UNCHANGED <<outside, count, ghosts>>

Retry ==
  /\ drain.at = "retry"
  /\ IF drain.job.attempts + 1 < RetryCap
     THEN /\ Push(Channels[drain.ch], [drain.job EXCEPT !.attempts = @ + 1])
          /\ Done /\ UNCHANGED logged
     ELSE Log(drain.job.id) /\ UNCHANGED queue
  /\ UNCHANGED <<outside, count, ghosts>>

\* A database or Redis error ends the job, or the worker dies and takes its drain along.
Fault ==
  /\ drain.at # "idle"
  /\ errors < MaxErrors
  /\ errors' = errors + 1
  /\ lost' = IF InHand THEN lost \cup {drain.job.id} ELSE lost
  /\ doubtful' = IF drain.at = "count" THEN doubtful + 1 ELSE doubtful
  /\ \/ InHand /\ Done
     \/ drain' = Resting
  /\ UNCHANGED <<consent, changes, marks, sending, answered, enabled, day, published,
                 queue, count, logged, reached, late>>

Drain ==
  \/ Tick \/ NextChannel \/ Pop
  \/ ReadPreferences \/ CheckConsent \/ Defer \/ CheckCap
  \/ Send \/ CountSent \/ LogResult \/ Retry

Next ==
  \/ Publish
  \/ \E ch \in Range(Channels) : Toggle(ch)
  \/ Midnight \/ ChangeConsent
  \/ Drain \/ Fault

Spec == Init /\ [][Next]_vars

-----------------------------------------------------------------------------

Entry == [id : 1..published, attempts : 0..RetryCap - 1]

TypeOK ==
  /\ ConsentTypeOK
  /\ \A ch \in Range(Channels) : \A i \in 1..Len(queue[ch]) : queue[ch][i] \in Entry
  /\ enabled \subseteq Range(Channels) /\ day \in 1..MaxDay
  /\ count \in 0..RateCap
  /\ drain = Resting \/ drain \in [at : Handling \cup {"channel", "pop"},
        ch : 0..Len(Channels), left : 0..PerTick, night : BOOLEAN,
        job : Entry \cup {Resting.job}]
  /\ published \in 0..Len(Channel) /\ logged \cup lost \subseteq 1..published

\* The places of the queues that hold a job.
Places(id) ==
  {place \in UNION {{ch} \X DOMAIN queue[ch] : ch \in Range(Channels)} :
     queue[place[1]][place[2]].id = id}

\* "No TTL -- a worker-down window must not lose jobs", service.py 26: a published job is in
\* a queue, in the drain's hands or in the log, in one of them only, whatever is deferred
\* and retried; and each fault loses the job in hand at most.
EveryJobAccounted ==
  /\ \A id \in 1..published :
       Cardinality(Places(id)) + Cardinality({place \in {"hand", "log", "lost"} :
          \/ place = "hand" /\ InHand /\ drain.job.id = id
          \/ place = "log" /\ id \in logged
          \/ place = "lost" /\ id \in lost}) = 1
  /\ Cardinality(lost) <= errors

\* The daily cap, which is read before a message is sent and counted after it: no more
\* messages reach the user in a day, but for those of which no answer came back.
CapHolds == reached <= RateCap + doubtful

\* "No grant => skip + audit, never transmit", tasks/misc.py 103: after a revoke, the one
\* message that has passed the gate may leave, and no other, retried or deferred ones
\* included.
LateBounded == late <= 1

\* The promise of module JobQueue, for the queues of both channels together.
Waiting == UNION {Range(queue[ch]) : ch \in Range(Channels)}

Jobs == INSTANCE JobQueue WITH
  waiting <- Waiting, inHand <- IF InHand THEN {drain.job} ELSE {}, closed <- logged

\* However the drain defers, retries, drops and loses its jobs, it does to each of them
\* what JobQueue allows, one at a time: no attempt beyond RetryCap, and no job that is
\* done with is queued again.
ImplementsJobQueue == Jobs!Spec
=============================================================================
