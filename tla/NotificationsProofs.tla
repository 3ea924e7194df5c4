------------------------- MODULE NotificationsProofs -------------------------
(***************************************************************************)
(* Notifications for any published jobs, limits, days, requests and        *)
(* errors: types, that every job is in one place, the daily cap, and that  *)
(* one message at most is sent after a revoke.                             *)
(*                                                                         *)
(* Kept, Apart and Alone are what a job's one place rests on: it has one,  *)
(* no two in the queues, and of queues, hand, log and losses no two hold   *)
(* it.  Popping is for what the queues hold: the length that the drain has *)
(* read bounds what it pops.                                               *)
(* Counted adds the messages that are sent, but not yet counted, to the    *)
(* day's counter.  Passed says that a job which passed the consent gate is *)
(* the only one that did so since the consent was revoked.                 *)
(***************************************************************************)
EXTENDS Notifications, FiniteSetTheorems, TLAPS

AtQueue == drain.at \in Handling \cup {"pop"}

\* Consent's types; a request under way is for a change that was asked for.
ConsentTyped ==
  /\ ConsentTypeOK
  /\ \A r \in Requests : sending[r].at # "idle" => sending[r].change # 0

\* The types of the drain, without what TypeOK says of the place of its job.
DrainTyped ==
  /\ drain \in [at : Handling \cup {"idle", "channel", "pop"}, ch : 0..Len(Channels),
                left : 0..PerTick, night : BOOLEAN, job : Entry \cup {Resting.job}]
  /\ drain.at = "idle" => drain = Resting
  /\ InHand => drain.job \in Entry

Typed ==
  /\ ConsentTyped /\ DrainTyped
  /\ queue \in [Range(Channels) -> Seq(Entry)]
  /\ enabled \subseteq Range(Channels) /\ day \in 1..MaxDay
  /\ count \in 0..RateCap /\ reached \in Nat /\ doubtful \in Nat /\ late \in Nat
  /\ published \in 0..Len(Channel) /\ logged \cup lost \subseteq 1..published

Popping ==
  AtQueue => drain.ch # 0 /\ drain.left <= Len(queue[Channels[drain.ch]])

Queued == UNION {{queue[ch][i].id : i \in 1..Len(queue[ch])} : ch \in Range(Channels)}

Held == IF InHand THEN {drain.job.id} ELSE {}

Kept == 1..published = Queued \cup Held \cup logged \cup lost

Apart ==
  \A c, d \in Range(Channels) : \A i \in 1..Len(queue[c]), j \in 1..Len(queue[d]) :
    queue[c][i].id = queue[d][j].id => c = d /\ i = j

Alone ==
  /\ Queued \cap Held = {} /\ Queued \cap logged = {} /\ Queued \cap lost = {}
  /\ Held \cap logged = {} /\ Held \cap lost = {} /\ logged \cap lost = {}

FewLost == IsFiniteSet(lost) /\ Cardinality(lost) <= errors

Counted ==
  /\ drain.at \in {"send", "count"} => count < RateCap
  /\ reached <= count + doubtful + IF drain.at = "count" THEN 1 ELSE 0

Passed ==
  /\ consent => late = 0
  /\ late <= IF drain.at \in {"quiet", "cap", "send"} THEN 0 ELSE 1

Inv == Typed /\ Popping /\ Kept /\ Apart /\ Alone /\ FewLost /\ Counted /\ Passed

-----------------------------------------------------------------------------

\* The two channels, and what a queue is after a push or a pop.
LEMMA TwoChannels ==
  /\ Range(Channels) = {"telegram", "email"} /\ Len(Channels) = 2
  /\ \A n \in 1..2 : Channels[n] \in Range(Channels)
  /\ Len(Channel) \in Nat /\ \A n \in 1..Len(Channel) : Channel[n] \in Range(Channels)
<1>1. Range(Channels) = {"telegram", "email"} /\ Len(Channels) = 2
  BY DEF Range, Channels
<1>2. \A n \in 1..2 : Channels[n] \in Range(Channels)
  BY <1>1 DEF Channels
<1> QED
  BY <1>1, <1>2, NotificationsAssumption

LEMMA Pushed ==
  ASSUME NEW S, NEW q \in Seq(S), NEW e \in S
  PROVE  /\ <<e>> \o q \in Seq(S) /\ Len(<<e>> \o q) = Len(q) + 1
         /\ (<<e>> \o q)[1] = e /\ \A i \in 1..Len(q) : (<<e>> \o q)[i + 1] = q[i]
         /\ \A i \in 2..Len(q) + 1 : i - 1 \in 1..Len(q) /\ (<<e>> \o q)[i] = q[i - 1]
OBVIOUS

LEMMA Popped ==
  ASSUME NEW S, NEW q \in Seq(S), Len(q) # 0
  PROVE  /\ Front(q) \in Seq(S) /\ Len(Front(q)) = Len(q) - 1
         /\ \A i \in 1..Len(q) - 1 : Front(q)[i] = q[i]
         /\ Last(q) = q[Len(q)] /\ Last(q) \in S
<1>1. Len(q) \in Nat \ {0} /\ Len(q) \in 1..Len(q)
  OBVIOUS
<1>2. Last(q) = q[Len(q)] /\ Last(q) \in S
  BY <1>1 DEF Last
<1>3. Front(q) = [i \in 1..Len(q) - 1 |-> q[i]]
  BY DEF Front
<1>4. \A i \in 1..Len(q) - 1 : q[i] \in S
  BY <1>1
<1>5. Front(q) \in Seq(S) /\ Len(Front(q)) = Len(q) - 1
  BY <1>1, <1>3, <1>4
<1> QED
  BY <1>2, <1>3, <1>5

-----------------------------------------------------------------------------

\* Consent begins with its types, and keeps them.
LEMMA ConsentInitTyped == ConsentInit => ConsentTyped
<1> SUFFICES ASSUME ConsentInit PROVE ConsentTyped
  OBVIOUS
<1>1. \A r \in Requests : sending[r] = NotSending
  BY DEF ConsentInit
<1>2. NotSending \in [at : {"idle", "mark", "write"}, change : 0..changes]
  BY DEF ConsentInit, NotSending
<1>3. sending \in [Requests -> [at : {"idle", "mark", "write"}, change : 0..changes]]
  BY <1>2 DEF ConsentInit
<1>4. changes \in 0..MaxChanges /\ errors \in 0..MaxErrors
  BY ConsentAssumption DEF ConsentInit
<1> QED
  BY <1>1, <1>3, <1>4 DEF ConsentInit, ConsentTyped, ConsentTypeOK, NotSending

LEMMA ConsentStep == ConsentTyped /\ ConsentNext => ConsentTyped' /\ errors <= errors'
<1> SUFFICES ASSUME ConsentTyped, ConsentNext PROVE ConsentTyped' /\ errors <= errors'
  OBVIOUS
<1> USE ConsentAssumption
<1> DEFINE Request(n) == [at : {"idle", "mark", "write"}, change : 0..n]
<1>a. /\ changes \in 0..MaxChanges /\ changes \in Nat /\ errors \in 0..MaxErrors
      /\ consent \in BOOLEAN /\ answered \in BOOLEAN
      /\ marks \subseteq [grant : BOOLEAN, key : 1..changes]
      /\ sending \in [Requests -> Request(changes)]
      /\ \A r \in Requests : sending[r].at # "idle" => sending[r].change \in 1..changes
  BY DEF ConsentTyped, ConsentTypeOK
<1>b. NotSending \in Request(changes) /\ NotSending.at = "idle"
  BY <1>a DEF NotSending
<1>1. ASSUME NEW r \in Requests, SendChange(r) PROVE ConsentTyped' /\ errors <= errors'
  <2>1. /\ changes' \in {changes, changes + 1} \cap 1..MaxChanges
        /\ sending' = [sending EXCEPT ![r] = [at |-> "mark", change |-> changes']]
        /\ UNCHANGED <<consent, marks, errors>> /\ answered' \in BOOLEAN
    BY <1>1, <1>a DEF SendChange
  <2>2. changes' \in 0..MaxChanges /\ changes' \in Nat /\ changes' # 0 /\ changes <= changes'
    BY <1>a, <2>1
  <2>3. marks \subseteq [grant : BOOLEAN, key : 1..changes']
    BY <1>a, <2>2
  <2>4. Request(changes) \subseteq Request(changes')
    BY <1>a, <2>2
  <2>5. [at |-> "mark", change |-> changes'] \in Request(changes')
    BY <2>2
  <2>6. sending' \in [Requests -> Request(changes')]
    <3> HIDE DEF Request
    <3> QED
      BY <1>a, <2>1, <2>4, <2>5
  <2>7. \A x \in Requests : sending'[x].at # "idle" => sending'[x].change # 0
    BY <1>a, <2>1, <2>2
  <2> QED
    BY <1>a, <2>1, <2>2, <2>3, <2>6, <2>7 DEF ConsentTyped, ConsentTypeOK
<1>2. ASSUME NEW r \in Requests, Mark(r) PROVE ConsentTyped' /\ errors <= errors'
  <2> DEFINE n == sending[r].change
  <2>1. n \in 1..changes
    BY <1>2, <1>a DEF Mark
  <2>2. MarkOf(n) \in [grant : BOOLEAN, key : 1..changes]
    <3>1. (n + 1) \div 2 \in 1..changes
      BY <1>a, <2>1
    <3> QED
      BY <3>1 DEF MarkOf, Grants
  <2>3. [sending[r] EXCEPT !.at = "write"] \in Request(changes)
    BY <1>a
  <2>4. [sending[r] EXCEPT !.at = "write"].change = n
    BY <1>a
  <2>5. \/ /\ sending' = [sending EXCEPT ![r] = NotSending] /\ UNCHANGED <<marks, errors>>
        \/ /\ sending' = [sending EXCEPT ![r] = [sending[r] EXCEPT !.at = "write"]]
           /\ \/ marks' = marks \cup {MarkOf(n)} /\ UNCHANGED errors
              \/ errors < MaxErrors /\ errors' = errors + 1 /\ UNCHANGED marks
    BY <1>2, <1>a DEF Mark
  <2>6. UNCHANGED <<consent, changes>> /\ answered' \in BOOLEAN
    BY <1>2, <1>a DEF Mark
  <2>7. errors' \in 0..MaxErrors /\ errors <= errors'
    BY <1>a, <2>5
  <2>8. marks' \subseteq [grant : BOOLEAN, key : 1..changes]
    BY <1>a, <2>2, <2>5
  <2>9. sending' \in [Requests -> Request(changes)]
    <3> HIDE DEF Request
    <3> QED
      BY <1>a, <1>b, <2>3, <2>5
  <2>10. \A x \in Requests : sending'[x].at # "idle" => sending'[x].change # 0
    BY <1>a, <1>b, <2>1, <2>4, <2>5
  <2> QED
    BY <1>a, <2>6, <2>7, <2>8, <2>9, <2>10 DEF ConsentTyped, ConsentTypeOK
<1>3. ASSUME NEW r \in Requests, WriteConsent(r) \/ FailRequest(r)
      PROVE  ConsentTyped' /\ errors <= errors'
  <2>1. /\ consent' \in BOOLEAN /\ answered' \in BOOLEAN /\ UNCHANGED <<changes, marks>>
        /\ sending' = [sending EXCEPT ![r] = NotSending]
    BY <1>3, <1>a DEF WriteConsent, FailRequest, Grants
  <2>2. errors' \in 0..MaxErrors /\ errors <= errors'
    BY <1>3, <1>a DEF WriteConsent, FailRequest
  <2>3. sending' \in [Requests -> Request(changes)]
    <3> HIDE DEF Request
    <3> QED
      BY <1>a, <1>b, <2>1
  <2>4. \A x \in Requests : sending'[x].at # "idle" => sending'[x].change # 0
    BY <1>a, <1>b, <2>1
  <2> QED
    BY <1>a, <2>1, <2>2, <2>3, <2>4 DEF ConsentTyped, ConsentTypeOK
<1>4. CASE MarkExpires
  BY <1>4, <1>a DEF MarkExpires, ConsentTyped, ConsentTypeOK
<1> QED
  BY <1>1, <1>2, <1>3, <1>4 DEF ConsentNext

-----------------------------------------------------------------------------

\* The drain's steps, by where they lead.
Drains == [at : Handling \cup {"idle", "channel", "pop"}, ch : 0..Len(Channels),
           left : 0..PerTick, night : BOOLEAN, job : Entry \cup {Resting.job}]

LEMMA Placed ==
  ASSUME NEW d \in Drains, NEW p \in Handling \cup {"idle", "channel", "pop"}
  PROVE  /\ [d EXCEPT !.at = p] \in Drains
         /\ [d EXCEPT !.at = p].at = p /\ [d EXCEPT !.at = p].ch = d.ch
         /\ [d EXCEPT !.at = p].left = d.left /\ [d EXCEPT !.at = p].night = d.night
         /\ [d EXCEPT !.at = p].job = d.job
BY DEF Drains

LEMMA Freed ==
  ASSUME NEW d \in Drains
  PROVE  LET f == [d EXCEPT !.at = "pop", !.job = Resting.job]
         IN  f \in Drains /\ f.at = "pop" /\ f.ch = d.ch /\ f.left = d.left
BY DEF Drains

LEMMA Entered ==
  ASSUME NEW d \in Drains, NEW c \in 0..Len(Channels), NEW n \in 0..PerTick
  PROVE  /\ [d EXCEPT !.at = "pop", !.ch = c, !.left = n] \in Drains
         /\ [d EXCEPT !.at = "pop", !.ch = c, !.left = n].at = "pop"
BY DEF Drains

LEMMA RestingDrain == Resting \in Drains /\ Resting.at = "idle"
BY NotificationsAssumption, TwoChannels DEF Drains, Resting

\* While nothing is published, a drain that stays within its type keeps it.
LEMMA DrainKept ==
  ASSUME DrainTyped, UNCHANGED published, drain' \in Drains,
         \/ drain'.at # "idle" \/ drain' = Resting,
         drain'.at \in Handling => drain'.job \in Entry
  PROVE  DrainTyped'
BY DEF DrainTyped, Drains, Entry, InHand, Resting, Handling

LEMMA InitTyped == Init => Typed
<1> SUFFICES ASSUME Init PROVE Typed
  OBVIOUS
<1>1. ConsentTyped
  BY ConsentInitTyped DEF Init
<1>2. DrainTyped
  BY RestingDrain DEF Init, DrainTyped, Drains, InHand, Handling
<1>3. queue \in [Range(Channels) -> Seq(Entry)]
  BY DEF Init
<1>4. /\ enabled \subseteq Range(Channels) /\ day \in 1..MaxDay
      /\ count \in 0..RateCap /\ reached \in Nat /\ doubtful \in Nat /\ late \in Nat
      /\ published \in 0..Len(Channel) /\ logged \cup lost \subseteq 1..published
  BY NotificationsAssumption, TwoChannels DEF Init
<1> QED
  BY <1>1, <1>2, <1>3, <1>4 DEF Typed

\* The queues and the drain in the steps that touch them.
LEMMA QueueDrainTyped ==
  ASSUME Typed, Popping, Drain \/ Fault
  PROVE  queue' \in [Range(Channels) -> Seq(Entry)] /\ DrainTyped'
<1>a. /\ drain \in Drains /\ queue \in [Range(Channels) -> Seq(Entry)] /\ DrainTyped
      /\ (drain.at \in Handling => drain.job \in Entry)
      /\ published \in Nat /\ drain.left \in 0..PerTick
  BY TwoChannels DEF Typed, DrainTyped, Drains, InHand
<1>b. UNCHANGED published
  BY DEF Drain, Tick, NextChannel, Pop, ReadPreferences, CheckConsent, Defer, CheckCap, Send,
         CountSent, LogResult, Retry, Fault, outside
<1>c. AtQueue => drain.ch \in 1..2 /\ Channels[drain.ch] \in Range(Channels)
  BY <1>a, TwoChannels DEF Popping, Drains
\* A step to another place, with the same job.
<1>1. ASSUME NEW p \in Handling \cup {"channel"}, Goto(p), InHand \/ p \notin Handling, queue' = queue
      PROVE  queue' \in [Range(Channels) -> Seq(Entry)] /\ DrainTyped'
  <2>1. drain' \in Drains /\ drain'.at = p /\ drain'.job = drain.job
    BY <1>a, <1>1, Placed DEF Goto
  <2>2. drain'.at # "idle"
    BY <2>1 DEF Handling
  <2>3. drain'.at \in Handling => drain'.job \in Entry
    BY <1>a, <1>1, <2>1 DEF InHand, Handling
  <2> QED
    BY <1>a, <1>b, <1>1, <2>1, <2>2, <2>3, DrainKept
\* The job in hand is put down, and may be pushed.
<1>2. ASSUME Done PROVE DrainTyped'
  <2>1. drain' \in Drains /\ drain'.at = "pop"
    BY <1>a, <1>2, Freed DEF Done
  <2> QED
    BY <1>a, <1>b, <2>1, DrainKept DEF Handling
<1>3. ASSUME InHand, NEW job \in Entry, Push(Channels[drain.ch], job)
      PROVE  queue' \in [Range(Channels) -> Seq(Entry)]
  <2> DEFINE ch == Channels[drain.ch]
  <2>1. ch \in Range(Channels)
    BY <1>c, <1>3 DEF AtQueue, InHand
  <2>2. <<job>> \o queue[ch] \in Seq(Entry)
    BY <1>a, <2>1, Pushed
  <2>3. queue' = [queue EXCEPT ![ch] = <<job>> \o queue[ch]]
    BY <1>3 DEF Push
  <2> HIDE DEF ch
  <2> QED
    BY <1>a, <2>1, <2>2, <2>3
<1>4. CASE Tick
  <2>1. PICK night \in BOOLEAN : drain' = [Resting EXCEPT !.at = "channel", !.night = night]
    BY <1>4 DEF Tick
  <2>2. drain' \in Drains /\ drain'.at = "channel"
    BY <2>1, RestingDrain DEF Drains, Resting
  <2>3. queue' = queue
    BY <1>4 DEF Tick
  <2> QED
    BY <1>a, <1>b, <2>2, <2>3, DrainKept DEF Handling
<1>5. CASE NextChannel
  <2>1. CASE drain' = Resting
    BY <1>a, <1>b, <1>5, <2>1, RestingDrain, DrainKept DEF NextChannel, Handling
  <2>2. CASE drain.ch # Len(Channels)
    <3> DEFINE c == drain.ch + 1
               w == Len(queue[Channels[c]])
               n == IF w < PerTick THEN w ELSE PerTick
    <3>1. drain' = [drain EXCEPT !.at = "pop", !.ch = c, !.left = n]
      BY <1>5, <2>2 DEF NextChannel
    <3>2. c \in 1..2
      BY <1>a, <2>2, TwoChannels DEF Drains
    <3>3. w \in Nat
      BY <1>a, <3>2, TwoChannels
    <3>4. n \in 0..PerTick
      <4> HIDE DEF w
      <4> QED
        BY <3>3, NotificationsAssumption
    <3> HIDE DEF n
    <3>5. drain' \in Drains /\ drain'.at = "pop"
      <4> HIDE DEF c
      <4>1. c \in 0..Len(Channels)
        BY <3>2, TwoChannels
      <4> QED
        BY <1>a, <3>1, <3>4, <4>1, Entered
    <3> QED
      BY <1>a, <1>b, <1>5, <3>5, DrainKept DEF NextChannel, Handling
  <2> QED
    BY <1>5, <2>1, <2>2 DEF NextChannel
<1>6. CASE Pop
  <2> DEFINE ch == Channels[drain.ch]
  <2>1. CASE drain.left = 0
    BY <1>1, <1>6, <2>1 DEF Pop, InHand, Handling
  <2>2. CASE drain.left # 0
    <3>1. /\ drain' = [drain EXCEPT !.at = "prefs", !.left = @ - 1, !.job = Last(queue[ch])]
          /\ queue' = [queue EXCEPT ![ch] = Front(queue[ch])]
      BY <1>6, <2>2 DEF Pop
    <3>2. ch \in Range(Channels) /\ Len(queue[ch]) # 0
      BY <1>6, <1>a, <1>c, <2>2 DEF Pop, Popping, AtQueue
    <3>3. Front(queue[ch]) \in Seq(Entry) /\ Last(queue[ch]) \in Entry
      BY <1>a, <3>2, Popped
    <3> HIDE DEF ch
    <3>4. queue' \in [Range(Channels) -> Seq(Entry)]
      BY <1>a, <3>1, <3>2, <3>3
    <3>5. drain.left - 1 \in 0..PerTick
      BY <1>a, <2>2, NotificationsAssumption
    <3>6. drain' \in Drains /\ drain'.at = "prefs" /\ drain'.job = Last(queue[ch])
      BY <1>a, <3>1, <3>3, <3>5 DEF Drains, Handling
    <3> QED
      BY <1>a, <1>b, <3>3, <3>4, <3>6, DrainKept
  <2> QED
    BY <2>1, <2>2
<1>7. CASE ReadPreferences \/ CheckConsent \/ CheckCap \/ Send \/ CountSent \/ LogResult
  <2>1. queue' = queue /\ InHand
    BY <1>7 DEF ReadPreferences, CheckConsent, CheckCap, Send, CountSent, LogResult, InHand, Handling
  <2>2. Done \/ \E p \in Handling : Goto(p)
    BY <1>7 DEF ReadPreferences, CheckConsent, CheckCap, Send, CountSent, LogResult, Log, Handling
  <2> QED
    BY <1>a, <1>1, <1>2, <2>1, <2>2
<1>8. CASE Defer
  <2>1. InHand /\ drain.job \in Entry
    BY <1>a, <1>8 DEF Defer, InHand, Handling
  <2>2. CASE Push(Channels[drain.ch], drain.job) /\ Done
    BY <1>2, <1>3, <2>1, <2>2
  <2>3. CASE Goto("cap") /\ UNCHANGED queue
    BY <1>1, <2>1, <2>3 DEF Handling
  <2> QED
    BY <1>8, <2>2, <2>3 DEF Defer
<1>9. CASE Retry
  <2>1. InHand /\ drain.job \in Entry
    BY <1>a, <1>9 DEF Retry, InHand, Handling
  <2>2. CASE Log(drain.job.id) /\ UNCHANGED queue
    BY <1>a, <1>2, <2>2 DEF Log
  <2>3. CASE drain.job.attempts + 1 < RetryCap /\ Done
             /\ Push(Channels[drain.ch], [drain.job EXCEPT !.attempts = @ + 1])
    <3>1. [drain.job EXCEPT !.attempts = @ + 1] \in Entry
      BY <2>1, <2>3, NotificationsAssumption DEF Entry
    <3> QED
      BY <1>2, <1>3, <2>1, <2>3, <3>1
  <2> QED
    BY <1>9, <2>2, <2>3 DEF Retry
<1>10. CASE Fault
  <2>1. queue' = queue /\ (Done \/ drain' = Resting)
    BY <1>10 DEF Fault
  <2> QED
    BY <1>a, <1>b, <1>2, <2>1, RestingDrain, DrainKept DEF Handling
<1> QED
  BY <1>4, <1>5, <1>6, <1>7, <1>8, <1>9, <1>10 DEF Drain

LEMMA TypedStep ==
  ASSUME Typed, Popping, Counted, Next
  PROVE  Typed'
<1>a. /\ ConsentTyped /\ DrainTyped /\ drain \in Drains
      /\ queue \in [Range(Channels) -> Seq(Entry)]
      /\ enabled \subseteq Range(Channels) /\ day \in 1..MaxDay
      /\ count \in 0..RateCap /\ reached \in Nat /\ doubtful \in Nat /\ late \in Nat
      /\ published \in 0..Len(Channel) /\ logged \cup lost \subseteq 1..published
      /\ RateCap \in Nat /\ MaxDay \in Nat /\ Len(Channel) \in Nat
  BY NotificationsAssumption, TwoChannels DEF Typed, DrainTyped, Drains
<1>1. CASE Publish
  <2> DEFINE ch == Channel[published']
             job == [id |-> published', attempts |-> 0]
  <2>1. /\ published' = published + 1 /\ published' \in 1..Len(Channel)
        /\ queue' = [queue EXCEPT ![ch] = <<job>> \o queue[ch]]
        /\ UNCHANGED <<consent_vars, enabled, day, count, drain, logged, ghosts>>
    BY <1>a, <1>1 DEF Publish, Push
  <2>2. Entry \subseteq Entry' /\ job \in Entry'
    BY <1>a, <2>1, NotificationsAssumption DEF Entry
  <2>3. ch \in Range(Channels)
    BY <2>1, TwoChannels
  <2> HIDE DEF ch, job
  <2>4. \A c \in Range(Channels) : queue[c] \in Seq(Entry')
    BY <1>a, <2>2
  <2>5. <<job>> \o queue[ch] \in Seq(Entry')
    BY <2>2, <2>3, <2>4, Pushed
  <2>6. queue' \in [Range(Channels) -> Seq(Entry')]
    BY <1>a, <2>1, <2>3, <2>4, <2>5
  <2>7. drain' \in [at : Handling \cup {"idle", "channel", "pop"}, ch : 0..Len(Channels),
                    left : 0..PerTick, night : BOOLEAN, job : Entry' \cup {Resting.job}]
    <3>1. drain \in [at : Handling \cup {"idle", "channel", "pop"}, ch : 0..Len(Channels),
                     left : 0..PerTick, night : BOOLEAN, job : Entry \cup {Resting.job}]
      BY <1>a DEF Drains
    <3>2. drain' = drain
      BY <2>1
    <3> QED
      BY <2>2, <3>1, <3>2
  <2>8. DrainTyped'
    BY <1>a, <2>1, <2>2, <2>7 DEF DrainTyped, InHand
  <2>9. ConsentTyped'
    BY <1>a, <2>1 DEF ConsentTyped, ConsentTypeOK, consent_vars
  <2>10. logged' \cup lost' \subseteq 1..published'
    BY <1>a, <2>1 DEF ghosts
  <2> QED
    BY <1>a, <2>1, <2>6, <2>8, <2>9, <2>10 DEF Typed, ghosts
<1>2. CASE \E ch \in Range(Channels) : Toggle(ch)
  <2>1. /\ enabled' \subseteq Range(Channels)
        /\ UNCHANGED <<consent_vars, queue, day, count, drain, published, logged, ghosts>>
    BY <1>a, <1>2 DEF Toggle
  <2>2. ConsentTyped' /\ DrainTyped'
    BY <1>a, <2>1 DEF ConsentTyped, ConsentTypeOK, consent_vars, DrainTyped, Entry, InHand
  <2> QED
    BY <1>a, <2>1, <2>2 DEF Typed, ghosts, Entry
<1>3. CASE Midnight
  <2>1. ConsentTyped' /\ DrainTyped'
    BY <1>a, <1>3
       DEF Midnight, ConsentTyped, ConsentTypeOK, consent_vars, DrainTyped, Entry, InHand
  <2>2. /\ day' \in 1..MaxDay /\ count' \in 0..RateCap /\ reached' \in Nat /\ doubtful' \in Nat
        /\ UNCHANGED <<queue, enabled, published, logged, lost, late>>
    BY <1>a, <1>3 DEF Midnight
  <2> QED
    BY <1>a, <2>1, <2>2 DEF Typed, Entry
<1>4. CASE ChangeConsent
  <2>1. ConsentTyped' /\ DrainTyped'
    BY <1>a, <1>4, ConsentStep DEF ChangeConsent, DrainTyped, Entry, InHand
  <2> QED
    BY <1>a, <1>4, <2>1 DEF ChangeConsent, Typed, Entry
<1>5. CASE Drain \/ Fault
  <2>1. queue' \in [Range(Channels) -> Seq(Entry)] /\ DrainTyped'
    BY <1>5, QueueDrainTyped
  <2>2. ConsentTyped'
    <3>1. CASE Drain
      BY <1>a, <3>1
         DEF Drain, Tick, NextChannel, Pop, ReadPreferences, CheckConsent, Defer, CheckCap, Send,
             CountSent, LogResult, Retry, outside, consent_vars, ConsentTyped, ConsentTypeOK
    <3>2. CASE Fault
      BY <1>a, <3>2, ConsentAssumption DEF Fault, ConsentTyped, ConsentTypeOK
    <3> QED
      BY <1>5, <3>1, <3>2
  <2>3. UNCHANGED <<enabled, day, published>>
    BY <1>5 DEF Drain, Tick, NextChannel, Pop, ReadPreferences, CheckConsent, Defer, CheckCap, Send,
             CountSent, LogResult, Retry, Fault, outside
  <2>4. count' \in 0..RateCap
    <3>1. CASE CountSent
      BY <1>a, <3>1 DEF CountSent, Counted
    <3>2. CASE ~CountSent
      BY <1>a, <1>5, <3>2
         DEF Drain, Tick, NextChannel, Pop, ReadPreferences, CheckConsent, Defer, CheckCap, Send,
             LogResult, Retry, Fault
    <3> QED
      BY <3>1, <3>2
  <2>5. reached' \in Nat /\ doubtful' \in Nat /\ late' \in Nat
    <3>1. CASE Send
      BY <1>a, <3>1 DEF Send
    <3>2. CASE Fault
      BY <1>a, <3>2 DEF Fault
    <3>3. CASE ~Send /\ ~Fault
      BY <1>a, <1>5, <3>3
         DEF Drain, Tick, NextChannel, Pop, ReadPreferences, CheckConsent, Defer, CheckCap, CountSent,
             LogResult, Retry, ghosts
    <3> QED
      BY <3>1, <3>2, <3>3
  <2>6. InHand => drain.job.id \in 1..published
    BY <1>a DEF DrainTyped, Entry
  <2>7. logged' \cup lost' \subseteq 1..published
    <3>1. \/ logged' \cup lost' = logged \cup lost
          \/ InHand /\ logged' \cup lost' = logged \cup lost \cup {drain.job.id}
      BY <1>5 DEF Drain, Tick, NextChannel, Pop, ReadPreferences, CheckConsent, Defer, CheckCap,
             Send, CountSent, LogResult, Retry, Fault, ghosts, Log, InHand, Handling
    <3> QED
      BY <1>a, <2>6, <3>1
  <2> QED
    BY <1>a, <2>1, <2>2, <2>3, <2>4, <2>5, <2>7 DEF Typed, Entry
<1> QED
  BY <1>1, <1>2, <1>3, <1>4, <1>5 DEF Next

-----------------------------------------------------------------------------

\* The length that was read, less what was popped, is there.
LEMMA PoppingStep ==
  ASSUME Typed, Popping, Next
  PROVE  Popping'
<1>a. /\ drain \in Drains /\ queue \in [Range(Channels) -> Seq(Entry)]
      /\ drain.left \in 0..PerTick /\ PerTick \in Nat
      /\ AtQueue => drain.ch \in 1..2 /\ Channels[drain.ch] \in Range(Channels)
  BY NotificationsAssumption, TwoChannels DEF Typed, DrainTyped, Drains, Popping
<1>b. \A c \in Range(Channels) : Len(queue[c]) \in Nat
  BY <1>a
\* The queues do not shrink, and the drain stays or leaves.
<1>1. ASSUME \A c \in Range(Channels) : Len(queue'[c]) \in Nat /\ Len(queue[c]) <= Len(queue'[c]),
             \/ AtQueue /\ drain'.ch = drain.ch /\ drain'.left = drain.left
             \/ ~AtQueue'
      PROVE  Popping'
  <2> SUFFICES ASSUME AtQueue' PROVE drain'.ch # 0 /\ drain'.left <= Len(queue'[Channels[drain'.ch]])
    BY DEF Popping
  <2>1. drain.ch # 0 /\ drain.left <= Len(queue[Channels[drain.ch]])
    BY <1>1 DEF Popping
  <2> QED
    BY <1>a, <1>b, <1>1, <2>1
<1>2. ASSUME NEW ch \in Range(Channels), NEW job, Push(ch, job)
      PROVE  \A c \in Range(Channels) : Len(queue'[c]) \in Nat /\ Len(queue[c]) <= Len(queue'[c])
  <2>1. queue' = [queue EXCEPT ![ch] = <<job>> \o queue[ch]]
    BY <1>2 DEF Push
  <2>2. queue[ch] \in Seq(Entry \cup {job})
    BY <1>a
  <2>3. Len(<<job>> \o queue[ch]) = Len(queue[ch]) + 1
    BY <2>2, Pushed
  <2> QED
    BY <1>a, <1>b, <2>1, <2>3
<1>3. ASSUME NEW p, Goto(p) PROVE drain'.at = p /\ drain'.ch = drain.ch /\ drain'.left = drain.left
  BY <1>a, <1>3 DEF Goto, Drains
<1>4. ASSUME Done PROVE drain'.at = "pop" /\ drain'.ch = drain.ch /\ drain'.left = drain.left
  BY <1>a, <1>4, Freed DEF Done
<1>5. CASE Publish
  <2>1. drain' = drain /\ published' = published + 1 /\ published < Len(Channel)
    BY <1>5 DEF Publish
  <2>2. Channel[published'] \in Range(Channels)
    BY <2>1, TwoChannels DEF Typed
  <2>3. Push(Channel[published'], [id |-> published', attempts |-> 0])
    BY <1>5 DEF Publish
  <2>4. \A c \in Range(Channels) : Len(queue'[c]) \in Nat /\ Len(queue[c]) <= Len(queue'[c])
    BY <1>2, <2>2, <2>3
  <2> QED
    BY <1>1, <2>1, <2>4 DEF AtQueue
<1>6. CASE (\E ch \in Range(Channels) : Toggle(ch)) \/ Midnight \/ ChangeConsent
  BY <1>6 DEF Toggle, Midnight, ChangeConsent, Popping, AtQueue
<1>7. CASE Tick
  <2>1. drain'.at = "channel"
    BY <1>7 DEF Tick, Resting
  <2> QED
    BY <2>1 DEF Popping, AtQueue, Handling
<1>8. CASE NextChannel
  <2>1. CASE drain' = Resting
    BY <2>1 DEF Popping, AtQueue, Handling, Resting
  <2>2. CASE drain.ch # Len(Channels)
    <3> DEFINE c == drain.ch + 1
               w == Len(queue[Channels[c]])
               n == IF w < PerTick THEN w ELSE PerTick
    <3>1. drain' = [drain EXCEPT !.at = "pop", !.ch = c, !.left = n] /\ queue' = queue
      BY <1>8, <2>2 DEF NextChannel
    <3>2. c \in 1..2
      BY <1>a, <2>2, TwoChannels DEF Drains
    <3>3. w \in Nat
      BY <1>b, <3>2, TwoChannels
    <3>4. n \in 0..PerTick /\ n <= w
      <4> HIDE DEF w
      <4> QED
        BY <1>a, <3>3
    <3> HIDE DEF n, c
    <3>5. drain'.ch = c /\ drain'.left = n
      BY <1>a, <3>1 DEF Drains
    <3> QED
      BY <3>1, <3>2, <3>4, <3>5 DEF Popping
  <2> QED
    BY <1>8, <2>1, <2>2 DEF NextChannel
<1>9. CASE Pop
  <2> DEFINE ch == Channels[drain.ch]
  <2>1. CASE drain.left = 0
    BY <1>3, <1>9, <2>1 DEF Pop, Popping, AtQueue, Handling
  <2>2. CASE drain.left # 0
    <3>1. /\ drain' = [drain EXCEPT !.at = "prefs", !.left = @ - 1, !.job = Last(queue[ch])]
          /\ queue' = [queue EXCEPT ![ch] = Front(queue[ch])]
      BY <1>9, <2>2 DEF Pop
    <3>2. ch \in Range(Channels) /\ drain.left <= Len(queue[ch]) /\ drain.ch # 0
      BY <1>9, <1>a DEF Pop, Popping, AtQueue
    <3>3. Len(Front(queue[ch])) = Len(queue[ch]) - 1
      <4> HIDE DEF ch
      <4>1. queue[ch] \in Seq(Entry) /\ Len(queue[ch]) \in Nat
        BY <1>a, <1>b, <3>2
      <4>2. Len(queue[ch]) # 0
        BY <1>a, <2>2, <3>2, <4>1
      <4> QED
        BY <4>1, <4>2, Popped
    <3>4. drain'.ch = drain.ch /\ drain'.left = drain.left - 1
      BY <1>a, <3>1 DEF Drains
    <3>5. Len(queue'[ch]) = Len(queue[ch]) - 1
      <4> HIDE DEF ch
      <4> QED
        BY <1>a, <3>1, <3>2, <3>3
    <3>6. Len(queue[ch]) \in Nat
      BY <1>b, <3>2
    <3>7. drain'.left <= Len(queue'[ch])
      <4> HIDE DEF ch
      <4> QED
        BY <1>a, <3>2, <3>4, <3>5, <3>6
    <3> QED
      BY <3>2, <3>4, <3>7 DEF Popping
  <2> QED
    BY <2>1, <2>2
<1>10. CASE \/ ReadPreferences \/ CheckConsent \/ CheckCap \/ Send \/ CountSent \/ LogResult
            \/ Defer \/ Retry
  <2>1. AtQueue
    BY <1>10 DEF ReadPreferences, CheckConsent, CheckCap, Send, CountSent, LogResult, Defer, Retry,
                 AtQueue, Handling
  <2>2. Done \/ \E p : Goto(p)
    BY <1>10 DEF ReadPreferences, CheckConsent, CheckCap, Send, CountSent, LogResult, Defer, Retry, Log
  <2>3. queue' = queue \/ \E job : Push(Channels[drain.ch], job)
    BY <1>10 DEF ReadPreferences, CheckConsent, CheckCap, Send, CountSent, LogResult, Defer, Retry
  <2>4. \A c \in Range(Channels) : Len(queue'[c]) \in Nat /\ Len(queue[c]) <= Len(queue'[c])
    BY <1>a, <1>b, <1>2, <2>1, <2>3
  <2> QED
    BY <1>1, <1>3, <1>4, <2>1, <2>2, <2>4
<1>11. CASE Fault
  <2>1. queue' = queue
    BY <1>11 DEF Fault
  <2>2. CASE InHand /\ Done
    BY <1>b, <1>1, <1>4, <2>1, <2>2 DEF AtQueue, InHand
  <2>3. CASE drain' = Resting
    BY <2>3 DEF Popping, AtQueue, Handling, Resting
  <2> QED
    BY <1>11, <2>2, <2>3 DEF Fault
<1> QED
  BY <1>5, <1>6, <1>7, <1>8, <1>9, <1>10, <1>11 DEF Next, Drain

-----------------------------------------------------------------------------

\* What a step does to the places of jobs: nothing, or it moves one job.
Rests ==
  /\ UNCHANGED <<queue, logged, lost, published>> /\ errors' \in Nat /\ errors <= errors'
  /\ InHand' <=> InHand
  /\ InHand => drain'.job = drain.job

Enters(ch) ==
  /\ Push(ch, [id |-> published + 1, attempts |-> 0])
  /\ published' = published + 1
  /\ UNCHANGED <<drain, logged, lost, errors>>

TakenUp(ch) ==
  /\ ~InHand /\ InHand'
  /\ Len(queue[ch]) # 0 /\ drain'.job = Last(queue[ch])
  /\ queue' = [queue EXCEPT ![ch] = Front(@)]
  /\ UNCHANGED <<logged, lost, published, errors>>

PutBack(ch, job) ==
  /\ InHand /\ ~InHand' /\ job.id = drain.job.id
  /\ \/ job.attempts = drain.job.attempts
     \/ job.attempts = drain.job.attempts + 1 /\ job.attempts < RetryCap
  /\ Push(ch, job)
  /\ UNCHANGED <<logged, lost, published, errors>>

Closed ==
  /\ InHand /\ ~InHand' /\ logged' = logged \cup {drain.job.id}
  /\ UNCHANGED <<queue, lost, published, errors>>

TakenAway ==
  /\ InHand /\ ~InHand' /\ lost' = lost \cup {drain.job.id} /\ errors' = errors + 1
  /\ UNCHANGED <<queue, logged, published>>

LEMMA Moves ==
  ASSUME Typed, Popping, [Next]_vars
  PROVE  \/ Rests \/ Closed \/ TakenAway
         \/ \E ch \in Range(Channels) :
              Enters(ch) \/ TakenUp(ch) \/ \E job \in Entry : PutBack(ch, job)
<1>a. /\ drain \in Drains /\ errors \in Nat
      /\ AtQueue => Channels[drain.ch] \in Range(Channels)
      /\ InHand => drain.job \in Entry
  BY TwoChannels, ConsentAssumption
     DEF Typed, DrainTyped, Drains, Popping, ConsentTyped, ConsentTypeOK
<1>b. ~(Resting.at \in Handling) /\ ~("pop" \in Handling) /\ ~("channel" \in Handling)
  BY DEF Resting, Handling
<1>1. ASSUME NEW p, Goto(p) PROVE drain'.at = p /\ drain'.job = drain.job
  BY <1>a, <1>1 DEF Goto, Drains
<1>2. ASSUME Done PROVE ~InHand'
  <2>1. drain'.at = "pop"
    BY <1>a, <1>2, Freed DEF Done
  <2> QED
    BY <1>b, <2>1 DEF InHand
<1>3. CASE Publish
  <2>1. published < Len(Channel) /\ published \in Nat
    BY <1>3, TwoChannels DEF Publish, Typed
  <2>2. Channel[published + 1] \in Range(Channels)
    BY <2>1, TwoChannels
  <2> QED
    BY <1>3, <2>2 DEF Publish, Enters, consent_vars, ghosts
<1>4. CASE (\E ch \in Range(Channels) : Toggle(ch)) \/ Midnight
  BY <1>a, <1>4 DEF Toggle, Midnight, Rests, InHand, consent_vars, ghosts
<1>5. CASE ChangeConsent
  <2>1. errors' \in Nat /\ errors <= errors'
    BY <1>5, ConsentStep, ConsentAssumption DEF ChangeConsent, Typed, ConsentTyped, ConsentTypeOK
  <2> QED
    BY <1>5, <2>1 DEF ChangeConsent, Rests, InHand
<1>6. CASE Tick \/ NextChannel
  <2>1. ~InHand
    BY <1>b, <1>6 DEF Tick, NextChannel, InHand, Handling
  <2>2. drain'.at \in {"channel", "idle", "pop"}
    <3>1. CASE Tick
      BY <3>1 DEF Tick, Resting
    <3>2. CASE NextChannel
      <4>1. CASE drain' = Resting
        BY <4>1 DEF Resting
      <4>2. CASE drain.ch # Len(Channels)
        <5>1. PICK c, n : drain' = [drain EXCEPT !.at = "pop", !.ch = c, !.left = n]
          BY <3>2, <4>2 DEF NextChannel
        <5> QED
          BY <1>a, <5>1 DEF Drains
      <4> QED
        BY <3>2, <4>1, <4>2 DEF NextChannel
    <3> QED
      BY <1>6, <3>1, <3>2
  <2>3. ~InHand'
    BY <2>2 DEF InHand, Handling
  <2>4. UNCHANGED <<queue, logged, lost, published, errors>>
    BY <1>6 DEF Tick, NextChannel, outside, consent_vars, ghosts
  <2> QED
    BY <1>a, <2>1, <2>3, <2>4 DEF Rests
<1>7. CASE Pop
  <2>1. ~InHand
    BY <1>7 DEF Pop, InHand, Handling
  <2>2. UNCHANGED <<logged, lost, published, errors>>
    BY <1>7 DEF Pop, outside, consent_vars, ghosts
  <2>3. CASE drain.left = 0
    <3>1. Goto("channel") /\ queue' = queue
      BY <1>7, <2>3 DEF Pop
    <3>2. ~InHand'
      BY <1>1, <1>b, <3>1 DEF InHand
    <3> QED
      BY <1>a, <2>1, <2>2, <3>1, <3>2 DEF Rests
  <2>4. CASE drain.left # 0
    <3> DEFINE ch == Channels[drain.ch]
    <3>1. /\ drain' = [drain EXCEPT !.at = "prefs", !.left = @ - 1, !.job = Last(queue[ch])]
          /\ queue' = [queue EXCEPT ![ch] = Front(@)]
      BY <1>7, <2>4 DEF Pop
    <3>2. ch \in Range(Channels) /\ drain.left <= Len(queue[ch])
      BY <1>7, <1>a DEF Pop, Popping, AtQueue
    <3>3. Len(queue[ch]) \in Nat /\ drain.left \in Nat
      <4> HIDE DEF ch
      <4> QED
        BY <1>a, <3>2, NotificationsAssumption DEF Typed, Drains
    <3>4. Len(queue[ch]) # 0
      <4> HIDE DEF ch
      <4> QED
        BY <2>4, <3>2, <3>3
    <3>5. drain'.at = "prefs" /\ drain'.job = Last(queue[ch])
      BY <1>a, <3>1 DEF Drains
    <3>6. InHand'
      BY <3>5 DEF InHand, Handling
    <3> HIDE DEF ch
    <3>7. TakenUp(ch)
      BY <2>1, <2>2, <3>1, <3>4, <3>5, <3>6 DEF TakenUp
    <3> QED
      BY <3>2, <3>7
  <2> QED
    BY <2>3, <2>4
<1>8. ASSUME NEW p \in Handling, Goto(p), InHand, UNCHANGED <<queue, logged, lost, published, errors>>
      PROVE  Rests
  <2>1. InHand'
    BY <1>1, <1>8 DEF InHand
  <2> QED
    BY <1>1, <1>8, <2>1, <1>a DEF Rests
<1>9. ASSUME Log(drain.job.id), InHand, UNCHANGED <<queue, lost, published, errors>>
      PROVE  Closed
  BY <1>2, <1>9 DEF Log, Closed
<1>10. CASE ReadPreferences \/ CheckConsent \/ CheckCap \/ Send \/ CountSent \/ LogResult
  <2>1. UNCHANGED <<queue, lost, published, errors>> /\ InHand
    BY <1>10 DEF ReadPreferences, CheckConsent, CheckCap, Send, CountSent, LogResult, outside,
                 consent_vars, ghosts, InHand, Handling
  <2>2. Log(drain.job.id) \/ (logged' = logged /\ \E p \in Handling : Goto(p))
    BY <1>10 DEF ReadPreferences, CheckConsent, CheckCap, Send, CountSent, LogResult, Handling
  <2> QED
    BY <1>8, <1>9, <2>1, <2>2
<1>11. CASE Defer
  <2>1. UNCHANGED <<logged, lost, published, errors>> /\ InHand
    BY <1>11 DEF Defer, outside, consent_vars, ghosts, InHand, Handling
  <2>2. Channels[drain.ch] \in Range(Channels) /\ drain.job \in Entry
    BY <1>a, <2>1 DEF AtQueue, InHand
  <2>3. CASE Push(Channels[drain.ch], drain.job) /\ Done
    BY <1>2, <2>1, <2>2, <2>3 DEF PutBack
  <2>4. CASE Goto("cap") /\ UNCHANGED queue
    BY <1>8, <2>1, <2>4 DEF Handling
  <2> QED
    BY <1>11, <2>3, <2>4 DEF Defer
<1>12. CASE Retry
  <2>1. UNCHANGED <<lost, published, errors>> /\ InHand
    BY <1>12 DEF Retry, outside, consent_vars, ghosts, InHand, Handling
  <2>2. Channels[drain.ch] \in Range(Channels) /\ drain.job \in Entry
    BY <1>a, <2>1 DEF AtQueue, InHand
  <2>3. CASE Log(drain.job.id) /\ UNCHANGED queue
    BY <1>9, <2>1, <2>3
  <2>4. CASE /\ drain.job.attempts + 1 < RetryCap /\ Done /\ UNCHANGED logged
             /\ Push(Channels[drain.ch], [drain.job EXCEPT !.attempts = @ + 1])
    <3>1. /\ [drain.job EXCEPT !.attempts = @ + 1] \in Entry
          /\ [drain.job EXCEPT !.attempts = @ + 1].id = drain.job.id
          /\ [drain.job EXCEPT !.attempts = @ + 1].attempts = drain.job.attempts + 1
      BY <2>2, <2>4, NotificationsAssumption DEF Entry
    <3>2. PutBack(Channels[drain.ch], [drain.job EXCEPT !.attempts = @ + 1])
      BY <1>2, <2>1, <2>4, <3>1 DEF PutBack
    <3> QED
      BY <2>2, <3>1, <3>2
  <2> QED
    BY <1>12, <2>3, <2>4 DEF Retry
<1>13. CASE Fault
  <2>1. ~InHand'
    BY <1>2, <1>13, <1>b DEF Fault, InHand
  <2>2. UNCHANGED <<queue, logged, published>> /\ errors' = errors + 1
    BY <1>13 DEF Fault
  <2>3. CASE InHand
    BY <1>13, <2>1, <2>2, <2>3 DEF Fault, TakenAway
  <2>4. CASE ~InHand
    BY <1>13, <1>a, <2>1, <2>2, <2>4 DEF Fault, Rests
  <2> QED
    BY <2>3, <2>4
<1>14. CASE UNCHANGED vars
  BY <1>a, <1>14 DEF vars, consent_vars, Rests, InHand
<1> QED
  BY <1>3, <1>4, <1>5, <1>6, <1>7, <1>10, <1>11, <1>12, <1>13, <1>14 DEF Next, Drain

-----------------------------------------------------------------------------

\* A push adds the job it pushes to what is queued, and nothing else.
LEMMA PushQueued ==
  ASSUME Typed, NEW ch \in Range(Channels), NEW job, Push(ch, job)
  PROVE  /\ Queued' = Queued \cup {job.id} /\ Waiting' = Waiting \cup {job}
         /\ Apart /\ job.id \notin Queued => Apart'
<1>1. /\ queue \in [Range(Channels) -> Seq(Entry)]
      /\ queue' = [queue EXCEPT ![ch] = <<job>> \o queue[ch]]
  BY DEF Typed, Push
<1>2. queue[ch] \in Seq(Entry \cup {job})
  BY <1>1
<1>3. /\ Len(queue'[ch]) = Len(queue[ch]) + 1 /\ queue'[ch][1] = job
      /\ \A i \in 1..Len(queue[ch]) : queue'[ch][i + 1] = queue[ch][i]
      /\ \A i \in 2..Len(queue[ch]) + 1 :
           i - 1 \in 1..Len(queue[ch]) /\ queue'[ch][i] = queue[ch][i - 1]
  BY <1>1, <1>2, Pushed
<1>4. \A c \in Range(Channels) : Len(queue[c]) \in Nat /\ (c # ch => queue'[c] = queue[c])
  BY <1>1
\* Where the job at a place was before.
<1>5. ASSUME NEW c \in Range(Channels), NEW i \in 1..Len(queue'[c])
      PROVE  \/ c = ch /\ i = 1 /\ queue'[c][i] = job
             \/ c = ch /\ i - 1 \in 1..Len(queue[c]) /\ queue'[c][i] = queue[c][i - 1]
             \/ c # ch /\ i \in 1..Len(queue[c]) /\ queue'[c][i] = queue[c][i]
  <2>1. CASE c = ch
    <3>1. i = 1 \/ i \in 2..Len(queue[ch]) + 1
      BY <1>3, <1>4, <1>5, <2>1
    <3> QED
      BY <1>3, <2>1, <3>1
  <2>2. CASE c # ch
    BY <1>4, <1>5, <2>2
  <2> QED
    BY <2>1, <2>2
<1>6. ASSUME NEW id PROVE id \in Queued' <=> id \in Queued \/ id = job.id
  <2>1. ASSUME NEW c \in Range(Channels), NEW i \in 1..Len(queue'[c]), queue'[c][i].id = id
        PROVE  id \in Queued \/ id = job.id
    BY <1>5, <2>1 DEF Queued
  <2>2. ASSUME NEW c \in Range(Channels), NEW i \in 1..Len(queue[c]), queue[c][i].id = id
        PROVE  \E j \in 1..Len(queue'[c]) : queue'[c][j].id = id
    <3>1. CASE c = ch
      <4>1. i + 1 \in 1..Len(queue'[ch])
        BY <1>3, <1>4, <2>2, <3>1
      <4> QED
        BY <1>3, <2>2, <3>1, <4>1
    <3>2. CASE c # ch
      BY <1>4, <2>2, <3>2
    <3> QED
      BY <3>1, <3>2
  <2>3. 1 \in 1..Len(queue'[ch])
    BY <1>3, <1>4
  <2> QED
    BY <1>3, <2>1, <2>2, <2>3 DEF Queued
<1>7. ASSUME Apart, job.id \notin Queued PROVE Apart'
  <2> SUFFICES ASSUME NEW c \in Range(Channels), NEW d \in Range(Channels),
                      NEW i \in 1..Len(queue'[c]), NEW j \in 1..Len(queue'[d]),
                      queue'[c][i].id = queue'[d][j].id
               PROVE  c = d /\ i = j
    BY DEF Apart
  <2>1. \A e \in Range(Channels) : \A k \in 1..Len(queue[e]) : queue[e][k].id # job.id
    BY <1>7 DEF Queued
  <2>a. ASSUME NEW e \in Range(Channels), NEW k \in 1..Len(queue'[e]), queue'[e][k].id = job.id
        PROVE  e = ch /\ k = 1
    <3>1. CASE e = ch /\ k - 1 \in 1..Len(queue[e]) /\ queue'[e][k] = queue[e][k - 1]
      BY <2>1, <2>a, <3>1
    <3>2. CASE e # ch /\ k \in 1..Len(queue[e]) /\ queue'[e][k] = queue[e][k]
      BY <2>1, <2>a, <3>2
    <3> QED
      BY <1>5, <3>1, <3>2
  <2>2. CASE queue'[c][i] = job /\ c = ch /\ i = 1
    BY <2>a, <2>2
  <2>3. CASE queue'[d][j] = job /\ d = ch /\ j = 1
    BY <2>a, <2>3
  <2>4. CASE ~(queue'[c][i] = job /\ c = ch /\ i = 1) /\ ~(queue'[d][j] = job /\ d = ch /\ j = 1)
    <3> DEFINE k == IF c = ch THEN i - 1 ELSE i
               l == IF d = ch THEN j - 1 ELSE j
    <3>1. k \in 1..Len(queue[c]) /\ queue'[c][i] = queue[c][k]
      BY <1>5, <2>4
    <3>2. l \in 1..Len(queue[d]) /\ queue'[d][j] = queue[d][l]
      BY <1>5, <2>4
    <3>3. c = d /\ k = l
      <4> HIDE DEF k, l
      <4> QED
        BY <1>7, <3>1, <3>2 DEF Apart
    <3>4. i \in Int /\ j \in Int
      BY <1>3, <1>4
    <3> QED
      BY <3>3, <3>4
  <2> QED
    BY <2>2, <2>3, <2>4
<1>8. ASSUME NEW e PROVE e \in Waiting' <=> e \in Waiting \/ e = job
  <2>a. \A c \in Range(Channels) :
          DOMAIN queue[c] = 1..Len(queue[c]) /\ DOMAIN queue'[c] = 1..Len(queue'[c])
    <3>1. queue'[ch] \in Seq(Entry \cup {job})
      BY <1>1, <1>2, Pushed
    <3> QED
      BY <1>1, <1>4, <3>1
  <2>b. e \in Waiting <=> \E c \in Range(Channels) : \E i \in 1..Len(queue[c]) : queue[c][i] = e
    BY <2>a DEF Waiting, Range
  <2>c. e \in Waiting' <=> \E c \in Range(Channels) : \E i \in 1..Len(queue'[c]) : queue'[c][i] = e
    BY <2>a DEF Waiting, Range
  <2>1. ASSUME NEW c \in Range(Channels), NEW i \in 1..Len(queue'[c]), queue'[c][i] = e
        PROVE  (\E j \in 1..Len(queue[c]) : queue[c][j] = e) \/ e = job
    BY <1>5, <2>1
  <2>2. ASSUME NEW c \in Range(Channels), NEW i \in 1..Len(queue[c]), queue[c][i] = e
        PROVE  \E j \in 1..Len(queue'[c]) : queue'[c][j] = e
    <3>1. CASE c = ch
      <4>1. i + 1 \in 1..Len(queue'[ch])
        BY <1>3, <1>4, <2>2, <3>1
      <4> QED
        BY <1>3, <2>2, <3>1, <4>1
    <3>2. CASE c # ch
      BY <1>4, <2>2, <3>2
    <3> QED
      BY <3>1, <3>2
  <2>3. 1 \in 1..Len(queue'[ch]) /\ queue'[ch][1] = job
    BY <1>3, <1>4
  <2> QED
    BY <2>1, <2>2, <2>3, <2>b, <2>c
<1> QED
  BY <1>6, <1>7, <1>8

\* A pop takes its job, and no other, out of the queues.
LEMMA PopQueued ==
  ASSUME Typed, NEW ch \in Range(Channels), Len(queue[ch]) # 0, NEW job, job = Last(queue[ch]),
         queue' = [queue EXCEPT ![ch] = Front(@)]
  PROVE  /\ Queued = Queued' \cup {job.id} /\ job \in Entry
         /\ Waiting = Waiting' \cup {job}
         /\ Apart => Apart' /\ job.id \notin Queued'
<1>1. queue \in [Range(Channels) -> Seq(Entry)] /\ queue[ch] \in Seq(Entry)
  BY DEF Typed
<1>2. /\ Len(queue'[ch]) = Len(queue[ch]) - 1
      /\ \A i \in 1..Len(queue[ch]) - 1 : queue'[ch][i] = queue[ch][i]
      /\ job = queue[ch][Len(queue[ch])] /\ job \in Entry
  BY <1>1, Popped
<1>3. \A c \in Range(Channels) : Len(queue[c]) \in Nat /\ (c # ch => queue'[c] = queue[c])
  BY <1>1
<1>4. ASSUME NEW c \in Range(Channels), NEW i \in 1..Len(queue'[c])
      PROVE  /\ i \in 1..Len(queue[c]) /\ queue'[c][i] = queue[c][i]
             /\ c = ch => i # Len(queue[ch])
  <2>1. CASE c = ch
    BY <1>2, <1>3, <1>4, <2>1
  <2>2. CASE c # ch
    BY <1>3, <1>4, <2>2
  <2> QED
    BY <2>1, <2>2
<1>5. Len(queue[ch]) \in 1..Len(queue[ch])
  BY <1>3
<1>6. ASSUME NEW id, id \in Queued PROVE id \in Queued' \/ id = job.id
  <2>a. PICK c \in Range(Channels) : \E i \in 1..Len(queue[c]) : queue[c][i].id = id
    BY <1>6 DEF Queued
  <2>1. PICK i \in 1..Len(queue[c]) : queue[c][i].id = id
    BY <2>a
  <2>2. CASE c = ch /\ i = Len(queue[ch])
    BY <1>2, <2>1, <2>2
  <2>3. CASE c = ch /\ i # Len(queue[ch])
    <3>1. i \in 1..Len(queue[ch]) - 1 /\ i \in 1..Len(queue'[ch])
      BY <1>2, <1>3, <2>1, <2>3
    <3> QED
      BY <1>2, <2>1, <2>3, <3>1 DEF Queued
  <2>4. CASE c # ch
    BY <1>3, <2>1, <2>4 DEF Queued
  <2> QED
    BY <2>2, <2>3, <2>4
<1>7. ASSUME NEW id, id \in Queued' PROVE id \in Queued
  BY <1>4, <1>7 DEF Queued
<1>8. job.id \in Queued
  BY <1>2, <1>5 DEF Queued
<1>9. ASSUME Apart PROVE Apart'
  <2> SUFFICES ASSUME NEW c \in Range(Channels), NEW d \in Range(Channels),
                      NEW i \in 1..Len(queue'[c]), NEW j \in 1..Len(queue'[d]),
                      queue'[c][i].id = queue'[d][j].id
               PROVE  c = d /\ i = j
    BY DEF Apart
  <2>1. i \in 1..Len(queue[c]) /\ queue'[c][i] = queue[c][i]
    BY <1>4
  <2>2. j \in 1..Len(queue[d]) /\ queue'[d][j] = queue[d][j]
    BY <1>4
  <2>3. \A k \in 1..Len(queue[c]), l \in 1..Len(queue[d]) :
          queue[c][k].id = queue[d][l].id => c = d /\ k = l
    BY <1>9 DEF Apart
  <2> QED
    BY <2>1, <2>2, <2>3
<1>10. ASSUME Apart, job.id \in Queued' PROVE FALSE
  <2>a. PICK c \in Range(Channels) :
          \E i \in 1..Len(queue'[c]) : queue'[c][i].id = job.id
    BY <1>10 DEF Queued
  <2>1. PICK i \in 1..Len(queue'[c]) : queue'[c][i].id = job.id
    BY <2>a
  <2>2. c = ch /\ i = Len(queue[ch])
    BY <1>2, <1>4, <1>5, <1>10, <2>1 DEF Apart
  <2> QED
    BY <1>4, <2>2
<1>11. ASSUME NEW e PROVE e \in Waiting <=> e \in Waiting' \/ e = job
  <2>a. \A c \in Range(Channels) :
          DOMAIN queue[c] = 1..Len(queue[c]) /\ DOMAIN queue'[c] = 1..Len(queue'[c])
    <3>1. queue'[ch] \in Seq(Entry)
      BY <1>1, Popped
    <3> QED
      BY <1>1, <1>3, <3>1
  <2>b. e \in Waiting <=> \E c \in Range(Channels) : \E i \in 1..Len(queue[c]) : queue[c][i] = e
    BY <2>a DEF Waiting, Range
  <2>c. e \in Waiting' <=> \E c \in Range(Channels) : \E i \in 1..Len(queue'[c]) : queue'[c][i] = e
    BY <2>a DEF Waiting, Range
  <2>1. ASSUME NEW c \in Range(Channels), NEW i \in 1..Len(queue[c]), queue[c][i] = e
        PROVE  (\E j \in 1..Len(queue'[c]) : queue'[c][j] = e) \/ e = job
    <3>1. CASE c = ch /\ i = Len(queue[ch])
      BY <1>2, <2>1, <3>1
    <3>2. CASE c = ch /\ i # Len(queue[ch])
      <4>1. i \in 1..Len(queue[ch]) - 1 /\ i \in 1..Len(queue'[ch])
        BY <1>2, <1>3, <2>1, <3>2
      <4> QED
        BY <1>2, <2>1, <3>2, <4>1
    <3>3. CASE c # ch
      BY <1>3, <2>1, <3>3
    <3> QED
      BY <3>1, <3>2, <3>3
  <2> QED
    BY <1>2, <1>4, <1>5, <2>1, <2>b, <2>c
<1> QED
  BY <1>2, <1>6, <1>7, <1>8, <1>9, <1>10, <1>11

\* Whatever moves, each job has one place.
LEMMA PlacesStep ==
  ASSUME Typed, Popping, Kept, Apart, Alone, FewLost, [Next]_vars
  PROVE  Kept' /\ Apart' /\ Alone' /\ FewLost'
<1>a. published \in Nat /\ errors \in Nat
  BY TwoChannels, ConsentAssumption DEF Typed, ConsentTyped, ConsentTypeOK
<1>c. IsFiniteSet(lost) /\ Cardinality(lost) \in Nat /\ Cardinality(lost) <= errors
  BY FS_CardinalityType DEF FewLost
<1>d. ASSUME UNCHANGED <<lost, errors>> PROVE FewLost'
  BY <1>c, <1>d DEF FewLost
<1>1. CASE Rests
  <2>1. Queued' = Queued /\ Held' = Held
    BY <1>1 DEF Rests, Queued, Held
  <2>2. UNCHANGED <<logged, lost, published>> /\ errors <= errors' /\ Apart'
    BY <1>1 DEF Rests, Apart
  <2>3. errors' \in Int
    BY <1>1 DEF Rests
  <2>4. FewLost'
    BY <1>a, <1>c, <2>2, <2>3 DEF FewLost
  <2> QED
    BY <2>1, <2>2, <2>4 DEF Kept, Alone
<1>2. ASSUME NEW ch \in Range(Channels), Enters(ch)
      PROVE  Kept' /\ Apart' /\ Alone' /\ FewLost'
  <2>1. PICK job : job = [id |-> published + 1, attempts |-> 0]
    OBVIOUS
  <2>2. /\ job.id = published + 1 /\ Push(ch, job) /\ published' = published + 1
        /\ UNCHANGED <<drain, logged, lost, errors>>
    BY <1>2, <2>1 DEF Enters
  <2>3. job.id \notin 1..published /\ 1..published' = 1..published \cup {job.id}
    BY <1>a, <2>2
  <2>4. Queued' = Queued \cup {job.id} /\ Held' = Held /\ UNCHANGED <<logged, lost>>
    BY <2>2, PushQueued DEF Held, InHand
  <2>5. job.id \notin Queued \cup Held \cup logged \cup lost
    BY <2>3 DEF Kept
  <2>6. Apart'
    BY <2>2, <2>5, PushQueued
  <2>7. Kept'
    BY <2>3, <2>4 DEF Kept
  <2>8. Alone'
    BY <2>4, <2>5 DEF Alone
  <2> QED
    BY <1>d, <2>2, <2>6, <2>7, <2>8
<1>3. ASSUME NEW ch \in Range(Channels), TakenUp(ch)
      PROVE  Kept' /\ Apart' /\ Alone' /\ FewLost'
  <2>1. PICK job : job = Last(queue[ch])
    OBVIOUS
  <2>2. /\ ~InHand /\ InHand' /\ drain'.job = job
        /\ UNCHANGED <<logged, lost, published, errors>>
    BY <1>3, <2>1 DEF TakenUp
  <2>3. Queued = Queued' \cup {job.id} /\ Apart' /\ job.id \notin Queued'
    BY <1>3, <2>1, PopQueued DEF TakenUp
  <2>4. Held = {} /\ Held' = {job.id}
    BY <2>2 DEF Held
  <2>5. Kept'
    BY <2>2, <2>3, <2>4 DEF Kept
  <2>6. Alone'
    BY <2>2, <2>3, <2>4 DEF Alone
  <2> QED
    BY <1>d, <2>2, <2>3, <2>5, <2>6
<1>4. ASSUME NEW ch \in Range(Channels), NEW job \in Entry, PutBack(ch, job)
      PROVE  Kept' /\ Apart' /\ Alone' /\ FewLost'
  <2>1. /\ InHand /\ ~InHand' /\ drain.job.id = job.id
        /\ UNCHANGED <<logged, lost, published, errors>>
    BY <1>4 DEF PutBack
  <2>2. Held = {job.id} /\ Held' = {}
    BY <2>1 DEF Held
  <2>3. job.id \notin Queued
    BY <2>2 DEF Alone
  <2>4. Queued' = Queued \cup {job.id} /\ Apart'
    BY <1>4, <2>3, PushQueued DEF PutBack
  <2>5. Kept'
    BY <2>1, <2>2, <2>4 DEF Kept
  <2>6. Alone'
    BY <2>1, <2>2, <2>4 DEF Alone
  <2> QED
    BY <1>d, <2>1, <2>4, <2>5, <2>6
<1>5. CASE Closed
  <2>1. /\ InHand /\ ~InHand' /\ logged' = logged \cup {drain.job.id}
        /\ UNCHANGED <<queue, lost, published, errors>>
    BY <1>5 DEF Closed
  <2>2. Queued' = Queued /\ Apart'
    BY <2>1 DEF Queued, Apart
  <2>3. Held = {drain.job.id} /\ Held' = {}
    BY <2>1 DEF Held
  <2>4. Kept'
    BY <2>1, <2>2, <2>3 DEF Kept
  <2>5. Alone'
    BY <2>1, <2>2, <2>3 DEF Alone
  <2> QED
    BY <1>d, <2>1, <2>2, <2>4, <2>5
<1>6. CASE TakenAway
  <2>1. /\ InHand /\ ~InHand' /\ lost' = lost \cup {drain.job.id} /\ errors' = errors + 1
        /\ UNCHANGED <<queue, logged, published>>
    BY <1>6 DEF TakenAway
  <2>2. Queued' = Queued /\ Apart'
    BY <2>1 DEF Queued, Apart
  <2>3. Held = {drain.job.id} /\ Held' = {}
    BY <2>1 DEF Held
  <2>4. FewLost'
    <3>1. PICK id : id = drain.job.id
      OBVIOUS
    <3>2. IsFiniteSet(lost \cup {id}) /\ Cardinality(lost \cup {id}) <= Cardinality(lost) + 1
      <4>1. /\ IsFiniteSet(lost \cup {id})
            /\ Cardinality(lost \cup {id}) = Cardinality(lost)
                 \/ Cardinality(lost \cup {id}) = Cardinality(lost) + 1
        BY <1>c, FS_AddElement
      <4> QED
        BY <1>c, <4>1
    <3>3. Cardinality(lost \cup {id}) \in Nat
      BY <3>2, FS_CardinalityType
    <3>4. lost' = lost \cup {id}
      BY <2>1, <3>1
    <3> QED
      <4> DEFINE n == Cardinality(lost)
                 m == Cardinality(lost \cup {id})
      <4>1. n \in Nat /\ n <= errors /\ m \in Nat /\ m <= n + 1 /\ errors' = errors + 1
        BY <1>c, <2>1, <3>2, <3>3
      <4>2. m <= errors'
        <5> HIDE DEF n, m
        <5> QED
          BY <1>a, <4>1
      <4> QED
        BY <3>2, <3>4, <4>2 DEF FewLost
  <2>5. Kept'
    BY <2>1, <2>2, <2>3 DEF Kept
  <2>6. Alone'
    BY <2>1, <2>2, <2>3 DEF Alone
  <2> QED
    BY <2>2, <2>4, <2>5, <2>6
<1> QED
  BY <1>1, <1>2, <1>3, <1>4, <1>5, <1>6, Moves

-----------------------------------------------------------------------------

\* Between jobs, the drain leads to the next one.
LEMMA Between ==
  ASSUME drain \in Drains, Tick \/ NextChannel \/ Pop
  PROVE  drain'.at \in {"idle", "channel", "pop", "prefs"}
<1>1. CASE Tick
  BY <1>1 DEF Tick, Resting
<1>2. CASE NextChannel
  <2>1. CASE drain' = Resting
    BY <2>1 DEF Resting
  <2>2. CASE drain.ch # Len(Channels)
    <3>1. PICK c, n : drain' = [drain EXCEPT !.at = "pop", !.ch = c, !.left = n]
      BY <1>2, <2>2 DEF NextChannel
    <3> QED
      BY <3>1 DEF Drains
  <2> QED
    BY <1>2, <2>1, <2>2 DEF NextChannel
<1>3. CASE Pop
  <2>1. \/ Goto("channel")
        \/ \E n, job : drain' = [drain EXCEPT !.at = "prefs", !.left = n, !.job = job]
    BY <1>3 DEF Pop
  <2>2. CASE Goto("channel")
    BY <2>2 DEF Goto, Drains
  <2>3. CASE \E n, job : drain' = [drain EXCEPT !.at = "prefs", !.left = n, !.job = job]
    BY <2>3 DEF Drains
  <2> QED
    BY <2>1, <2>2, <2>3
<1> QED
  BY <1>1, <1>2, <1>3

\* The day's counter: a message counts once it is counted, or stands at the count.
LEMMA CountedStep ==
  ASSUME Typed, Counted, [Next]_vars
  PROVE  Counted'
<1>a. /\ drain \in Drains /\ count \in 0..RateCap /\ RateCap \in Nat
      /\ reached \in Nat /\ doubtful \in Nat
  BY NotificationsAssumption DEF Typed, DrainTyped, Drains
<1>1. ASSUME NEW p, Goto(p) PROVE drain'.at = p
  BY <1>a, <1>1 DEF Goto, Drains
<1>2. ASSUME Done PROVE drain'.at = "pop"
  BY <1>a, <1>2, Freed DEF Done
\* Steps away from the count change nothing.
<1>3. ASSUME UNCHANGED <<count, reached, doubtful>>, drain'.at \notin {"send", "count"},
             drain.at # "count"
      PROVE  Counted'
  BY <1>a, <1>3 DEF Counted
<1>4. CASE Midnight
  BY <1>a, <1>4, NotificationsAssumption DEF Midnight, Counted
<1>5. CASE CheckCap
  <2>1. UNCHANGED <<count, reached, doubtful>> /\ drain.at = "cap"
    BY <1>5 DEF CheckCap, ghosts
  <2>2. CASE Goto("send") /\ count < RateCap
    BY <1>1, <1>a, <2>1, <2>2 DEF Counted
  <2>3. CASE Log(drain.job.id)
    BY <1>2, <1>3, <2>1, <2>3 DEF Log
  <2> QED
    BY <1>5, <2>2, <2>3 DEF CheckCap
<1>6. CASE Send
  <2>1. count' = count /\ drain.at = "send" /\ count < RateCap
    BY <1>6 DEF Send, Counted
  <2>2. reached <= count + doubtful
    BY <1>a, <2>1 DEF Counted
  <2>3. CASE Goto("count") /\ reached' = reached + 1 /\ UNCHANGED doubtful
    BY <1>1, <1>a, <2>1, <2>2, <2>3 DEF Counted
  <2>4. CASE (Goto("log") \/ Goto("retry")) /\ UNCHANGED <<reached, doubtful>>
    BY <1>1, <1>a, <2>1, <2>2, <2>4 DEF Counted
  <2>5. CASE Goto("retry") /\ reached' = reached + 1 /\ doubtful' = doubtful + 1
    BY <1>1, <1>a, <2>1, <2>2, <2>5 DEF Counted
  <2> QED
    BY <1>6, <2>3, <2>4, <2>5 DEF Send
<1>7. CASE CountSent
  <2>1. drain.at = "count" /\ count' = count + 1 /\ drain'.at = "log" /\ UNCHANGED <<reached, doubtful>>
    BY <1>1, <1>7 DEF CountSent, ghosts
  <2> QED
    BY <1>a, <2>1 DEF Counted
<1>8. CASE Fault
  <2>1. /\ UNCHANGED <<count, reached>> /\ drain'.at \in {"pop", "idle"}
        /\ doubtful' = doubtful + IF drain.at = "count" THEN 1 ELSE 0
    BY <1>2, <1>8, <1>a DEF Fault, Resting
  <2> QED
    BY <1>a, <2>1 DEF Counted
<1>9. CASE Publish \/ (\E ch \in Range(Channels) : Toggle(ch)) \/ ChangeConsent \/ UNCHANGED vars
  BY <1>9 DEF Publish, Toggle, ChangeConsent, vars, ghosts, Counted
<1>10. CASE Tick \/ NextChannel \/ Pop
  <2>1. drain.at \in {"idle", "channel", "pop"} /\ UNCHANGED <<count, reached, doubtful>>
    BY <1>10 DEF Tick, NextChannel, Pop, ghosts
  <2>2. drain'.at \notin {"send", "count"}
    BY <1>a, <1>10, Between
  <2> QED
    BY <1>3, <2>1, <2>2
<1>11. CASE ReadPreferences \/ CheckConsent \/ Defer \/ LogResult \/ Retry
  <2>1. drain.at # "count" /\ UNCHANGED <<count, reached, doubtful>>
    BY <1>11 DEF ReadPreferences, CheckConsent, Defer, LogResult, Retry, ghosts
  <2>2. Done \/ Goto("consent") \/ Goto("quiet") \/ Goto("cap")
    BY <1>11 DEF ReadPreferences, CheckConsent, Defer, LogResult, Retry, Log
  <2> QED
    BY <1>1, <1>2, <1>3, <2>1, <2>2
<1> QED
  BY <1>4, <1>5, <1>6, <1>7, <1>8, <1>9, <1>10, <1>11 DEF Next, Drain

\* Past the consent gate is one job at a time, and none passes without consent.
LEMMA PassedStep ==
  ASSUME Typed, Passed, [Next]_vars
  PROVE  Passed'
<1>a. drain \in Drains /\ late \in Nat /\ consent \in BOOLEAN
  BY DEF Typed, DrainTyped, Drains, ConsentTyped, ConsentTypeOK
<1>1. ASSUME NEW p, Goto(p) PROVE drain'.at = p
  BY <1>a, <1>1 DEF Goto, Drains
<1>2. ASSUME Done PROVE drain'.at = "pop"
  BY <1>a, <1>2, Freed DEF Done
\* A step that sends nothing passes nobody either.
<1>3. ASSUME UNCHANGED <<consent, late>>,
             \/ drain.at \in {"quiet", "cap", "send"} \/ drain'.at \notin {"quiet", "cap", "send"}
      PROVE  Passed'
  BY <1>a, <1>3 DEF Passed
<1>4. CASE ChangeConsent
  BY <1>4, <1>a DEF ChangeConsent, Passed
<1>5. CASE CheckConsent
  <2>1. UNCHANGED <<consent, late>>
    BY <1>5 DEF CheckConsent, outside, consent_vars, ghosts
  <2>2. CASE consent
    BY <2>1, <2>2 DEF Passed
  <2>3. CASE Log(drain.job.id)
    BY <1>2, <1>3, <2>1, <2>3 DEF Log
  <2> QED
    BY <1>5, <2>2, <2>3 DEF CheckConsent
<1>6. CASE Send
  <2>1. drain.at = "send" /\ late' = (IF consent THEN 0 ELSE late + 1) /\ UNCHANGED consent
    BY <1>6 DEF Send, outside, consent_vars
  <2>2. drain'.at \in {"count", "log", "retry"}
    BY <1>1, <1>6 DEF Send
  <2>3. late = 0
    BY <1>a, <2>1 DEF Passed
  <2> QED
    BY <2>1, <2>2, <2>3 DEF Passed
<1>7. CASE Publish \/ (\E ch \in Range(Channels) : Toggle(ch)) \/ Midnight \/ UNCHANGED vars
  BY <1>7 DEF Publish, Toggle, Midnight, vars, consent_vars, ghosts, Passed
<1>8. CASE Tick \/ NextChannel \/ Pop
  <2>1. UNCHANGED <<consent, late>>
    BY <1>8 DEF Tick, NextChannel, Pop, outside, consent_vars, ghosts
  <2>2. drain'.at \notin {"quiet", "cap", "send"}
    BY <1>a, <1>8, Between
  <2> QED
    BY <1>3, <2>1, <2>2
<1>9. CASE ReadPreferences \/ Defer \/ CheckCap \/ CountSent \/ LogResult \/ Retry
  <2>1. UNCHANGED <<consent, late>>
    BY <1>9 DEF ReadPreferences, Defer, CheckCap, CountSent, LogResult, Retry, outside,
                consent_vars, ghosts
  <2>2. \/ Done \/ Goto("consent") \/ Goto("log")
        \/ drain.at \in {"quiet", "cap"}
    BY <1>9 DEF ReadPreferences, Defer, CheckCap, CountSent, LogResult, Retry, Log
  <2> QED
    BY <1>1, <1>2, <1>3, <2>1, <2>2
<1>10. CASE Fault
  <2>1. UNCHANGED <<consent, late>> /\ drain'.at \in {"pop", "idle"}
    BY <1>2, <1>10 DEF Fault, Resting
  <2> QED
    BY <1>3, <2>1
<1> QED
  BY <1>4, <1>5, <1>6, <1>7, <1>8, <1>9, <1>10 DEF Next, Drain

-----------------------------------------------------------------------------

LEMMA InitInv == Init => Inv
<1> SUFFICES ASSUME Init PROVE Inv
  OBVIOUS
<1>1. Typed
  BY InitTyped
<1>2. Popping
  BY DEF Init, Popping, AtQueue, Resting, Handling
<1>3. Queued = {} /\ Held = {}
  BY DEF Init, Queued, Held, InHand, Resting, Handling
<1>4. Kept /\ Apart /\ Alone
  BY <1>3 DEF Init, Kept, Apart, Alone
<1>5. FewLost
  BY FS_EmptySet DEF Init, ConsentInit, FewLost
<1>6. Counted /\ Passed
  BY DEF Init, Counted, Passed, Resting
<1> QED
  BY <1>1, <1>2, <1>4, <1>5, <1>6 DEF Inv

LEMMA NextInv == Inv /\ [Next]_vars => Inv'
<1> SUFFICES ASSUME Inv, [Next]_vars PROVE Inv'
  OBVIOUS
<1>1. Kept' /\ Apart' /\ Alone' /\ FewLost' /\ Counted' /\ Passed'
  BY PlacesStep, CountedStep, PassedStep DEF Inv
<1>2. Typed' /\ Popping'
  <2>1. CASE Next
    BY <2>1, TypedStep, PoppingStep DEF Inv
  <2>2. CASE UNCHANGED vars
    BY <2>2 DEF Inv, vars, consent_vars, Typed, Popping, ConsentTyped, ConsentTypeOK, DrainTyped,
                Entry, InHand, AtQueue
  <2> QED
    BY <2>1, <2>2
<1> QED
  BY <1>1, <1>2 DEF Inv

LEMMA Invariance == Spec => []Inv
BY InitInv, NextInv, PTL DEF Spec

-----------------------------------------------------------------------------

\* The types of queues, drain and counter: the counter never exceeds the cap, a job the
\* attempts it may have, and the drain handles jobs of the channel it has read.
THEOREM NotificationsTyped == Spec => []TypeOK
<1>1. Inv => TypeOK
  <2> SUFFICES ASSUME Inv PROVE TypeOK
    OBVIOUS
  <2>1. Typed
    BY DEF Inv
  <2>2. \A ch \in Range(Channels) : \A i \in 1..Len(queue[ch]) : queue[ch][i] \in Entry
    <3> SUFFICES ASSUME NEW ch \in Range(Channels), NEW i \in 1..Len(queue[ch])
                 PROVE  queue[ch][i] \in Entry
      OBVIOUS
    <3>1. queue[ch] \in Seq(Entry)
      BY <2>1 DEF Typed
    <3> QED
      BY <3>1
  <2>3. drain = Resting \/ drain \in [at : Handling \cup {"channel", "pop"},
          ch : 0..Len(Channels), left : 0..PerTick, night : BOOLEAN,
          job : Entry \cup {Resting.job}]
    BY <2>1 DEF Typed, DrainTyped
  <2> QED
    BY <2>1, <2>2, <2>3 DEF Typed, ConsentTyped, TypeOK
<1> QED
  BY <1>1, Invariance, PTL

\* The places of a job are one when it is queued, and none when it is not.
LEMMA PlacesCounted ==
  ASSUME Typed, Apart, NEW id
  PROVE  Cardinality(Places(id)) = IF id \in Queued THEN 1 ELSE 0
<1>1. \A ch \in Range(Channels) : DOMAIN queue[ch] = 1..Len(queue[ch])
  <2> SUFFICES ASSUME NEW ch \in Range(Channels) PROVE DOMAIN queue[ch] = 1..Len(queue[ch])
    OBVIOUS
  <2>1. queue[ch] \in Seq(Entry)
    BY DEF Typed
  <2> QED
    BY <2>1
<1>2. \A place \in Places(id) :
        \E ch \in Range(Channels) : \E i \in 1..Len(queue[ch]) :
          place = <<ch, i>> /\ queue[ch][i].id = id
  <2> SUFFICES ASSUME NEW place \in Places(id)
               PROVE  \E ch \in Range(Channels) : \E i \in 1..Len(queue[ch]) :
                        place = <<ch, i>> /\ queue[ch][i].id = id
    OBVIOUS
  <2>1. PICK ch \in Range(Channels) : place \in {ch} \X DOMAIN queue[ch]
    BY DEF Places
  <2>2. PICK i \in DOMAIN queue[ch] : place = <<ch, i>>
    BY <2>1
  <2>3. queue[ch][i].id = id
    BY <2>2 DEF Places
  <2> QED
    BY <1>1, <2>2, <2>3
<1>3. CASE id \in Queued
  <2>a. PICK ch \in Range(Channels) : \E i \in 1..Len(queue[ch]) : queue[ch][i].id = id
    BY <1>3 DEF Queued
  <2>1. PICK i \in 1..Len(queue[ch]) : queue[ch][i].id = id
    BY <2>a
  <2>2. <<ch, i>> \in Places(id)
    <3>1. <<ch, i>> \in {ch} \X DOMAIN queue[ch]
      BY <1>1
    <3>2. queue[<<ch, i>>[1]][<<ch, i>>[2]].id = id
      BY <2>1
    <3> QED
      BY <3>1, <3>2 DEF Places
  <2>3. \A place \in Places(id) : place = <<ch, i>>
    BY <1>2, <2>1 DEF Apart
  <2>4. Places(id) = {<<ch, i>>}
    BY <2>2, <2>3
  <2> QED
    BY <1>3, <2>4, FS_Singleton
<1>4. CASE id \notin Queued
  <2>1. Places(id) = {}
    BY <1>2, <1>4 DEF Queued
  <2> QED
    BY <1>4, <2>1, FS_EmptySet
<1> QED
  BY <1>3, <1>4

\* Whatever faults and retries: each published job is in one place, a queue, the drain's
\* hands or the log, unless one of at most errors faults took it.
THEOREM JobsAccounted == Spec => []EveryJobAccounted
<1>1. Inv => EveryJobAccounted
  <2> SUFFICES ASSUME Inv PROVE EveryJobAccounted
    OBVIOUS
  <2>1. Typed /\ Kept /\ Apart /\ Alone /\ Cardinality(lost) <= errors
    BY DEF Inv, FewLost
  <2>2. ASSUME NEW id \in 1..published
        PROVE  Cardinality(Places(id)) + Cardinality({place \in {"hand", "log", "lost"} :
                  \/ place = "hand" /\ InHand /\ drain.job.id = id
                  \/ place = "log" /\ id \in logged
                  \/ place = "lost" /\ id \in lost}) = 1
    <3> DEFINE P == {place \in {"hand", "log", "lost"} :
                       \/ place = "hand" /\ InHand /\ drain.job.id = id
                       \/ place = "log" /\ id \in logged
                       \/ place = "lost" /\ id \in lost}
    <3>1. Cardinality(Places(id)) = IF id \in Queued THEN 1 ELSE 0
      BY <2>1, PlacesCounted
    <3>2. InHand /\ drain.job.id = id <=> id \in Held
      BY DEF Held
    <3>3. id \in Queued \/ id \in Held \/ id \in logged \/ id \in lost
      BY <2>1 DEF Kept
    <3>4. CASE id \in Queued
      <4>1. id \notin Held /\ id \notin logged /\ id \notin lost
        BY <2>1, <3>4 DEF Alone
      <4>2. P = {}
        BY <3>2, <4>1
      <4> QED
        BY <3>1, <3>4, <4>2, FS_EmptySet
    <3>5. CASE id \notin Queued
      <4>1. \/ id \in Held /\ id \notin logged /\ id \notin lost
            \/ id \notin Held /\ id \in logged /\ id \notin lost
            \/ id \notin Held /\ id \notin logged /\ id \in lost
        BY <2>1, <3>3, <3>5 DEF Alone
      <4>2. P = {"hand"} \/ P = {"log"} \/ P = {"lost"}
        BY <3>2, <4>1
      <4>3. Cardinality(P) = 1
        BY <4>2, FS_Singleton
      <4> QED
        BY <3>1, <3>5, <4>3
    <3> QED
      BY <3>4, <3>5
  <2> QED
    BY <2>1, <2>2 DEF EveryJobAccounted
<1> QED
  BY <1>1, Invariance, PTL

\* For every cap, number of jobs and of faults, whenever midnight falls: beyond the cap, no
\* more messages reach the user in a day than those whose answer or count was lost.
THEOREM CapKept == Spec => []CapHolds
<1>1. Inv => CapHolds
  <2> SUFFICES ASSUME Inv PROVE CapHolds
    OBVIOUS
  <2>1. Typed /\ Counted
    BY DEF Inv
  <2>2. count \in 0..RateCap /\ reached \in Nat /\ doubtful \in Nat /\ RateCap \in Nat
    BY <2>1, NotificationsAssumption DEF Typed
  <2> QED
    BY <2>1, <2>2 DEF Counted, CapHolds
<1> QED
  BY <1>1, Invariance, PTL

\* However often consent is given and revoked, one message at most leaves after a revoke.
THEOREM OneLateAtMost == Spec => []LateBounded
<1>1. Inv => LateBounded
  BY DEF Inv, Typed, Passed, LateBounded
<1> QED
  BY <1>1, Invariance, PTL

-----------------------------------------------------------------------------

\* A job's move is a move of the abstract queue.
LEMMA JobMoves ==
  ASSUME Inv, Inv', [Next]_vars
  PROVE  Jobs!Next \/ UNCHANGED Jobs!vars
<1> DEFINE inHand == IF InHand THEN {drain.job} ELSE {}
<1>a. Typed /\ Popping /\ Alone /\ Apart /\ Held = (IF InHand THEN {drain.job.id} ELSE {})
  BY DEF Inv, Held
<1>b. InHand => drain.job \in Entry
  BY <1>a DEF Typed, DrainTyped
<1>1. CASE Rests
  <2>1. Waiting' = Waiting /\ inHand' = inHand /\ UNCHANGED <<published, logged, lost>>
    BY <1>1 DEF Rests, Waiting
  <2> QED
    BY <2>1 DEF Jobs!vars
<1>2. ASSUME NEW ch \in Range(Channels), Enters(ch) PROVE Jobs!Next
  <2>1. PICK job : job = [id |-> published + 1, attempts |-> 0]
    OBVIOUS
  <2>2. Push(ch, job) /\ published' = published + 1 /\ UNCHANGED <<drain, logged, lost>>
    BY <1>2, <2>1 DEF Enters
  <2>3. Waiting' = Waiting \cup {job} /\ inHand' = inHand
    BY <1>a, <2>2, PushQueued DEF InHand
  <2>4. job = [id |-> published', attempts |-> 0]
    BY <2>1, <2>2
  <2> QED
    BY <2>2, <2>3, <2>4 DEF Jobs!Next, Jobs!Publish
<1>3. ASSUME NEW ch \in Range(Channels), TakenUp(ch) PROVE Jobs!Next
  <2>1. PICK job : job = Last(queue[ch])
    OBVIOUS
  <2>2. /\ ~InHand /\ InHand' /\ drain'.job = job /\ UNCHANGED <<published, logged, lost>>
    BY <1>3, <2>1 DEF TakenUp
  <2>3. /\ Waiting = Waiting' \cup {job} /\ job.id \notin Queued'
    BY <1>3, <1>a, <2>1, PopQueued DEF TakenUp
  <2>4. job \notin Waiting'
    BY <1>a, <2>3 DEF Queued, Waiting, Range
  <2>5. inHand = {} /\ inHand' = {job} /\ job \in Waiting /\ Waiting' = Waiting \ {job}
    BY <2>2, <2>3, <2>4
  <2> QED
    BY <2>2, <2>5 DEF Jobs!Next, Jobs!Take
<1>4. ASSUME NEW ch \in Range(Channels), NEW job \in Entry, PutBack(ch, job) PROVE Jobs!Next
  <2>1. /\ inHand = {drain.job} /\ inHand' = {} /\ job.id = drain.job.id
        /\ \/ job.attempts = drain.job.attempts
           \/ job.attempts = drain.job.attempts + 1 /\ job.attempts < RetryCap
        /\ UNCHANGED <<published, logged, lost>>
    BY <1>4 DEF PutBack
  <2>2. Waiting' = Waiting \cup {job}
    BY <1>4, <1>a, PushQueued DEF PutBack
  <2>3. drain.job \in Entry /\ job \in Entry
    BY <1>b, <1>4 DEF PutBack
  <2>4. PICK more \in {0, 1} : /\ job = [drain.job EXCEPT !.attempts = @ + more]
                               /\ more = 1 => drain.job.attempts + more < RetryCap
    BY <2>1, <2>3, NotificationsAssumption DEF Entry
  <2> QED
    BY <2>1, <2>2, <2>4 DEF Jobs!Next, Jobs!PutBack
<1>5. CASE Closed
  <2>1. /\ inHand = {drain.job} /\ inHand' = {} /\ logged' = logged \cup {drain.job.id}
        /\ Waiting' = Waiting /\ UNCHANGED <<published, lost>>
    BY <1>5 DEF Closed, Waiting
  <2> QED
    BY <2>1 DEF Jobs!Next, Jobs!Close
<1>6. CASE TakenAway
  <2>1. /\ inHand = {drain.job} /\ inHand' = {} /\ lost' = lost \cup {drain.job.id}
        /\ Waiting' = Waiting /\ UNCHANGED <<published, logged>>
    BY <1>6 DEF TakenAway, Waiting
  <2> QED
    BY <2>1 DEF Jobs!Next, Jobs!Lose
<1> QED
  BY <1>a, <1>1, <1>2, <1>3, <1>4, <1>5, <1>6, Moves

\* For any jobs, limits and faults: seen as one set of jobs that wait and one in hand, the
\* queues and the drain do what JobQueue allows.
THEOREM QueueImplementsJobs == Spec => ImplementsJobQueue
<1>1. Init => Jobs!Init
  <2> SUFFICES ASSUME Init PROVE Jobs!Init
    OBVIOUS
  <2>1. Waiting = {} /\ ~InHand
    BY DEF Init, Waiting, Range, InHand, Resting, Handling
  <2> QED
    BY <2>1 DEF Init, Jobs!Init
<1>2. Inv /\ Inv' /\ [Next]_vars => [Jobs!Next]_(Jobs!vars)
  BY JobMoves
<1> QED
  BY <1>1, <1>2, Invariance, PTL DEF Spec, ImplementsJobQueue, Jobs!Spec

-----------------------------------------------------------------------------

\* Of one request at a time, and no error: a request under way is for the latest change, and
\* what has the marker of the latest change is written, or about to be.
Obeyed ==
  errors = 0 =>
    /\ \A r \in Requests : sending[r].at # "idle" => sending[r].change = changes
    /\ marks \subseteq {MarkOf(n) : n \in 1..changes}
    /\ MarkOf(changes) \in marks /\ (\A r \in Requests : sending[r].at # "write")
         => consent = Grants(changes)
    /\ answered => consent = Grants(changes)

\* Two changes have two markers.
LEMMA MarksDiffer == \A n, m \in Nat : MarkOf(n) = MarkOf(m) => n = m
<1> SUFFICES ASSUME NEW n \in Nat, NEW m \in Nat, MarkOf(n) = MarkOf(m) PROVE n = m
  OBVIOUS
<1>1. (n % 2 = 1 <=> m % 2 = 1) /\ (n + 1) \div 2 = (m + 1) \div 2
  BY DEF MarkOf, Grants
<1> QED
  BY <1>1

LEMMA ObeyedStep ==
  ASSUME \A r, q \in Requests : r = q, ConsentTyped, Obeyed, ConsentNext
  PROVE  Obeyed'
<1> SUFFICES ASSUME errors' = 0 PROVE Obeyed'
  BY DEF Obeyed
<1>a. /\ changes \in Nat /\ consent \in BOOLEAN /\ answered \in BOOLEAN
      /\ DOMAIN sending = Requests
      /\ \A r \in Requests : sending[r].at # "idle" => sending[r].change \in 1..changes
  BY ConsentAssumption DEF ConsentTyped, ConsentTypeOK
<1>b. errors = 0
  <2>1. errors \in Nat /\ errors' \in Nat /\ errors <= errors'
    BY ConsentStep, ConsentAssumption DEF ConsentTyped, ConsentTypeOK
  <2> QED
    BY <2>1
<1>c. /\ \A r \in Requests : sending[r].at # "idle" => sending[r].change = changes
      /\ marks \subseteq {MarkOf(n) : n \in 1..changes}
      /\ MarkOf(changes) \in marks /\ (\A r \in Requests : sending[r].at # "write")
           => consent = Grants(changes)
      /\ answered => consent = Grants(changes)
  BY <1>b DEF Obeyed
<1>d. NotSending.at = "idle"
  BY DEF NotSending
\* Nobody else is sending.
<1>e. ASSUME NEW r \in Requests, NEW new, sending' = [sending EXCEPT ![r] = new]
      PROVE  \A q \in Requests : q = r /\ sending'[q] = new
  BY <1>a, <1>e
<1>1. ASSUME NEW r \in Requests, SendChange(r) PROVE Obeyed'
  <2> DEFINE new == [at |-> "mark", change |-> changes']
  <2>1. /\ changes' \in {changes, changes + 1} /\ UNCHANGED <<consent, marks>>
        /\ \A q \in Requests : sending'[q] = new
        /\ sending[r].at = "idle" /\ (answered' <=> answered /\ changes' = changes)
    BY <1>1, <1>e DEF SendChange
  <2>a. new.at = "mark" /\ new.change = changes'
    OBVIOUS
  <2> HIDE DEF new
  <2>2. CASE changes' = changes
    <3>1. \A q \in Requests : sending[q].at # "write"
      BY <2>1, <1>1
    <3>2. /\ MarkOf(changes') \in marks' => consent' = Grants(changes')
          /\ answered' => consent' = Grants(changes')
          /\ marks' \subseteq {MarkOf(n) : n \in 1..changes'}
      BY <1>c, <2>1, <2>2, <3>1
    <3> QED
      BY <2>1, <2>a, <3>2 DEF Obeyed
  <2>3. CASE changes' = changes + 1
    <3>1. MarkOf(changes + 1) \notin marks
      BY <1>a, <1>c, MarksDiffer
    <3>2. marks \subseteq {MarkOf(n) : n \in 1..changes + 1}
      BY <1>a, <1>c
    <3>3. ~answered'
      BY <1>a, <2>1, <2>3
    <3>4. MarkOf(changes') \notin marks' /\ marks' \subseteq {MarkOf(n) : n \in 1..changes'}
      BY <2>1, <2>3, <3>1, <3>2
    <3> QED
      BY <2>1, <2>a, <3>3, <3>4 DEF Obeyed
  <2> QED
    BY <2>1, <2>2, <2>3
<1>2. ASSUME NEW r \in Requests, Mark(r) PROVE Obeyed'
  <2>1. /\ sending[r].at = "mark" /\ sending[r].change = changes /\ changes \in 1..changes
        /\ UNCHANGED <<consent, changes>>
    BY <1>2, <1>a, <1>c DEF Mark
  <2>2. \A q \in Requests : sending[q].at # "write"
    BY <2>1
  <2>3. CASE MarkOf(changes) \in marks
    <3>1. sending' = [sending EXCEPT ![r] = NotSending] /\ UNCHANGED marks
      BY <1>2, <2>1, <2>3 DEF Mark
    <3>2. \A q \in Requests : sending'[q] = NotSending
      BY <1>e, <3>1
    <3>3. consent = Grants(changes)
      BY <1>c, <2>2, <2>3
    <3> QED
      BY <1>c, <1>d, <2>1, <3>1, <3>2, <3>3 DEF Obeyed
  <2>4. CASE MarkOf(changes) \notin marks
    <3> DEFINE new == [sending[r] EXCEPT !.at = "write"]
    <3>1. /\ sending' = [sending EXCEPT ![r] = new] /\ UNCHANGED answered
          /\ marks' \subseteq marks \cup {MarkOf(changes)}
      BY <1>2, <1>a, <2>1, <2>4 DEF Mark
    <3>2. \A q \in Requests : sending'[q] = new
      BY <1>e, <3>1
    <3>3. new.at = "write" /\ new.change = changes
      BY <1>2, <1>a, <2>1 DEF ConsentTyped, ConsentTypeOK
    <3>4. marks' \subseteq {MarkOf(n) : n \in 1..changes}
      BY <1>c, <2>1, <3>1
    <3> HIDE DEF new
    <3> QED
      BY <1>2, <1>c, <2>1, <3>1, <3>2, <3>3, <3>4 DEF Obeyed
  <2> QED
    BY <2>3, <2>4
<1>3. ASSUME NEW r \in Requests, WriteConsent(r) PROVE Obeyed'
  <2>1. /\ sending[r].change = changes /\ consent' = Grants(changes)
        /\ UNCHANGED <<changes, marks>>
        /\ \A q \in Requests : sending'[q] = NotSending
    BY <1>3, <1>c, <1>e DEF WriteConsent
  <2> QED
    BY <1>c, <1>d, <2>1 DEF Obeyed
<1>4. ASSUME NEW r \in Requests PROVE ~FailRequest(r)
  BY <1>b, <1>4 DEF FailRequest
<1>5. CASE MarkExpires
  BY <1>c, <1>5 DEF MarkExpires, Obeyed
<1> QED
  BY <1>1, <1>2, <1>3, <1>4, <1>5 DEF ConsentNext

\* That RevokeHonoured fails takes an error, or a client that does not wait for its answers:
\* whatever a client that waits repeats, and whichever markers expire, an answered revoke is
\* kept while nothing fails.
THEOREM RevokeHonouredWithoutErrors ==
  ASSUME \A r, q \in Requests : r = q
  PROVE  ConsentSpec => [](errors = 0 => RevokeHonoured)
<1>1. ConsentInit => ConsentTyped /\ Obeyed
  <2> SUFFICES ASSUME ConsentInit PROVE ConsentTyped /\ Obeyed
    OBVIOUS
  <2>1. /\ consent = FALSE /\ changes = 0 /\ marks = {} /\ errors = 0 /\ answered = FALSE
        /\ sending = [r \in Requests |-> NotSending] /\ NotSending.at = "idle"
    BY DEF ConsentInit, NotSending
  <2>2. ConsentTyped
    BY ConsentInitTyped
  <2>3. MarkOf(changes) \notin marks /\ \A r \in Requests : sending[r].at = "idle"
    BY <2>1
  <2> QED
    BY <2>1, <2>2, <2>3 DEF Obeyed
<1>2. ConsentTyped /\ Obeyed /\ [ConsentNext]_consent_vars => (ConsentTyped /\ Obeyed)'
  <2>1. CASE UNCHANGED consent_vars
    BY <2>1 DEF consent_vars, ConsentTyped, ConsentTypeOK, Obeyed
  <2> QED
    BY <2>1, ConsentStep, ObeyedStep
<1>3. Obeyed => (errors = 0 => RevokeHonoured)
  BY DEF Obeyed, RevokeHonoured
<1> QED
  BY <1>1, <1>2, <1>3, PTL DEF ConsentSpec
=============================================================================
