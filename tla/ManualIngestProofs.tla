------------------------- MODULE ManualIngestProofs -------------------------
(***************************************************************************)
(* ManualIngest for any contents, uploads, files, mails and what they      *)
(* hold, and any number of faults and resets: types, and that nothing that *)
(* was answered, or taken in to the end, is without its row and its file,  *)
(* and no more mails than there were faults are lost.                      *)
(*                                                                         *)
(* Stored is why the loser of a race never removes the file of a row: an   *)
(* intake that has yet to insert owns a file of its own, and a row that is *)
(* there by then names another intake.  Recorded follows what an intake    *)
(* holds through the digest lookup, the insert and the answer.  A mail is  *)
(* seen from its fetch on: LossBounded says that it is in hand, kept, or   *)
(* counted by a fault.                                                     *)
(***************************************************************************)
EXTENDS ManualIngest, FiniteSetTheorems, TLAPS

Intake == {"next", "insert", "enqueue"}

\* The types of a row and of an actor's place, and TypeOK with them.
Row == [by : Actors, status : Outcomes \cup {"pending"}, old : BOOLEAN]

Place == [at : Intake \cup {"idle", "scan", "poll", "reap", "parse", "parsing"},
          file : Contents \cup {none}, rest : SUBSET Contents]

Typed ==
  /\ inbox \subseteq Items /\ seen \subseteq Mails \ inbox
  /\ item \in (inbox \cap Files) \cup seen \cup {none}
  /\ DOMAIN rows \subseteq Contents /\ \A c \in DOMAIN rows : rows[c] \in Row
  /\ disk \subseteq Actors \X Contents /\ queue \in Seq(DOMAIN rows)
  /\ job \in [Actors -> Place]
  /\ faults \in 0..MaxFaults /\ reset \subseteq DOMAIN rows
  /\ settled \subseteq Requests \cup Items

\* What an intake takes in.
Source(a) == IF a = Worker THEN item ELSE a

\* An actor has a file where its place has one, with a row once it was inserted; the
\* worker has an item in hand while it takes one in, and only then; uploads do nothing but
\* intakes.
Placed ==
  /\ \A a \in Actors :
       /\ job[a].at \in {"insert", "enqueue", "parse", "parsing"} => job[a].file \in Contents
       /\ job[a].at \in {"enqueue", "parse", "parsing"} => job[a].file \in DOMAIN rows
       /\ job[a].at \in Intake => Source(a) \in Requests \cup Items
  /\ job[Worker].at \notin Intake => item = none
  /\ \A r \in Requests : job[r].at \in Intake \cup {"idle"}

Stored ==
  /\ \A c \in DOMAIN rows : <<rows[c].by, c>> \in disk
  /\ \A a \in Actors : job[a].at = "insert" =>
       /\ <<a, job[a].file>> \in disk
       /\ job[a].file \in DOMAIN rows => rows[job[a].file].by # a

Recorded ==
  /\ \A s \in settled : Holds[s] \subseteq DOMAIN rows
  /\ \A a \in Actors : job[a].at \in Intake =>
       Holds[Source(a)] \subseteq
         DOMAIN rows \cup job[a].rest \cup IF job[a].at = "insert" THEN {job[a].file} ELSE {}

Inv == Typed /\ Placed /\ Stored /\ Recorded

LossBounded == IsFiniteSet(Lost) /\ Cardinality(Lost) <= faults

-----------------------------------------------------------------------------

LEMMA IdlePlace == Idle \in Place /\ Idle.at = "idle"
BY DEF Idle, Place

\* Who is an actor.
LEMMA Actor ==
  /\ Worker \in Actors /\ \A r \in Requests : r \in Actors /\ r # Worker
  /\ \A a \in Actors : a # Worker => a \in Requests
BY ManualAssumption DEF Actors

-----------------------------------------------------------------------------

LEMMA InitInv == Init => Inv
<1> SUFFICES ASSUME Init PROVE Inv
  OBVIOUS
<1>1. DOMAIN rows = {} /\ queue \in Seq(DOMAIN rows)
  BY DEF Init
<1>2. \A a \in Actors : job[a] \in Place /\ job[a].at = "idle"
  BY IdlePlace DEF Init
<1>3. Typed
  BY <1>1, <1>2, ManualAssumption DEF Init, Typed
<1>4. Placed /\ Stored /\ Recorded
  BY <1>1, <1>2, Actor DEF Init, Placed, Stored, Recorded, Intake
<1> QED
  BY <1>3, <1>4 DEF Inv

\* An upload begins with everything it holds to be taken in.
LEMMA SubmitStep == \A r \in Requests : Inv /\ Submit(r) => Inv'
<1> SUFFICES ASSUME NEW r \in Requests, Inv, Submit(r) PROVE Inv'
  OBVIOUS
<1> DEFINE new == [at |-> "next", file |-> none, rest |-> Holds[r]]
<1>a. Typed /\ Placed /\ Stored /\ Recorded
  BY DEF Inv
<1>b. /\ job' = [job EXCEPT ![r] = new] /\ r \in Actors /\ r # Worker
      /\ UNCHANGED <<inbox, seen, rows, disk, queue, item, faults, reset, settled>>
  BY Actor DEF Submit
<1>1. new \in Place
  BY ManualAssumption DEF Place, Intake
<1>2. Typed'
  BY <1>a, <1>b, <1>1 DEF Typed
<1> QED
  BY <1>a, <1>b, <1>1, <1>2, Actor DEF Typed, Inv, Placed, Stored, Recorded, Intake, Source

\* A duplicate has its row; any other content gets a file before it leaves what is left
\* to take in, and its actor, whose file it is, has no row of it.
LEMMA TakeInStep == \A a \in Actors, c \in Contents : Inv /\ TakeIn(a, c) => Inv'
<1> SUFFICES ASSUME NEW a \in Actors, NEW c \in Contents, Inv, TakeIn(a, c) PROVE Inv'
  OBVIOUS
<1>a. Typed /\ Placed /\ Stored /\ Recorded
  BY DEF Inv
<1>b. /\ job[a] \in Place /\ job[a].at = "next" /\ c \in job[a].rest
      /\ UNCHANGED <<inbox, seen, rows, queue, item, faults, reset, settled>>
  BY <1>a DEF TakeIn, Typed
<1>1. CASE c \in DOMAIN rows
  <2> DEFINE new == [job[a] EXCEPT !.rest = @ \ {c}]
  <2>1. job' = [job EXCEPT ![a] = new] /\ UNCHANGED disk
    BY <1>a, <1>1 DEF TakeIn, Typed
  <2>2. new \in Place /\ new.at = "next" /\ new.rest = job[a].rest \ {c}
    BY <1>b DEF Place
  <2>3. Typed'
    BY <1>a, <1>b, <2>1, <2>2 DEF Typed
  <2>4. Placed' /\ Stored'
    BY <1>a, <1>b, <2>1, <2>2 DEF Typed, Placed, Stored, Intake, Source
  <2>5. Recorded'
    BY <1>a, <1>b, <1>1, <2>1, <2>2 DEF Typed, Recorded, Intake, Source
  <2> QED
    BY <2>3, <2>4, <2>5 DEF Inv
<1>2. CASE c \notin DOMAIN rows
  <2> DEFINE new == [at |-> "insert", file |-> c, rest |-> job[a].rest \ {c}]
  <2>1. job' = [job EXCEPT ![a] = new] /\ disk' = disk \cup {<<a, c>>}
    BY <1>a, <1>2 DEF TakeIn, Typed
  <2>2. new \in Place
    BY <1>b DEF Place, Intake
  <2>3. Typed'
    BY <1>a, <1>b, <2>1, <2>2 DEF Typed
  <2>4. Placed'
    BY <1>a, <1>b, <2>1, <2>2 DEF Typed, Placed, Intake, Source
  <2>5. Stored'
    BY <1>a, <1>b, <1>2, <2>1, <2>2 DEF Typed, Stored
  <2>6. Recorded'
    BY <1>a, <1>b, <2>1, <2>2 DEF Typed, Recorded, Intake, Source
  <2> QED
    BY <2>3, <2>4, <2>5, <2>6 DEF Inv
<1> QED
  BY <1>1, <1>2

\* The loser removes a file that no row names; the winner's row names the file it wrote.
LEMMA InsertStep == \A a \in Actors : Inv /\ Insert(a) => Inv'
<1> SUFFICES ASSUME NEW a \in Actors, Inv, Insert(a) PROVE Inv'
  OBVIOUS
<1>a. Typed /\ Placed /\ Stored /\ Recorded
  BY DEF Inv
<1> DEFINE c == job[a].file
<1>b. /\ job[a] \in Place /\ job[a].at = "insert" /\ c \in Contents /\ <<a, c>> \in disk
      /\ UNCHANGED <<inbox, seen, queue, item, faults, reset, settled>>
  BY <1>a DEF Insert, Typed, Placed, Stored
<1>1. CASE c \in DOMAIN rows
  <2> DEFINE new == [job[a] EXCEPT !.at = "next", !.file = none]
  <2>1. job' = [job EXCEPT ![a] = new] /\ disk' = disk \ {<<a, c>>} /\ UNCHANGED rows
    BY <1>a, <1>1 DEF Insert, Typed
  <2>2. new \in Place /\ new.at = "next" /\ new.rest = job[a].rest
    BY <1>b DEF Place, Intake
  <2>3. rows[c].by # a
    BY <1>a, <1>b, <1>1 DEF Stored
  <2>4. Typed'
    BY <1>a, <1>b, <2>1, <2>2 DEF Typed
  <2>5. Placed'
    BY <1>a, <1>b, <2>1, <2>2 DEF Typed, Placed, Intake, Source
  <2>6. Stored'
    <3>1. \A d \in DOMAIN rows : <<rows[d].by, d>> \in disk'
      BY <1>a, <2>1, <2>3 DEF Stored
    <3>2. \A b \in Actors : job'[b].at = "insert" => b # a /\ job'[b] = job[b]
      BY <1>a, <2>1, <2>2 DEF Typed
    <3> QED
      BY <1>a, <2>1, <3>1, <3>2 DEF Stored
  <2>7. Recorded'
    BY <1>a, <1>b, <1>1, <2>1, <2>2 DEF Typed, Recorded, Intake, Source
  <2> QED
    BY <2>4, <2>5, <2>6, <2>7 DEF Inv
<1>2. CASE c \notin DOMAIN rows
  <2> DEFINE new == [job[a] EXCEPT !.at = "enqueue"]
             row == [by |-> a, status |-> "pending", old |-> FALSE]
  <2>1. /\ job' = [job EXCEPT ![a] = new] /\ UNCHANGED disk
        /\ rows' = [d \in DOMAIN rows \cup {c} |-> IF d = c THEN row ELSE rows[d]]
    BY <1>a, <1>2 DEF Insert, Typed, Goto
  <2>2. /\ new \in Place /\ new.at = "enqueue" /\ new.file = c /\ new.rest = job[a].rest
        /\ row \in Row /\ row.by = a
    BY <1>b DEF Place, Intake, Row
  <2>3. /\ DOMAIN rows' = DOMAIN rows \cup {c} /\ rows'[c] = row
        /\ \A d \in DOMAIN rows : rows'[d] = rows[d]
    BY <1>2, <2>1
  <2> HIDE DEF row, new
  <2>4. queue \in Seq(DOMAIN rows')
    BY <1>a, <2>3 DEF Typed
  <2>5. Typed'
    BY <1>a, <1>b, <2>1, <2>2, <2>3, <2>4 DEF Typed
  <2>6. Placed'
    BY <1>a, <1>b, <2>1, <2>2, <2>3 DEF Typed, Placed, Intake, Source
  <2>7. Stored'
    <3>1. \A d \in DOMAIN rows' : <<rows'[d].by, d>> \in disk
      BY <1>a, <1>b, <2>2, <2>3 DEF Stored
    <3>2. \A b \in Actors : job'[b].at = "insert" => b # a /\ job'[b] = job[b]
      BY <1>a, <2>1, <2>2 DEF Typed
    <3>3. \A b \in Actors : job'[b].at = "insert" =>
            /\ <<b, job'[b].file>> \in disk
            /\ job'[b].file \in DOMAIN rows' => rows'[job'[b].file].by # b
      BY <1>a, <2>2, <2>3, <3>2 DEF Stored
    <3> QED
      BY <2>1, <3>1, <3>3 DEF Stored
  <2>8. Recorded'
    BY <1>a, <1>b, <2>1, <2>2, <2>3 DEF Typed, Recorded, Intake, Source
  <2> QED
    BY <2>5, <2>6, <2>7, <2>8 DEF Inv
<1> QED
  BY <1>1, <1>2

LEMMA EnqueueStep == \A a \in Actors : Inv /\ Enqueue(a) => Inv'
<1> SUFFICES ASSUME NEW a \in Actors, Inv, Enqueue(a) PROVE Inv'
  OBVIOUS
<1> DEFINE new == [job[a] EXCEPT !.at = "next", !.file = none]
<1>a. Typed /\ Placed /\ Stored /\ Recorded
  BY DEF Inv
<1>b. /\ job[a] \in Place /\ job[a].at = "enqueue" /\ job[a].file \in DOMAIN rows
      /\ job' = [job EXCEPT ![a] = new] /\ queue' = Append(queue, job[a].file)
      /\ UNCHANGED <<inbox, seen, rows, disk, item, faults, reset, settled>>
  BY <1>a DEF Enqueue, Typed, Placed
<1>1. new \in Place /\ new.at = "next" /\ new.rest = job[a].rest
  BY <1>b DEF Place, Intake
<1>2. queue' \in Seq(DOMAIN rows)
  BY <1>a, <1>b DEF Typed
<1> HIDE DEF new
<1>3. Typed'
  BY <1>a, <1>b, <1>1, <1>2 DEF Typed
<1>4. Placed' /\ Stored'
  BY <1>a, <1>b, <1>1 DEF Typed, Placed, Stored, Intake, Source
<1>5. Recorded'
  BY <1>a, <1>b, <1>1 DEF Typed, Recorded, Intake, Source
<1> QED
  BY <1>3, <1>4, <1>5 DEF Inv

\* What leaves the intake has been taken in, and is recorded.
LEMMA AnswerStep == \A r \in Requests : Inv /\ Answer(r) => Inv'
<1> SUFFICES ASSUME NEW r \in Requests, Inv, Answer(r) PROVE Inv'
  OBVIOUS
<1>a. Typed /\ Placed /\ Stored /\ Recorded
  BY DEF Inv
<1>b. /\ job[r].at = "next" /\ job[r].rest = {} /\ job' = [job EXCEPT ![r] = Idle]
      /\ settled' = settled \cup {r} /\ r \in Actors /\ r # Worker
      /\ UNCHANGED <<inbox, seen, rows, disk, queue, item, faults, reset>>
  BY Actor DEF Answer
<1>1. Holds[r] \subseteq DOMAIN rows
  BY <1>a, <1>b DEF Recorded, Source, Intake
<1>2. Typed'
  BY <1>a, <1>b, IdlePlace DEF Typed
<1>3. Placed' /\ Stored'
  BY <1>a, <1>b, IdlePlace, Actor DEF Typed, Placed, Stored, Intake, Source
<1>4. Recorded'
  BY <1>a, <1>b, <1>1, IdlePlace DEF Typed, Recorded, Intake, Source
<1> QED
  BY <1>2, <1>3, <1>4 DEF Inv

LEMMA LeaveStep == Inv /\ Leave => Inv'
<1> SUFFICES ASSUME Inv, Leave PROVE Inv'
  OBVIOUS
<1> DEFINE new == [job[Worker] EXCEPT !.at = IF item \in Mails THEN "poll" ELSE "scan"]
<1>a. Typed /\ Placed /\ Stored /\ Recorded
  BY DEF Inv
<1>b. /\ job[Worker] \in Place /\ job[Worker].at = "next" /\ job[Worker].rest = {}
      /\ job' = [job EXCEPT ![Worker] = new] /\ item' = none
      /\ inbox' = inbox \ {item} /\ settled' = settled \cup {item}
      /\ UNCHANGED <<seen, rows, disk, queue, faults, reset>>
  BY <1>a, Actor DEF Leave, Goto, Typed
<1>1. new \in Place /\ new.at \in {"scan", "poll"}
  BY <1>b DEF Place
<1>2. item \in Items /\ Holds[item] \subseteq DOMAIN rows
  <2>1. Source(Worker) = item /\ job[Worker].at \in Intake
    BY <1>b DEF Source, Intake
  <2>2. item \in Requests \cup Items /\ item \notin Requests
    BY <1>a, <2>1, Actor, ManualAssumption DEF Placed, Typed, Items
  <2> QED
    BY <1>a, <1>b, <2>1, <2>2, Actor DEF Recorded
<1> HIDE DEF new
<1>3. Typed'
  BY <1>a, <1>b, <1>1, <1>2 DEF Typed
<1>4. Placed'
  BY <1>a, <1>b, <1>1, Actor DEF Typed, Placed, Intake, Source
<1>5. Stored'
  BY <1>a, <1>b, <1>1 DEF Typed, Stored
<1>6. Recorded'
  <2>1. \A s \in settled' : Holds[s] \subseteq DOMAIN rows
    BY <1>a, <1>b, <1>2 DEF Recorded
  <2>2. \A a \in Actors : job'[a].at \in Intake => a # Worker /\ job'[a] = job[a]
    BY <1>a, <1>b, <1>1 DEF Typed, Intake
  <2>3. \A a \in Actors : job'[a].at \in Intake =>
          Holds[a] \subseteq DOMAIN rows \cup job'[a].rest
                               \cup IF job'[a].at = "insert" THEN {job'[a].file} ELSE {}
    BY <1>a, <2>2 DEF Recorded, Source
  <2> QED
    BY <1>b, <2>1, <2>2, <2>3 DEF Recorded, Source
<1> QED
  BY <1>3, <1>4, <1>5, <1>6 DEF Inv

-----------------------------------------------------------------------------

\* A step of the worker outside of an intake, or of an upload that fails: its actor goes to
\* no intake, and rows keep their makers.
LEMMA Elsewhere ==
  ASSUME Inv, Typed', NEW a \in Actors,
         \A b \in Actors \ {a} : job'[b] = job[b],
         job'[a].at \notin Intake,
         job'[a].at \in {"parse", "parsing"} => a = Worker /\ job'[a].file \in DOMAIN rows,
         a # Worker => job'[a].at = "idle" /\ UNCHANGED item,
         a = Worker => item' = none,
         DOMAIN rows' = DOMAIN rows, \A c \in DOMAIN rows : rows'[c].by = rows[c].by,
         UNCHANGED <<disk, settled>>
  PROVE  Inv'
<1>a. Typed /\ Placed /\ Stored /\ Recorded
  BY DEF Inv
<1>1. Placed'
  BY <1>a, Actor DEF Placed, Typed, Intake, Source
<1>2. Stored'
  BY <1>a DEF Stored, Intake
<1>3. Recorded'
  <2>1. \A b \in Actors : job'[b].at \in Intake =>
          b # a /\ job'[b] = job[b] /\ Source(b)' = Source(b)
    BY DEF Source
  <2> QED
    BY <1>a, <2>1 DEF Recorded
<1> QED
  BY <1>1, <1>2, <1>3 DEF Inv

LEMMA AbortStep == \A r \in Requests : Inv /\ Abort(r) => Inv'
<1> SUFFICES ASSUME NEW r \in Requests, Inv, Abort(r) PROVE Inv'
  OBVIOUS
<1>1. /\ job' = [job EXCEPT ![r] = Idle] /\ job \in [Actors -> Place] /\ r \in Actors
      /\ UNCHANGED <<inbox, seen, rows, disk, queue, item, faults, reset, settled>> /\ r # Worker
  BY Actor DEF Abort, Inv, Typed
<1>2. Typed'
  BY <1>1, IdlePlace DEF Inv, Typed
<1> QED
  BY <1>1, <1>2, IdlePlace, Elsewhere DEF Intake

LEMMA BeatStep == \A task \in Beats : Inv /\ Beat(task) => Inv'
<1> SUFFICES ASSUME NEW task \in Beats, Inv, Beat(task) PROVE Inv'
  OBVIOUS
<1> DEFINE new == [job[Worker] EXCEPT !.at = task]
<1>1. /\ job' = [job EXCEPT ![Worker] = new] /\ job \in [Actors -> Place]
      /\ job[Worker] \in Place /\ item = none
      /\ UNCHANGED <<inbox, seen, rows, disk, queue, item, faults, reset, settled>>
  BY Actor, IdlePlace DEF Beat, Goto, Inv, Typed, Placed, Intake
<1>2. new \in Place /\ new.at \in {"scan", "poll", "reap"}
  BY <1>1 DEF Place, Beats
<1> HIDE DEF new
<1>3. Typed'
  BY <1>1, <1>2 DEF Inv, Typed
<1> QED
  BY <1>1, <1>2, <1>3, Actor, Elsewhere DEF Intake

LEMMA TakeStep == Inv /\ Take => Inv'
<1> SUFFICES ASSUME Inv, Take PROVE Inv'
  OBVIOUS
<1> DEFINE new == [at |-> "parse", file |-> Head(queue), rest |-> {}]
<1>1. /\ job' = [job EXCEPT ![Worker] = new] /\ job \in [Actors -> Place]
      /\ queue \in Seq(DOMAIN rows) /\ queue # <<>> /\ queue' = Tail(queue)
      /\ DOMAIN rows \subseteq Contents /\ item = none
      /\ UNCHANGED <<inbox, seen, rows, disk, item, faults, reset, settled>>
  BY IdlePlace DEF Take, Inv, Typed, Placed, Intake
<1>2. Head(queue) \in DOMAIN rows /\ queue' \in Seq(DOMAIN rows)
  BY <1>1
<1>3. new \in Place /\ new.at = "parse" /\ new.file \in DOMAIN rows
  BY <1>1, <1>2 DEF Place
<1> HIDE DEF new
<1>4. Typed'
  BY <1>1, <1>2, <1>3 DEF Inv, Typed
<1> QED
  BY <1>1, <1>3, <1>4, Actor, Elsewhere DEF Intake

LEMMA DieStep == Inv /\ Die => Inv'
<1> SUFFICES ASSUME Inv, Die PROVE Inv'
  OBVIOUS
<1>1. /\ job' = [job EXCEPT ![Worker] = Idle] /\ job \in [Actors -> Place]
      /\ item' = none /\ faults' \in 0..MaxFaults
      /\ UNCHANGED <<inbox, seen, rows, disk, queue, reset, settled>>
  BY ManualAssumption DEF Die, Inv, Typed
<1>2. Typed'
  BY <1>1, IdlePlace DEF Inv, Typed
<1> QED
  BY <1>1, <1>2, Actor, IdlePlace, Elsewhere DEF Intake

\* A row's status changes, and nothing else of it but its age.
LEMMA StatusSet ==
  ASSUME Typed, NEW c \in DOMAIN rows, NEW status \in Outcomes \cup {"pending"},
         Set(c, status)
  PROVE  /\ DOMAIN rows' = DOMAIN rows /\ \A d \in DOMAIN rows : rows'[d] \in Row
         /\ \A d \in DOMAIN rows : rows'[d].by = rows[d].by
BY DEF Set, Typed, Row

LEMMA StartParseStep == Inv /\ StartParse => Inv'
<1> SUFFICES ASSUME Inv, StartParse PROVE Inv'
  OBVIOUS
<1> DEFINE c == job[Worker].file
<1>1. /\ job \in [Actors -> Place] /\ job[Worker] \in Place /\ c \in DOMAIN rows
      /\ item = none
      /\ UNCHANGED <<inbox, seen, disk, queue, item, faults, reset, settled>>
  BY Actor DEF StartParse, Inv, Typed, Placed, Intake
<1>2. PICK new \in Place : /\ job' = [job EXCEPT ![Worker] = new]
                           /\ new.at \in {"idle", "parsing"}
                           /\ new.at = "parsing" => new.file = c
  <2> DEFINE parsing == [job[Worker] EXCEPT !.at = "parsing"]
  <2>1. parsing \in Place /\ parsing.at = "parsing" /\ parsing.file = c
    BY <1>1 DEF Place
  <2>2. \/ job' = [job EXCEPT ![Worker] = parsing]
        \/ job' = [job EXCEPT ![Worker] = Idle]
    BY <1>1, Actor DEF StartParse, Goto
  <2> HIDE DEF parsing
  <2> QED
    BY <2>1, <2>2, IdlePlace
<1>3. /\ DOMAIN rows' = DOMAIN rows /\ \A d \in DOMAIN rows : rows'[d] \in Row
      /\ \A d \in DOMAIN rows : rows'[d].by = rows[d].by
  <2>1. UNCHANGED rows \/ Set(c, "failed")
    BY DEF StartParse
  <2> QED
    BY <1>1, <2>1, StatusSet DEF Inv, Typed, Outcomes
<1>4. Typed'
  BY <1>1, <1>2, <1>3 DEF Inv, Typed
<1> QED
  BY <1>1, <1>2, <1>3, <1>4, Actor, Elsewhere DEF Intake

LEMMA FinishStep == Inv /\ Finish => Inv'
<1> SUFFICES ASSUME Inv, Finish PROVE Inv'
  OBVIOUS
<1>1. /\ job \in [Actors -> Place] /\ job[Worker].file \in DOMAIN rows
      /\ job' = [job EXCEPT ![Worker] = Idle] /\ item = none
      /\ UNCHANGED <<inbox, seen, disk, queue, item, faults, reset, settled>>
  BY Actor DEF Finish, Inv, Typed, Placed, Intake
<1>2. /\ DOMAIN rows' = DOMAIN rows /\ \A d \in DOMAIN rows : rows'[d] \in Row
      /\ \A d \in DOMAIN rows : rows'[d].by = rows[d].by
  BY <1>1, StatusSet DEF Finish, Inv
<1>3. Typed'
  BY <1>1, <1>2, IdlePlace DEF Inv, Typed
<1> QED
  BY <1>1, <1>2, <1>3, IdlePlace, Actor, Elsewhere DEF Intake

LEMMA ReapStep == Inv /\ Reap => Inv'
<1> SUFFICES ASSUME Inv, Reap PROVE Inv'
  OBVIOUS
<1>1. /\ job \in [Actors -> Place] /\ job' = [job EXCEPT ![Worker] = Idle] /\ item = none
      /\ UNCHANGED <<inbox, seen, disk, queue, item, faults, reset, settled>>
  BY DEF Reap, Inv, Typed, Placed, Intake
<1>2. /\ DOMAIN rows' = DOMAIN rows /\ \A d \in DOMAIN rows : rows'[d] \in Row
      /\ \A d \in DOMAIN rows : rows'[d].by = rows[d].by
  BY DEF Reap, Inv, Typed, Row, Outcomes
<1>3. Typed'
  BY <1>1, <1>2, IdlePlace DEF Inv, Typed
<1> QED
  BY <1>1, <1>2, <1>3, IdlePlace, Actor, Elsewhere DEF Intake

\* The worker begins with everything that an item holds.
LEMMA OpenStep ==
  ASSUME Inv, NEW i \in Items, Open(i), Typed'
  PROVE  Inv'
<1> DEFINE new == [at |-> "next", file |-> none, rest |-> Holds[i]]
<1>a. Typed /\ Placed /\ Stored /\ Recorded
  BY DEF Inv
<1>b. /\ item' = i /\ job' = [job EXCEPT ![Worker] = new]
      /\ UNCHANGED <<rows, disk, queue, faults, reset, settled>>
  BY DEF Open
<1>1. new.at = "next" /\ new.rest = Holds[i]
  OBVIOUS
<1> HIDE DEF new
<1>2. /\ job'[Worker] = new /\ Source(Worker)' = i
      /\ \A b \in Actors : b # Worker => job'[b] = job[b] /\ Source(b)' = Source(b)
  BY <1>a, <1>b, Actor DEF Typed, Source
<1>3. Placed'
  BY <1>a, <1>b, <1>1, <1>2, Actor DEF Placed, Intake
<1>4. Stored'
  BY <1>a, <1>b, <1>1, <1>2 DEF Stored
<1>5. Recorded'
  BY <1>a, <1>b, <1>1, <1>2 DEF Recorded
<1> QED
  BY <1>3, <1>4, <1>5 DEF Inv

LEMMA OpenTyped ==
  ASSUME Inv, NEW i \in Items, Open(i)
  PROVE  job' \in [Actors -> Place]
BY ManualAssumption DEF Inv, Typed, Open, Place, Intake

LEMMA NextFileStep == Inv /\ NextFile => Inv'
<1> SUFFICES ASSUME Inv, NextFile PROVE Inv'
  OBVIOUS
<1>1. PICK i \in inbox \cap Files : Open(i)
  BY DEF NextFile
<1>2. i \in Items /\ job' \in [Actors -> Place]
  BY <1>1, OpenTyped DEF Items
<1>3. Typed'
  BY <1>1, <1>2 DEF Inv, Typed, NextFile, Open
<1> QED
  BY <1>1, <1>2, <1>3, OpenStep

LEMMA NextMailStep == Inv /\ NextMail => Inv'
<1> SUFFICES ASSUME Inv, NextMail PROVE Inv'
  OBVIOUS
<1>1. PICK i \in inbox \cap Mails : Open(i) /\ inbox' = inbox \ {i} /\ seen' = seen \cup {i}
  BY DEF NextMail
<1>2. i \in Items /\ job' \in [Actors -> Place]
  BY <1>1, OpenTyped DEF Items
<1>3. Typed'
  BY <1>1, <1>2 DEF Inv, Typed, Open
<1> QED
  BY <1>1, <1>2, <1>3, OpenStep

LEMMA NoMoreStep == Inv /\ NoMore => Inv'
<1> SUFFICES ASSUME Inv, NoMore PROVE Inv'
  OBVIOUS
<1>1. /\ job' = [job EXCEPT ![Worker] = Idle] /\ job \in [Actors -> Place] /\ item = none
      /\ UNCHANGED <<inbox, seen, rows, disk, queue, item, faults, reset, settled>>
  BY DEF NoMore, Inv, Typed, Placed, Intake
<1>2. Typed'
  BY <1>1, IdlePlace DEF Inv, Typed
<1> QED
  BY <1>1, <1>2, IdlePlace, Actor, Elsewhere DEF Intake

LEMMA StayStep == Inv /\ Stay => Inv'
<1> SUFFICES ASSUME Inv, Stay PROVE Inv'
  OBVIOUS
<1> DEFINE new == [Idle EXCEPT !.at = "scan"]
<1>1. /\ job' = [job EXCEPT ![Worker] = new] /\ job \in [Actors -> Place]
      /\ item' = none /\ faults' \in 0..MaxFaults
      /\ UNCHANGED <<inbox, seen, rows, disk, queue, reset, settled>>
  BY ManualAssumption DEF Stay, Inv, Typed
<1>2. new \in Place /\ new.at = "scan"
  BY IdlePlace DEF Place, Idle
<1> HIDE DEF new
<1>3. Typed'
  BY <1>1, <1>2 DEF Inv, Typed
<1> QED
  BY <1>1, <1>2, <1>3, Actor, Elsewhere DEF Intake

\* Steps of nobody's job.
LEMMA OutsideStep ==
  ASSUME Inv, Typed',
         DOMAIN rows' = DOMAIN rows, \A c \in DOMAIN rows : rows'[c].by = rows[c].by,
         UNCHANGED <<disk, job, item, settled>>
  PROVE  Inv'
<1>1. Placed' /\ Stored' /\ Recorded'
  BY DEF Inv, Placed, Stored, Recorded, Source
<1> QED
  BY <1>1 DEF Inv

LEMMA DropStep == \A i \in Items : Inv /\ Drop(i) => Inv'
<1> SUFFICES ASSUME NEW i \in Items, Inv, Drop(i) PROVE Inv'
  OBVIOUS
<1>1. Typed'
  BY DEF Inv, Drop, Typed
<1> QED
  BY <1>1, OutsideStep DEF Drop

LEMMA SkipMailStep == Inv /\ SkipMail => Inv'
<1> SUFFICES ASSUME Inv, SkipMail PROVE Inv'
  OBVIOUS
<1>1. faults' \in 0..MaxFaults
  BY ManualAssumption DEF SkipMail, Inv, Typed
<1>2. Typed'
  BY <1>1, Actor DEF SkipMail, Inv, Typed, Placed, Intake
<1> QED
  BY <1>2, OutsideStep DEF SkipMail

LEMMA AgeStep == \A c \in Contents : Inv /\ Age(c) => Inv'
<1> SUFFICES ASSUME NEW c \in Contents, Inv, Age(c) PROVE Inv'
  OBVIOUS
<1>1. /\ DOMAIN rows' = DOMAIN rows /\ \A d \in DOMAIN rows : rows'[d] \in Row
      /\ \A d \in DOMAIN rows : rows'[d].by = rows[d].by
  BY DEF Age, Inv, Typed, Row
<1>2. Typed'
  BY <1>1 DEF Age, Inv, Typed
<1> QED
  BY <1>1, <1>2, OutsideStep DEF Age

LEMMA ResetStep == \A c \in Contents : Inv /\ Reset(c) => Inv'
<1> SUFFICES ASSUME NEW c \in Contents, Inv, Reset(c) PROVE Inv'
  OBVIOUS
<1>1. c \in DOMAIN rows /\ Set(c, "pending") /\ queue' = Append(queue, c)
  BY DEF Reset
<1>2. /\ DOMAIN rows' = DOMAIN rows /\ \A d \in DOMAIN rows : rows'[d] \in Row
      /\ \A d \in DOMAIN rows : rows'[d].by = rows[d].by
  BY <1>1, StatusSet DEF Inv
<1>3. queue' \in Seq(DOMAIN rows)
  BY <1>1 DEF Inv, Typed
<1>4. Typed'
  BY <1>1, <1>2, <1>3 DEF Reset, Inv, Typed
<1> QED
  BY <1>2, <1>4, OutsideStep DEF Reset

-----------------------------------------------------------------------------

LEMMA NextInv == Inv /\ [Next]_vars => Inv'
<1> SUFFICES ASSUME Inv, [Next]_vars PROVE Inv'
  OBVIOUS
<1>1. ASSUME NEW a \in Actors, TakeInFile(a) PROVE Inv'
  BY <1>1, TakeInStep, InsertStep, EnqueueStep DEF TakeInFile
<1>2. ASSUME NEW r \in Requests, Submit(r) \/ TakeInFile(r) \/ Answer(r) \/ Abort(r)
      PROVE  Inv'
  BY <1>1, <1>2, Actor, SubmitStep, AnswerStep, AbortStep
<1>3. CASE Work
  BY <1>1, <1>3, Actor, NextFileStep, NextMailStep, NoMoreStep, LeaveStep, StartParseStep,
     FinishStep, ReapStep DEF Work
<1>4. ASSUME NEW i \in Items, Drop(i) PROVE Inv'
  BY <1>4, DropStep
<1>5. ASSUME NEW task \in Beats, Beat(task) PROVE Inv'
  BY <1>5, BeatStep
<1>6. CASE Take \/ Die \/ SkipMail \/ Stay
  BY <1>6, TakeStep, DieStep, SkipMailStep, StayStep
<1>7. ASSUME NEW c \in Contents, Age(c) \/ Reset(c) PROVE Inv'
  BY <1>7, AgeStep, ResetStep
<1>8. CASE UNCHANGED vars
  BY <1>8 DEF vars, Inv, Typed, Placed, Stored, Recorded, Source
<1> QED
  BY <1>2, <1>3, <1>4, <1>5, <1>6, <1>7, <1>8 DEF Next

-----------------------------------------------------------------------------

\* A seen mail that nobody has in hand is lost when it holds a content without a row.
LEMMA LostUnrecorded ==
  ASSUME Inv, Inv'
  PROVE  /\ Lost = {m \in seen \ {item} : ~(Holds[m] \subseteq DOMAIN rows)}
         /\ Lost' = {m \in seen' \ {item'} : ~(Holds[m] \subseteq DOMAIN rows')}
<1>1. \A s \in seen : Kept(s) <=> Holds[s] \subseteq DOMAIN rows
  BY DEF Inv, Stored, Kept
<1>2. \A s \in seen' : Kept(s)' <=> Holds[s] \subseteq DOMAIN rows'
  BY DEF Inv, Stored, Kept
<1> QED
  BY <1>1, <1>2 DEF Lost

\* A step that loses no mail, and one that loses at most one and is a fault.
LEMMA NoneLost ==
  ASSUME Inv, Inv', LossBounded, Lost' \subseteq Lost, faults' = faults \/ faults' = faults + 1
  PROVE  LossBounded'
<1>1. IsFiniteSet(Lost') /\ Cardinality(Lost') <= Cardinality(Lost)
  BY FS_Subset DEF LossBounded
<1>2. Cardinality(Lost) \in Nat /\ Cardinality(Lost') \in Nat /\ faults \in Nat
  BY <1>1, FS_CardinalityType, ManualAssumption DEF LossBounded, Inv, Typed
<1> QED
  BY <1>1, <1>2 DEF LossBounded

LEMMA OneLost ==
  ASSUME Inv, Inv', LossBounded, NEW m, Lost' \subseteq Lost \cup {m}, faults' = faults + 1
  PROVE  LossBounded'
<1>1. IsFiniteSet(Lost \cup {m}) /\ Cardinality(Lost \cup {m}) <= Cardinality(Lost) + 1
  <2>1. /\ Cardinality(Lost \cup {m}) \in {Cardinality(Lost), Cardinality(Lost) + 1}
        /\ IsFiniteSet(Lost \cup {m}) /\ Cardinality(Lost) \in Nat
    BY FS_AddElement, FS_CardinalityType DEF LossBounded
  <2> QED
    BY <2>1
<1>2. IsFiniteSet(Lost') /\ Cardinality(Lost') <= Cardinality(Lost \cup {m})
  BY <1>1, FS_Subset
<1>3. /\ Cardinality(Lost) \in Nat /\ Cardinality(Lost') \in Nat
      /\ Cardinality(Lost \cup {m}) \in Nat /\ faults \in Nat
  BY <1>1, <1>2, FS_CardinalityType, ManualAssumption DEF LossBounded, Inv, Typed
<1> QED
  BY <1>1, <1>2, <1>3 DEF LossBounded

\* Rows are never removed.
LEMMA RowsStay == Inv /\ [Next]_vars => DOMAIN rows \subseteq DOMAIN rows'
<1> SUFFICES ASSUME Inv, [Next]_vars PROVE DOMAIN rows \subseteq DOMAIN rows'
  OBVIOUS
<1>1. ASSUME NEW a \in Actors, TakeInFile(a) PROVE DOMAIN rows \subseteq DOMAIN rows'
  BY <1>1 DEF TakeInFile, TakeIn, Insert, Enqueue
<1>2. CASE \E r \in Requests : Submit(r) \/ TakeInFile(r) \/ Answer(r) \/ Abort(r)
  BY <1>1, <1>2, Actor DEF Submit, Answer, Abort
<1>3. CASE Work
  BY <1>1, <1>3, Actor DEF Work, NextFile, NextMail, NoMore, Open, Leave, StartParse, Finish,
     Reap, Set
<1>4. CASE \/ \E i \in Items : Drop(i)
           \/ \E task \in Beats : Beat(task)
           \/ Take \/ Die \/ SkipMail \/ Stay
  BY <1>4 DEF Drop, Beat, Take, Die, SkipMail, Stay
<1>5. CASE \E c \in Contents : Age(c) \/ Reset(c)
  BY <1>5 DEF Age, Reset, Set
<1>6. CASE UNCHANGED vars
  BY <1>6 DEF vars
<1> QED
  BY <1>2, <1>3, <1>4, <1>5, <1>6 DEF Next

\* A mail that is marked as seen is in hand until it was taken in to the end or a fault
\* costs it; only a mail that a fault takes out of hand, or skips, can be lost.
LEMMA LossStep == Inv /\ Inv' /\ LossBounded /\ [Next]_vars => LossBounded'
<1> SUFFICES ASSUME Inv, Inv', LossBounded, [Next]_vars PROVE LossBounded'
  OBVIOUS
<1> DEFINE Unrecorded == {m \in seen \ {item} : ~(Holds[m] \subseteq DOMAIN rows)}
<1>a. Lost = Unrecorded /\ Lost' = Unrecorded' /\ DOMAIN rows \subseteq DOMAIN rows'
  BY LostUnrecorded, RowsStay
<1>b. none \notin Mails /\ seen \subseteq Mails /\ item \in Items \cup {none}
  BY ManualAssumption DEF Items, Inv, Typed
<1>1. CASE UNCHANGED <<seen, item, faults>>
  BY <1>1, <1>a, NoneLost
<1>2. CASE NextMail
  <2>1. PICK i \in inbox \cap Mails : Open(i) /\ seen' = seen \cup {i}
    BY <1>2 DEF NextMail
  <2>2. item = none /\ item' = i /\ faults' = faults
    BY <1>2, <2>1 DEF NextMail, Open, Inv, Placed, Intake
  <2>3. seen' \ {item'} \subseteq seen \ {item}
    BY <1>b, <2>1, <2>2
  <2> QED
    BY <1>a, <2>2, <2>3, NoneLost
<1>3. CASE NextFile
  <2>1. item = none /\ faults' = faults /\ UNCHANGED seen
    BY <1>3 DEF NextFile, Open, Inv, Placed, Intake
  <2>2. seen' \ {item'} \subseteq seen \ {item}
    BY <1>b, <2>1
  <2> QED
    BY <1>a, <2>1, <2>2, NoneLost
<1>4. CASE Leave
  <2>1. /\ item \in settled' /\ faults' = faults
        /\ UNCHANGED seen
    BY <1>4 DEF Leave
  <2>2. Holds[item] \subseteq DOMAIN rows'
    BY <2>1 DEF Inv, Recorded
  <2>3. Lost' \subseteq Lost
    BY <1>a, <2>1, <2>2
  <2> QED
    BY <2>1, <2>3, NoneLost
<1>5. CASE Die
  <2>1. UNCHANGED seen /\ faults' = faults + 1
    BY <1>5 DEF Die
  <2>2. Lost' \subseteq Lost \cup {item}
    BY <1>a, <2>1
  <2> QED
    BY <2>1, <2>2, OneLost
<1>6. CASE SkipMail
  <2>1. PICK i \in inbox \cap Mails : seen' = seen \cup {i}
    BY <1>6 DEF SkipMail
  <2>2. UNCHANGED item /\ faults' = faults + 1
    BY <1>6 DEF SkipMail
  <2>3. Lost' \subseteq Lost \cup {i}
    BY <1>a, <2>1, <2>2
  <2> QED
    BY <2>2, <2>3, OneLost
<1>7. CASE Stay
  <2>1. UNCHANGED seen /\ faults' = faults + 1 /\ item \notin Mails
    BY <1>7, ManualAssumption DEF Stay
  <2>2. Lost' \subseteq Lost
    BY <1>a, <1>b, <2>1
  <2> QED
    BY <2>1, <2>2, NoneLost
<1>8. ASSUME NEW a \in Actors, TakeInFile(a) PROVE UNCHANGED <<seen, item, faults>>
  BY <1>8 DEF TakeInFile, TakeIn, Insert, Enqueue
<1>9. \/ UNCHANGED <<seen, item, faults>>
      \/ NextMail \/ NextFile \/ Leave \/ Die \/ SkipMail \/ Stay
  <2>1. CASE \E r \in Requests : Submit(r) \/ TakeInFile(r) \/ Answer(r) \/ Abort(r)
    BY <1>8, <2>1, Actor DEF Submit, Answer, Abort
  <2>2. CASE Work
    BY <1>8, <2>2, Actor DEF Work, NoMore, StartParse, Finish, Reap
  <2>3. CASE \/ \E i \in Items : Drop(i)
             \/ \E task \in Beats : Beat(task)
             \/ Take \/ \E c \in Contents : Age(c) \/ Reset(c)
    BY <2>3 DEF Drop, Beat, Take, Age, Reset
  <2>4. CASE UNCHANGED vars
    BY <2>4 DEF vars
  <2> QED
    BY <2>1, <2>2, <2>3, <2>4 DEF Next
<1> QED
  BY <1>1, <1>2, <1>3, <1>4, <1>5, <1>6, <1>7, <1>9

LEMMA InitLoss == Init => LossBounded
<1> SUFFICES ASSUME Init PROVE LossBounded
  OBVIOUS
<1>1. Lost = {} /\ faults = 0
  BY DEF Init, Lost
<1> QED
  BY <1>1, FS_EmptySet DEF LossBounded

LEMMA Invariance == Spec => [](Inv /\ LossBounded)
<1>1. Inv /\ LossBounded /\ [Next]_vars => Inv' /\ LossBounded'
  BY NextInv, LossStep
<1> QED
  BY <1>1, InitInv, InitLoss, PTL DEF Spec

\* For any contents and any number of uploads, items, deaths and resets: every variable has
\* its type, and only contents with a row have a task that waits.
THEOREM InboxTyped == Spec => []TypeOK
<1>1. Intake \cup {"idle", "scan", "poll", "reap", "parse", "parsing"} =
        {"idle", "next", "insert", "enqueue", "scan", "poll", "reap", "parse",
         "parsing"}
  BY DEF Intake
<1>2. Inv => TypeOK
  BY <1>1 DEF Inv, Typed, TypeOK, Row, Place
<1> QED
  BY <1>2, Invariance, PTL

\* However many intakes of one content race, and whenever the worker dies: every content of
\* an upload that was answered, and of an item that was taken in to the end, has its row and
\* the file which the row names; and of the mails that have been marked as seen no more are
\* out of hand without that than there were faults.
THEOREM SettledIsRecorded == Spec => []NothingLeavesUnrecorded
<1>1. Inv /\ LossBounded => NothingLeavesUnrecorded
  BY DEF Inv, Stored, Recorded, Kept, LossBounded, NothingLeavesUnrecorded
<1> QED
  BY <1>1, Invariance, PTL
=============================================================================
