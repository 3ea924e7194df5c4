---------------------------- MODULE ManualIngest ----------------------------
(***************************************************************************)
(* The inbox for disclosure files that no scraper reaches: an admin's      *)
(* uploads (mf/manual_ingest.py, admin/manual_ingest_router.py), a watched *)
(* folder and a mailbox, parsing, and the reaper of stuck files            *)
(* (tasks/manual_ingest.py).                                               *)
(*                                                                         *)
(* Uploads run in the API, concurrently; everything else are tasks of the  *)
(* batch queue, whose single worker runs them in order.  An upload, a file *)
(* in the folder or a mail holds one or several contents (a zip's members, *)
(* a mail's parts).  Postgres has one row per content, by its digest, and  *)
(* every intake writes a file of its own first, named by a fresh id.       *)
(*                                                                         *)
(* A file stays in the folder until all of it is taken in.  A mail does    *)
(* not: the mailbox is selected for writing, and FETCH (RFC822) marks the  *)
(* mail as seen before any part of it is taken in.                         *)
(***************************************************************************)
EXTENDS Integers, Sequences, FiniteSets

CONSTANTS
  Contents,   \* what a file can contain
  Requests,   \* uploads
  Files,      \* files put into the folder
  Mails,      \* mails of senders that are allowed
  Holds,      \* the contents of each upload, file and mail
  none,       \* no content, or no item
  MaxFaults,  \* bound: deaths of the worker, and errors in its intakes, scans and polls
  MaxResets   \* bound: rows an operator has parsed again

Items == Files \cup Mails

Worker == "worker"
Actors == Requests \cup {Worker}

ASSUME ManualAssumption ==
  /\ Holds \in [Requests \cup Items -> SUBSET Contents]
  /\ Worker \notin Requests /\ Requests \cap Items = {} /\ Files \cap Mails = {}
  /\ none \notin Contents \cup Items \cup Requests
  /\ MaxFaults \in Nat /\ MaxResets \in Nat

VARIABLES
  inbox,    \* files in incoming/, and unseen mails
  seen,     \* mails that have the flag \Seen
  rows,     \* of manual_ingest_files: who stored it, its status -- "parsed" is archived,
            \* too, and "failed" is unsupported, too -- and, of a pending one, whether
            \* 30 minutes have passed since it was received or reset
  disk,     \* stored files: the actor that wrote one names it, and the content
  queue,    \* the contents whose parse tasks wait for the worker
  job,      \* per actor: where it is, with which content, and which it has left to do
  item,     \* the item the worker takes in
  faults,
  reset,    \* contents whose row has been reset: their parsed_at is set
  settled   \* ghost: uploads answered, and items that were taken in to the end

vars == <<inbox, seen, rows, disk, queue, job, item, faults, reset, settled>>

Idle == [at |-> "idle", file |-> none, rest |-> {}]

Beats == {"scan", "poll", "reap"}

\* What becomes of a file that is parsed.
Outcomes == {"parsed", "failed"}

Pending(c) == c \in DOMAIN rows /\ rows[c].status = "pending"

Set(c, status) == rows' = [rows EXCEPT ![c].status = status, ![c].old = FALSE]

Goto(a, place) == job' = [job EXCEPT ![a].at = place]

-----------------------------------------------------------------------------

Init ==
  /\ inbox = {} /\ seen = {} /\ rows = <<>> /\ disk = {} /\ queue = <<>>
  /\ job = [a \in Actors |-> Idle] /\ item = none
  /\ faults = 0 /\ reset = {} /\ settled = {}

\* An upload whose files have passed the checks of the router.
Submit(r) ==
  /\ job[r] = Idle /\ r \notin settled
  /\ job' = [job EXCEPT ![r] = [at |-> "next", file |-> none, rest |-> Holds[r]]]
  /\ UNCHANGED <<inbox, seen, rows, disk, queue, item, faults, reset, settled>>

\* Mutant: the task is sent before the row is there.
TakeInAndSend(a, c) ==
  /\ job[a].at = "next" /\ c \in job[a].rest
  /\ IF c \in DOMAIN rows
     THEN job' = [job EXCEPT ![a].rest = @ \ {c}] /\ UNCHANGED <<disk, queue>>
     ELSE /\ disk' = disk \cup {<<a, c>>}
          /\ queue' = Append(queue, c)
          /\ job' = [job EXCEPT ![a] = [at |-> "insert", file |-> c, rest |-> @.rest \ {c}]]
  /\ UNCHANGED <<inbox, seen, rows, item, faults, reset, settled>>

\* intake_file looks the digest up: a duplicate, or the file is written.
TakeIn(a, c) ==
  /\ job[a].at = "next" /\ c \in job[a].rest
  /\ IF c \in DOMAIN rows
     THEN job' = [job EXCEPT ![a].rest = @ \ {c}] /\ UNCHANGED disk
     ELSE /\ disk' = disk \cup {<<a, c>>}
          /\ job' = [job EXCEPT ![a] = [at |-> "insert", file |-> c, rest |-> @.rest \ {c}]]
  /\ UNCHANGED <<inbox, seen, rows, queue, item, faults, reset, settled>>

\* Mutant: files are named by their digest, and the loser removes the winner's.
InsertByDigest(a) ==
  /\ job[a].at = "insert"
  /\ LET c == job[a].file
     IN  IF c \in DOMAIN rows
         THEN /\ disk' = {f \in disk : f[2] # c}
              /\ job' = [job EXCEPT ![a].at = "next", ![a].file = none]
              /\ UNCHANGED rows
         ELSE /\ rows' = [d \in DOMAIN rows \cup {c} |->
                           IF d = c THEN [by |-> a, status |-> "pending", old |-> FALSE]
                                    ELSE rows[d]]
              /\ Goto(a, "enqueue")
              /\ UNCHANGED disk
  /\ UNCHANGED <<inbox, seen, queue, item, faults, reset, settled>>

\* The row is committed, unless another intake of the content was faster: then the
\* unique index refuses it, and the file goes.
Insert(a) ==
  /\ job[a].at = "insert"
  /\ LET c == job[a].file
     IN  IF c \in DOMAIN rows
         THEN /\ disk' = disk \ {<<a, c>>}
              /\ job' = [job EXCEPT ![a].at = "next", ![a].file = none]
              /\ UNCHANGED rows
         ELSE /\ rows' = [d \in DOMAIN rows \cup {c} |->
                           IF d = c THEN [by |-> a, status |-> "pending", old |-> FALSE]
                                    ELSE rows[d]]
              /\ Goto(a, "enqueue")
              /\ UNCHANGED disk
  /\ UNCHANGED <<inbox, seen, queue, item, faults, reset, settled>>

\* parse_manual_disclosure_file.delay.
Enqueue(a) ==
  /\ job[a].at = "enqueue"
  /\ queue' = Append(queue, job[a].file)
  /\ job' = [job EXCEPT ![a].at = "next", ![a].file = none]
  /\ UNCHANGED <<inbox, seen, rows, disk, item, faults, reset, settled>>

Answer(r) ==
  /\ job[r].at = "next" /\ job[r].rest = {}
  /\ job' = [job EXCEPT ![r] = Idle]
  /\ settled' = settled \cup {r}
  /\ UNCHANGED <<inbox, seen, rows, disk, queue, item, faults, reset>>

\* An upload fails or dies anywhere.
Abort(r) ==
  /\ job[r] # Idle
  /\ job' = [job EXCEPT ![r] = Idle]
  /\ UNCHANGED <<inbox, seen, rows, disk, queue, item, faults, reset, settled>>

-----------------------------------------------------------------------------

\* Somebody puts a file into the folder, or sends a mail.
Drop(i) ==
  /\ i \notin inbox \cup seen \cup settled
  /\ inbox' = inbox \cup {i}
  /\ UNCHANGED <<seen, rows, disk, queue, job, item, faults, reset, settled>>

\* The next task that waits.
Take ==
  /\ job[Worker] = Idle /\ queue # <<>>
  /\ job' = [job EXCEPT ![Worker] = [at |-> "parse", file |-> Head(queue), rest |-> {}]]
  /\ queue' = Tail(queue)
  /\ UNCHANGED <<inbox, seen, rows, disk, item, faults, reset, settled>>

\* The beat sends scans, polls and reapers, for ever; they run between any two others.
Beat(task) ==
  /\ job[Worker] = Idle
  /\ Goto(Worker, task)
  /\ UNCHANGED <<inbox, seen, rows, disk, queue, item, faults, reset, settled>>

\* The worker takes in what an item holds.
Open(i) ==
  /\ item' = i
  /\ job' = [job EXCEPT ![Worker] = [at |-> "next", file |-> none, rest |-> Holds[i]]]
  /\ UNCHANGED <<rows, disk, queue, faults, reset, settled>>

\* scan_incoming_folder: one file after the other, each read where it is.
NextFile ==
  /\ job[Worker].at = "scan"
  /\ \E i \in inbox \cap Files : Open(i)
  /\ UNCHANGED <<inbox, seen>>

\* poll_email_inbox: one unseen mail after the other, which the fetch marks as seen.
NextMail ==
  /\ job[Worker].at = "poll"
  /\ \E i \in inbox \cap Mails :
       /\ Open(i)
       /\ inbox' = inbox \ {i} /\ seen' = seen \cup {i}

\* A mail whose fetch answers in an unexpected shape is skipped; the server has its flag.
SkipMail ==
  /\ job[Worker].at = "poll" /\ faults < MaxFaults
  /\ \E i \in inbox \cap Mails : inbox' = inbox \ {i} /\ seen' = seen \cup {i}
  /\ faults' = faults + 1
  /\ UNCHANGED <<rows, disk, queue, job, item, reset, settled>>

\* Nothing is left for the scan, or for the poll.
NoMore ==
  /\ \/ job[Worker].at = "scan" /\ inbox \cap Files = {}
     \/ job[Worker].at = "poll" /\ inbox \cap Mails = {}
  /\ job' = [job EXCEPT ![Worker] = Idle]
  /\ UNCHANGED <<inbox, seen, rows, disk, queue, item, faults, reset, settled>>

\* Only after all of its contents a file is moved or deleted.  A mail is stored as seen
\* once more, which changes nothing.
Leave ==
  /\ job[Worker].at = "next" /\ job[Worker].rest = {}
  /\ inbox' = inbox \ {item} /\ settled' = settled \cup {item}
  /\ item' = none
  /\ Goto(Worker, IF item \in Mails THEN "poll" ELSE "scan")
  /\ UNCHANGED <<seen, rows, disk, queue, faults, reset>>

\* A file that cannot be read, or cannot be moved afterwards, stays for the next scan.
Stay ==
  /\ job[Worker].at = "next" /\ item \in Files /\ job[Worker].rest \in {Holds[item], {}}
  /\ faults < MaxFaults
  /\ faults' = faults + 1
  /\ item' = none
  /\ job' = [job EXCEPT ![Worker] = [Idle EXCEPT !.at = "scan"]]
  /\ UNCHANGED <<inbox, seen, rows, disk, queue, reset, settled>>

\* A task of a row that is no longer pending does nothing.
StartParse ==
  /\ job[Worker].at = "parse"
  /\ LET c == job[Worker].file
     IN  IF Pending(c) /\ <<rows[c].by, c>> \in disk
         THEN Goto(Worker, "parsing") /\ UNCHANGED rows
         ELSE /\ job' = [job EXCEPT ![Worker] = Idle]
              /\ IF Pending(c) THEN Set(c, "failed") ELSE UNCHANGED rows
  /\ UNCHANGED <<inbox, seen, disk, queue, item, faults, reset, settled>>

\* The class of the file, its parser and the rows it writes decide.
Finish ==
  /\ job[Worker].at = "parsing"
  /\ \E status \in Outcomes : Set(job[Worker].file, status)
  /\ job' = [job EXCEPT ![Worker] = Idle]
  /\ UNCHANGED <<inbox, seen, disk, queue, item, faults, reset, settled>>

\* Mutant: parsed_at < cutoff alone, which no row without a parsed_at satisfies.
ReapParsed ==
  /\ job[Worker].at = "reap"
  /\ rows' = [c \in DOMAIN rows |->
               IF Pending(c) /\ rows[c].old /\ c \in reset
               THEN [rows[c] EXCEPT !.status = "failed", !.old = FALSE] ELSE rows[c]]
  /\ job' = [job EXCEPT ![Worker] = Idle]
  /\ UNCHANGED <<inbox, seen, disk, queue, item, faults, reset, settled>>

\* reap_stuck_manual_ingest_files: nobody else changes a row meanwhile.
Reap ==
  /\ job[Worker].at = "reap"
  /\ rows' = [c \in DOMAIN rows |->
               IF Pending(c) /\ rows[c].old
               THEN [rows[c] EXCEPT !.status = "failed", !.old = FALSE] ELSE rows[c]]
  /\ job' = [job EXCEPT ![Worker] = Idle]
  /\ UNCHANGED <<inbox, seen, disk, queue, item, faults, reset, settled>>

\* The worker dies with its task, or an intake raises, which ends the scan or the poll.  A
\* file is still in the folder then; a mail in hand stays seen, and no poll finds it again.
Die ==
  /\ job[Worker] # Idle
  /\ faults < MaxFaults
  /\ faults' = faults + 1
  /\ job' = [job EXCEPT ![Worker] = Idle]
  /\ item' = none
  /\ UNCHANGED <<inbox, seen, rows, disk, queue, reset, settled>>

\* The last of received_at and parsed_at is thirty minutes ago.
Age(c) ==
  /\ Pending(c) /\ ~rows[c].old
  /\ rows' = [rows EXCEPT ![c].old = TRUE]
  /\ UNCHANGED <<inbox, seen, disk, queue, job, item, faults, reset, settled>>

\* An operator has a row parsed again, as the reaper's comment says: pending, its
\* parsed_at now, and a new task.
Reset(c) ==
  /\ c \in DOMAIN rows /\ rows[c].status = "failed"
  /\ Cardinality(reset) < MaxResets
  /\ Set(c, "pending")
  /\ reset' = reset \cup {c}
  /\ queue' = Append(queue, c)
  /\ UNCHANGED <<inbox, seen, disk, job, item, faults, settled>>

TakeInFile(a) == (\E c \in Contents : TakeIn(a, c)) \/ Insert(a) \/ Enqueue(a)

Work ==
  \/ TakeInFile(Worker)
  \/ NextFile \/ NextMail \/ NoMore \/ Leave \/ StartParse \/ Finish \/ Reap

Next ==
  \/ \E r \in Requests : Submit(r) \/ TakeInFile(r) \/ Answer(r) \/ Abort(r)
  \/ \E i \in Items : Drop(i)
  \/ \E task \in Beats : Beat(task)
  \/ Take \/ Work \/ Die \/ SkipMail \/ Stay
  \/ \E c \in Contents : Age(c) \/ Reset(c)

\* The queue gives every task its turn, whatever else is sent.
Fairness ==
  /\ WF_vars(Work) /\ SF_vars(Take)
  /\ \A task \in Beats : SF_vars(Beat(task))
  /\ \A c \in Contents : WF_vars(Age(c))

Spec == Init /\ [][Next]_vars /\ Fairness

-----------------------------------------------------------------------------

TypeOK ==
  /\ inbox \subseteq Items /\ seen \subseteq Mails \ inbox
  /\ item \in (inbox \cap Files) \cup seen \cup {none}
  /\ DOMAIN rows \subseteq Contents
  /\ \A c \in DOMAIN rows :
       rows[c] \in [by : Actors, status : Outcomes \cup {"pending"}, old : BOOLEAN]
  /\ disk \subseteq Actors \X Contents
  /\ queue \in Seq(DOMAIN rows)
  /\ job \in [Actors -> [at : {"idle", "next", "insert", "enqueue", "scan", "poll",
                               "reap", "parse", "parsing"},
                         file : Contents \cup {none}, rest : SUBSET Contents]]
  /\ faults \in 0..MaxFaults /\ reset \subseteq DOMAIN rows
  /\ settled \subseteq Requests \cup Items

\* Everything that it holds has a row, and the row its file.
Kept(s) == \A c \in Holds[s] : c \in DOMAIN rows /\ <<rows[c].by, c>> \in disk

\* Mails that no poll finds, nobody has in hand, and that are not kept.
Lost == {m \in seen \ {item} : ~Kept(m)}

\* Nothing an upload was told is pending or a duplicate, and no item that was taken in to
\* the end, is without a row whose file is still there: not when two intakes of one content
\* race and the loser removes what it wrote, and not when the worker dies between a zip's
\* members or before the file is moved.  Mails are lost, because their flag is set first,
\* but only by a fault: one by each death of the worker, raising intake or odd answer.
NothingLeavesUnrecorded ==
  /\ \A s \in settled : Kept(s)
  /\ Cardinality(Lost) <= faults

\* "Never leave the row at 'pending' silently", tasks/manual_ingest.py 83: a pending row gets
\* its outcome, although a crash between the commit of a row and its task makes every later
\* intake of the content a duplicate; and what waits in the inbox gets its rows, whoever
\* takes it in, unless it was in a mail that is lost.
FilesComeToRest ==
  /\ \A c \in Contents : Pending(c) ~> (c \in DOMAIN rows /\ rows[c].status # "pending")
  /\ \A i \in Items : i \in inbox ~> (Holds[i] \subseteq DOMAIN rows \/ i \in Lost)
=============================================================================
