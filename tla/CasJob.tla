------------------------------- MODULE CasJob -------------------------------
(***************************************************************************)
(* Uploads of one CAS statement into one portfolio (mf/router.py) and the  *)
(* batch worker's tasks for them (tasks/mf.py): parsing, and the reaper of *)
(* stuck jobs.                                                             *)
(*                                                                         *)
(* The batch queue has one worker process, so that tasks run one after the *)
(* other in the order of the queue; a task is acknowledged when it starts, *)
(* and lost when the process dies.  Postgres holds a row per job; Redis    *)
(* the duplicate record, which names the job of this statement, and the    *)
(* cached reports.  Jobs are numbered as they are inserted.                *)
(***************************************************************************)
EXTENDS Integers, Sequences, FiniteSets

CONSTANTS
  Requests,   \* uploads the API handles at a time
  MaxJobs,    \* bound: jobs
  MaxFaults,  \* bound: deaths of the worker and failures of its clean-up
  MaxBeats    \* bound: reapers that wait in the queue

ASSUME CasJobAssumption ==
  MaxJobs \in Nat /\ MaxFaults \in Nat /\ MaxBeats \in Nat

VARIABLES
  made,       \* jobs inserted
  status,     \* per job: its row's status; "stuck" is failed with stuck_timeout
  completed,  \* jobs whose completed_at is set
  old,        \* the latest job created more than ten minutes ago
  record,     \* the job in the duplicate record, 0 without one
  reports,    \* jobs whose report is cached
  queue,      \* tasks that wait for the worker
  worker,     \* the worker's task, its job and how far it is
  req,        \* per request: where it is, and its job
  faults,     \* faults so far
  orphaned    \* ghost: jobs whose request or task ended without marking them

vars == <<made, status, completed, old, record, reports, queue,
          worker, req, faults, orphaned>>

\* What only the worker changes, and what only requests do (but for the record).
worker_vars == <<completed, reports, worker, faults>>
api == <<made, old, record, req>>

Jobs == 1..made

Unfinished == {"queued", "parsing", "scoring"}

Parse(j) == [kind |-> "parse", job |-> j]
Reap     == [kind |-> "reap", job |-> 0]

Goto(r, place, j) == req' = [req EXCEPT ![r] = [at |-> place, job |-> j]]

-----------------------------------------------------------------------------

Init ==
  /\ made = 0 /\ status = [j \in 1..MaxJobs |-> "none"] /\ completed = {} /\ old = 0
  /\ record = 0 /\ reports = {}
  /\ queue = <<>> /\ worker = [at |-> "idle", job |-> 0]
  /\ req = [r \in Requests |-> [at |-> "idle", job |-> 0]]
  /\ faults = 0 /\ orphaned = {}

\* An upload, past consent and the checks of the file, looks the statement up.
LookUp(r) ==
  /\ req[r].at = "idle"
  /\ IF record = 0 THEN Goto(r, "inserting", 0) ELSE Goto(r, "checking", record)
  /\ UNCHANGED <<made, status, old, record, queue, worker_vars, orphaned>>

\* Mutant: a cached report is enough, whatever has become of its job.
TrustReport(r) ==
  /\ req[r].at = "checking"
  /\ Goto(r, "exists", req[r].job)
  /\ UNCHANGED <<made, status, old, record, queue, worker_vars, orphaned>>

\* The row of the recorded job: only a finished one may be the answer.
CheckStatus(r) ==
  /\ req[r].at = "checking"
  /\ IF status[req[r].job] = "done"
     THEN Goto(r, "exists", req[r].job) ELSE Goto(r, "clearing", 0)
  /\ UNCHANGED <<made, status, old, record, queue, worker_vars, orphaned>>

\* EXISTS of its report: answered as a duplicate, or on to a new job.
CheckReport(r) ==
  /\ req[r].at = "exists"
  /\ IF req[r].job \in reports THEN Goto(r, "idle", 0) ELSE Goto(r, "clearing", 0)
  /\ UNCHANGED <<made, status, old, record, queue, worker_vars, orphaned>>

\* Mutant: the next job's number is recorded before its row is there.
ClearAndReserve(r) ==
  /\ req[r].at = "clearing"
  /\ record' = made + 1
  /\ Goto(r, "inserting", 0)
  /\ UNCHANGED <<made, status, old, queue, worker_vars, orphaned>>

\* The stale record goes, whichever job it may name by now.
Clear(r) ==
  /\ req[r].at = "clearing"
  /\ record' = 0
  /\ Goto(r, "inserting", 0)
  /\ UNCHANGED <<made, status, old, queue, worker_vars, orphaned>>

\* The file is written and the row committed.
Insert(r) ==
  /\ req[r].at = "inserting"
  /\ made < MaxJobs
  /\ made' = made + 1
  /\ status' = [status EXCEPT ![made + 1] = "queued"]
  /\ Goto(r, "recording", made + 1)
  /\ UNCHANGED <<old, record, queue, worker_vars, orphaned>>

Record(r) ==
  /\ req[r].at = "recording"
  /\ record' = req[r].job
  /\ Goto(r, "enqueueing", req[r].job)
  /\ UNCHANGED <<made, status, old, queue, worker_vars, orphaned>>

\* parse_cas_job.delay, and the 202.
Enqueue(r) ==
  /\ req[r].at = "enqueueing"
  /\ queue' = Append(queue, Parse(req[r].job))
  /\ Goto(r, "idle", 0)
  /\ UNCHANGED <<made, status, old, record, worker_vars, orphaned>>

\* A request fails or dies anywhere; past its insert, it leaves a job no task is for.
Abort(r) ==
  /\ req[r].at # "idle"
  /\ orphaned' = orphaned \cup
       IF req[r].at \in {"recording", "enqueueing"} THEN {req[r].job} ELSE {}
  /\ Goto(r, "idle", 0)
  /\ UNCHANGED <<made, status, old, record, queue, worker_vars>>

\* GET /report of a finished job whose report has expired rebuilds it from the holdings.
GetReport(j) ==
  /\ status[j] = "done" /\ j \notin reports
  /\ reports' = reports \cup {j}
  /\ UNCHANGED <<made, status, completed, old, record, queue, worker,
                 req, faults, orphaned>>

-----------------------------------------------------------------------------

\* The next task of the queue is acknowledged and starts.
Take ==
  /\ worker.at = "idle" /\ queue # <<>>
  /\ worker' = [at |-> Head(queue).kind, job |-> Head(queue).job]
  /\ queue' = Tail(queue)
  /\ UNCHANGED <<api, status, completed, reports, faults, orphaned>>

\* Mutant: a task whose job has been given up does not start.
StartUnlessFailed ==
  /\ worker.at = "parse"
  /\ IF status[worker.job] = "stuck"
     THEN worker' = [at |-> "idle", job |-> 0] /\ UNCHANGED status
     ELSE /\ status' = [status EXCEPT ![worker.job] = "parsing"]
          /\ worker' = [worker EXCEPT !.at = "ledger"]
  /\ UNCHANGED <<api, completed, reports, queue, faults, orphaned>>

\* The statement is parsed; the row is updated by its id, whatever its status is.
StartParsing ==
  /\ worker.at = "parse"
  /\ status' = [status EXCEPT ![worker.job] = "parsing"]
  /\ worker' = [worker EXCEPT !.at = "ledger"]
  /\ UNCHANGED <<api, completed, reports, queue, faults, orphaned>>

\* Ledger rows and the holdings projected from them are committed.
Project ==
  /\ worker.at = "ledger"
  /\ status' = [status EXCEPT ![worker.job] = "scoring"]
  /\ worker' = [worker EXCEPT !.at = "score"]
  /\ UNCHANGED <<api, completed, reports, queue, faults, orphaned>>

\* Scores are committed and the report is cached, before the job is done.
CacheReport ==
  /\ worker.at = "score"
  /\ reports' = reports \cup {worker.job}
  /\ worker' = [worker EXCEPT !.at = "finish"]
  /\ UNCHANGED <<api, status, completed, queue, faults, orphaned>>

Finish ==
  /\ worker.at = "finish"
  /\ status' = [status EXCEPT ![worker.job] = "done"]
  /\ completed' = completed \cup {worker.job}
  /\ worker' = [worker EXCEPT !.at = "return"]
  /\ UNCHANGED <<api, reports, queue, faults, orphaned>>

Return ==
  /\ worker.at = "return"
  /\ worker' = [at |-> "idle", job |-> 0]
  /\ UNCHANGED <<api, status, completed, reports, queue, faults, orphaned>>

AtPipeline == worker.at \in {"parse", "ledger", "score", "finish", "return"}

\* An unreadable statement, an expired password, an error, the soft time limit: the job
\* is marked failed, by its id, even when it has just been done.
Raise ==
  /\ AtPipeline
  /\ status' = [status EXCEPT ![worker.job] = "failed"]
  /\ worker' = [at |-> "idle", job |-> 0]
  /\ UNCHANGED <<api, completed, reports, queue, faults, orphaned>>

\* The process dies with its task, or its last commands fail; nothing is marked.
Die ==
  /\ worker.at # "idle"
  /\ faults < MaxFaults
  /\ faults' = faults + 1
  /\ orphaned' = orphaned \cup IF AtPipeline THEN {worker.job} ELSE {}
  /\ worker' = [at |-> "idle", job |-> 0]
  /\ UNCHANGED <<api, status, completed, reports, queue>>

Stuck == {j \in 1..old : status[j] \in Unfinished /\ j \notin completed}

\* Mutant: a job that is being scored is taken for finished.
ReapUnscored ==
  /\ worker.at = "reap"
  /\ LET rows == {j \in Stuck : status[j] # "scoring"}
     IN  /\ status' = [j \in 1..MaxJobs |-> IF j \in rows THEN "stuck" ELSE status[j]]
         /\ worker' = [worker EXCEPT !.at = IF rows = {} THEN "idle" ELSE "unrecord"]
  /\ UNCHANGED <<api, completed, reports, queue, faults, orphaned>>

\* Reads and fails the stuck jobs: nobody else changes a row meanwhile.
ReapStuck ==
  /\ worker.at = "reap"
  /\ status' = [j \in 1..MaxJobs |-> IF j \in Stuck THEN "stuck" ELSE status[j]]
  /\ worker' = [worker EXCEPT !.at = IF Stuck = {} THEN "idle" ELSE "unrecord"]
  /\ UNCHANGED <<api, completed, reports, queue, faults, orphaned>>

\* Then the record of their statement goes, even if it names a newer job.
Unrecord ==
  /\ worker.at = "unrecord"
  /\ record' = 0
  /\ worker' = [worker EXCEPT !.at = "idle"]
  /\ UNCHANGED <<made, old, req, status, completed, reports, queue,
                 faults, orphaned>>

-----------------------------------------------------------------------------

\* The beat sends the reaper, for ever.
Beat ==
  /\ Cardinality({i \in DOMAIN queue : queue[i] = Reap}) < MaxBeats
  /\ queue' = Append(queue, Reap)
  /\ UNCHANGED <<api, worker_vars, status, orphaned>>

\* Ten minutes after its creation, in the order of creation.
Age ==
  /\ old < made
  /\ old' = old + 1
  /\ UNCHANGED <<made, record, req, worker_vars, status, queue, orphaned>>

\* _DEDUP_TTL.
RecordExpires ==
  /\ record # 0
  /\ record' = 0
  /\ UNCHANGED <<made, old, req, worker_vars, status, queue, orphaned>>

\* _REPORT_TTL or _REBUILD_TTL; or the daily refresh deletes it, to put another in its place.
ReportExpires(j) ==
  /\ j \in reports
  /\ reports' = reports \ {j}
  /\ UNCHANGED <<api, status, completed, worker, faults, queue, orphaned>>

Upload(r) ==
  \/ LookUp(r) \/ CheckStatus(r) \/ CheckReport(r) \/ Clear(r)
  \/ Insert(r) \/ Record(r) \/ Enqueue(r) \/ Abort(r)

Work ==
  \/ Take
  \/ StartParsing \/ Project \/ CacheReport \/ Finish \/ Return \/ Raise
  \/ ReapStuck \/ Unrecord

Next ==
  \/ \E r \in Requests : Upload(r)
  \/ Work \/ Die
  \/ Beat
  \/ \E j \in Jobs : GetReport(j) \/ ReportExpires(j)
  \/ Age \/ RecordExpires

Fairness == WF_vars(Work) /\ WF_vars(Beat) /\ WF_vars(Age)

Spec == Init /\ [][Next]_vars /\ Fairness

-----------------------------------------------------------------------------

TypeOK ==
  /\ made \in 0..MaxJobs
  /\ status \in [1..MaxJobs -> Unfinished \cup {"none", "done", "failed", "stuck"}]
  /\ \A j \in 1..MaxJobs : status[j] = "none" <=> j > made
  /\ completed \subseteq Jobs /\ old \in 0..made /\ reports \subseteq Jobs
  /\ orphaned \subseteq Jobs
  /\ record \in 0..made
  /\ queue \in Seq({Parse(j) : j \in Jobs} \cup {Reap})
  /\ worker \in [at : {"idle", "parse", "ledger", "score", "finish", "return", "reap",
                       "unrecord"}, job : 0..made]
  /\ req \in [Requests -> [at : {"idle", "checking", "exists", "clearing", "inserting",
                                 "recording", "enqueueing"}, job : 0..made]]
  /\ faults \in 0..MaxFaults

\* A job that is not done, and that its own task has not failed, is being submitted, waits
\* for the worker or is its task, unless a request or the worker died with it.  No error
\* path and no duplicate makes the service forget it, nor does the reaper, which gives up
\* waiting jobs too: their task will run all the same.
NoJobForgotten ==
  \A j \in Jobs : status[j] \notin {"done", "failed"} =>
    \/ \E r \in Requests : req[r].at \in {"recording", "enqueueing"} /\ req[r].job = j
    \/ \E i \in DOMAIN queue : queue[i] = Parse(j)
    \/ AtPipeline /\ worker.job = j
    \/ j \in orphaned

\* "Only short-circuit to a job that SUCCEEDED *and* whose report is still retrievable",
\* router.py 1059: the status and the report are looked up one after the other, the report
\* is cached before its job is done, and yet no upload is answered with an unfinished job.
DuplicateIsFinished ==
  \A r \in Requests :
    req[r].at = "exists" /\ req[r].job \in reports => req[r].job \in completed

\* However requests fail and the worker dies, no job is left unfinished for good: the
\* reaper finds those whose task is gone, at whichever status it left them.
JobsComeToRest ==
  \A j \in 1..MaxJobs : []<>(status[j] \notin Unfinished)
=============================================================================
