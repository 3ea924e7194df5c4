------------------------------ MODULE CasProofs ------------------------------
(***************************************************************************)
(* Uploaded statements, from the request to the portfolio: CasJob for any  *)
(* requests and bounds, and CasLedger for any transactions, statements and *)
(* days.                                                                   *)
(*                                                                         *)
(* Of a job: its types, that none is forgotten, and that a duplicate names *)
(* a finished one.  Placed gives every request and task a job that exists, *)
(* so that what it does to "its" row is done to a row.  Ended says that a  *)
(* job is done only with its completion time, which nobody takes back;     *)
(* that a task about to return has done its job, which is what allows it   *)
(* to go; and that a request past the status check holds a job that was    *)
(* done.                                                                   *)
(*                                                                         *)
(* Of the ledger: OneFamily is what keeps transactions from being counted  *)
(* twice: all rows with one natural key are of one format family, within   *)
(* which the exact hash tells them apart.  Shown says that what a          *)
(* statement prints stays in the ledger, as its own row or under another   *)
(* family's; NoTwin, that the prints about to be stored without a folio    *)
(* are of funds without one.  Told says from which of the two sources each *)
(* row of the series is, and when the second one has seen the whole ledger.*)
(***************************************************************************)
EXTENDS CasJob, CasLedger, FiniteSetTheorems, TLAPS

Placed ==
  /\ AtPipeline => worker.job \in Jobs
  /\ \A r \in Requests :
       req[r].at \in {"checking", "exists", "recording", "enqueueing"} => req[r].job \in Jobs

Ended ==
  /\ \A j \in Jobs : status[j] = "done" => j \in completed
  /\ worker.at = "return" => status[worker.job] = "done"
  /\ \A r \in Requests : req[r].at = "exists" => req[r].job \in completed

Inv == TypeOK /\ Placed /\ Ended /\ NoJobForgotten

Tasks == {Parse(j) : j \in Jobs} \cup {Reap}
Stages == {"idle", "parse", "ledger", "score", "finish", "return", "reap", "unrecord"}
Places == {"idle", "checking", "exists", "clearing", "inserting", "recording", "enqueueing"}
Statuses == Unfinished \cup {"none", "done", "failed", "stuck"}

\* Where a job that has neither been done nor failed by its task can be.
Followed(j) ==
  \/ \E r \in Requests : req[r].at \in {"recording", "enqueueing"} /\ req[r].job = j
  \/ \E i \in DOMAIN queue : queue[i] = Parse(j)
  \/ AtPipeline /\ worker.job = j
  \/ j \in orphaned

-----------------------------------------------------------------------------

LEMMA InitInv == Init => Inv
<1> SUFFICES ASSUME Init PROVE Inv
  OBVIOUS
<1>1. TypeOK
  <2>1. queue \in Seq({Parse(j) : j \in Jobs} \cup {Reap})
    BY DEF Init
  <2> QED
    BY <2>1, CasJobAssumption DEF CasJobAssumption, Init, TypeOK, Jobs, Unfinished
<1>2. Placed /\ Ended /\ NoJobForgotten
  BY DEF Init, Placed, Ended, NoJobForgotten, AtPipeline, Jobs
<1> QED
  BY <1>1, <1>2 DEF Inv

\* A request that moves on with a job that exists, or with none, keeps its type.
LEMMA Moves ==
  ASSUME TypeOK, NEW r \in Requests, NEW p \in Places, NEW j \in 0..made, Goto(r, p, j)
  PROVE  /\ req' \in [Requests -> [at : Places, job : 0..made]]
         /\ req'[r].at = p /\ req'[r].job = j
         /\ \A s \in Requests \ {r} : req'[s] = req[s]
<1>1. req \in [Requests -> [at : Places, job : 0..made]]
  BY DEF TypeOK, Places
<1>2. [at |-> p, job |-> j] \in [at : Places, job : 0..made]
  OBVIOUS
<1> QED
  BY <1>1, <1>2 DEF Goto

\* The parts of a typed state.
LEMMA Parts ==
  ASSUME TypeOK
  PROVE  /\ made \in 0..MaxJobs /\ made \in Nat /\ status \in [1..MaxJobs -> Statuses]
         /\ \A j \in 1..MaxJobs : status[j] = "none" <=> j > made
         /\ completed \subseteq Jobs /\ old \in 0..made /\ reports \subseteq Jobs
         /\ orphaned \subseteq Jobs /\ record \in 0..made
         /\ queue \in Seq(Tasks)
         /\ worker \in [at : Stages, job : 0..made]
         /\ req \in [Requests -> [at : Places, job : 0..made]]
         /\ faults \in 0..MaxFaults
         /\ Jobs \subseteq 1..MaxJobs
BY CasJobAssumption
   DEF CasJobAssumption, TypeOK, Statuses, Tasks, Stages, Places, Jobs

-----------------------------------------------------------------------------

\* A request's step that inserts, enqueues and drops no job.
LEMMA RequestInv ==
  ASSUME Inv, NEW r \in Requests,
         LookUp(r) \/ CheckStatus(r) \/ CheckReport(r) \/ Clear(r) \/ Record(r) \/ Abort(r)
  PROVE  Inv'
<1>a. TypeOK /\ Placed /\ Ended /\ NoJobForgotten
  BY DEF Inv
<1>1. /\ UNCHANGED <<made, old, status, queue, completed, reports, worker, faults>>
      /\ Jobs' = Jobs /\ Tasks' = Tasks
  BY DEF LookUp, CheckStatus, CheckReport, Clear, Record, Abort, worker_vars, Jobs, Tasks
<1> DEFINE Fits(p, j) ==
             /\ Goto(r, p, j)
             /\ p \in {"checking", "recording", "enqueueing"} => j \in Jobs
             /\ p = "exists" => j \in completed
             /\ req[r].at \in {"recording", "enqueueing"} =>
                  \/ req[r].job \in orphaned'
                  \/ p \in {"recording", "enqueueing"} /\ j = req[r].job
<1>2. PICK p \in Places, j \in 0..made : Fits(p, j)
  <2>1. 0 \in 0..made /\ record \in 0..made /\ req[r].job \in 0..made /\ (record # 0 => record \in Jobs)
    BY <1>a, Parts DEF Jobs
  <2>2. CASE LookUp(r)
    BY <2>1, <2>2 DEF LookUp, Places
  <2>3. CASE CheckStatus(r)
    BY <1>a, <2>1, <2>3 DEF CheckStatus, Places, Placed, Ended
  <2>4. CASE CheckReport(r)
    BY <2>1, <2>4 DEF CheckReport, Places
  <2>5. CASE Clear(r)
    BY <2>1, <2>5 DEF Clear, Places
  <2>6. CASE Record(r)
    <3>1. Fits("enqueueing", req[r].job)
      BY <1>a, <2>6 DEF Record, Placed
    <3>2. "enqueueing" \in Places
      BY DEF Places
    <3> HIDE DEF Fits
    <3> QED
      BY <2>1, <3>1, <3>2
  <2>7. CASE Abort(r)
    <3>1. Fits("idle", 0)
      <4>1. req[r].at \in {"recording", "enqueueing"} => req[r].job \in orphaned'
        BY <2>7 DEF Abort
      <4>2. Goto(r, "idle", 0)
        BY <2>7 DEF Abort
      <4> QED
        BY <4>1, <4>2
    <3>2. "idle" \in Places
      BY DEF Places
    <3> HIDE DEF Fits
    <3> QED
      BY <2>1, <3>1, <3>2
  <2> QED
    BY <2>2, <2>3, <2>4, <2>5, <2>6, <2>7
<1>3. /\ req' \in [Requests -> [at : Places, job : 0..made]]
      /\ req'[r].at = p /\ req'[r].job = j
      /\ \A s \in Requests \ {r} : req'[s] = req[s]
  BY <1>a, <1>2, Moves
<1>4. record' \in 0..made
  BY <1>a, Parts DEF LookUp, CheckStatus, CheckReport, Clear, Record, Abort
<1>5. orphaned \subseteq orphaned' /\ orphaned' \subseteq Jobs
  <2>1. req[r].at \in {"recording", "enqueueing"} => req[r].job \in Jobs
    BY <1>a DEF Placed
  <2> QED
    BY <1>a, <2>1, Parts DEF LookUp, CheckStatus, CheckReport, Clear, Record, Abort
<1>6. TypeOK'
  BY <1>a, <1>1, <1>3, <1>4, <1>5, Parts DEF TypeOK, Statuses, Tasks, Stages, Places
<1>7. Placed'
  BY <1>a, <1>1, <1>2, <1>3, Parts DEF Placed, AtPipeline, Places
<1>8. Ended'
  BY <1>a, <1>1, <1>2, <1>3 DEF Ended, Places
<1>9. NoJobForgotten'
  <2> SUFFICES ASSUME NEW k \in Jobs, status[k] \notin {"done", "failed"}
               PROVE  Followed(k)'
    BY <1>1 DEF NoJobForgotten, Followed
  <2>1. Followed(k)
    BY <1>a DEF NoJobForgotten, Followed
  <2>2. CASE \E s \in Requests : req[s].at \in {"recording", "enqueueing"} /\ req[s].job = k
    BY <1>2, <1>3, <2>2 DEF Followed
  <2> QED
    BY <1>1, <1>5, <2>1, <2>2 DEF Followed, AtPipeline
<1> QED
  BY <1>6, <1>7, <1>8, <1>9 DEF Inv

LEMMA InsertInv ==
  ASSUME Inv, NEW r \in Requests, Insert(r)
  PROVE  Inv'
<1>a. TypeOK /\ Placed /\ Ended /\ NoJobForgotten
  BY DEF Inv
<1>1. /\ UNCHANGED <<old, record, queue, completed, reports, worker, faults, orphaned>>
      /\ made' = made + 1 /\ made < MaxJobs /\ made \in Nat /\ MaxJobs \in Nat
      /\ req[r].at = "inserting"
  BY <1>a, Parts, CasJobAssumption DEF Insert, worker_vars, CasJobAssumption
<1>2. /\ Jobs' = Jobs \cup {made + 1} /\ made + 1 \in 1..MaxJobs /\ made + 1 \notin Jobs
      /\ 0..made \subseteq (0..made)'
  BY <1>1 DEF Jobs
<1>3. Tasks \subseteq Tasks'
  BY <1>2 DEF Tasks, Parse
<1>4. /\ status' \in [1..MaxJobs -> Statuses] /\ status'[made + 1] = "queued"
      /\ \A j \in 1..MaxJobs : j # made + 1 => status'[j] = status[j]
  BY <1>a, <1>2, Parts DEF Insert, Statuses, Unfinished
<1>5. /\ req'[r].at = "recording" /\ req'[r].job = made + 1
      /\ req' \in [Requests -> [at : Places, job : (0..made)']]
      /\ \A s \in Requests \ {r} : req'[s] = req[s]
  <2>1. req \in [Requests -> [at : Places, job : (0..made)']]
    BY <1>a, <1>2, Parts
  <2>2. made + 1 \in (0..made)'
    BY <1>1
  <2> QED
    BY <2>1, <2>2 DEF Insert, Goto, Places
<1>6. TypeOK'
  <2>1. \A j \in 1..MaxJobs : status'[j] = "none" <=> j > made'
    BY <1>a, <1>1, <1>4, Parts
  <2>2. queue' \in Seq(Tasks')
    BY <1>a, <1>1, <1>3, Parts
  <2>3. worker' \in [at : Stages, job : (0..made)']
    BY <1>a, <1>1, <1>2, Parts
  <2>4. /\ completed' \subseteq Jobs' /\ reports' \subseteq Jobs' /\ orphaned' \subseteq Jobs'
        /\ old' \in (0..made)' /\ record' \in (0..made)' /\ faults' \in 0..MaxFaults
        /\ made' \in 0..MaxJobs
    BY <1>a, <1>1, <1>2, Parts
  <2> QED
    BY <1>4, <1>5, <2>1, <2>2, <2>3, <2>4 DEF TypeOK, Statuses, Tasks, Stages, Places
<1>7. Placed'
  BY <1>a, <1>1, <1>2, <1>5 DEF Placed, AtPipeline
<1>8. Ended'
  <2>1. \A j \in Jobs' : status'[j] = "done" => j \in completed'
    BY <1>a, <1>1, <1>2, <1>4, Parts DEF Ended
  <2>2. worker.at = "return" => worker.job \in Jobs /\ status[worker.job] = "done"
    BY <1>a DEF Ended, Placed, AtPipeline
  <2>3. worker'.at = "return" => status'[worker'.job] = "done"
    BY <1>a, <1>1, <1>2, <1>4, <2>2, Parts
  <2> QED
    BY <1>a, <1>1, <1>5, <2>1, <2>3 DEF Ended
<1>9. NoJobForgotten'
  <2> SUFFICES ASSUME NEW k \in Jobs', status'[k] \notin {"done", "failed"}
               PROVE  Followed(k)'
    BY DEF NoJobForgotten, Followed
  <2>1. CASE k = made + 1
    BY <1>5, <2>1 DEF Followed
  <2>2. CASE k # made + 1
    <3>1. k \in Jobs /\ status'[k] = status[k]
      BY <1>a, <1>2, <1>4, <2>2, Parts
    <3>2. Followed(k)
      BY <1>a, <3>1 DEF NoJobForgotten, Followed
    <3> QED
      BY <1>1, <1>5, <3>2 DEF Followed, AtPipeline, Parse
  <2> QED
    BY <2>1, <2>2
<1> QED
  BY <1>6, <1>7, <1>8, <1>9 DEF Inv

\* A task at the end of the queue moves none of the others.
LEMMA Appended ==
  ASSUME NEW S, NEW s \in Seq(S), NEW t \in S
  PROVE  /\ Append(s, t) \in Seq(S)
         /\ \A i \in DOMAIN s : i \in DOMAIN Append(s, t) /\ Append(s, t)[i] = s[i]
         /\ Len(s) + 1 \in DOMAIN Append(s, t) /\ Append(s, t)[Len(s) + 1] = t
OBVIOUS

LEMMA EnqueueInv ==
  ASSUME Inv, NEW r \in Requests, Enqueue(r)
  PROVE  Inv'
<1>a. TypeOK /\ Placed /\ Ended /\ NoJobForgotten
  BY DEF Inv
<1>1. /\ UNCHANGED <<made, old, record, status, completed, reports, worker, faults, orphaned>>
      /\ Jobs' = Jobs /\ Tasks' = Tasks
      /\ req[r].at = "enqueueing" /\ queue' = Append(queue, Parse(req[r].job))
  BY DEF Enqueue, worker_vars, Jobs, Tasks
<1>2. Parse(req[r].job) \in Tasks
  BY <1>a, <1>1 DEF Placed, Tasks
<1>3. /\ queue' \in Seq(Tasks)
      /\ \A i \in DOMAIN queue : i \in DOMAIN queue' /\ queue'[i] = queue[i]
      /\ \E i \in DOMAIN queue' : queue'[i] = Parse(req[r].job)
  <2>1. queue \in Seq(Tasks)
    BY <1>a, Parts
  <2> HIDE DEF Tasks
  <2> QED
    BY <1>1, <1>2, <2>1, Appended
<1>4. /\ req' \in [Requests -> [at : Places, job : 0..made]]
      /\ req'[r].at = "idle"
      /\ \A s \in Requests \ {r} : req'[s] = req[s]
  <2>1. Goto(r, "idle", 0) /\ "idle" \in Places /\ 0 \in 0..made
    BY <1>a, Parts DEF Enqueue, Places
  <2> QED
    BY <1>a, <2>1, Moves
<1>5. TypeOK'
  BY <1>a, <1>1, <1>3, <1>4, Parts DEF TypeOK, Statuses, Tasks, Stages, Places
<1>6. Placed' /\ Ended'
  BY <1>a, <1>1, <1>4 DEF Placed, Ended, AtPipeline
<1>7. NoJobForgotten'
  <2> SUFFICES ASSUME NEW k \in Jobs, status[k] \notin {"done", "failed"}
               PROVE  Followed(k)'
    BY <1>1 DEF NoJobForgotten, Followed
  <2>1. Followed(k)
    BY <1>a DEF NoJobForgotten, Followed
  <2>2. CASE \E s \in Requests : req[s].at \in {"recording", "enqueueing"} /\ req[s].job = k
    BY <1>3, <1>4, <2>2 DEF Followed, Parse
  <2>3. CASE \E i \in DOMAIN queue : queue[i] = Parse(k)
    BY <1>3, <2>3 DEF Followed, Parse
  <2> QED
    BY <1>1, <2>1, <2>2, <2>3 DEF Followed, AtPipeline
<1> QED
  BY <1>5, <1>6, <1>7 DEF Inv

-----------------------------------------------------------------------------

\* What a step of the worker leaves alone, and what that keeps.
LEMMA WorkerInv ==
  ASSUME Inv, UNCHANGED <<api, queue, faults>>, orphaned' = orphaned,
         worker' \in [at : Stages, job : 0..made],
         AtPipeline' => worker'.job = worker.job /\ AtPipeline,
         status' \in [1..MaxJobs -> Statuses],
         \A j \in 1..MaxJobs : status'[j] = "none" <=> status[j] = "none",
         reports' \subseteq Jobs,
         completed \subseteq completed', completed' \subseteq Jobs,
         \A j \in Jobs : status'[j] = "done" => j \in completed',
         worker'.at = "return" => status'[worker'.job] = "done",
         \A j \in Jobs : status'[j] \notin {"done", "failed"} =>
           IF AtPipeline /\ worker.job = j
           THEN AtPipeline' ELSE status[j] \notin {"done", "failed"}
  PROVE  Inv'
<1>a. TypeOK /\ Placed /\ Ended /\ NoJobForgotten
  BY DEF Inv
<1>1. UNCHANGED <<made, old, record, req, queue, faults, orphaned>> /\ Jobs' = Jobs
  BY DEF api, Jobs
<1>2. TypeOK'
  <2>1. \A j \in 1..MaxJobs : status'[j] = "none" <=> j > made
    BY <1>a, Parts
  <2> QED
    BY <1>a, <1>1, <2>1, Parts DEF TypeOK, Statuses, Tasks, Stages, Places
<1>3. Placed' /\ Ended'
  BY <1>a, <1>1 DEF Placed, Ended
<1>4. NoJobForgotten'
  <2> SUFFICES ASSUME NEW k \in Jobs, status'[k] \notin {"done", "failed"}
               PROVE  Followed(k)'
    BY <1>1 DEF NoJobForgotten, Followed
  <2>1. CASE AtPipeline /\ worker.job = k
    BY <2>1 DEF Followed
  <2>2. CASE ~(AtPipeline /\ worker.job = k)
    <3>1. Followed(k)
      BY <1>a, <2>2 DEF NoJobForgotten, Followed
    <3> QED
      BY <1>1, <2>2, <3>1 DEF Followed, Parse
  <2> QED
    BY <2>1, <2>2
<1> QED
  BY <1>2, <1>3, <1>4 DEF Inv

LEMMA PipelineInv ==
  ASSUME Inv, StartParsing \/ Project \/ CacheReport \/ Finish \/ Return \/ Raise
  PROVE  Inv'
<1>a. TypeOK /\ Placed /\ Ended
  BY DEF Inv
<1>b. /\ worker \in [at : Stages, job : 0..made] /\ status \in [1..MaxJobs -> Statuses]
      /\ worker.job \in Jobs /\ Jobs \subseteq 1..MaxJobs /\ AtPipeline
      /\ status[worker.job] # "none" /\ completed \subseteq Jobs /\ reports \subseteq Jobs
      /\ 0 \in 0..made
  <2>1. AtPipeline
    BY DEF AtPipeline, StartParsing, Project, CacheReport, Finish, Return, Raise
  <2>2. \A j \in Jobs : j <= made
    BY <1>a, Parts DEF Jobs
  <2> QED
    BY <1>a, <2>1, <2>2, Parts DEF Placed
<1>c. UNCHANGED <<api, queue, faults>> /\ orphaned' = orphaned
  BY DEF StartParsing, Project, CacheReport, Finish, Return, Raise
<1>1. ASSUME NEW w \in Statuses \ {"none", "done"}, NEW p \in Stages, p # "return",
             status' = [status EXCEPT ![worker.job] = w],
             \/ worker' = [worker EXCEPT !.at = p] /\ p \in {"ledger", "score", "finish"}
             \/ worker' = [at |-> "idle", job |-> 0] /\ w = "failed",
             UNCHANGED <<completed, reports>>
      PROVE  Inv'
  <2>1. /\ status' \in [1..MaxJobs -> Statuses] /\ status'[worker.job] = w
        /\ \A j \in 1..MaxJobs : j # worker.job => status'[j] = status[j]
    BY <1>b, <1>1
  <2>2. /\ worker' \in [at : Stages, job : 0..made] /\ worker'.at # "return"
        /\ AtPipeline' => worker'.job = worker.job
        /\ w # "failed" => AtPipeline'
    BY <1>b, <1>1 DEF AtPipeline, Stages
  <2>3. \A j \in Jobs : status'[j] \notin {"done", "failed"} =>
          IF j = worker.job THEN AtPipeline' ELSE status[j] \notin {"done", "failed"}
    BY <1>b, <2>1, <2>2
  <2>4. \A j \in 1..MaxJobs : status'[j] = "none" <=> status[j] = "none"
    BY <1>b, <1>1, <2>1
  <2>5. \A j \in Jobs : status'[j] = "done" => j \in completed
    BY <1>a, <1>b, <1>1, <2>1 DEF Ended
  <2> QED
    BY <1>b, <1>c, <1>1, <2>1, <2>2, <2>3, <2>4, <2>5, WorkerInv
<1>2. CASE StartParsing
  <2>1. "parsing" \in Statuses \ {"none", "done"} /\ "ledger" \in Stages
    BY DEF Statuses, Unfinished, Stages
  <2> QED
    BY <1>1, <1>2, <2>1 DEF StartParsing
<1>3. CASE Project
  <2>1. "scoring" \in Statuses \ {"none", "done"} /\ "score" \in Stages
    BY DEF Statuses, Unfinished, Stages
  <2> QED
    BY <1>1, <1>3, <2>1 DEF Project
<1>4. CASE Raise
  <2>1. "failed" \in Statuses \ {"none", "done"} /\ "idle" \in Stages
    BY DEF Statuses, Unfinished, Stages
  <2> QED
    BY <1>1, <1>4, <2>1 DEF Raise
<1>5. CASE CacheReport
  <2>1. /\ worker' = [worker EXCEPT !.at = "finish"] /\ reports' = reports \cup {worker.job}
        /\ UNCHANGED <<status, completed>>
    BY <1>5 DEF CacheReport
  <2>2. /\ worker' \in [at : Stages, job : 0..made] /\ worker'.at = "finish"
        /\ AtPipeline' /\ worker'.job = worker.job
    BY <1>b, <2>1 DEF AtPipeline, Stages
  <2> QED
    BY <1>a, <1>b, <1>c, <2>1, <2>2, WorkerInv DEF Ended
<1>6. CASE Finish
  <2>1. /\ worker' = [worker EXCEPT !.at = "return"] /\ completed' = completed \cup {worker.job}
        /\ status' = [status EXCEPT ![worker.job] = "done"] /\ UNCHANGED reports
    BY <1>6 DEF Finish
  <2>2. /\ worker' \in [at : Stages, job : 0..made] /\ AtPipeline' /\ worker'.job = worker.job
    BY <1>b, <2>1 DEF AtPipeline, Stages
  <2>3. /\ status' \in [1..MaxJobs -> Statuses] /\ status'[worker.job] = "done"
        /\ \A j \in 1..MaxJobs : j # worker.job => status'[j] = status[j]
    BY <1>b, <2>1 DEF Statuses
  <2>4. \A j \in 1..MaxJobs : status'[j] = "none" <=> status[j] = "none"
    BY <1>b, <2>3
  <2>5. \A j \in Jobs : status'[j] = "done" => j \in completed'
    BY <1>a, <1>b, <2>1, <2>3 DEF Ended
  <2> QED
    BY <1>b, <1>c, <2>1, <2>2, <2>3, <2>4, <2>5, WorkerInv
<1>7. CASE Return
  <2>1. /\ worker' = [at |-> "idle", job |-> 0] /\ UNCHANGED <<status, completed, reports>>
        /\ status[worker.job] = "done"
    BY <1>a, <1>7 DEF Return, Ended
  <2>2. /\ worker' \in [at : Stages, job : 0..made] /\ worker'.at = "idle" /\ ~AtPipeline'
    BY <1>b, <2>1 DEF AtPipeline, Stages
  <2> QED
    BY <1>a, <1>b, <1>c, <2>1, <2>2, WorkerInv DEF Ended
<1> QED
  BY <1>2, <1>3, <1>4, <1>5, <1>6, <1>7

\* The reaper fails no job of a task that is running, and forgets none that waits.
LEMMA ReaperInv ==
  ASSUME Inv, ReapStuck \/ Unrecord
  PROVE  Inv'
<1>a. TypeOK /\ Placed /\ Ended /\ NoJobForgotten
  BY DEF Inv
<1>b. /\ worker \in [at : Stages, job : 0..made] /\ status \in [1..MaxJobs -> Statuses]
      /\ ~AtPipeline /\ completed \subseteq Jobs /\ reports \subseteq Jobs
      /\ Jobs \subseteq 1..MaxJobs
  BY <1>a, Parts DEF AtPipeline, ReapStuck, Unrecord
<1>1. CASE ReapStuck
  <2>1. PICK p \in {"idle", "unrecord"} : worker' = [worker EXCEPT !.at = p]
    BY <1>1 DEF ReapStuck
  <2>2. /\ worker' \in [at : Stages, job : 0..made] /\ worker'.at # "return" /\ ~AtPipeline'
    BY <1>b, <2>1 DEF AtPipeline, Stages
  <2>3. /\ status' = [j \in 1..MaxJobs |-> IF j \in Stuck THEN "stuck" ELSE status[j]]
        /\ UNCHANGED <<api, queue, faults, completed, reports>> /\ orphaned' = orphaned
    BY <1>1 DEF ReapStuck
  <2>4. \A j \in Stuck : status[j] \in Unfinished
    BY DEF Stuck
  <2>5. status' \in [1..MaxJobs -> Statuses]
    BY <1>b, <2>3 DEF Statuses
  <2>6. \A j \in 1..MaxJobs :
          /\ status'[j] = "none" <=> status[j] = "none"
          /\ status'[j] = "done" => status[j] = "done"
          /\ status'[j] \notin {"done", "failed"} => status[j] \notin {"done", "failed"}
    BY <1>b, <2>3, <2>4 DEF Unfinished
  <2> QED
    BY <1>a, <1>b, <2>2, <2>3, <2>5, <2>6, WorkerInv DEF Ended
<1>2. CASE Unrecord
  <2>1. /\ UNCHANGED <<made, old, req, status, completed, reports, queue, faults, orphaned>>
        /\ record' = 0 /\ worker' = [worker EXCEPT !.at = "idle"] /\ Jobs' = Jobs
    BY <1>2 DEF Unrecord, Jobs
  <2>2. /\ worker' \in [at : Stages, job : 0..made] /\ worker'.at = "idle" /\ ~AtPipeline'
    BY <1>b, <2>1 DEF AtPipeline, Stages
  <2>3. TypeOK'
    BY <1>a, <2>1, <2>2, Parts DEF TypeOK, Statuses, Tasks, Stages, Places
  <2>4. Placed' /\ Ended'
    BY <1>a, <2>1, <2>2 DEF Placed, Ended
  <2>5. NoJobForgotten'
    BY <1>a, <1>b, <2>1 DEF NoJobForgotten
  <2> QED
    BY <2>3, <2>4, <2>5 DEF Inv
<1> QED
  BY <1>1, <1>2

\* Taking the first task of a queue.
LEMMA Shifted ==
  ASSUME NEW S, NEW s \in Seq(S), s # <<>>
  PROVE  /\ Head(s) \in S /\ Tail(s) \in Seq(S)
         /\ \A i \in DOMAIN s : i # 1 => i - 1 \in DOMAIN Tail(s) /\ Tail(s)[i - 1] = s[i]
         /\ s[1] = Head(s)
OBVIOUS

LEMMA TakeInv ==
  ASSUME Inv, Take
  PROVE  Inv'
<1>a. TypeOK /\ Placed /\ Ended /\ NoJobForgotten
  BY DEF Inv
<1>1. /\ UNCHANGED <<made, old, record, req, status, completed, reports, faults, orphaned>>
      /\ Jobs' = Jobs /\ worker.at = "idle" /\ queue # <<>>
      /\ worker' = [at |-> Head(queue).kind, job |-> Head(queue).job] /\ queue' = Tail(queue)
  BY DEF Take, api, Jobs
<1>2. /\ Head(queue) \in Tasks /\ Tail(queue) \in Seq(Tasks)
      /\ \A i \in DOMAIN queue : i # 1 => i - 1 \in DOMAIN Tail(queue) /\ Tail(queue)[i - 1] = queue[i]
      /\ queue[1] = Head(queue)
  <2>1. queue \in Seq(Tasks)
    BY <1>a, Parts
  <2> HIDE DEF Tasks
  <2> QED
    BY <1>1, <2>1, Shifted
<1>3. \/ worker' = [at |-> "reap", job |-> 0]
      \/ \E j \in Jobs : worker' = [at |-> "parse", job |-> j] /\ Head(queue) = Parse(j)
  BY <1>1, <1>2 DEF Tasks, Parse, Reap
<1>4. /\ worker' \in [at : Stages, job : 0..made] /\ worker'.at \in {"reap", "parse"}
      /\ AtPipeline' => worker'.job \in Jobs
  <2>1. 0 \in 0..made /\ \A j \in Jobs : j \in 0..made
    BY <1>a, Parts DEF Jobs
  <2> QED
    BY <1>3, <2>1 DEF AtPipeline, Stages
<1>5. TypeOK'
  BY <1>a, <1>1, <1>2, <1>4, Parts DEF TypeOK, Statuses, Tasks, Stages, Places
<1>6. Placed' /\ Ended'
  BY <1>a, <1>1, <1>4 DEF Placed, Ended
<1>7. NoJobForgotten'
  <2> SUFFICES ASSUME NEW k \in Jobs, status[k] \notin {"done", "failed"}
               PROVE  Followed(k)'
    BY <1>1 DEF NoJobForgotten, Followed
  <2>1. Followed(k) /\ ~AtPipeline
    BY <1>a, <1>1 DEF NoJobForgotten, Followed, AtPipeline
  <2>2. ASSUME NEW i \in DOMAIN queue, queue[i] = Parse(k) PROVE Followed(k)'
    <3>1. CASE i = 1
      <4>1. Head(queue) = Parse(k)
        BY <1>2, <2>2, <3>1
      <4>2. worker'.at = "parse" /\ worker'.job = k
        BY <1>1, <4>1 DEF Parse
      <4> QED
        BY <4>2 DEF Followed, AtPipeline
    <3>2. CASE i # 1
      <4>1. i - 1 \in DOMAIN queue' /\ queue'[i - 1] = Parse(k)
        BY <1>1, <1>2, <2>2, <3>2
      <4> QED
        BY <4>1 DEF Followed, Parse
    <3> QED
      BY <3>1, <3>2
  <2> QED
    BY <1>1, <2>1, <2>2 DEF Followed
<1> QED
  BY <1>5, <1>6, <1>7 DEF Inv

LEMMA DieInv ==
  ASSUME Inv, Die
  PROVE  Inv'
<1>a. TypeOK /\ Placed /\ Ended /\ NoJobForgotten
  BY DEF Inv
<1>1. /\ UNCHANGED <<made, old, record, req, status, completed, reports, queue>>
      /\ Jobs' = Jobs /\ faults < MaxFaults /\ faults' = faults + 1
      /\ worker' = [at |-> "idle", job |-> 0]
      /\ orphaned' = orphaned \cup IF AtPipeline THEN {worker.job} ELSE {}
  BY DEF Die, api, Jobs
<1>2. /\ faults' \in 0..MaxFaults /\ orphaned' \subseteq Jobs
      /\ worker' \in [at : Stages, job : 0..made] /\ ~AtPipeline' /\ worker'.at = "idle"
  BY <1>a, <1>1, Parts, CasJobAssumption DEF CasJobAssumption, Placed, AtPipeline, Stages
<1>3. TypeOK'
  BY <1>a, <1>1, <1>2, Parts DEF TypeOK, Statuses, Tasks, Stages, Places
<1>4. Placed' /\ Ended'
  BY <1>a, <1>1, <1>2 DEF Placed, Ended
<1>5. NoJobForgotten'
  BY <1>a, <1>1 DEF NoJobForgotten
<1> QED
  BY <1>3, <1>4, <1>5 DEF Inv

\* The beat, the clock and the reports that come and go.
LEMMA AroundInv ==
  ASSUME Inv,
         \/ Beat \/ Age \/ RecordExpires
         \/ \E j \in Jobs : GetReport(j) \/ ReportExpires(j)
  PROVE  Inv'
<1>a. TypeOK /\ Placed /\ Ended /\ NoJobForgotten
  BY DEF Inv
<1>1. /\ UNCHANGED <<made, req, status, completed, worker, faults, orphaned>>
      /\ Jobs' = Jobs /\ Tasks' = Tasks
  BY DEF Beat, Age, RecordExpires, GetReport, ReportExpires, api, worker_vars, Jobs, Tasks
<1>2. old' \in 0..made /\ record' \in 0..made /\ reports' \subseteq Jobs
  <2>1. old \in 0..made /\ record \in 0..made /\ reports \subseteq Jobs /\ made \in Nat
    BY <1>a, Parts
  <2> QED
    BY <2>1 DEF Beat, Age, RecordExpires, GetReport, ReportExpires, api, worker_vars
<1>3. /\ queue' \in Seq(Tasks)
      /\ \A i \in DOMAIN queue : i \in DOMAIN queue' /\ queue'[i] = queue[i]
  <2>1. queue \in Seq(Tasks)
    BY <1>a, Parts
  <2>2. Reap \in Tasks
    BY DEF Tasks
  <2> HIDE DEF Tasks
  <2>3. CASE Beat
    BY <2>1, <2>2, <2>3, Appended DEF Beat
  <2>4. CASE ~Beat
    BY <2>1, <2>4 DEF Age, RecordExpires, GetReport, ReportExpires, api
  <2> QED
    BY <2>3, <2>4
<1>4. TypeOK'
  BY <1>a, <1>1, <1>2, <1>3, Parts DEF TypeOK, Statuses, Tasks, Stages, Places
<1>5. Placed' /\ Ended'
  BY <1>a, <1>1 DEF Placed, Ended, AtPipeline
<1>6. NoJobForgotten'
  <2> SUFFICES ASSUME NEW k \in Jobs, status[k] \notin {"done", "failed"}
               PROVE  Followed(k)'
    BY <1>1 DEF NoJobForgotten, Followed
  <2>1. Followed(k)
    BY <1>a DEF NoJobForgotten, Followed
  <2> QED
    BY <1>1, <1>3, <2>1 DEF Followed, AtPipeline, Parse
<1> QED
  BY <1>4, <1>5, <1>6 DEF Inv

LEMMA NextInv == Inv /\ [Next]_vars => Inv'
<1> SUFFICES ASSUME Inv, [Next]_vars PROVE Inv'
  OBVIOUS
<1>1. CASE UNCHANGED vars
  BY <1>1 DEF vars, Inv, TypeOK, Placed, Ended, NoJobForgotten, AtPipeline, Jobs
<1>2. ASSUME NEW r \in Requests, Upload(r) PROVE Inv'
  BY <1>2, RequestInv, InsertInv, EnqueueInv DEF Upload
<1>3. CASE Work
  BY <1>3, TakeInv, PipelineInv, ReaperInv DEF Work
<1> QED
  BY <1>1, <1>2, <1>3, DieInv, AroundInv DEF Next

LEMMA Invariance == Spec => []Inv
<1> QED
  BY InitInv, NextInv, PTL DEF Spec

-----------------------------------------------------------------------------

\* For any number of uploads and jobs every variable keeps its type.
THEOREM CasJobTyped == Spec => []TypeOK
<1>1. Inv => TypeOK
  BY DEF Inv
<1> QED
  BY <1>1, Invariance, PTL

\* A job that is neither done nor failed by its task has a request, a task or a fault to
\* answer for it: failing requests, reapers and duplicates lose none (parse_cas_job).
THEOREM JobsFollowed == Spec => []NoJobForgotten
<1>1. Inv => NoJobForgotten
  BY DEF Inv
<1> QED
  BY <1>1, Invariance, PTL

\* An upload answered as a duplicate names a job that was finished (can_return_existing).
THEOREM DuplicatesFinished == Spec => []DuplicateIsFinished
<1>1. Inv => DuplicateIsFinished
  BY DEF Inv, Ended, DuplicateIsFinished
<1> QED
  BY <1>1, Invariance, PTL

-----------------------------------------------------------------------------

\* The ledger.
Printed(p) == p \in [fund : {"isin", "placeholder"}, folio : Folios \cup {Blank},
                     units : {p.units}, txns : SUBSET Txns]

OneFamily == \A r, s \in ledger : NatKey[r.txn] = NatKey[s.txn] => r.family = s.family

Shown == \A st \in seen : \A r \in ListedRows(st) :
           r \in ledger \/ \E s \in ledger : s.family # r.family /\ NatKey[s.txn] = NatKey[r.txn]

Founded == ledger \subseteq UNION {ListedRows(st) : st \in seen}

LedgerDays == \A r \in ledger : Day[r.txn] <= today

Told ==
  step = "idle" /\ ~cut /\ ledger # {} =>
    \A d \in DOMAIN series :
      \/ series[d] = LedgerValue(d)
      \/ series[d] = HoldingsValue /\ \A r \in ledger : Day[r.txn] <= d

NoTwin ==
  step = "project" =>
    \A p \in parsed : p.folio = Blank =>
      \A j \in {KeyOf(q) : q \in parsed} \cup DOMAIN holdings :
        j.fund = p.fund => j.folio = Blank

-----------------------------------------------------------------------------

\* What the parsers make of a statement.
LEMMA PrintsPrinted ==
  ASSUME NEW st \in Statements, NEW p \in Prints(st)
  PROVE  /\ Printed(p)
         /\ p.fund = IF st.resolved THEN "isin" ELSE "placeholder"
         /\ st.blanks = {} => p.folio # Blank
<1>1. PICK f \in {g \in st.folios : \E t \in Txns : Folio[t] = g /\ Day[t] <= st.to} :
        p = [fund  |-> IF st.resolved THEN "isin" ELSE "placeholder",
             folio |-> IF f \in st.blanks THEN Blank ELSE f,
             units |-> Stated(st, f), txns |-> Listed(st, f)]
  BY DEF Prints
<1>2. f \in Folios
  BY <1>1, LedgerAssumption
<1>3. Listed(st, f) \subseteq Txns
  BY DEF Listed
<1>4. Blank \notin Folios
  BY LedgerAssumption
<1> QED
  BY <1>1, <1>2, <1>3, <1>4 DEF Printed

\* Resolving a folio changes nothing else of a print.
LEMMA ResolvedFrom ==
  ASSUME NEW prints, \A p \in prints : Printed(p), NEW p \in ResolveBlanks(prints)
  PROVE  /\ Printed(p)
         /\ \/ p \in prints /\ (p.folio # Blank \/ RealFolios(p, prints) = {})
            \/ \E q \in prints :
                 /\ q.folio = Blank /\ p.fund = q.fund /\ p.txns = q.txns
                 /\ RealFolios(q, prints) = {p.folio}
<1>1. CASE p \in prints /\ (p.folio # Blank \/ RealFolios(p, prints) = {})
  BY <1>1
<1>2. CASE \E q \in prints : /\ q.folio = Blank
                             /\ \E f \in Folios : RealFolios(q, prints) = {f}
                             /\ p = [q EXCEPT !.folio = CHOOSE f \in RealFolios(q, prints) : TRUE]
  <2>1. PICK q \in prints : /\ q.folio = Blank
                            /\ \E f \in Folios : RealFolios(q, prints) = {f}
                            /\ p = [q EXCEPT !.folio = CHOOSE f \in RealFolios(q, prints) : TRUE]
    BY <1>2
  <2>2. PICK f \in Folios : RealFolios(q, prints) = {f}
    BY <2>1
  <2>3. p = [q EXCEPT !.folio = f]
    BY <2>1, <2>2
  <2>4. q \in [fund : {"isin", "placeholder"}, folio : Folios \cup {Blank},
               units : {q.units}, txns : SUBSET Txns]
    BY DEF Printed
  <2>5. p.folio = f /\ p.fund = q.fund /\ p.txns = q.txns /\ p.units = q.units
    BY <2>3, <2>4
  <2>6. Printed(p)
    BY <2>3, <2>4, <2>5 DEF Printed
  <2> QED
    BY <2>1, <2>2, <2>5, <2>6
<1> QED
  BY <1>1, <1>2 DEF ResolveBlanks

\* The holdings of an upload, as AppendRows makes them.
LEMMA ParsedPrinted ==
  ASSUME NEW st \in Statements, NEW p \in Suppress(ResolveBlanks(Prints(st)))
  PROVE  Printed(p) /\ KeyOf(p) \in Keys
<1>1. p \in ResolveBlanks(Prints(st))
  BY DEF Suppress
<1>2. Printed(p)
  BY <1>1, PrintsPrinted, ResolvedFrom
<1> QED
  BY <1>2 DEF Printed, KeyOf, Keys

-----------------------------------------------------------------------------

LEMMA InitTyped == LedgerInit => LedgerTypeOK
<1> SUFFICES ASSUME LedgerInit PROVE LedgerTypeOK
  OBVIOUS
<1>1. DOMAIN holdings = {} /\ DOMAIN series = {}
  BY DEF LedgerInit
<1>2. today \in 1..MaxDay
  BY LedgerAssumption DEF LedgerInit
<1>3. ledger = {} /\ flagged = {} /\ step = "idle" /\ parsed = {} /\ seen = {} /\ cut = FALSE
  BY DEF LedgerInit
<1> QED
  BY <1>1, <1>2, <1>3 DEF LedgerTypeOK

LEMMA AppendTyped ==
  ASSUME LedgerTypeOK, NEW st \in Statements, AppendRows(st)
  PROVE  LedgerTypeOK'
<1>1. \A p \in parsed' : Printed(p) /\ KeyOf(p) \in Keys
  BY ParsedPrinted DEF AppendRows
<1>2. Family(st) \in {"pdf", "txt", "xls"}
  BY LedgerAssumption DEF Family, Kinds
<1>3. Rows(st, parsed') \subseteq [family : {"pdf", "txt", "xls"}, txn : {Row[t] : t \in Txns}]
  <2> SUFFICES ASSUME NEW r \in Rows(st, parsed')
               PROVE  r \in [family : {"pdf", "txt", "xls"}, txn : {Row[t] : t \in Txns}]
    OBVIOUS
  <2>1. PICK t \in UNION {p.txns : p \in {q \in parsed' : q.fund = "isin"}} :
          r = [family |-> Family(st), txn |-> Row[t]]
    BY DEF Rows
  <2>2. t \in Txns
    BY <1>1, <2>1 DEF Printed
  <2> QED
    BY <1>2, <2>1, <2>2
<1>4. ledger' \subseteq [family : {"pdf", "txt", "xls"}, txn : {Row[t] : t \in Txns}]
  BY <1>3 DEF AppendRows, NewRows, LedgerTypeOK
<1> QED
  BY <1>1, <1>4 DEF AppendRows, LedgerTypeOK

LEMMA ProjectTyped ==
  ASSUME LedgerTypeOK, ProjectHoldings
  PROVE  LedgerTypeOK'
<1> DEFINE keys == {KeyOf(p) : p \in parsed}
<1>1. PICK last \in [keys -> parsed] :
        holdings' = [k \in DOMAIN holdings \cup keys |->
          IF k \notin keys THEN holdings[k]
          ELSE [units |-> last[k].units,
                basis |-> IF HasRows(k) /\ LedgerUnits(k.folio, MaxDay) = last[k].units
                          THEN "ledger" ELSE "statement"]]
  BY DEF ProjectHoldings
<1>2. keys \subseteq Keys
  BY DEF LedgerTypeOK
<1>3. DOMAIN holdings' \subseteq Keys
  BY <1>1, <1>2 DEF LedgerTypeOK
<1>4. \A k \in DOMAIN holdings' :
        holdings'[k] \in [units : {holdings'[k].units}, basis : {"ledger", "statement"}]
  <2> SUFFICES ASSUME NEW k \in DOMAIN holdings'
               PROVE  holdings'[k] \in [units : {holdings'[k].units},
                                        basis : {"ledger", "statement"}]
    OBVIOUS
  <2>1. CASE k \notin keys
    <3>1. k \in DOMAIN holdings /\ holdings'[k] = holdings[k]
      BY <1>1, <2>1
    <3> QED
      BY <3>1 DEF LedgerTypeOK
  <2>2. CASE k \in keys
    <3> DEFINE b == IF HasRows(k) /\ LedgerUnits(k.folio, MaxDay) = last[k].units
                    THEN "ledger" ELSE "statement"
    <3>1. holdings'[k] = [units |-> last[k].units, basis |-> b]
      BY <1>1, <2>2
    <3>2. b \in {"ledger", "statement"}
      OBVIOUS
    <3> HIDE DEF b
    <3> QED
      BY <3>1, <3>2
  <2> QED
    BY <2>1, <2>2
<1> QED
  BY <1>3, <1>4 DEF ProjectHoldings, LedgerTypeOK

LEMMA CheckTyped ==
  ASSUME LedgerTypeOK, Check
  PROVE  LedgerTypeOK'
<1>1. flagged' \subseteq Keys
  BY DEF Check, LedgerTypeOK
<1> QED
  BY <1>1 DEF Check, LedgerTypeOK

LEMMA ResetTyped ==
  ASSUME LedgerTypeOK, ResetSeries
  PROVE  LedgerTypeOK'
<1>1. DOMAIN series' \subseteq 1..today
  <2>1. CASE ledger # {}
    BY <2>1 DEF ResetSeries
  <2>2. CASE ledger = {}
    BY <2>2 DEF ResetSeries, LedgerTypeOK
  <2> QED
    BY <2>1, <2>2
<1> QED
  BY <1>1 DEF ResetSeries, LedgerTypeOK

LEMMA RestTyped ==
  ASSUME LedgerTypeOK, UploadDies \/ Nightly \/ NewDay \/ UNCHANGED ledger_vars
  PROVE  LedgerTypeOK'
<1>1. CASE UploadDies
  BY <1>1 DEF UploadDies, LedgerTypeOK
<1>2. CASE Nightly
  <2>1. DOMAIN series' \subseteq 1..today
    BY <1>2, LedgerAssumption DEF Nightly, LedgerTypeOK
  <2> QED
    BY <1>2, <2>1 DEF Nightly, LedgerTypeOK
<1>3. CASE NewDay
  <2>1. today' \in 1..MaxDay /\ 1..today \subseteq 1..today'
    BY <1>3, LedgerAssumption DEF NewDay, LedgerTypeOK
  <2> QED
    BY <1>3, <2>1 DEF NewDay, LedgerTypeOK
<1>4. CASE UNCHANGED ledger_vars
  BY <1>4 DEF ledger_vars, LedgerTypeOK
<1> QED
  BY <1>1, <1>2, <1>3, <1>4

LEMMA NextTyped == LedgerTypeOK /\ [LedgerNext]_ledger_vars => LedgerTypeOK'
<1> SUFFICES ASSUME LedgerTypeOK, [LedgerNext]_ledger_vars PROVE LedgerTypeOK'
  OBVIOUS
<1>1. ASSUME NEW st \in Statements, AppendRows(st) PROVE LedgerTypeOK'
  BY <1>1, AppendTyped
<1>2. CASE ProjectHoldings
  BY <1>2, ProjectTyped
<1>3. CASE Check
  BY <1>3, CheckTyped
<1>4. CASE ResetSeries
  BY <1>4, ResetTyped
<1>5. CASE UploadDies \/ Nightly \/ NewDay \/ UNCHANGED ledger_vars
  BY <1>5, RestTyped
<1> QED
  BY <1>1, <1>2, <1>3, <1>4, <1>5 DEF LedgerNext

\* Type correctness of what an upload leaves: ledger rows are of printed transactions of the
\* three format families, holdings and flags are under keys of the fund.
THEOREM LedgerTyped == LedgerSpec => []LedgerTypeOK
<1> QED
  BY InitTyped, NextTyped, PTL DEF LedgerSpec

-----------------------------------------------------------------------------

\* One family per natural key.
LEMMA FamilyStep == LedgerTypeOK /\ OneFamily /\ [LedgerNext]_ledger_vars => OneFamily'
<1> SUFFICES ASSUME LedgerTypeOK, OneFamily, [LedgerNext]_ledger_vars PROVE OneFamily'
  OBVIOUS
<1>1. ASSUME NEW st \in Statements, AppendRows(st) PROVE OneFamily'
  <2> SUFFICES ASSUME NEW r \in ledger', NEW s \in ledger', NatKey[r.txn] = NatKey[s.txn]
               PROVE  r.family = s.family
    BY DEF OneFamily
  <2>1. \A x \in NewRows(Rows(st, parsed')) : x.family = Family(st)
    BY DEF NewRows, Rows
  <2>2. \A x \in NewRows(Rows(st, parsed')) : \A y \in ledger :
          NatKey[x.txn] = NatKey[y.txn] => y.family = x.family
    BY DEF NewRows
  <2>3. r \in ledger \/ r \in NewRows(Rows(st, parsed'))
    BY <1>1 DEF AppendRows
  <2>4. s \in ledger \/ s \in NewRows(Rows(st, parsed'))
    BY <1>1 DEF AppendRows
  <2>5. CASE r \in ledger /\ s \in ledger
    BY <2>5 DEF OneFamily
  <2>6. CASE r \in NewRows(Rows(st, parsed')) /\ s \in ledger
    BY <2>2, <2>6
  <2>7. CASE r \in ledger /\ s \in NewRows(Rows(st, parsed'))
    BY <2>2, <2>7
  <2>8. CASE r \in NewRows(Rows(st, parsed')) /\ s \in NewRows(Rows(st, parsed'))
    BY <2>1, <2>8
  <2> QED
    BY <2>3, <2>4, <2>5, <2>6, <2>7, <2>8
<1>2. CASE UNCHANGED ledger
  BY <1>2 DEF OneFamily
<1> QED
  BY <1>1, <1>2 DEF LedgerNext, ledger_vars, ProjectHoldings, Check, ResetSeries, UploadDies, Nightly, NewDay

\* The rows of one natural key are as many as the ways it is printed, at most.
LEMMA RowsCounted == LedgerTypeOK /\ OneFamily => NoDoubleCount
<1> SUFFICES ASSUME LedgerTypeOK, OneFamily, NEW n \in Txns
             PROVE  Cardinality({r \in ledger : NatKey[r.txn] = n})
                      <= Cardinality({Row[t] : t \in {u \in Txns : NatKey[u] = n}})
  BY DEF NoDoubleCount
<1> DEFINE R == {r \in ledger : NatKey[r.txn] = n}
           P == {Row[t] : t \in {u \in Txns : NatKey[u] = n}}
           f == [r \in R |-> r.txn]
<1>1. IsFiniteSet(P)
  <2>1. P \subseteq Txns
    BY LedgerAssumption
  <2> QED
    BY <2>1, LedgerAssumption, FS_Subset
<1>2. f \in [R -> P]
  <2>1. ASSUME NEW r \in R PROVE r.txn \in P
    <3>1. PICK t \in Txns : r.txn = Row[t]
      BY DEF LedgerTypeOK
    <3>2. NatKey[t] = n
      BY <3>1, LedgerAssumption
    <3> QED
      BY <3>1, <3>2
  <2> QED
    BY <2>1
<1>3. \A r, s \in R : f[r] = f[s] => r = s
  <2> SUFFICES ASSUME NEW r \in R, NEW s \in R, r.txn = s.txn PROVE r = s
    OBVIOUS
  <2>1. r.family = s.family
    BY DEF OneFamily
  <2>2. /\ r \in [family : {"pdf", "txt", "xls"}, txn : {Row[t] : t \in Txns}]
        /\ s \in [family : {"pdf", "txt", "xls"}, txn : {Row[t] : t \in Txns}]
    BY DEF LedgerTypeOK
  <2> QED
    BY <2>1, <2>2
<1>4. f \in Injection(R, P)
  BY <1>2, <1>3 DEF Injection, IsInjective
<1> HIDE DEF R, P, f
<1>5. Cardinality(R) <= Cardinality(P)
  BY <1>1, <1>4, FS_Injection
<1> QED
  BY <1>5 DEF R, P

\* Whatever statements of whichever formats are uploaded, and wherever uploads die, no
\* transaction is counted twice.
THEOREM TransactionsCountedOnce == LedgerSpec => []NoDoubleCount
<1>1. LedgerInit => OneFamily
  BY DEF LedgerInit, OneFamily
<1> QED
  BY <1>1, InitTyped, NextTyped, FamilyStep, RowsCounted, PTL DEF LedgerSpec

-----------------------------------------------------------------------------

\* What AppendRows makes of a statement's rows depends on nothing stored.
LEMMA RowsOfStatement ==
  ASSUME NEW st \in Statements
  PROVE  Rows(st, Suppress(ResolveBlanks(Prints(st)))) = ListedRows(st)
<1> DEFINE kept == Suppress(ResolveBlanks(Prints(st)))
<1>1. CASE ~st.resolved
  <2>1. \A p \in kept : p.fund = "placeholder"
    <3> SUFFICES ASSUME NEW p \in ResolveBlanks(Prints(st)) PROVE p.fund = "placeholder"
      BY DEF Suppress
    <3> QED
      BY <1>1, PrintsPrinted, ResolvedFrom
  <2> QED
    BY <1>1, <2>1 DEF Rows, ListedRows
<1>2. CASE st.resolved
  <2>1. \A p \in kept : p.fund = "isin" /\ \E q \in Prints(st) : p.txns = q.txns
    <3> SUFFICES ASSUME NEW p \in ResolveBlanks(Prints(st))
                 PROVE  p.fund = "isin" /\ \E q \in Prints(st) : p.txns = q.txns
      BY DEF Suppress
    <3> QED
      BY <1>2, PrintsPrinted, ResolvedFrom
  <2>2. \A q \in Prints(st) : \E f \in st.folios : q.txns = Listed(st, f)
    BY DEF Prints
  <2>3. \A f : \A t \in Listed(st, f) : t \in Txns /\ Folio[t] = f
    BY DEF Listed
  <2>4. ASSUME NEW t \in UNION {p.txns : p \in {q \in kept : q.fund = "isin"}}
        PROVE  t \in {u \in Txns : Folio[u] \in st.folios /\ u \in Listed(st, Folio[u])}
    <3>1. PICK p \in kept : t \in p.txns
      BY <2>4
    <3>2. PICK f \in st.folios : p.txns = Listed(st, f)
      BY <2>1, <2>2
    <3> QED
      BY <2>3, <3>1, <3>2
  <2>5. ASSUME NEW t \in {u \in Txns : Folio[u] \in st.folios /\ u \in Listed(st, Folio[u])}
        PROVE  t \in UNION {p.txns : p \in {q \in kept : q.fund = "isin"}}
    <3>1. st.kind # "cdsl"
      BY DEF Listed
    <3>2. st.blanks = {}
      BY <3>1, LedgerAssumption
    <3>3. Day[t] <= st.to
      <4>1. Day[t] \in st.from..st.to
        BY <3>1 DEF Listed
      <4>2. st.from \in Int /\ st.to \in Int
        BY LedgerAssumption
      <4> QED
        BY <4>1, <4>2
    <3>4. Folio[t] \in {g \in st.folios : \E u \in Txns : Folio[u] = g /\ Day[u] <= st.to}
      BY <3>3
    <3> DEFINE g == Folio[t]
               o == [fund  |-> IF st.resolved THEN "isin" ELSE "placeholder",
                     folio |-> IF g \in st.blanks THEN Blank ELSE g,
                     units |-> Stated(st, g), txns |-> Listed(st, g)]
    <3>5. o \in Prints(st)
      BY <3>4, Zenon DEF Prints
    <3>6. o.txns = Listed(st, Folio[t])
      OBVIOUS
    <3> HIDE DEF o
    <3>7. PICK p \in Prints(st) : p.txns = Listed(st, Folio[t])
      BY <3>5, <3>6
    <3>8. p.fund = "isin" /\ p.folio # Blank
      BY <1>2, <3>2, PrintsPrinted
    <3>9. p \in kept
      BY <3>8 DEF ResolveBlanks, Suppress
    <3> QED
      BY <3>7, <3>8, <3>9
  <2>6. UNION {p.txns : p \in {q \in kept : q.fund = "isin"}} =
          {u \in Txns : Folio[u] \in st.folios /\ u \in Listed(st, Folio[u])}
    BY <2>4, <2>5
  <2> QED
    BY <1>2, <2>6 DEF Rows, ListedRows
<1> QED
  BY <1>1, <1>2

\* What has been shown stays shown, and what is appended is shown.
LEMMA ShownStep == LedgerTypeOK /\ Shown /\ [LedgerNext]_ledger_vars => Shown'
<1> SUFFICES ASSUME LedgerTypeOK, Shown, [LedgerNext]_ledger_vars PROVE Shown'
  OBVIOUS
<1>1. ASSUME NEW st \in Statements, AppendRows(st) PROVE Shown'
  <2>1. Rows(st, parsed') = ListedRows(st)
    BY <1>1, RowsOfStatement DEF AppendRows
  <2>2. ledger' = ledger \cup NewRows(ListedRows(st)) /\ seen' = seen \cup {st}
    BY <1>1, <2>1 DEF AppendRows
  <2> SUFFICES ASSUME NEW su \in seen', NEW r \in ListedRows(su)
               PROVE  \/ r \in ledger'
                      \/ \E s \in ledger' : s.family # r.family /\ NatKey[s.txn] = NatKey[r.txn]
    BY DEF Shown, ListedRows, Family, Listed
  <2>3. CASE su \in seen
    BY <2>2, <2>3 DEF Shown
  <2>4. CASE su = st
    BY <2>2, <2>4 DEF NewRows
  <2> QED
    BY <2>2, <2>3, <2>4
<1>2. CASE UNCHANGED <<ledger, seen>>
  BY <1>2 DEF Shown, ListedRows, Family, Listed
<1> QED
  BY <1>1, <1>2 DEF LedgerNext, ledger_vars, ProjectHoldings, Check, ResetSeries, UploadDies, Nightly, NewDay

\* A row comes from a statement that has been uploaded.
LEMMA FoundedStep == LedgerTypeOK /\ Founded /\ [LedgerNext]_ledger_vars => Founded'
<1> SUFFICES ASSUME LedgerTypeOK, Founded, [LedgerNext]_ledger_vars PROVE Founded'
  OBVIOUS
<1>1. ASSUME NEW st \in Statements, AppendRows(st) PROVE Founded'
  <2>1. Rows(st, parsed') = ListedRows(st)
    BY <1>1, RowsOfStatement DEF AppendRows
  <2>2. ledger' = ledger \cup NewRows(ListedRows(st)) /\ seen' = seen \cup {st}
    BY <1>1, <2>1 DEF AppendRows
  <2>3. NewRows(ListedRows(st)) \subseteq ListedRows(st)
    BY DEF NewRows
  <2>4. ledger' \subseteq UNION {ListedRows(su) : su \in seen'}
    BY <2>2, <2>3 DEF Founded
  <2> QED
    BY <2>4 DEF Founded, ListedRows, Family, Listed
<1>2. CASE UNCHANGED <<ledger, seen>>
  BY <1>2 DEF Founded, ListedRows, Family, Listed
<1> QED
  BY <1>1, <1>2 DEF LedgerNext, ledger_vars, ProjectHoldings, Check, ResetSeries, UploadDies, Nightly, NewDay

\* Whatever is uploaded in whichever order, the ledger tells what the statements list, each
\* transaction in one format (mf/ledger.py, append_transactions).
THEOREM LedgerTellsAll == LedgerSpec => []LedgerTellsStatements
<1>1. LedgerInit => OneFamily /\ Shown /\ Founded
  BY DEF LedgerInit, OneFamily, Shown, Founded
<1>2. LedgerTypeOK /\ OneFamily /\ Shown /\ Founded => LedgerTellsStatements
  <2> SUFFICES ASSUME LedgerTypeOK, OneFamily, Shown, Founded, NEW n \in Txns
               PROVE  \E format \in {"pdf", "txt", "xls"} :
                        {r \in ledger : NatKey[r.txn] = n} =
                          {r \in UNION {ListedRows(st) : st \in seen} :
                             NatKey[r.txn] = n /\ r.family = format}
    BY DEF LedgerTellsStatements
  <2> DEFINE L == UNION {ListedRows(st) : st \in seen}
  <2>1. ledger \subseteq L
    BY DEF Founded
  <2>2. \A r \in L : r \in ledger \/ \E s \in ledger : s.family # r.family /\ NatKey[s.txn] = NatKey[r.txn]
    BY DEF Shown
  <2>3. \A r \in ledger : r.family \in {"pdf", "txt", "xls"}
    BY DEF LedgerTypeOK
  <2> HIDE DEF L
  <2>4. CASE \E s \in ledger : NatKey[s.txn] = n
    <3>1. PICK s \in ledger : NatKey[s.txn] = n
      BY <2>4
    <3>2. \A r \in ledger : NatKey[r.txn] = n => r.family = s.family
      BY <3>1 DEF OneFamily
    <3>3. \A r \in L : NatKey[r.txn] = n /\ r.family = s.family => r \in ledger
      BY <2>2, <3>2
    <3>4. {r \in ledger : NatKey[r.txn] = n} = {r \in L : NatKey[r.txn] = n /\ r.family = s.family}
      BY <2>1, <3>2, <3>3
    <3> QED
      BY <2>3, <3>1, <3>4 DEF L
  <2>5. CASE ~ \E s \in ledger : NatKey[s.txn] = n
    <3>1. \A r \in L : NatKey[r.txn] # n
      BY <2>2, <2>5
    <3>2. {r \in ledger : NatKey[r.txn] = n} = {r \in L : NatKey[r.txn] = n /\ r.family = "pdf"}
      BY <2>5, <3>1
    <3> QED
      BY <3>2 DEF L
  <2> QED
    BY <2>4, <2>5
<1> QED
  BY <1>1, <1>2, InitTyped, NextTyped, FamilyStep, ShownStep, FoundedStep, PTL DEF LedgerSpec

\* A statement's second upload, and every later one, adds nothing to the ledger.
THEOREM ReuploadsAddNothing == LedgerSpec => ReuploadAddsNothing
<1>1. LedgerInit => Shown
  BY DEF LedgerInit, Shown
<1>2. LedgerTypeOK /\ Shown /\ [LedgerNext]_ledger_vars => [\A st \in seen : AppendRows(st) => ledger' = ledger]_ledger_vars
  <2> SUFFICES ASSUME LedgerTypeOK, Shown, NEW st \in seen, AppendRows(st) PROVE ledger' = ledger
    OBVIOUS
  <2>1. st \in Statements
    BY DEF LedgerTypeOK
  <2>2. Rows(st, parsed') = ListedRows(st)
    BY <2>1, RowsOfStatement DEF AppendRows
  <2>3. NewRows(ListedRows(st)) \subseteq ledger
    BY DEF NewRows, Shown
  <2> QED
    BY <2>2, <2>3 DEF AppendRows
<1> QED
  BY <1>1, <1>2, InitTyped, NextTyped, ShownStep, PTL DEF LedgerSpec, ReuploadAddsNothing

-----------------------------------------------------------------------------

\* A print that keeps no folio is of a fund that is known under none.
LEMMA NoTwinStep == LedgerTypeOK /\ NoTwin /\ [LedgerNext]_ledger_vars => NoTwin'
<1> SUFFICES ASSUME LedgerTypeOK, NoTwin, [LedgerNext]_ledger_vars PROVE NoTwin'
  OBVIOUS
<1>1. ASSUME NEW st \in Statements, AppendRows(st) PROVE NoTwin'
  <2> DEFINE prints == Prints(st)
  <2>1. \A p \in prints : Printed(p)
    BY PrintsPrinted
  <2>2. parsed' \subseteq ResolveBlanks(prints) /\ holdings' = holdings
    BY <1>1 DEF AppendRows, Suppress
  <2> HIDE DEF prints
  <2> SUFFICES ASSUME NEW p \in parsed', p.folio = Blank,
                      NEW j \in {KeyOf(q) : q \in parsed'} \cup DOMAIN holdings,
                      j.fund = p.fund, j.folio # Blank
               PROVE  FALSE
    BY <2>2 DEF NoTwin
  <2>3. \A q, r : q.fund = r.fund => RealFolios(q, prints) = RealFolios(r, prints)
    BY DEF RealFolios
  <2>4. Blank \notin RealFolios(p, prints)
    BY DEF RealFolios
  <2>5. \A q \in prints : RealFolios(q, prints) = {p.folio} => q.fund # p.fund
    BY <2>3, <2>4
  <2>6. RealFolios(p, prints) = {}
    BY <2>1, <2>2, <2>5, ResolvedFrom
  <2>7. CASE j \in DOMAIN holdings
    BY <2>6, <2>7 DEF RealFolios
  <2>8. ASSUME NEW q \in parsed', j = KeyOf(q) PROVE FALSE
    <3>1. q.fund = p.fund /\ q.folio # Blank
      BY <2>8 DEF KeyOf
    <3>2. CASE q \in prints
      <4>1. KeyOf(q) \in {KeyOf(o) : o \in prints}
        BY <3>2
      <4>2. KeyOf(q).fund = p.fund /\ KeyOf(q).folio = q.folio
        BY <3>1 DEF KeyOf
      <4> QED
        BY <2>6, <3>1, <4>1, <4>2 DEF RealFolios
    <3>3. CASE \E o \in prints : o.fund = q.fund /\ RealFolios(o, prints) = {q.folio}
      BY <2>3, <2>6, <3>1, <3>3
    <3> QED
      BY <2>1, <2>2, <3>2, <3>3, ResolvedFrom
  <2> QED
    BY <2>7, <2>8
<1>2. CASE step' # "project"
  BY <1>2 DEF NoTwin
<1>3. CASE UNCHANGED <<step, parsed, holdings>>
  BY <1>3 DEF NoTwin, KeyOf
<1> QED
  BY <1>1, <1>2, <1>3
     DEF LedgerNext, ledger_vars, ProjectHoldings, Check, ResetSeries, UploadDies, Nightly, NewDay

\* Positions stored under a folio are never stored again without one.
THEOREM PositionsStoredOnce == LedgerSpec => NoSecondPrint
<1>1. LedgerInit => NoTwin
  BY DEF LedgerInit, NoTwin
<1>2. LedgerTypeOK /\ NoTwin /\ [LedgerNext]_ledger_vars =>
        [\A k \in DOMAIN holdings' \ DOMAIN holdings :
           k.folio = Blank => ~ \E j \in DOMAIN holdings' : j.fund = k.fund /\ j.folio # Blank]_ledger_vars
  <2> SUFFICES ASSUME LedgerTypeOK, NoTwin, LedgerNext,
                      NEW k \in DOMAIN holdings' \ DOMAIN holdings, k.folio = Blank,
                      NEW j \in DOMAIN holdings', j.fund = k.fund
               PROVE  j.folio = Blank
    OBVIOUS
  <2>1. ProjectHoldings
    BY DEF LedgerNext, AppendRows, Check, ResetSeries, UploadDies, Nightly, NewDay
  <2>2. DOMAIN holdings' = DOMAIN holdings \cup {KeyOf(p) : p \in parsed}
    BY <2>1 DEF ProjectHoldings
  <2>3. PICK p \in parsed : k = KeyOf(p)
    BY <2>2
  <2>4. p.folio = Blank /\ p.fund = k.fund
    BY <2>3 DEF KeyOf
  <2> QED
    BY <2>1, <2>2, <2>4 DEF NoTwin, ProjectHoldings
<1> QED
  BY <1>1, <1>2, InitTyped, NextTyped, NoTwinStep, PTL DEF LedgerSpec, NoSecondPrint

-----------------------------------------------------------------------------

\* No row is of a day to come: statements end by today.
LEMMA DaysStep == LedgerTypeOK /\ LedgerDays /\ [LedgerNext]_ledger_vars => LedgerDays'
<1> SUFFICES ASSUME LedgerTypeOK, LedgerDays, [LedgerNext]_ledger_vars PROVE LedgerDays'
  OBVIOUS
<1>1. ASSUME NEW st \in Statements, AppendRows(st) PROVE LedgerDays'
  <2> SUFFICES ASSUME NEW r \in ledger' PROVE Day[r.txn] <= today
    BY <1>1 DEF LedgerDays, AppendRows
  <2>1. CASE r \in ledger
    BY <2>1 DEF LedgerDays
  <2>2. CASE r \in Rows(st, parsed')
    <3>1. r \in ListedRows(st)
      BY <1>1, <2>2, RowsOfStatement DEF AppendRows
    <3>2. PICK t \in Txns : t \in Listed(st, Folio[t]) /\ r.txn = Row[t]
      BY <3>1 DEF ListedRows
    <3>3. Day[t] \in st.from..st.to
      BY <3>2 DEF Listed
    <3>4. Day[Row[t]] = Day[t]
      BY LedgerAssumption
    <3>5. st.from \in Int /\ st.to \in Int /\ today \in Int /\ st.to <= today
      BY <1>1, LedgerAssumption DEF AppendRows, LedgerTypeOK
    <3> QED
      BY <3>2, <3>3, <3>4, <3>5
  <2> QED
    BY <1>1, <2>1, <2>2 DEF AppendRows, NewRows
<1>2. CASE NewDay
  <2>1. \A r \in ledger : Day[r.txn] \in Int
    BY LedgerAssumption DEF LedgerTypeOK
  <2>2. today \in Int /\ today' = today + 1 /\ ledger' = ledger
    BY <1>2, LedgerAssumption DEF NewDay, LedgerTypeOK
  <2> QED
    BY <2>1, <2>2 DEF LedgerDays
<1>3. CASE UNCHANGED <<ledger, today>>
  BY <1>3 DEF LedgerDays
<1> QED
  BY <1>1, <1>2, <1>3
     DEF LedgerNext, ledger_vars, ProjectHoldings, Check, ResetSeries, UploadDies, Nightly

\* Every row of the series is the ledger's or, when it was written after the ledger's last
\* day, the holdings'.
LEMMA ToldStep == LedgerTypeOK /\ LedgerDays /\ Told /\ [LedgerNext]_ledger_vars => Told'
<1> SUFFICES ASSUME LedgerTypeOK, LedgerDays, Told, [LedgerNext]_ledger_vars,
                    step' = "idle", ~cut', ledger' # {}, NEW d \in DOMAIN series'
             PROVE  \/ series'[d] = LedgerValue(d)'
                    \/ series'[d] = HoldingsValue' /\ \A r \in ledger' : Day[r.txn] <= d
  BY DEF Told
<1>1. ~UploadDies /\ ~ProjectHoldings /\ ~Check /\ \A st \in Statements : ~AppendRows(st)
  BY DEF UploadDies, ProjectHoldings, Check, AppendRows
<1>2. CASE ResetSeries
  BY <1>2 DEF ResetSeries, LedgerValue
<1>3. CASE Nightly
  <2>1. UNCHANGED <<ledger, holdings, cut, step>>
    BY <1>3 DEF Nightly
  <2>2. CASE d = today
    BY <1>3, <2>1, <2>2 DEF Nightly, LedgerDays, HoldingsValue
  <2>3. CASE d # today
    <3>1. d \in DOMAIN series /\ series'[d] = series[d]
      BY <1>3, <2>3 DEF Nightly
    <3> QED
      BY <2>1, <3>1 DEF Told, HoldingsValue, LedgerValue
  <2> QED
    BY <2>2, <2>3
<1>4. CASE UNCHANGED <<ledger, holdings, series, step, cut>>
  BY <1>4 DEF Told, HoldingsValue, LedgerValue
<1> QED
  BY <1>1, <1>2, <1>3, <1>4 DEF LedgerNext, ledger_vars, NewDay

LEMMA ToldAgrees == LedgerTypeOK /\ Told => SeriesAgrees
<1> SUFFICES ASSUME LedgerTypeOK, Told, step = "idle", ~cut, ledger # {},
                    HoldingsValue = LedgerValue(MaxDay), NEW d \in DOMAIN series
             PROVE  series[d] = LedgerValue(d)
  BY DEF SeriesAgrees
<1>1. CASE series[d] = LedgerValue(d)
  BY <1>1
<1>2. CASE series[d] = HoldingsValue /\ \A r \in ledger : Day[r.txn] <= d
  <2>1. \A r \in ledger : Day[r.txn] <= MaxDay
    BY LedgerAssumption DEF LedgerTypeOK
  <2>2. {r \in ledger : Day[r.txn] <= d} = {r \in ledger : Day[r.txn] <= MaxDay}
    BY <1>2, <2>1
  <2>3. LedgerValue(d) = LedgerValue(MaxDay)
    BY <2>2 DEF LedgerValue
  <2> QED
    BY <1>2, <2>3
<1> QED
  BY <1>1, <1>2 DEF Told

\* For any history, any statements and any deaths: once the holdings and the ledger agree
\* and an upload has run through, every row of the series is what the ledger adds up to.
THEOREM SeriesTellsLedger == LedgerSpec => []SeriesAgrees
<1>1. LedgerInit => LedgerDays /\ Told
  BY DEF LedgerInit, LedgerDays, Told
<1> QED
  BY <1>1, InitTyped, NextTyped, DaysStep, ToldStep, ToldAgrees, PTL DEF LedgerSpec
=============================================================================
