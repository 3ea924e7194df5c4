# DhanRadar in TLA+

TLA+ models of the DhanRadar backend (`src/backend/dhanradar`), model-checked with TLC on small
instances, with their main safety properties proved with TLAPS for every value of the constants.

DhanRadar is a FastAPI application that analyses an Indian investor's mutual-fund holdings, computes
a market "mood", writes short commentary with language models, and sells subscriptions. Most of its
code is arithmetic over market data and reading of tables. What is hard to test is elsewhere: a
handful of Redis keys and Postgres rows, which concurrent requests, webhook deliveries, retries and
Celery tasks change through several separate commands each. The models are about those.

Paths below are relative to `src/backend/dhanradar/` unless they start with `src/`.

1. [How to run](#1-how-to-run)
2. [The system](#2-the-system): inventory
3. [The modules](#3-the-modules): how state and actions correspond to the code
4. [The runs](#4-the-runs): what they check, bounds, fairness
5. [The proofs](#5-the-proofs)
6. [Where code and text disagree](#6-where-code-and-text-disagree)
7. [What is not modelled](#7-what-is-not-modelled)
8. [How it was built, and what could follow](#8-how-it-was-built-and-what-could-follow)

## 1. How to run

    tlc -config MCBudget_premium.cfg MCBudget     # one run of section 4
    tlapm BudgetProofs.tla                        # the proofs of one component

`PROJECT.json` lists the components, the runs, for each property a mutant of the code that breaks
it, the source lines of each definition, the hazards, the findings and the theorems. A definition
commented "Mutant:" is not part of a specification: it stands beside the action it mutates, to show
that a property depends on the code as it is.

| Modules | About |
|---|---|
| `DailyAllowance`, `Budget`, `MCBudget`, `BudgetProofs` | the daily AI budget |
| `Gateway`, `MCGateway`, `GatewayProofs` | a completion's way through the models; implements `DailyAllowance`, too |
| `SessionChain`, `Sessions`, `MCSessions`, `SessionsProofs` | refresh tokens, deletion and erasure of an account |
| `Checkout`, `MCCheckout`, `BillingProofs` | the idempotent creation of a subscription |
| `Subscriptions`, `MCSubscriptions`, `BillingProofs` | webhook, tier and tier cache |
| `OneTimeCode`, `EmailOtp`, `MCEmailOtp`, `EmailOtpProofs` | sign-in with a mailed code |
| `CasJob`, `MCCasJob`, `CasProofs` | uploads of a CAS statement, and the worker's jobs for them |
| `CasLedger`, `MCCasLedger`, `CasProofs` | what a statement leaves in the portfolio |
| `ManualIngest`, `MCManualIngest`, `ManualIngestProofs` | the inbox for fund houses' disclosure files |
| `Consent`, `MCConsent`, `NotificationsProofs` | a user's consent, and its idempotency marker |
| `JobQueue`, `Notifications`, `MCNotifications`, `NotificationsProofs` | from the queue to the messenger; extends `Consent` |

## 2. The system

### What runs, and what is atomic

One uvicorn process serves the API with asyncio. Celery workers take tasks from the queues `batch`,
`mood` and `misc`, one process per queue (`--concurrency=1`, `src/docker-compose.yml`);
acknowledgement is early, so that a task whose worker dies is not run again. Redis holds sessions,
counters, locks and caches, most with a TTL; Postgres (TimescaleDB) holds the rest. Outside are
Razorpay, OpenRouter with its free and paid models, mail, Telegram, BSE and the sources of market
data.

Handlers give way at every `await`. The models therefore take as one step: one Redis command (or one
`GETDEL`, one `SET NX EX`, one `DEL` of several keys), one committed transaction, one call to the
outside. Between two such steps anything else may happen, among it the death of the process.

### Modelled components

**AI budget guard** (`budget.py`). *State*: per kind (free units, premium dollars) one Redis counter
per day, and cap overrides set by an admin. *Operations*: `budget_guard` reads the caps, creates the
counter with `SET NX EXAT midnight`, reserves with `INCRBYFLOAT`, releases if that was above the
cap, yields a meter to the body, then settles to what the meter shows or rolls back. *Interaction*:
every AI call of every process passes through it. *Hard*: concurrent callers at the last of the
budget; a crash or a Redis error between reservation and settlement; midnight inside a call.
*Correct* when the cap holds whatever races, the counter never shows less than what was spent, and a
rejected or failed call leaves nothing behind.

**AI gateway** (`ai_gateway/gateway.py`). *State*: the budget counters, the strike counter of a
ticker and day. *Operations*: `complete()` rotates through the free models, goes on to paid models
or to Sonnet, records strikes. *Hard*: each hand-over opens or closes a guard, some answers are
billed and unusable, anything may be cancelled. *Correct* when every served answer is counted once,
but for those the code is known to lose (section 6), the overshoot of the free cap is bounded, and
every completion ends.

**Sessions and account lifecycle** (`auth/service.py`, `auth/router.py`, `auth/erasure.py`).
*State*: a Redis key per refresh token, the revocations of access tokens, the account's row
(`suspended_at`, `deletion_requested_at`). *Operations*: sign-in, refresh (`GETDEL`, mint, store,
then look at the row), logout, suspension, deletion request with its sweep of keys, cancel by link
or admin, erasure after seven days. *Hard*: rotations and sign-ins race the sweep's `SCAN`; the row
is read at one moment and written at another; crashes between commit and sweep; a sweep
passes over the keys it fails to read. *Correct* when a session is one chain of tokens, a deletion
request ends the sessions that existed and whose keys it could read, and an erased account has none.

**Checkout** (`billing/service.py`). *State*: per user and Idempotency-Key a cached result and a
lock with a TTL. *Operations*: look at the cache, read the plan, `SET NX`, create the Razorpay
subscription in a thread with a timeout, cache. *Hard*: the lock is never released, the thread
outlives its request, a request may be slow between any two steps. *Correct* when every answer to
one key names one subscription.

**Subscriptions and tier cache** (`subscriptions/`, `auth/service.py`). *State*: the keys of
processed events, `auth.subscriptions`, `users.tier`, the cached tier. *Operations*: the Razorpay
webhook (mark, commit, flush the cache), an admin's override, the readers that fill the cache.
*Hard*: deliveries repeated, reordered and concurrent; failures between mark and commit; a reader
that writes back what it read before. *Correct* when an event is applied once and the cache comes to
agree with the row.

**Sign-in by mailed code** (`auth/email_otp.py`, `auth/service.py`). *State*: five Redis keys: code,
used-marker, failed-attempt counter, daily send counter, cooldown. *Operations*: request a code; log
in with one. *Hard*: several logins hold the same code at once; every key expires by itself, at any
point of the others' work. *Correct* when a code opens one session and wrong codes are limited.

**CAS job pipeline** (`mf/router.py`, `mf/service.py`, `tasks/mf.py`). *State*: a row per job, in
Redis the duplicate record of a statement and the cached reports, the `batch` queue. *Operations*:
upload (look up the record, the job, its report; insert, record, enqueue), the task with its five
commits, the reaper of stuck jobs, expiry and rebuilding of reports. *Hard*: every step of the
upload is a command of its own; the reaper fails jobs by id and waits in the same queue; worker and
requests die anywhere. *Correct* when no job is forgotten or left unfinished, and no upload is
answered with an unfinished one.

**Portfolio ledger** (`mf/cas.py`, `mf/ledger.py`, `mf/projection.py`, `mf/valuation.py`,
`tasks/mf.py`). *State*: the append-only ledger, holdings, checkpoints, the daily series.
*Operations*: an upload appends, projects, checks and resets the series in four commits; the nightly
task adds a day. *Hard*: statements of four formats overlap, omit folios, list a part of the
history, come in any order and twice. *Correct* when no transaction is counted twice, no position is
stored twice, and the series follows the ledger.

**Manual disclosure inbox** (`mf/manual_ingest.py`, `tasks/manual_ingest.py`,
`admin/manual_ingest_router.py`). *State*: the folder and the mailbox, stored files, a row per
digest, the `batch` queue. *Operations*: three intakes, parse, reap, re-parse. *Hard*: intakes of
one content race; the digest turns every repetition away, also that of a file whose task was lost; a
mail is marked as seen before it is taken in. *Correct* when what was taken in is recorded and
stored, nothing is lost but a mail in hand at a fault, and every row gets an outcome.

**Consent ledger** (`consent/`). *State*: the purpose in the user's row, the audit rows, a marker
per action and idempotency key. *Operations*: grant, revoke. *Hard*: the marker is set before the
write. *Correct* when an answered revoke holds.

**Notification queue** (`notifications/`, `tasks/misc.py`). *State*: a Redis list per channel, a
daily counter, preferences, the log. *Operations*: publish, change preferences, the drain: pop, four
gates, delivery, count, log or push back. *Hard*: what is popped is in memory only; the gates are
read before the delivery; answers get lost. *Correct* when jobs are neither lost nor doubled, the cap
holds, and nothing leaves after a revoke.

How they interact: sign-in by code ends in `Sessions`' `SignInStores`; `Gateway` uses the guard that
`Budget` shows to be a `DailyAllowance`, and implements it in its turn; `Checkout` makes the
subscription whose events `Subscriptions` handles. Each of these is one call; the models meet at
those calls. `CasJob`'s step `Project` stands for the four steps of `CasLedger`, between which the
worker may die in both. `Notifications` is composed with `Consent`, whose variables are among its
own.

### Components not modelled

| Component | State and operations | Why not |
|---|---|---|
| BSE webhook inbox (`bse/`, `tasks/bse.py`) | event rows; persist, enqueue, retry, dead letter | `ManualIngest` has the intake's pattern; processing an event has no effect so far |
| Market data adapters (`market_data/`) | circuit breaker | lives in one task's memory, without a second caller |
| Scoring engine (`scoring/engine/`) | hysteresis store, active model version | arithmetic; one worker evaluates |
| Ingestion runs and source health (`tasks/ingestion_run.py`) | run rows, health rows | one worker per source; shown to operators only |
| Refunds (`billing/service.py`) | the checkout's protocol, another key | nothing bounds the two audit calls before the result is cached, on which `Checkout`'s argument rests |
| Password, Google and TOTP sign-in (`auth/`) | TOTP strikes | the pattern of `EmailOtp`'s counter |
| Request plumbing, AI callers, compliance and audit trails, persistence and configuration | wiring; rate-limit windows; append-only rows | nothing another part relies on |
| Mood, news, signals, scheduled ingestion, fund analytics | rows upserted by one worker; arithmetic | numerical; nothing interleaves |
| Read-only surfaces, admin console | queries and forms | no state of their own; cap override and suspension are actions of `Budget` and `Sessions` |
| MF Utility client, front end, deployment | external service; client; scripts | no server state |

The reasons are in `PROJECT.json`, one note per component, and so are the hazards, each at its line.

## 3. The modules

### Budget

`key` is the Redis counter (does it exist, its value, has it a TTL), `override` the admin's cap, and
`pc[c]`, `cap[c]`, `cost[c]` are the position and local variables of a caller in `budget_guard`.

| Action | Code |
|---|---|
| `ReadCaps` | `get_effective_caps`: override, or the default, also when Redis fails |
| `InitKey` | `_init_key_if_missing`: `SET 0 NX EXAT` |
| `ReserveThenDecide` | `INCRBYFLOAT reserve`, verdict on its reply |
| `GuardFails` | a Redis error before the reservation |
| `BodyReturns`, `BodyRaises` | the guarded block |
| `Release`, `Settle` | `_adjust_quietly`, whose failures are swallowed |
| `Crash`, `SetCapOverride`, `Midnight` | the process dies; `POST /admin/ai/cost/caps`; expiry |

`spent`, `day`, `faults` and `straddled` are ghosts. `straddled` records that a midnight fell inside
a guarded call, which is where the guard's promises end: see section 6. A
caller that has read its caps and not yet created the counter does not count as inside.

The abstract specification is `DailyAllowance`: a day's spend and the reservations, with three
actions: admit when both together are below the cap, finish, new day. `Budget` implements it under
the mapping `reserved <- Reserve * Cardinality(Admitted)` (run `budget_premium` and theorem
`GuardImplementsAllowance`). `Gateway` is held to it, too, as the user of the guard.

### Gateway

Concurrent callers of one ticker run `complete()`; `pc[c]` is the stage of its code (`free`,
`escalate`, `paid`, `sonnet`, `strike`), `next[c]` the index of the loop over models, `meter[c]` the
`BudgetMeter`, `bad[c]` whether `last_quality_error` is set. `EnterGuard`, `SettleAt` and `RollBack`
are the three ends of `budget_guard` as one atomic step each, which is what `Budget` shows for days
without faults. Each way an upstream call may go is an action: no answer (`Rotate`), an unusable one
(`FreeAnswersBadly`, `PaidAnswersBadly`), one that is not JSON (`PaidAnswersGarbage`,
`SonnetAnswersGarbage`), a good one, a 402 or a cancellation (`Abort`). `billed` is a ghost: what
the provider served. `uncounted`, another, is what of it the code puts on no meter (a reply of the
paid pool that is not JSON, in a guard that is left cleanly), or throws away with the meter of a guard
left by an exception (`Abort`, `SonnetAnswersGarbage`); `Accountable` is the rest, which the counters
answer for. Neither kind of loss is bounded, in the model or by the code. A price is one unit.

`ImplementsAllowance` says that `complete()` keeps its side of the guard's bargain for the premium
budget: whichever way it takes, it leaves every guard it has entered, once, and with no more than
its reservation spent. `PremiumSpendBounded` is what that amounts to: a bound on the replies that are
charged, and none on the provider's bill, which the lost replies pass unseen. Both need the reservation to
pay for the paid pool (`PaidModels <= PremiumReserve`): the free pool, which may use up more than
its reservation of one, is what `FreeOvershootBounded` is about. `StepsLeft` counts the steps a
completion may still take.

### Sessions

One account. A jti is a number in the order of minting; `live` is the set of jtis with a
`auth:refresh:{jti}` key, `given` those a browser has, `access` the access tokens still accepted,
`row` the account's row, and `job[r]` what request `r` is doing. `family` (ghost) says which sign-in
a token descends from, `since` how many pairs had been minted when the latest deletion request was
committed, `overlooked` which keys that request's sweep failed to read. `SignIn` and `SignInStores` are the two halves of every sign-in route; `Consume`,
`StoreRotated`, `CheckAfterRotation`, `RevokeRotated` are `/auth/refresh`; `RequestDeletion`,
`StartSweep`, `SweepKey`, `SkipKey` (a `GET` that raises, which the loop swallows) and `EndSweep` are
`request_user_deletion` with `_revoke_all_refresh_jtis`, whose `SCAN` meets every key that stays from its start to its end, and any subset of those stored
meanwhile; `CancelReads`/`CancelCommits` and `EraseReads`/`EraseCommits` are the check and the write
of a cancellation and of `hard_erase_user`. `Crash` ends any request at any place. `WaitPasses` is
the seven days of `ERASURE_WAIT`, in which every key (20 minutes) and access token (15 minutes) of
before runs out.

The abstract specification is `SessionChain`, without tokens, keys or requests: a sign-in starts one
session, which is open, or between two tokens, or has ended for good. `Open` are the families with a
live key, `Exchanged` those a request has consumed a token of and not yet stored the next.
`EndedStaysEnded` states the same promise without the abstract module.

### Checkout

One user and one key, in ticks: `result`/`kept` and `lock` are the two Redis keys with what is left
of their TTLs, `running` the threads that have not ended, `subs` the subscriptions at Razorpay,
`req[r]` a request with the ticks its present step may still take. `Submit` looks at the cache,
`Lock` is `SET NX EX` and the start of the call, `TimeOut` is `wait_for` giving up on a thread that
goes on, `CallEnds` its end, `Save` the cached result, `Fail` and `Crash` the failures. The
code bounds the call (25 s) and the lock (60 s), and neither the query of the plan before `SET NX`
nor the save of the result: that they take less than the other 35 s, `ReadTime + CallTimeout +
SaveTime < LockTTL`, is an assumption about the database and Redis, and every property of this module
holds under it only.

### Subscriptions

One user. Razorpay changes a subscription's `status` and delivers its events until a delivery is
answered with a 200. A delivery is `Deliver`, `Mark` (`SET NX` of the event's key), `Commit` (row
and `users.tier` in one transaction), `Flush`, or `Ignore` when the key was there; `DeliveryFails`
may end it anywhere. `ReadTier`, `FillCache`, `ReadFails` are `resolve_tier_with_db` after a miss.
`applied` and `spoilt` are ghosts.

### EmailOtp

One account. A code is the number of its storing: guesses never hit by chance. `Cool`, `CountFirst`,
`CountSend`, `Store` are `request_email_otp`; `Submit`, `Compare`, `Consume`,
`FailFirst`/`FailAgain` and `Refuse`/`Succeed` are `authenticate_email_otp`. `Incr` makes a key
without a TTL when there is none, as Redis does. The used-marker and the length of a login are
counted in ticks, because the single use of a code depends on them; other keys may expire at any
moment.

The abstract specification is `OneTimeCode`, without keys, strikes and time: a login claims a code that
none has claimed, and opens one session with it or gives up; a code that has opened one is not claimed
again. `Claimed` are the codes of the logins between `Consume` and `Succeed`.

### CasJob

One statement and one portfolio. `made` counts the jobs, `status[j]` is a job's row ("stuck" is
`failed` with `stuck_timeout`), `record` the duplicate record, `queue` and `worker` the `batch`
queue and its only process, `req[r]` an upload. `LookUp` to `Enqueue` are `upload_cas` after its
checks, `Take` to `Return` the task with a step per commit, `Raise` every path to `_mark_failed`,
`ReapStuck` and `Unrecord` the reaper's two commits, `Age` the ten minutes it waits. `Abort` and
`Die` may come anywhere. `orphaned` (ghost) collects the jobs that died with their request or task.

### CasLedger

One fund at a constant price, so that values are units. The constants are the investor's history as
the fund house knows it: per transaction its folio, day and units, what it looks like in print, and
its natural key. A statement is a kind, a period, folios and what it omits; `Prints(st)` is what the
parsers make of it. `ResolveBlanks` and `Suppress` are the two passes over the parsed holdings,
`Rows` and `NewRows` the deduplication of the ledger by exact hash and, across formats, natural key.
`AppendRows`, `ProjectHoldings`, `Check`, `ResetSeries` are the upload's commits, `Nightly` the task that adds
today's value, from the holdings.

### ManualIngest

`job[a]` is what an actor, an upload or the worker, is doing; `rows` has one row per content,
`disk` the stored files, named by the actor that wrote them. `TakeIn`, `Insert`, `Enqueue` are
`intake_file`; `Submit`, `Answer`, `Abort` the route around it; `Beat("scan")`, `NextFile`, `Leave`
the folder scan, `Beat("poll")`, `NextMail`, `Leave` the mail poll; `StartParse`, `Finish` the task;
`Reap` the reaper. A file is in `inbox` until `Leave` moves it, so that a scan that ends early finds
it again. A mail leaves with `NextMail`: `INBOX` is selected for writing, and `FETCH (RFC822)` puts
the flag on it that `UNSEEN` looks for (`seen`), before any part is taken in; the `STORE` afterwards
repeats it. `Die` stands for the end of the worker and for an intake that raises, which ends the scan
or the poll; `SkipMail` and `Stay` for the errors the loops pass over. Beat tasks run
between any two others instead of waiting in the queue. The status "parsed" stands for "archived",
too, and "failed" for "unsupported". `Reset`, an operator's re-parse, is not in the source: the
reaper's comment describes it, and the reaper's condition on `parsed_at` is there for it.

### Consent and Notifications

`Consent` has one purpose of one user, who changes his mind; a client sends the latest change, with
one key for a grant and the revoke after it. `Mark` is `SET NX EX`, `WriteConsent` is
`apply_consent_change`, `FailRequest` an error at any point.

In `Notifications`, jobs are numbered as they are published. `drain` is the drain's position in
`_drain` and `_handle_job`: `Tick`, `NextChannel` and `Pop` are the loops, `ReadPreferences`,
`CheckConsent`, `Defer`, `CheckCap` the gates in their order, `Send` the messenger's answers, then
`CountSent` and `LogResult`, or `Retry`. The clock is read once per drain and may be in quiet hours
or not. E-mail passes the same gates and ends at the last one, because nothing in the code ever
sets `email_verified`. `Fault` is an exception in a job or the end of the worker. `reached`,
`doubtful`, `late` and `lost` are ghosts.

The abstract specification is `JobQueue`, without lists, channels and gates: one job is in hand at a
time, comes back as it was or with an attempt more, and what is closed or lost never comes back.
`Waiting` maps all lists to one set, and the job in hand back to what it was when popped.

## 4. The runs

`TypeOK` (`CheckoutTypeOK`, `LedgerTypeOK`) is in every passing run and not repeated.

| Run | States | What it checks and shows |
|---|---|---|
| `budget_premium` | 79 152 | `NeverUnderReports`, `DailySpendBounded`, `NoReservationLost`: the counter is never below spend plus reservations, the cap holds up to one reservation, and without faults nothing is lost. `AdmitsBelowOwnCap`: no override or default lets a caller in above the cap it read. `ImplementsAllowance`: refinement of `DailyAllowance`. |
| `gateway_pools` | 57 428 | `EveryAnswerCounted`: with no guard open, the counters are what was served, but for what `uncounted` lists. `FreeOvershootBounded`: free calls, but for those, pass the cap by at most the rest of a pool per caller. `CompletionEnds`: no combination of failures goes round for ever. |
| `sessions_races` | 758 313 | `OneLivePerSignIn`: a session is one chain. `OnlyRacingSignInsSurvive`: after the sweep only a sign-in that had passed its check, or a key the sweep could not read, may be left. `NoSessionAfterErasure`: an erased account has no session, though refresh does not refuse it. |
| `checkout_retries` | 3 364 | `OneCallAwaited`: no two requests between lock and result. `SuccessesAgree`: all 200s of a kept result name one subscription. |
| `subscriptions_webhook` | 59 928 | `AppliedOnce`, `EveryEventApplied`: at most once, and at least once unless a delivery failed between mark and commit. `CacheCatchesUp`: once the tier rests, the cache agrees. |
| `email_otp_logins` | 2 059 944 | `SpentOnce`: a code opens one session though its marker expires. `FailuresBounded`: logins under way pass the lock by their number at most. |
| `cas_jobs` | 566 008 | `NoJobForgotten`: every job is in a request, the queue or the worker, has an outcome, or died with one of them. `DuplicateIsFinished`: status and report are looked up one after the other, and yet no unfinished job is an answer. `JobsComeToRest`: no job is unfinished for good. |
| `cas_ledger` | 330 336 | `NoDoubleCount`, `ReuploadAddsNothing`: no transaction is counted twice, near twins are. `NoSecondPrint`: no position is stored a second time without its folio. `SeriesAgrees`: replayed and nightly rows tell one story when the holdings do. |
| `manual_inbox` | 211 300 | `NothingLeavesUnrecorded`: what was taken in to the end, or answered, has a row and its file, and faults lose one mail each at most. `FilesComeToRest`: what waits gets a row, unless it was in a lost mail, and every row an outcome. |
| `notifications` | 1 360 288 | `EveryJobAccounted`: a job is in one place only, and a fault loses the one in hand at most. `CapHolds`: the day's cap, but for messages without an answer. `LateBounded`: after a revoke, the one message past the gate may leave. |

Two further runs each show one sentence of the repository to be false of the code (section 6):
`sessions_erase_cancel` and `consent_retry`.

### Bounds

Each bound is a constant marked "bound" in its module, or a set of actors.

- **Budget**: three callers, so that two race while a third is anywhere; a reserve of two and a cap
  of three, so that the cap falls inside a reservation and an override to two moves it to a
  boundary; one midnight, one fault per day. Costs run from nothing to the reserve.
- **Gateway**: two callers, two free models (a rotation has a middle), one paid, caps of two that
  both callers meet, three completions (one beyond the callers, so that a guard is opened on used
  counters). Any of them may be aborted or get replies that are not JSON. The bound of `FreeOvershootBounded` is attained.
- **Sessions**: three requests (a rotation, a sweep and a third), two token pairs, two deletion
  requests (the second re-stamps the first), one cancellation.
- **Checkout**: three requests; a lock of five ticks that covers read (1), call (2) and save (1)
  with the least margin; a result of seven, so that it expires while a retry is under way; three
  calls. With a longer `ReadTime`, `SuccessesAgree` fails (a slow request overtakes a whole checkout
  and the life of its result) and `OneCallAwaited` does not.
- **Subscriptions**: one subscription with both of its events, two handlers, two readers, two
  faults, one override.
- **EmailOtp**: two logins and a sender, two codes (one takes the other's place), `2 * LoginTime <
  CodeTTL` by the least margin (with equality `SpentOnce` fails), a limit of two strikes, one
  uncounted failure; the bound of `FailuresBounded` is attained.

- **CasJob**: two uploads, so that one meets what the other has left half done; two jobs, so that the
  record can name the other one; one death, one reaper waiting at a time.
- **CasLedger**: six transactions in two folios over two days, with every relation the code tells
  apart (near twins, an exact reprint, an unlisted bonus), and six statements: all formats, a part of
  the history, one without folios, one with an unresolved fund. The number of uploads is unbounded.
- **ManualIngest**: a mail of two parts, so that it may be lost between them, and a file and an upload
  that race it with the content of one; one fault, one reset. Beats are unbounded. With a zip of two
  in the folder, too, the safety properties hold, and liveness takes too long.
- **Notifications**: two messages by Telegram, one of high priority; a cap of one and two attempts,
  the least with a message at the cap and a retry; two days; a grant and a revoke; one fault
  anywhere, in the drain or in a consent request. The e-mail queue is visited empty: a third message,
  by e-mail, makes the run four times longer, and was checked once.

Callers, requests, logins and senders are interchanged by symmetry in the runs without liveness.
`CHECK_DEADLOCK FALSE` is set where the bounds on work to do (calls, tokens, codes, events) let the
system come to rest.

### Fairness

- **Gateway**: weak fairness of each completion's next step. Every upstream request has a timeout
  (`AI_REQUEST_TIMEOUT_S`, 20 s; `_SONNET_TIMEOUT_S`, 60 s), so that a completion always gets on.
- **Subscriptions**: a handler's next step, and a reader's, are taken or the request fails (both are
  bounded by the server and its clients' timeouts); a key with `TIER_TTL` expires; Razorpay delivers
  an event until it is answered. The last is Razorpay's promise within its retry window; the model
  lets deliveries fail a bounded number of times.

- **CasJob**: the worker goes on while it has work, the beat sends the reaper, and time passes. Tasks
  have hard time limits (`celery_app.py`), and the queue is in order.
- **ManualIngest**: the same, with strong fairness of starting a parse task and of each beat task:
  the queue is in order, so that none of them waits for ever behind the others.

The other modules state safety properties and assume no fairness.

## 5. The proofs

Each theorem is `Spec => ...` for every value of the constants that satisfies the module's
assumption: any finite set of callers or logins, any set of requests, any caps, reserves, times and
bounds. The assumptions are what the code has: positive reserves and caps, a marker longer than two logins (`EmailOtpAssumption`). One the code does not enforce: a lock longer than read,
call and save (`CheckoutAssumption`).
`GuardImplementsAllowance` also assumes that no call costs more than its reserve, as `budget.py`
53-60 does, and `GatewayImplementsAllowance` and `PremiumBounded` that a reservation pays for every
paid model, which is what that means for a completion.

| Theorems | Inductive invariant, and why it is needed |
|---|---|
| `BudgetTyped`, `NeverUnderReportsHolds`, `HardCapHolds`, `NothingLost`, `AdmissionHolds`, `GuardImplementsAllowance` | `BudgetInv` adds that an absent key is worth nothing and, until a midnight falls inside a call, that the key exists and expires whenever a caller is past `InitKey`: otherwise a counter could come into being with a reservation missing. The steps are about how the sets `Holding` and `Admitted` grow and shrink (`HoldingCount`, `AdmittedCount`). |
| `GatewayTyped`, `AnswersCounted`, `OvershootBounded` | While guards are open, counters and bills differ. `Balance` says by how much: by the reservations of open guards, the sum of their meters, and the replies on no meter. The sum is stated as the size of a set with one element per answer. `Floor` keeps the counters from going negative, `Room` bounds the free counter together with all that open guards may add. Each action does one of four things to a budget (`Stays`, `Enters`, `Meters`, `Leaves`), and the books are kept by each of the four. |
| `GatewayImplementsAllowance`, `PremiumBounded` | Each of the four maps to a step of `DailyAllowance` or none: `Enters` to its admission, `Leaves` to its end, with at most the reservation on the meter. `PremiumBounded` is about `Accountable` replies. `Capped`: the counter itself never reaches the cap and a reservation more, because it was below the cap when the last caller was admitted. |
| `CompletionsAreShort` | `StepsLeft` falls with each step of a completion and with no one else's: with fairness, which the proof leaves out, that is `CompletionEnds`. |
| `SessionsTyped`, `OneLive`, `SweptSessionsEnd`, `ErasedAccountsEnd` | `Held`: a request under way has a minted jti and a real stamp. `Chains`: the family of a consumed jti has no live key and no second request rotating it. `Survivors`: what a sweep has still to do covers every live token it owes an end to, and a token minted after the request is the first of its sign-in; a key the sweep fails to read goes to `overlooked`. `Closure`: without a cancellation, from the end of the wait to the erasure and after it, no token is live and no sign-in or rotation is under way; a new deletion request restarts the wait, but not for an erasure that has read the row. |
| `SessionsImplementChain`, `EndedForGood` | Every action does one of a few things to the chains (`Moves`): nothing, a first token is stored, tokens are dropped, one is consumed, its successor is stored, or a rotation ends without one. With `Chains` each of them is a step of `SessionChain`. |
| `OnlyCancellationsRace` | `Closure`: without a cancellation, what an erasure has read stays true. |
| `CheckoutTyped`, `OneAwaited`, `OneSubscriptionAnswered`, `AnsweredExists` | `Timed`: what is left of the lock exceeds what is left of the step of the request that took it. `Settled`: while a result is kept nobody is creating, and whoever is still reading will find the lock held. `Created`: what a request is about to save has been created. |
| `SubscriptionsTyped`, `EventsAppliedOnce`, `NoMarkForgotten` | `Unique`: of the deliveries of an event at most one is past its mark, and none if it has been applied. `MarkedAccounted` is inductive: it is what `EveryEventApplied` says without fairness. |
| `CasJobTyped`, `JobsFollowed`, `DuplicatesFinished` | `Placed`: a request past its insert has an inserted job. `Ended`: a job whose status is done has its `completed_at`. With them `NoJobForgotten` is inductive; the reaper's rows stay followed, because their tasks are still in the queue. |
| `LedgerTyped`, `TransactionsCountedOnce`, `ReuploadsAddNothing`, `PositionsStoredOnce`, `LedgerTellsAll` | `OneFamily`: the rows of a natural key come from one format, so that they are distinct prints. `Shown`: each row of a statement once appended has a row with its print or natural key, and rows never go. `NoTwin`: a parsed holding without a folio has no stored one of the same fund with a folio. `Founded`: every ledger row was listed by a statement seen. With `Shown` and `OneFamily`, the rows of a natural key are all that one format has listed, and no more. |
| `SeriesTellsLedger` | `Told`: each row of the series is the ledger's value of its day, or the holdings' with nothing in the ledger after that day. `LedgerDays`: no row is of a day to come, so that a nightly row is of the second kind. The sum is never expanded: two days with the same rows have the same value. |
| `EmailOtpTyped`, `CodesSpentOnce`, `LockHolds`, `CodesAreOneTime` | `Winners`: a winner's marker outlives it by more than a login. `Spent`: a spent code is not stored, and a login that still holds it will meet its marker. `Counted`: strikes counted, plus logins between failure and count, stay within limit and logins. |
| `InboxTyped`, `SettledIsRecorded` | `Stored`: an intake that has still to insert owns a file of its own, so that the loser of a race, who removes his, never removes the file of a row. `Recorded` carries a row's existence from lookup or insert to the answer. `Placed` gives what is queued or parsed its row, and empties the worker's hand outside of an intake. `LossBounded`: a seen mail is in hand, or has all its rows, or is counted by a fault of its own. |
| `NotificationsTyped`, `JobsAccounted`, `CapKept`, `OneLateAtMost` | `Kept`, `Apart` and `Alone`: every job is somewhere, no two entries are one job's, and queues, hand, log and losses hold none in common. `Popping`: the length the drain has read covers what it pops. `Counted` adds to the day's counter what is sent and not yet counted. `Passed`: the job past the consent gate is the only one since the revoke. |
| `QueueImplementsJobs` | A pop is `Take`, a push `PutBack`, the log `Close`, a fault `Lose`; with `Apart` a set can stand for the lists. |
| `RevokeHonouredWithoutErrors` | For a client that waits for its answers (one request at a time), and while nothing fails. `Obeyed`: requests under way are for the latest change, whose marker is there only with its write done or about to be. `consent_retry`'s counterexample needs the error it has. |

TLC finds every one of these invariants true on the instance of the component's passing run. So it
does what the theorems state and no run lists: the refinements of `SessionChain`, `OneTimeCode`,
`JobQueue` and, with a reserve that pays for the paid pool, of `DailyAllowance` by `Gateway`, and
`EndedStaysEnded`, `PendingUnlessCancelled`, `OnwardOnly`, `ShortCompletions`, `PremiumSpendBounded`,
`LedgerTellsStatements`, `MarkedAccounted` and `AnswersExist`.

Only model-checked are the liveness properties `CompletionEnds`, `EveryEventApplied`,
`CacheCatchesUp`, `JobsComeToRest` and `FilesComeToRest`: liveness under fairness, and `ENABLED`, are
out of the prover's reach.

## 6. Where code and text disagree

Two have a run with a counterexample; the quotes are in `PROJECT.json`.

| Run | Property | What happens |
|---|---|---|
| `sessions_erase_cancel` | `OnlyPendingErased` | A cancellation between the erasure's checks and its `DELETE` is confirmed, and the account erased. |
| `consent_retry` | `RevokeHonoured` | A revoke whose write failed is answered 200 on retry, and the consent stays granted. |

Seen while modelling and without a run of their own:

- an adjustment of the budget after midnight recreates the counter without a TTL, so that it never
  resets again (`budget.py` 254, against 123 and 136);
- a Sonnet reply that is not JSON is billed and rolled back (`ai_gateway/gateway.py` 383, against
  374);
- the checkout's abandoned thread goes on beyond the lock, beside a retry's (`billing/service.py`
  166, against 161);
- the tier follows the last event, not the active subscriptions (`subscriptions/service.py` 177,
  against 6);
- the e-mail code's failed-attempt counter, when it goes between `SET NX` and `INCR`, comes back
  without a TTL (`auth/email_otp.py` 171, against 156);
- after a statement of a part of the history, replayed and nightly rows of the series differ
  (`tasks/mf.py` 9142, against 590);
- a paid reply that is not JSON is billed and never debited, although the guard is left cleanly
  (`ai_gateway/gateway.py` 437, against 421: "Cost is debited even for a response that then fails
  validation"): `PaidAnswersGarbage`, in `uncounted`;
- a 402 after an unusable free answer, or a completion that is cancelled, discards the units already
  used (`Abort`, in `uncounted`);
- a ticker skipped after three strikes calls models again the same day;
- access tokens survive a deletion request for up to 15 minutes, except the one the request was made
  with;
- a session whose key the sweep fails to read is passed over, and stays alive until it expires or is
  refreshed (`auth/erasure.py` 172-175): `SkipKey`;
- a cancel link's stamp is compared with a row read before the `UPDATE`;
- a webhook event whose processing failed is answered as a duplicate on retry and never applied
  (`spoilt` in `EveryEventApplied`);
- a reader may put a tier back after its flush, for at most `TIER_TTL`;
- a login deletes whichever code is stored, also a newer one;
- a BSE event that was committed and not enqueued stays `received` (`bse/router.py` 187);
- an exception after the last commit marks a finished job as failed; the reaper fails jobs that only
  wait, and clears the record of a newer one (`tasks/mf.py`);
- the password of a statement may expire while its task waits (`mf/router.py`, 600 s), and two first
  uploads may both create a Default portfolio (`mf/router.py` 1003);
- an older statement uploaded after a newer one takes the holdings back; a position first printed
  without a folio stays beside the later one;
- the reaper of disclosure files fails files that only wait; their tasks then skip them;
- a mail is marked as seen by the fetch, before its parts are taken in: if the worker dies or an intake
  raises, no poll finds it again (`tasks/manual_ingest.py` 1267): `Lost`;
- nothing sets `email_verified`, so that no notification ever goes out by e-mail.

## 7. What is not modelled

Beside the components of section 2:

- **Data.** Prompts, answers, mails, plans, statements and scores are members of small sets or left
  out; no property is about their content. Amounts are integers: rounding of `INCRBYFLOAT` is left
  out.
- **Budget**: `compute_budget_state` and the other reports, which only read.
- **Gateway**: the groundedness judge (never billed, changes no result), metrics, the consent gate
  before the first step. Its guards are atomic and its day does not end; what happens inside a guard
  is `Budget`'s.
- **Sessions**: credentials, CSRF, rate limits, other accounts, re-erasure after a restored backup.
- **Checkout**: a key sent with another plan (409, no change), refunds, reports.
- **Subscriptions**: the end of an event key's life (7 days, longer than a delivery is repeated);
  signatures and malformed payloads (refused before any change), billing periods,
  `pro_access_until`, `RequireTier`.
- **EmailOtp**: finding the account, the mail's delivery; a guess that hits.
- **CasJob**: consent, the checks of the file, the encrypted password, the portfolio routes; **what
  CasLedger leaves out**: prices, SIP days, XIRR, other funds than one. In
  `CasLedger` a natural key is the same in every format (rounding that would part two prints of one
  transaction is left out), whether a statement's fund resolves is fixed, and a reset of the series
  that fails and is passed over (`tasks/mf.py` 984-990) is a death of the worker there.
- **ManualIngest**: the parsers and what they write; members and parts that do not pass the checks, and
  mails of senders that are not allowed; the sweep of the AMFI portal, one more caller
  of the same intake.
- **Consent**: requests without a key, an account erased meanwhile. **Notifications**: templates and
  the audit of labels, jobs that do not parse, the operator's broadcast.
- **Redis and Postgres** keep what they have acknowledged; a failed command has had no effect,
  except where an action says otherwise.

## 8. How it was built, and what could follow

In the order of how much depends on it:

1. `Budget` with `DailyAllowance`, `Gateway`: money spent on models.
2. `Sessions`: who is signed in, and that deletion ends it.
3. `Checkout`, `Subscriptions`: money received.
4. `EmailOtp`: the second way in.
5. `CasJob`, `CasLedger`: an investor's statements, from the upload to the portfolio.
6. `ManualIngest`: where the fund data comes in by hand.
7. `Consent`, `Notifications`: what leaves the country, and by whose leave.

What could follow: `BseInbox` when BSE's events begin to move orders; refunds as a checkout with a
save longer than the lock; a composition of `Checkout` with `Subscriptions` (an abandoned thread's
subscription becomes active beside the retry's); an abstract specification for `Checkout` (one
subscription per key).
