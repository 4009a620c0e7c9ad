---------------------------- MODULE ResearchJobs ----------------------------
(***************************************************************************)
(* The life of a research job in the API server: POST /v1/research admits  *)
(* it (duplicate check, daily quota, insert, hand-off to the pool), a      *)
(* worker thread of the pool runs it, a cron-triggered sweep times it out, *)
(* a restart interrupts it, and DELETE /v1/auth/me erases it.              *)
(*                                                                         *)
(* One action is one step another thread can observe: a database           *)
(* transaction (every function of app/api/db.py opens and commits its own),*)
(* a file write or removal, a call that leaves the process.  The columns   *)
(* of the jobs table are one function each; status[j] = "none" means that  *)
(* there is no row j.                                                      *)
(*                                                                         *)
(* Abstracted: a question stands for the (ticker, question, orchestrator)  *)
(* triple the duplicate check compares; the error code and the result are  *)
(* left out (a row has a result exactly when it is done, an error code     *)
(* exactly when it is in error).                                           *)
(***************************************************************************)
EXTENDS Integers, FiniteSets, Sequences

CONSTANTS
  Jobs,        \* job ids (uuid4: an id is never drawn twice)
  Users,       \* account ids
  Questions,   \* distinct research requests
  Clients,     \* request-handler threads that may be inside POST /v1/research
  Workers,     \* threads of the pool, jobs.py _resolve_max_workers()
  NoJob,       \* "no job" in a thread's local variable
  Limit,       \* DAILY_JOB_LIMIT
  RateWindow,  \* RATE_LIMIT_WINDOW_SECONDS, in ticks
  DupWindow,   \* DUPLICATE_REQUEST_WINDOW_SECONDS, in ticks
  JobTimeout,  \* JOB_TIMEOUT_SECONDS, in ticks
  MaxTime,     \* bound: ticks of the clock
  MaxCrashes,  \* bound: process crashes
  MaxFaults    \* bound: database calls of a worker that raise

ASSUME JobsAssumption == /\ IsFiniteSet(Jobs)
                         /\ NoJob \notin Jobs
ASSUME UsersAssumption == Users # {} /\ Questions # {}
ASSUME NumbersAssumption ==
  /\ Limit \in Nat
  /\ RateWindow \in Nat
  /\ DupWindow \in Nat
  /\ JobTimeout \in Nat
  /\ MaxTime \in Nat
  /\ MaxCrashes \in Nat
  /\ MaxFaults \in Nat

VARIABLES
  now,         \* time.time()
  up,          \* the server process is serving
  deleted,     \* accounts removed by DELETE /v1/auth/me
  \* the jobs table
  status, owner, question, startedAt, pdfPath,
  createdAt,   \* history: the stamp a row was inserted with, Never before
  pdfs,        \* jobs j with a file REPORTS_DIR/{j}.pdf
  \* the process's memory
  queue,       \* the pool's work queue
  progress,    \* keys of jobs.py _job_progress
  wpc, wjob, wpdf, wseen,        \* each worker: step, job, pdf_path, row read
  cpc, cuser, cask, cstamp, cjob, \* each handler: step, arguments, locals
  toRemove,    \* files a delete_user_account still has to remove
  \* what left the process
  told,        \* history: what the push notification for j said
  tracked,     \* jobs with a row in tracked_calls
  reused,      \* history: <<user, question, job>> answered with "reused"
  \* the environment
  lost,        \* history: jobs whose worker gave up on a failing database
  crashes, faults

table    == <<status, owner, question, startedAt, pdfPath, createdAt>>
handlers == <<cpc, cuser, cask, cstamp, cjob>>
pool     == <<wpc, wjob, wpdf, wseen>>
outside  == <<told, tracked, reused>>
env      == <<now, up, deleted, crashes, faults>>
vars == <<env, table, pdfs, queue, progress, pool, handlers, toRemove,
          outside, lost>>

Never == -1
Open == {"pending", "running"}
Closed == {"done", "error"}
Statuses == {"none"} \cup Open \cup Closed
WorkerSteps == {"idle", "mark_running", "agent", "hung", "mark_done", "track",
                "mark_error", "mark_internal", "notify", "push"}
HandlerSteps == {"idle", "insert", "enqueue"}
ToldSet == {"nothing", "done", "failed"}

TypeOK ==
  /\ now \in 0..MaxTime
  /\ up \in BOOLEAN
  /\ deleted \in SUBSET Users
  /\ status \in [Jobs -> Statuses]
  /\ owner \in [Jobs -> Users]
  /\ question \in [Jobs -> Questions]
  /\ startedAt \in [Jobs -> {Never} \cup 0..MaxTime]
  /\ createdAt \in [Jobs -> {Never} \cup 0..MaxTime]
  /\ pdfPath \in [Jobs -> BOOLEAN]
  /\ pdfs \in SUBSET Jobs
  /\ queue \in Seq(Jobs)
  /\ progress \in SUBSET Jobs
  /\ wpc \in [Workers -> WorkerSteps]
  /\ wjob \in [Workers -> Jobs \cup {NoJob}]
  /\ wpdf \in [Workers -> BOOLEAN]
  /\ wseen \in [Workers -> Statuses]
  /\ cpc \in [Clients -> HandlerSteps]
  /\ cuser \in [Clients -> Users]
  /\ cask \in [Clients -> Questions]
  /\ cstamp \in [Clients -> 0..MaxTime]
  /\ cjob \in [Clients -> Jobs \cup {NoJob}]
  /\ toRemove \in SUBSET Jobs
  /\ told \in [Jobs -> ToldSet]
  /\ tracked \in SUBSET Jobs
  /\ reused \in SUBSET (Users \X Questions \X Jobs)
  /\ lost \in SUBSET Jobs
  /\ crashes \in 0..MaxCrashes
  /\ faults \in 0..MaxFaults
  /\ \A c \in Clients : cpc[c] = "enqueue" => cjob[c] \in Jobs
  /\ \A w \in Workers : wpc[w] # "idle" => wjob[w] \in Jobs

AnyUser == CHOOSE u \in Users : TRUE
AnyQuestion == CHOOSE q \in Questions : TRUE

Init ==
  /\ now = 0
  /\ up = TRUE
  /\ deleted = {}
  /\ status = [j \in Jobs |-> "none"]
  /\ owner = [j \in Jobs |-> AnyUser]
  /\ question = [j \in Jobs |-> AnyQuestion]
  /\ startedAt = [j \in Jobs |-> Never]
  /\ createdAt = [j \in Jobs |-> Never]
  /\ pdfPath = [j \in Jobs |-> FALSE]
  /\ pdfs = {}
  /\ queue = <<>>
  /\ progress = {}
  /\ wpc = [w \in Workers |-> "idle"]
  /\ wjob = [w \in Workers |-> NoJob]
  /\ wpdf = [w \in Workers |-> FALSE]
  /\ wseen = [w \in Workers |-> "none"]
  /\ cpc = [c \in Clients |-> "idle"]
  /\ cuser = [c \in Clients |-> AnyUser]
  /\ cask = [c \in Clients |-> AnyQuestion]
  /\ cstamp = [c \in Clients |-> 0]
  /\ cjob = [c \in Clients |-> NoJob]
  /\ toRemove = {}
  /\ told = [j \in Jobs |-> "nothing"]
  /\ tracked = {}
  /\ reused = {}
  /\ lost = {}
  /\ crashes = 0
  /\ faults = 0

-----------------------------------------------------------------------------
(* Queries of the jobs table.  A definition called a variant is deliberately    *)
(* wrong: it belongs to no behaviour and stands before the definition that it  *)
(* would replace, to show which property such a bug breaks.                    *)

RowsOf(u) == {j \in Jobs : status[j] # "none" /\ owner[j] = u}

\* Variant: a failed job gives its quota back.
RecentRowsOfUnfailed(u, since) ==
  {j \in RowsOf(u) : startedAt[j] > since /\ status[j] # "error"}

\* SELECT COUNT(*) ... WHERE user_id=? AND started_at > ?
RecentRowsOf(u, since) == {j \in RowsOf(u) : startedAt[j] > since}

\* Variant: a job still running counts as a duplicate.
DuplicatesInAnyState(u, q, since) ==
  {j \in RecentRowsOf(u, since) : question[j] = q}

\* find_recent_duplicate_job: the newest done row for the same request
Duplicates(u, q, since) ==
  {j \in RecentRowsOf(u, since) : question[j] = q /\ status[j] = "done"}
NewestDuplicates(u, q, since) ==
  LET D == Duplicates(u, q, since) IN
  {j \in D : \A k \in D : startedAt[k] <= startedAt[j]}

-----------------------------------------------------------------------------
(* POST /v1/research *)

HandlerReturns(c) ==
  /\ cpc' = [cpc EXCEPT ![c] = "idle"]
  /\ cuser' = [cuser EXCEPT ![c] = AnyUser]
  /\ cask' = [cask EXCEPT ![c] = AnyQuestion]
  /\ cstamp' = [cstamp EXCEPT ![c] = 0]
  /\ cjob' = [cjob EXCEPT ![c] = NoJob]

\* An authenticated request naming a known company; a duplicate is answered
\* with the job already done, at no cost to the quota.
SubmitReused(c, u, q) ==
  /\ up /\ cpc[c] = "idle" /\ u \notin deleted
  /\ \E j \in NewestDuplicates(u, q, now - DupWindow) :
       reused' = reused \cup {<<u, q, j>>}
  /\ UNCHANGED <<env, table, pdfs, queue, progress, pool, handlers, toRemove,
                 told, tracked, lost>>

\* No duplicate: both clocks of the insert (window_start and now) are read
\* before BEGIN IMMEDIATE, which may then wait for the write lock.
SubmitNew(c, u, q) ==
  /\ up /\ cpc[c] = "idle" /\ u \notin deleted
  /\ Duplicates(u, q, now - DupWindow) = {}
  /\ cpc' = [cpc EXCEPT ![c] = "insert"]
  /\ cuser' = [cuser EXCEPT ![c] = u]
  /\ cask' = [cask EXCEPT ![c] = q]
  /\ cstamp' = [cstamp EXCEPT ![c] = now]
  /\ UNCHANGED <<env, table, pdfs, queue, progress, pool, cjob, toRemove,
                 outside, lost>>

\* create_job_if_under_limit: count and insert in one write transaction.
InsertJob(c, j) ==
  /\ cpc[c] = "insert"
  /\ Cardinality(RecentRowsOf(cuser[c], cstamp[c] - RateWindow)) < Limit
  /\ createdAt[j] = Never
  /\ status' = [status EXCEPT ![j] = "pending"]
  /\ owner' = [owner EXCEPT ![j] = cuser[c]]
  /\ question' = [question EXCEPT ![j] = cask[c]]
  /\ startedAt' = [startedAt EXCEPT ![j] = cstamp[c]]
  /\ createdAt' = [createdAt EXCEPT ![j] = cstamp[c]]
  /\ cpc' = [cpc EXCEPT ![c] = "enqueue"]
  /\ cjob' = [cjob EXCEPT ![c] = j]
  /\ UNCHANGED <<env, pdfPath, pdfs, queue, progress, pool, cuser, cask,
                 cstamp, toRemove, outside, lost>>

\* The same transaction rolls back: 429, no row, no quota used.
RejectOverLimit(c) ==
  /\ cpc[c] = "insert"
  /\ Cardinality(RecentRowsOf(cuser[c], cstamp[c] - RateWindow)) >= Limit
  /\ HandlerReturns(c)
  /\ UNCHANGED <<env, table, pdfs, queue, progress, pool, toRemove, outside,
                 lost>>

\* enqueue_job: executor.submit, then the response with the job id.
EnqueueJob(c) ==
  /\ cpc[c] = "enqueue"
  /\ queue' = Append(queue, cjob[c])
  /\ HandlerReturns(c)
  /\ UNCHANGED <<env, table, pdfs, progress, pool, toRemove, outside, lost>>

-----------------------------------------------------------------------------
(* _run_job, in a worker thread *)

GoTo(w, step) == wpc' = [wpc EXCEPT ![w] = step]

\* Variant: no "AND status='running'", so a zombie rewrites a closed row.
ConcludedAlways(j, outcome) ==
  IF status[j] = "none" THEN "none" ELSE outcome

\* UPDATE jobs SET status=... WHERE job_id=? AND status='running'
Concluded(j, outcome) == IF status[j] = "running" THEN outcome ELSE status[j]

\* A database call of the worker raises ("database is locked" after 10 s, disk
\* full); the transaction has no effect.
Fault == faults < MaxFaults /\ faults' = faults + 1

WorkerReturns(w) ==
  /\ GoTo(w, "idle")
  /\ wjob' = [wjob EXCEPT ![w] = NoJob]
  /\ wpdf' = [wpdf EXCEPT ![w] = FALSE]
  /\ wseen' = [wseen EXCEPT ![w] = "none"]

\* Variant: the item stays in the queue until its run is over.
PickUpAndLeave(w) ==
  /\ wpc[w] = "idle" /\ queue # <<>>
  /\ wjob' = [wjob EXCEPT ![w] = Head(queue)]
  /\ GoTo(w, "mark_running")
  /\ UNCHANGED <<env, table, pdfs, queue, progress, wpdf, wseen, handlers,
                 toRemove, outside, lost>>

\* An idle thread takes the oldest work item.
PickUp(w) ==
  /\ wpc[w] = "idle" /\ queue # <<>>
  /\ queue' = Tail(queue)
  /\ wjob' = [wjob EXCEPT ![w] = Head(queue)]
  /\ GoTo(w, "mark_running")
  /\ UNCHANGED <<env, table, pdfs, progress, wpdf, wseen, handlers, toRemove,
                 outside, lost>>

\* mark_running: only a pending row changes (the row may be gone), and the
\* run goes on in either case; the timeout clock starts here.
MarkRunning(w) ==
  LET j == wjob[w] IN
  /\ wpc[w] = "mark_running"
  /\ status' = [status EXCEPT ![j] = IF @ = "pending" THEN "running" ELSE @]
  /\ startedAt' = [startedAt EXCEPT ![j] = IF status[j] = "pending" THEN now ELSE @]
  /\ GoTo(w, "agent")
  /\ UNCHANGED <<env, owner, question, pdfPath, createdAt, pdfs, queue,
                 progress, wjob, wpdf, wseen, handlers, toRemove, outside,
                 lost>>

\* mark_running stands before the try: its exception ends _run_job, without
\* the finally block, and concurrent.futures drops it.
MarkRunningFails(w) ==
  /\ wpc[w] = "mark_running"
  /\ Fault
  /\ lost' = lost \cup {wjob[w]}
  /\ WorkerReturns(w)
  /\ UNCHANGED <<now, up, deleted, crashes, table, pdfs, queue, progress,
                 handlers, toRemove, outside>>

\* _on_step, called by the hand-rolled orchestrator while it runs.
ReportStep(w) ==
  /\ wpc[w] = "agent"
  /\ wjob[w] \notin progress
  /\ progress' = progress \cup {wjob[w]}
  /\ UNCHANGED <<env, table, pdfs, queue, pool, handlers, toRemove, outside,
                 lost>>

\* Variant: the row is written first, the file when it is first asked for.
AgentReturnsUnwritten(w) ==
  /\ wpc[w] = "agent"
  /\ \E hasPdf \in BOOLEAN : wpdf' = [wpdf EXCEPT ![w] = hasPdf]
  /\ GoTo(w, "mark_done")
  /\ UNCHANGED <<env, table, pdfs, queue, progress, wjob, wseen, handlers,
                 toRemove, outside, lost>>

\* agent.run returns a context; its PDF, if there is one, is written to disk.
AgentReturns(w) ==
  /\ wpc[w] = "agent"
  /\ \E hasPdf \in BOOLEAN :
       /\ wpdf' = [wpdf EXCEPT ![w] = hasPdf]
       /\ pdfs' = IF hasPdf THEN pdfs \cup {wjob[w]} ELSE pdfs
  /\ GoTo(w, "mark_done")
  /\ UNCHANGED <<env, table, queue, progress, wjob, wseen, handlers, toRemove,
                 outside, lost>>

\* The provider, the agent or the PDF write raises: one of the three handlers
\* (TICKER_NOT_FOUND, LLM_PROVIDER_ERROR, PIPELINE_ERROR) calls mark_error.
AgentRaises(w) ==
  /\ wpc[w] = "agent"
  /\ GoTo(w, "mark_error")
  /\ UNCHANGED <<env, table, pdfs, queue, progress, wjob, wpdf, wseen,
                 handlers, toRemove, outside, lost>>

\* A blocking call inside the agent never comes back.
AgentHangs(w) ==
  /\ wpc[w] = "agent"
  /\ GoTo(w, "hung")
  /\ UNCHANGED <<env, table, pdfs, queue, progress, wjob, wpdf, wseen,
                 handlers, toRemove, outside, lost>>

\* mark_done: a no-op unless the row is still running.
MarkDone(w) ==
  LET j == wjob[w] IN
  /\ wpc[w] = "mark_done"
  /\ status' = [status EXCEPT ![j] = Concluded(j, "done")]
  /\ pdfPath' = [pdfPath EXCEPT ![j] = IF status[j] = "running" THEN wpdf[w] ELSE @]
  /\ GoTo(w, "track")
  /\ UNCHANGED <<env, owner, question, startedAt, createdAt, pdfs, queue,
                 progress, wjob, wpdf, wseen, handlers, toRemove, outside,
                 lost>>

MarkDoneFails(w) ==
  /\ wpc[w] = "mark_done"
  /\ Fault
  /\ GoTo(w, "mark_error")
  /\ UNCHANGED <<now, up, deleted, crashes, table, pdfs, queue, progress,
                 wjob, wpdf, wseen, handlers, toRemove, outside, lost>>

\* log_tracked_call, whatever mark_done did; it skips a result with no rating
\* or price, and a failure is swallowed.
TrackCall(w) ==
  /\ wpc[w] = "track"
  /\ \E logged \in BOOLEAN :
       tracked' = IF logged THEN tracked \cup {wjob[w]} ELSE tracked
  /\ GoTo(w, "notify")
  /\ UNCHANGED <<env, table, pdfs, queue, progress, wjob, wpdf, wseen,
                 handlers, toRemove, told, reused, lost>>

\* mark_error: the same guard; called again with INTERNAL_ERROR by the outer
\* handler when the first call raised.
MarkError(w) ==
  LET j == wjob[w] IN
  /\ wpc[w] \in {"mark_error", "mark_internal"}
  /\ status' = [status EXCEPT ![j] = Concluded(j, "error")]
  /\ GoTo(w, "notify")
  /\ UNCHANGED <<env, owner, question, startedAt, pdfPath, createdAt, pdfs,
                 queue, progress, wjob, wpdf, wseen, handlers, toRemove,
                 outside, lost>>

\* Variant: without the outer handler, the finally block follows at once.
MarkErrorFailsUnretried(w) ==
  /\ wpc[w] = "mark_error"
  /\ Fault
  /\ GoTo(w, "notify")
  /\ UNCHANGED <<now, up, deleted, crashes, table, pdfs, queue, progress,
                 wjob, wpdf, wseen, handlers, toRemove, outside, lost>>

MarkErrorFails(w) ==
  /\ wpc[w] = "mark_error"
  /\ Fault
  /\ GoTo(w, "mark_internal")
  /\ UNCHANGED <<now, up, deleted, crashes, table, pdfs, queue, progress,
                 wjob, wpdf, wseen, handlers, toRemove, outside, lost>>

\* The second failure is swallowed ("except Exception: pass").
MarkInternalFails(w) ==
  /\ wpc[w] = "mark_internal"
  /\ Fault
  /\ lost' = lost \cup {wjob[w]}
  /\ GoTo(w, "notify")
  /\ UNCHANGED <<now, up, deleted, crashes, table, pdfs, queue, progress,
                 wjob, wpdf, wseen, handlers, toRemove, outside>>

\* Variant: the outcome is taken from how the run went, not from the row.
ReadOutcomeOfRun(w) ==
  /\ wpc[w] = "notify"
  /\ wseen' = [wseen EXCEPT ![w] = IF status[wjob[w]] = "none" THEN "none" ELSE "done"]
  /\ GoTo(w, "push")
  /\ UNCHANGED <<env, table, pdfs, queue, progress, wjob, wpdf, handlers,
                 toRemove, outside, lost>>

\* _notify_job_complete re-reads the row.
ReadOutcome(w) ==
  /\ wpc[w] = "notify"
  /\ wseen' = [wseen EXCEPT ![w] = status[wjob[w]]]
  /\ GoTo(w, "push")
  /\ UNCHANGED <<env, table, pdfs, queue, progress, wjob, wpdf, handlers,
                 toRemove, outside, lost>>

\* Variant: only a report that was done has an entry to drop.
DropProgressOfDone(j) == progress' = IF status[j] = "done" THEN progress \ {j} ELSE progress

\* _job_progress.pop(job_id, None)
DropProgress(j) == progress' = progress \ {j}

\* The push goes out if the row was there and a subscription accepts it (every
\* failure is swallowed); then the progress entry is dropped.
PushOutcome(w) ==
  LET j == wjob[w] IN
  /\ wpc[w] = "push"
  /\ \E delivered \in BOOLEAN :
       told' = IF delivered /\ wseen[w] # "none"
                 THEN [told EXCEPT ![j] = IF wseen[w] = "done" THEN "done"
                                                               ELSE "failed"]
                 ELSE told
  /\ DropProgress(j)
  /\ WorkerReturns(w)
  /\ UNCHANGED <<env, table, pdfs, queue, handlers, toRemove, tracked, reused,
                 lost>>

-----------------------------------------------------------------------------
(* Everything else that touches the jobs table *)

\* Variants: any old row; old rows of which no progress was reported.
OverdueInAnyState ==
  {j \in Jobs : status[j] # "none" /\ startedAt[j] < now - JobTimeout}
OverdueAndSilent ==
  {j \in Jobs : status[j] = "running" /\ startedAt[j] < now - JobTimeout /\ j \notin progress}

\* reconcile_timed_out_jobs, called by the cron-triggered endpoint.
Overdue ==
  {j \in Jobs : status[j] = "running" /\ startedAt[j] < now - JobTimeout}

SweepTimeouts ==
  /\ up
  /\ Overdue # {}
  /\ status' = [j \in Jobs |-> IF j \in Overdue THEN "error" ELSE status[j]]
  /\ UNCHANGED <<env, owner, question, startedAt, pdfPath, createdAt, pdfs,
                 queue, progress, pool, handlers, toRemove, outside, lost>>

\* delete_user_account: the rows go in one transaction, the files afterwards.
DeleteAccount(u) ==
  LET Gone == RowsOf(u) IN
  /\ up /\ u \notin deleted
  /\ deleted' = deleted \cup {u}
  /\ status' = [j \in Jobs |-> IF j \in Gone THEN "none" ELSE status[j]]
  /\ pdfPath' = [j \in Jobs |-> IF j \in Gone THEN FALSE ELSE pdfPath[j]]
  /\ startedAt' = [j \in Jobs |-> IF j \in Gone THEN Never ELSE startedAt[j]]
  /\ toRemove' = toRemove \cup Gone
  /\ UNCHANGED <<now, up, crashes, faults, owner, question, createdAt, pdfs,
                 queue, progress, pool, handlers, outside, lost>>

RemovePdf(j) ==
  /\ j \in toRemove
  /\ pdfs' = pdfs \ {j}
  /\ toRemove' = toRemove \ {j}
  /\ UNCHANGED <<env, table, queue, progress, pool, handlers, outside, lost>>

\* The process dies: memory goes, the database and the files stay.
Crash ==
  /\ up /\ crashes < MaxCrashes
  /\ crashes' = crashes + 1
  /\ up' = FALSE
  /\ queue' = <<>>
  /\ progress' = {}
  /\ wpc' = [w \in Workers |-> "idle"]
  /\ wjob' = [w \in Workers |-> NoJob]
  /\ wpdf' = [w \in Workers |-> FALSE]
  /\ wseen' = [w \in Workers |-> "none"]
  /\ cpc' = [c \in Clients |-> "idle"]
  /\ cuser' = [c \in Clients |-> AnyUser]
  /\ cask' = [c \in Clients |-> AnyQuestion]
  /\ cstamp' = [c \in Clients |-> 0]
  /\ cjob' = [c \in Clients |-> NoJob]
  /\ toRemove' = {}
  /\ UNCHANGED <<now, deleted, faults, table, pdfs, outside, lost>>

\* Variant: a queued job is thought to survive the restart.
InterruptedWhileRunning == {j \in Jobs : status[j] = "running"}

\* lifespan: reconcile_interrupted_jobs, before the first request.
Interrupted == {j \in Jobs : status[j] \in Open}

Startup ==
  /\ ~up
  /\ up' = TRUE
  /\ status' = [j \in Jobs |-> IF j \in Interrupted THEN "error" ELSE status[j]]
  /\ UNCHANGED <<now, deleted, crashes, faults, owner, question, startedAt,
                 pdfPath, createdAt, pdfs, queue, progress, pool, handlers,
                 toRemove, outside, lost>>

Tick ==
  /\ now < MaxTime
  /\ now' = now + 1
  /\ UNCHANGED <<up, deleted, crashes, faults, table, pdfs, queue, progress,
                 pool, handlers, toRemove, outside, lost>>

-----------------------------------------------------------------------------
HandlerStep(c) ==
  \/ \E u \in Users, q \in Questions : SubmitReused(c, u, q) \/ SubmitNew(c, u, q)
  \/ \E j \in Jobs : InsertJob(c, j)
  \/ RejectOverLimit(c)
  \/ EnqueueJob(c)

\* The steps a worker takes on its own; the agent may also hang.
WorkerProgress(w) ==
  \/ PickUp(w) \/ MarkRunning(w)
  \/ AgentReturns(w) \/ AgentRaises(w)
  \/ MarkDone(w) \/ TrackCall(w) \/ MarkError(w)
  \/ ReadOutcome(w) \/ PushOutcome(w)

WorkerStep(w) ==
  \/ WorkerProgress(w)
  \/ ReportStep(w) \/ AgentHangs(w)
  \/ MarkRunningFails(w) \/ MarkDoneFails(w)
  \/ MarkErrorFails(w) \/ MarkInternalFails(w)

Next ==
  \/ \E c \in Clients : HandlerStep(c)
  \/ \E w \in Workers : WorkerStep(w)
  \/ \E u \in Users : DeleteAccount(u)
  \/ \E j \in Jobs : RemovePdf(j)
  \/ SweepTimeouts
  \/ Crash
  \/ Startup
  \/ Tick

Spec == Init /\ [][Next]_vars

\* Threads of the pool and of the request handlers are scheduled by the OS,
\* the sweep is called every few minutes, the platform restarts the process,
\* and time passes.  Nothing is assumed of users.
Fairness ==
  /\ \A w \in Workers : WF_vars(WorkerProgress(w))
  /\ \A c \in Clients : WF_vars(EnqueueJob(c))
  /\ WF_vars(SweepTimeouts)
  /\ WF_vars(Startup)
  /\ WF_vars(Tick)

FairSpec == Spec /\ Fairness

-----------------------------------------------------------------------------
(* Safety *)

Held(j) == \E w \in Workers : wpc[w] # "idle" /\ wjob[w] = j
Queued(j) == \E i \in 1..Len(queue) : queue[i] = j
HandedOver(j) == \E c \in Clients : cpc[c] = "enqueue" /\ cjob[c] = j

\* The quota that create_job_if_under_limit's write transaction is there to
\* keep: over any period of RateWindow, whatever the interleaving of requests
\* and however long a job waits before mark_running moves its started_at, a
\* user's surviving rows include at most Limit admitted in that period.
AdmittedIn(u, t) ==
  {j \in RowsOf(u) : t - RateWindow < createdAt[j] /\ createdAt[j] <= t}
QuotaKept ==
  \A u \in Users, t \in 0..MaxTime : Cardinality(AdmittedIn(u, t)) <= Limit

\* While the server is up every open row still has somebody who will close it:
\* the handler about to enqueue it, the queue, a worker.  The exceptions are
\* the rows a worker gave up on because the database failed it, and those a
\* running row leaves are the timeout sweep's.  This is what makes it right
\* for reconcile_interrupted_jobs to fail every open row at startup, and right
\* that nothing else looks for abandoned rows.
OpenRowsAreOwned ==
  up => \A j \in Jobs :
          /\ status[j] = "pending" => HandedOver(j) \/ Queued(j) \/ Held(j) \/ j \in lost
          /\ status[j] = "running" => Held(j) \/ j \in lost

\* No job is ever in two places at once: two handlers, two positions of the
\* queue, two workers, or two of these.  _job_progress[job_id], the file
\* {job_id}.pdf and the "fires exactly once" of _notify_job_complete all rest
\* on it, and no lock protects it.
OnePlacePerJob ==
  /\ \A c, d \in Clients :
       cpc[c] = "enqueue" /\ cpc[d] = "enqueue" /\ cjob[c] = cjob[d] => c = d
  /\ \A i, k \in 1..Len(queue) : queue[i] = queue[k] => i = k
  /\ \A v, w \in Workers :
       wpc[v] # "idle" /\ wpc[w] # "idle" /\ wjob[v] = wjob[w] => v = w
  /\ \A j \in Jobs : /\ HandedOver(j) => ~Queued(j) /\ ~Held(j)
                     /\ Queued(j) => ~Held(j)

\* GET /v1/research/{id}/pdf serves the file pdf_path names: it exists as soon
\* as the row says so, and until the row is gone (rows are deleted first).
DonePdfExists ==
  \A j \in Jobs : status[j] = "done" /\ pdfPath[j] => j \in pdfs

\* What the push said stays true: a job announced ready is done (or erased with
\* its account), a job announced failed is never done afterwards, although the
\* row is re-read and other threads write it between.
PushStaysTrue ==
  \A j \in Jobs : /\ told[j] = "done" => status[j] \in {"done", "none"}
                  /\ told[j] = "failed" => status[j] # "done"

\* A reused answer names a finished report of that same user and request, and
\* goes on doing so until the account is erased.
ReusedReportIsDone ==
  \A r \in reused : \/ status[r[3]] = "none"
                    \/ /\ status[r[3]] = "done"
                       /\ owner[r[3]] = r[1] /\ question[r[3]] = r[2]

\* The progress entry a client polls belongs to a run in flight: no entry
\* outlives its run, on any of the ways out of _run_job.
ProgressIsLive == \A j \in progress : Held(j)

(* What the API promises *)

\* The answers a client gets about a job id, in the contract's terms.
PhaseOf(s, created) ==
  CASE s = "none" -> IF created = Never THEN "unborn" ELSE "erased"
    [] s \in Open -> "open"
    [] s = "done" -> "done"
    [] s = "error" -> "failed"
Phase == [j \in Jobs |-> PhaseOf(status[j], createdAt[j])]

Contract == INSTANCE JobContract WITH phase <- Phase

\* Zombie threads, the timeout sweep, restarts and the erasure of an account,
\* in any order, keep the contract of JobContract: one outcome, never changed,
\* announced at most once and never contradicted.
ImplementsContract == Contract!Spec

(* Liveness *)

\* A running row is closed even if its worker hangs or the database failed the
\* worker twice: the sweep gets it (if the clock's bound leaves the time).
RunningEnds ==
  \A j \in Jobs :
    (status[j] = "running" /\ startedAt[j] + JobTimeout < MaxTime)
      ~> status[j] # "running"

\* An accepted job does not wait for ever, unless a worker hangs or its own
\* mark_running fails.
PendingEnds ==
  \A j \in Jobs :
    status[j] = "pending" ~> \/ status[j] # "pending"
                             \/ j \in lost
                             \/ \E w \in Workers : wpc[w] = "hung"

\* An accepted job comes to an end, although workers crash, hang and give up.
JobsEnd == PendingEnds /\ RunningEnds

(* What the repository says and the code does not do *)

\* app/api/jobs.py:173-176: after an exception that escapes _run_job "the job's
\* row would then sit at RUNNING until the timeout sweep" gets it (if the
\* clock's bound leaves the time).
LostRowsAreSwept ==
  \A j \in Jobs :
    (j \in lost /\ now + JobTimeout < MaxTime) ~> status[j] \notin Open

\* app/api/db.py:639-653, delete_user_account removes "every PDF report this
\* user's jobs ever generated"; no file stays "with nothing left pointing at it".
NoOrphanPdf ==
  crashes = 0 => \A j \in pdfs : status[j] # "none" \/ j \in toRemove

\* app/reasoning/call_tracker.py:32-33: log_tracked_call is "called right after
\* db.mark_done() persists a completed report".
TrackedCallsWereReported ==
  \A j \in tracked : status[j] \in {"done", "none"}
=============================================================================
