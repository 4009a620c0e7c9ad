------------------------- MODULE ResearchJobs_proofs -------------------------
EXTENDS ResearchJobs, FiniteSetTheorems, TLAPS

(***************************************************************************)
(* Type correctness.                                                       *)
(***************************************************************************)

LEMMA TypeInit == Init => TypeOK
BY JobsAssumption, UsersAssumption, NumbersAssumption
DEF Init, TypeOK, AnyUser, AnyQuestion, Statuses, Open, Closed, WorkerSteps,
    HandlerSteps, ToldSet, Never

LEMMA TypeNext == TypeOK /\ [Next]_vars => TypeOK'
<1> SUFFICES ASSUME TypeOK, [Next]_vars PROVE TypeOK'
  OBVIOUS
<1> USE JobsAssumption, UsersAssumption, NumbersAssumption
    DEF TypeOK, Statuses, Open, Closed, WorkerSteps, HandlerSteps, ToldSet, Never,
        vars, env, table, handlers, pool, outside
<1>a. AnyUser \in Users /\ AnyQuestion \in Questions
  BY DEF AnyUser, AnyQuestion
<1>1. ASSUME NEW c \in Clients, NEW u \in Users, NEW q \in Questions, SubmitReused(c, u, q) PROVE TypeOK'
  BY <1>1 DEF SubmitReused, NewestDuplicates, Duplicates, RecentRowsOf, RowsOf
<1>2. ASSUME NEW c \in Clients, NEW u \in Users, NEW q \in Questions, SubmitNew(c, u, q) PROVE TypeOK'
  BY <1>2 DEF SubmitNew
<1>3. ASSUME NEW c \in Clients, NEW j \in Jobs, InsertJob(c, j) PROVE TypeOK'
  BY <1>3 DEF InsertJob
<1>4. ASSUME NEW c \in Clients, RejectOverLimit(c) PROVE TypeOK'
  BY <1>4, <1>a DEF RejectOverLimit, HandlerReturns
<1>5. ASSUME NEW c \in Clients, EnqueueJob(c) PROVE TypeOK'
  BY <1>5, <1>a DEF EnqueueJob, HandlerReturns
<1>6. ASSUME NEW w \in Workers, PickUp(w) PROVE TypeOK'
  BY <1>6 DEF PickUp, GoTo
<1>7. ASSUME NEW w \in Workers, MarkRunning(w) PROVE TypeOK'
  BY <1>7 DEF MarkRunning, GoTo
<1>8. ASSUME NEW w \in Workers, MarkRunningFails(w) PROVE TypeOK'
  BY <1>8 DEF MarkRunningFails, Fault, WorkerReturns, GoTo
<1>9. ASSUME NEW w \in Workers, ReportStep(w) PROVE TypeOK'
  BY <1>9 DEF ReportStep
<1>10. ASSUME NEW w \in Workers, AgentReturns(w) PROVE TypeOK'
  BY <1>10 DEF AgentReturns, GoTo
<1>11. ASSUME NEW w \in Workers, AgentRaises(w) PROVE TypeOK'
  BY <1>11 DEF AgentRaises, GoTo
<1>12. ASSUME NEW w \in Workers, AgentHangs(w) PROVE TypeOK'
  BY <1>12 DEF AgentHangs, GoTo
<1>13. ASSUME NEW w \in Workers, MarkDone(w) PROVE TypeOK'
  BY <1>13 DEF MarkDone, GoTo, Concluded
<1>14. ASSUME NEW w \in Workers, MarkDoneFails(w) PROVE TypeOK'
  BY <1>14 DEF MarkDoneFails, Fault, GoTo
<1>15. ASSUME NEW w \in Workers, TrackCall(w) PROVE TypeOK'
  BY <1>15 DEF TrackCall, GoTo
<1>16. ASSUME NEW w \in Workers, MarkError(w) PROVE TypeOK'
  BY <1>16 DEF MarkError, GoTo, Concluded
<1>17. ASSUME NEW w \in Workers, MarkErrorFails(w) PROVE TypeOK'
  BY <1>17 DEF MarkErrorFails, Fault, GoTo
<1>18. ASSUME NEW w \in Workers, MarkInternalFails(w) PROVE TypeOK'
  BY <1>18 DEF MarkInternalFails, Fault, GoTo
<1>19. ASSUME NEW w \in Workers, ReadOutcome(w) PROVE TypeOK'
  BY <1>19 DEF ReadOutcome, GoTo
<1>20. ASSUME NEW w \in Workers, PushOutcome(w) PROVE TypeOK'
  BY <1>20 DEF PushOutcome, DropProgress, WorkerReturns, GoTo
<1>21. ASSUME NEW u \in Users, DeleteAccount(u) PROVE TypeOK'
  BY <1>21 DEF DeleteAccount, RowsOf
<1>22. ASSUME NEW j \in Jobs, RemovePdf(j) PROVE TypeOK'
  BY <1>22 DEF RemovePdf
<1>23. CASE SweepTimeouts
  BY <1>23 DEF SweepTimeouts, Overdue
<1>24. CASE Crash
  <2>0. crashes' \in 0..MaxCrashes
    BY <1>24 DEF Crash
  <2>1. queue' \in Seq(Jobs)
    BY <1>24 DEF Crash
  <2>2. /\ wpc' \in [Workers -> WorkerSteps]
        /\ wjob' \in [Workers -> Jobs \cup {NoJob}]
        /\ wpdf' \in [Workers -> BOOLEAN]
        /\ wseen' \in [Workers -> Statuses]
    BY <1>24 DEF Crash
  <2>3. /\ cpc' \in [Clients -> HandlerSteps]
        /\ cuser' \in [Clients -> Users]
        /\ cask' \in [Clients -> Questions]
        /\ cstamp' \in [Clients -> 0..MaxTime]
        /\ cjob' \in [Clients -> Jobs \cup {NoJob}]
    BY <1>24, <1>a DEF Crash
  <2>4. /\ \A c \in Clients : cpc'[c] = "enqueue" => cjob'[c] \in Jobs
        /\ \A w \in Workers : wpc'[w] # "idle" => wjob'[w] \in Jobs
    BY <1>24 DEF Crash
  <2> QED
    BY <1>24, <2>0, <2>1, <2>2, <2>3, <2>4 DEF Crash
<1>25. CASE Startup
  BY <1>25 DEF Startup, Interrupted
<1>26. CASE Tick
  BY <1>26 DEF Tick
<1>27. CASE UNCHANGED vars
  BY <1>27
<1> QED
  BY <1>1, <1>2, <1>3, <1>4, <1>5, <1>6, <1>7, <1>8, <1>9, <1>10, <1>11, <1>12, <1>13, <1>14, <1>15, <1>16, <1>17, <1>18, <1>19, <1>20, <1>21, <1>22, <1>23, <1>24, <1>25, <1>26, <1>27
  DEF Next, HandlerStep, WorkerStep, WorkerProgress

\* No operation of the API, of a worker, a sweep or a restart leaves the typed
\* state space; a busy worker and an enqueueing handler always have a job.
THEOREM TypeCorrect == Spec => []TypeOK
BY TypeInit, TypeNext, PTL DEF Spec

(***************************************************************************)
(* One place per job.  The strengthening: a job in some place has been     *)
(* created (its id is not drawn again) and nothing was announced of it.    *)
(***************************************************************************)

Places ==
  /\ OnePlacePerJob
  /\ \A j \in Jobs : HandedOver(j) \/ Queued(j) \/ Held(j) =>
                       createdAt[j] # Never /\ told[j] = "nothing"
  /\ \A j \in Jobs : createdAt[j] = Never => told[j] = "nothing"

\* The pool's queue, seen as a set, when an item is put and when one is taken.
LEMMA QueuePut ==
  ASSUME NEW Q \in Seq(Jobs), NEW x \in Jobs, NEW R, R = Append(Q, x)
  PROVE  /\ R \in Seq(Jobs)
         /\ Len(R) = Len(Q) + 1
         /\ \A i \in 1..Len(Q) : R[i] = Q[i]
         /\ R[Len(R)] = x
         /\ Len(Q) \in Nat
OBVIOUS

LEMMA QueueTaken ==
  ASSUME NEW Q \in Seq(Jobs), Q # <<>>, NEW R, R = Tail(Q)
  PROVE  /\ R \in Seq(Jobs)
         /\ Len(Q) \in Nat \ {0}
         /\ Len(R) = Len(Q) - 1
         /\ \A i \in 1..Len(R) : R[i] = Q[i + 1]
         /\ Head(Q) = Q[1]
         /\ Head(Q) \in Jobs
OBVIOUS

\* A worker moving between two steps of a run keeps its job.
LEMMA RunKeepsPlaces ==
  ASSUME TypeOK, Places, NEW w \in Workers, NEW step \in WorkerSteps \ {"idle"},
         wpc[w] # "idle", GoTo(w, step),
         UNCHANGED <<queue, cpc, cjob, wjob, createdAt, told>>
  PROVE  Places'
<1>1. \A v \in Workers : wpc'[v] = "idle" <=> wpc[v] = "idle"
  BY DEF GoTo, TypeOK
<1>2. \A j \in Jobs : /\ Held(j)' <=> Held(j)
                      /\ Queued(j)' <=> Queued(j)
                      /\ HandedOver(j)' <=> HandedOver(j)
  BY <1>1 DEF Held, Queued, HandedOver
<1> QED
  BY <1>1, <1>2 DEF Places, OnePlacePerJob

\* A worker that leaves a run gives up its job.
LEMMA ReturnKeepsPlaces ==
  ASSUME TypeOK, Places, NEW w \in Workers, wpc[w] # "idle", WorkerReturns(w),
         UNCHANGED <<queue, cpc, cjob, createdAt>>,
         \A j \in Jobs : told'[j] = told[j] \/ j = wjob[w]
  PROVE  Places'
<1>1. \A v \in Workers : v # w => wpc'[v] = wpc[v] /\ wjob'[v] = wjob[v]
  BY DEF WorkerReturns, GoTo, TypeOK
<1>2. wpc'[w] = "idle"
  BY DEF WorkerReturns, GoTo, TypeOK
<1>3. \A j \in Jobs : /\ Held(j)' => Held(j) /\ j # wjob[w]
                      /\ Queued(j)' <=> Queued(j)
                      /\ HandedOver(j)' <=> HandedOver(j)
  BY <1>1, <1>2 DEF Held, Queued, HandedOver, Places, OnePlacePerJob
<1>4. wjob[w] \in Jobs /\ Held(wjob[w])
  BY DEF TypeOK, Held
<1>5. ~Queued(wjob[w]) /\ ~HandedOver(wjob[w])
  BY <1>4 DEF Places, OnePlacePerJob
<1> QED
  BY <1>1, <1>2, <1>3, <1>4, <1>5 DEF Places, OnePlacePerJob

LEMMA PlacesInit == Init => Places
BY DEF Init, Places, OnePlacePerJob, Held, Queued, HandedOver

LEMMA PlacesNext == TypeOK /\ Places /\ [Next]_vars => Places'
<1> SUFFICES ASSUME TypeOK, Places, [Next]_vars PROVE Places'
  OBVIOUS
<1> USE DEF vars, env, table, handlers, pool, outside
<1>1. ASSUME NEW c \in Clients, NEW u \in Users, NEW q \in Questions, SubmitReused(c, u, q) PROVE Places'
  BY <1>1 DEF SubmitReused, Places, OnePlacePerJob, Held, Queued, HandedOver
<1>2. ASSUME NEW c \in Clients, NEW u \in Users, NEW q \in Questions, SubmitNew(c, u, q) PROVE Places'
  <2>1. /\ \A d \in Clients : cpc'[d] = "enqueue" <=> cpc[d] = "enqueue"
        /\ UNCHANGED <<cjob, queue, wpc, wjob, createdAt, told>>
    BY <1>2 DEF SubmitNew, TypeOK
  <2>2. \A j \in Jobs : /\ HandedOver(j)' => HandedOver(j)
                        /\ Queued(j)' <=> Queued(j)
                        /\ Held(j)' <=> Held(j)
    BY <2>1 DEF Held, Queued, HandedOver
  <2> QED
    BY <2>1, <2>2 DEF Places, OnePlacePerJob
<1>3. ASSUME NEW c \in Clients, NEW j \in Jobs, InsertJob(c, j) PROVE Places'
  <2>1. createdAt[j] = Never /\ cpc[c] = "insert"
    BY <1>3 DEF InsertJob
  <2>2. ~HandedOver(j) /\ ~Queued(j) /\ ~Held(j)
    BY <2>1 DEF Places
  <2>3. /\ \A d \in Clients : d # c => cpc'[d] = cpc[d] /\ cjob'[d] = cjob[d]
        /\ cpc'[c] = "enqueue" /\ cjob'[c] = j
        /\ UNCHANGED <<queue, wpc, wjob, told>>
        /\ \A k \in Jobs : k # j => createdAt'[k] = createdAt[k]
        /\ createdAt'[j] # Never
    BY <1>3 DEF InsertJob, TypeOK, Never
  <2>4. told[j] = "nothing"
    BY <2>1 DEF Places
  <2> QED
    BY <2>1, <2>2, <2>3, <2>4 DEF Places, OnePlacePerJob, Held, Queued, HandedOver
<1>4. ASSUME NEW c \in Clients, RejectOverLimit(c) PROVE Places'
  <2>1. /\ \A d \in Clients : d # c => cpc'[d] = cpc[d] /\ cjob'[d] = cjob[d]
        /\ cpc'[c] = "idle"
        /\ UNCHANGED <<queue, wpc, wjob, createdAt, told>>
    BY <1>4 DEF RejectOverLimit, HandlerReturns, TypeOK
  <2>2. \A j \in Jobs : /\ HandedOver(j)' => HandedOver(j)
                        /\ Queued(j)' <=> Queued(j)
                        /\ Held(j)' <=> Held(j)
    BY <2>1 DEF Held, Queued, HandedOver
  <2> QED
    BY <2>1, <2>2 DEF Places, OnePlacePerJob
<1>5. ASSUME NEW c \in Clients, EnqueueJob(c) PROVE Places'
  <2> DEFINE x == cjob[c]
  <2>1. x \in Jobs /\ HandedOver(x) /\ queue \in Seq(Jobs)
    BY <1>5 DEF EnqueueJob, TypeOK, HandedOver
  <2>2. /\ \A d \in Clients : d # c => cpc'[d] = cpc[d] /\ cjob'[d] = cjob[d]
        /\ cpc'[c] = "idle" /\ cpc[c] = "enqueue"
        /\ queue' = Append(queue, x)
        /\ UNCHANGED <<wpc, wjob, createdAt, told>>
    BY <1>5 DEF EnqueueJob, HandlerReturns, TypeOK
  <2>3. \A j \in Jobs : Held(j)' <=> Held(j)
    BY <2>2 DEF Held
  <2>4. \A j \in Jobs : HandedOver(j)' => HandedOver(j) /\ j # x
    BY <2>1, <2>2 DEF HandedOver, Places, OnePlacePerJob
  <2> HIDE DEF x
  <2>5. \A j \in Jobs : Queued(j)' <=> Queued(j) \/ j = x
    BY <2>1, <2>2, QueuePut DEF Queued
  <2>6. ~Queued(x) /\ ~Held(x)
    BY <2>1 DEF Places, OnePlacePerJob
  <2>7. \A i, k \in 1..Len(queue') : queue'[i] = queue'[k] => i = k
    BY <2>1, <2>2, <2>6, QueuePut DEF Queued, Places, OnePlacePerJob
  <2>8. \A j \in Jobs : /\ HandedOver(j)' \/ Queued(j)' \/ Held(j)' =>
                             createdAt'[j] # Never /\ told'[j] = "nothing"
                        /\ createdAt'[j] = Never => told'[j] = "nothing"
    BY <2>1, <2>2, <2>3, <2>4, <2>5 DEF Places
  <2>9. \A j \in Jobs : /\ HandedOver(j)' => ~Queued(j)' /\ ~Held(j)'
                        /\ Queued(j)' => ~Held(j)'
    BY <2>1, <2>3, <2>4, <2>5, <2>6 DEF Places, OnePlacePerJob
  <2> QED
    BY <2>2, <2>7, <2>8, <2>9 DEF Places, OnePlacePerJob
<1>6. ASSUME NEW w \in Workers, PickUp(w) PROVE Places'
  <2> DEFINE x == Head(queue)
  <2>1. queue \in Seq(Jobs) /\ queue # <<>> /\ queue' = Tail(queue)
    BY <1>6 DEF PickUp, TypeOK
  <2>2. /\ \A v \in Workers : v # w => wpc'[v] = wpc[v] /\ wjob'[v] = wjob[v]
        /\ wpc[w] = "idle" /\ wpc'[w] # "idle" /\ wjob'[w] = x
        /\ UNCHANGED <<cpc, cjob, createdAt, told>>
    BY <1>6 DEF PickUp, GoTo, TypeOK
  <2> HIDE DEF x
  <2>3. x \in Jobs /\ Queued(x)
    BY <2>1, QueueTaken DEF Queued, x
  <2>4. ~Held(x) /\ ~HandedOver(x)
    BY <2>3 DEF Places, OnePlacePerJob
  <2>5. \A j \in Jobs : Queued(j)' => Queued(j) /\ j # x
    BY <2>1, QueueTaken DEF Queued, Places, OnePlacePerJob, x
  <2>6. \A i, k \in 1..Len(queue') : queue'[i] = queue'[k] => i = k
    BY <2>1, QueueTaken DEF Places, OnePlacePerJob
  <2>7. \A j \in Jobs : /\ Held(j)' <=> Held(j) \/ j = x
                        /\ HandedOver(j)' <=> HandedOver(j)
    BY <2>2 DEF Held, HandedOver
  <2>8. \A v, u \in Workers :
          wpc'[v] # "idle" /\ wpc'[u] # "idle" /\ wjob'[v] = wjob'[u] => v = u
    BY <2>2, <2>4 DEF Held, Places, OnePlacePerJob
  <2>9. \A j \in Jobs : /\ HandedOver(j)' \/ Queued(j)' \/ Held(j)' =>
                             createdAt'[j] # Never /\ told'[j] = "nothing"
                        /\ createdAt'[j] = Never => told'[j] = "nothing"
    BY <2>2, <2>3, <2>5, <2>7 DEF Places
  <2>10. \A j \in Jobs : /\ HandedOver(j)' => ~Queued(j)' /\ ~Held(j)'
                         /\ Queued(j)' => ~Held(j)'
    BY <2>3, <2>4, <2>5, <2>7 DEF Places, OnePlacePerJob
  <2> QED
    BY <2>2, <2>6, <2>8, <2>9, <2>10 DEF Places, OnePlacePerJob
<1>7. ASSUME NEW w \in Workers, MarkRunning(w) PROVE Places'
  BY <1>7, RunKeepsPlaces DEF MarkRunning, WorkerSteps
<1>8. ASSUME NEW w \in Workers, MarkRunningFails(w) PROVE Places'
  BY <1>8, ReturnKeepsPlaces DEF MarkRunningFails
<1>9. ASSUME NEW w \in Workers, ReportStep(w) PROVE Places'
  BY <1>9 DEF ReportStep, Places, OnePlacePerJob, Held, Queued, HandedOver
<1>10. ASSUME NEW w \in Workers, AgentReturns(w) PROVE Places'
  BY <1>10, RunKeepsPlaces DEF AgentReturns, WorkerSteps
<1>11. ASSUME NEW w \in Workers, AgentRaises(w) PROVE Places'
  BY <1>11, RunKeepsPlaces DEF AgentRaises, WorkerSteps
<1>12. ASSUME NEW w \in Workers, AgentHangs(w) PROVE Places'
  BY <1>12, RunKeepsPlaces DEF AgentHangs, WorkerSteps
<1>13. ASSUME NEW w \in Workers, MarkDone(w) PROVE Places'
  BY <1>13, RunKeepsPlaces DEF MarkDone, WorkerSteps
<1>14. ASSUME NEW w \in Workers, MarkDoneFails(w) PROVE Places'
  BY <1>14, RunKeepsPlaces DEF MarkDoneFails, WorkerSteps
<1>15. ASSUME NEW w \in Workers, TrackCall(w) PROVE Places'
  BY <1>15, RunKeepsPlaces DEF TrackCall, WorkerSteps
<1>16. ASSUME NEW w \in Workers, MarkError(w) PROVE Places'
  BY <1>16, RunKeepsPlaces DEF MarkError, WorkerSteps
<1>17. ASSUME NEW w \in Workers, MarkErrorFails(w) PROVE Places'
  BY <1>17, RunKeepsPlaces DEF MarkErrorFails, WorkerSteps
<1>18. ASSUME NEW w \in Workers, MarkInternalFails(w) PROVE Places'
  BY <1>18, RunKeepsPlaces DEF MarkInternalFails, WorkerSteps
<1>19. ASSUME NEW w \in Workers, ReadOutcome(w) PROVE Places'
  BY <1>19, RunKeepsPlaces DEF ReadOutcome, WorkerSteps
<1>20. ASSUME NEW w \in Workers, PushOutcome(w) PROVE Places'
  <2>1. wpc[w] # "idle" /\ WorkerReturns(w) /\ UNCHANGED <<queue, cpc, cjob, createdAt>>
    BY <1>20 DEF PushOutcome
  <2>2. \A j \in Jobs : told'[j] = told[j] \/ j = wjob[w]
    BY <1>20 DEF PushOutcome, TypeOK
  <2> QED
    BY <2>1, <2>2, ReturnKeepsPlaces
<1>21. ASSUME NEW u \in Users, DeleteAccount(u) PROVE Places'
  BY <1>21 DEF DeleteAccount, Places, OnePlacePerJob, Held, Queued, HandedOver
<1>22. ASSUME NEW j \in Jobs, RemovePdf(j) PROVE Places'
  BY <1>22 DEF RemovePdf, Places, OnePlacePerJob, Held, Queued, HandedOver
<1>23. CASE SweepTimeouts
  BY <1>23 DEF SweepTimeouts, Places, OnePlacePerJob, Held, Queued, HandedOver
<1>24. CASE Crash
  <2>1. /\ \A w \in Workers : wpc'[w] = "idle"
        /\ \A c \in Clients : cpc'[c] = "idle"
        /\ Len(queue') = 0
        /\ UNCHANGED <<createdAt, told>>
    BY <1>24 DEF Crash
  <2>2. \A j \in Jobs : ~HandedOver(j)' /\ ~Queued(j)' /\ ~Held(j)'
    BY <2>1 DEF Held, Queued, HandedOver
  <2> QED
    BY <2>1, <2>2 DEF Places, OnePlacePerJob
<1>25. CASE Startup
  BY <1>25 DEF Startup, Places, OnePlacePerJob, Held, Queued, HandedOver
<1>26. CASE Tick
  BY <1>26 DEF Tick, Places, OnePlacePerJob, Held, Queued, HandedOver
<1>27. CASE UNCHANGED vars
  BY <1>27 DEF Places, OnePlacePerJob, Held, Queued, HandedOver
<1> QED
  BY <1>1, <1>2, <1>3, <1>4, <1>5, <1>6, <1>7, <1>8, <1>9, <1>10, <1>11, <1>12, <1>13, <1>14, <1>15, <1>16, <1>17, <1>18, <1>19, <1>20, <1>21, <1>22, <1>23, <1>24, <1>25, <1>26, <1>27
  DEF Next, HandlerStep, WorkerStep, WorkerProgress

LEMMA PlacesInv == Spec => []Places
BY PlacesInit, PlacesNext, TypeCorrect, PTL DEF Spec

\* The exclusive ownership of a job that _job_progress, the report's file and
\* the single notification rely on.
THEOREM OnePlace == Spec => []OnePlacePerJob
<1>1. Places => OnePlacePerJob
  BY DEF Places
<1> QED
  BY <1>1, PlacesInv, PTL

(***************************************************************************)
(* The life of a row: what one step of the system can do to it.            *)
(***************************************************************************)

RowEvolves(j) ==
  /\ createdAt'[j] = createdAt[j] /\ owner'[j] = owner[j] /\ question'[j] = question[j]
  /\ \/ status'[j] = status[j]
     \/ status'[j] = "none"
     \/ status[j] = "pending" /\ status'[j] = "running"
     \/ status[j] \in Open /\ status'[j] = "error"
     \/ /\ status[j] = "running" /\ status'[j] = "done"
        /\ \E w \in Workers : wpc[w] = "mark_done" /\ wjob[w] = j
  /\ status'[j] = "none" \/ startedAt'[j] \in {startedAt[j], now}

LEMMA RowStep ==
  ASSUME TypeOK, [Next]_vars, NEW j \in Jobs
  PROVE  RowEvolves(j) \/ \E c \in Clients : InsertJob(c, j)
<1> DEFINE Goal == RowEvolves(j) \/ \E c \in Clients : InsertJob(c, j)
<1> USE DEF vars, env, table, handlers, pool, outside
<1>1. ASSUME NEW c \in Clients, NEW u \in Users, NEW q \in Questions, SubmitReused(c, u, q) PROVE Goal
  BY <1>1 DEF SubmitReused, RowEvolves
<1>2. ASSUME NEW c \in Clients, NEW u \in Users, NEW q \in Questions, SubmitNew(c, u, q) PROVE Goal
  BY <1>2 DEF SubmitNew, RowEvolves
<1>3. ASSUME NEW c \in Clients, NEW k \in Jobs, InsertJob(c, k) PROVE Goal
  BY <1>3 DEF InsertJob, RowEvolves, TypeOK
<1>4. ASSUME NEW c \in Clients, RejectOverLimit(c) PROVE Goal
  BY <1>4 DEF RejectOverLimit, RowEvolves
<1>5. ASSUME NEW c \in Clients, EnqueueJob(c) PROVE Goal
  BY <1>5 DEF EnqueueJob, RowEvolves
<1>6. ASSUME NEW w \in Workers, PickUp(w) PROVE Goal
  BY <1>6 DEF PickUp, RowEvolves
<1>7. ASSUME NEW w \in Workers, MarkRunning(w) PROVE Goal
  BY <1>7 DEF MarkRunning, TypeOK, RowEvolves
<1>8. ASSUME NEW w \in Workers, MarkRunningFails(w) PROVE Goal
  BY <1>8 DEF MarkRunningFails, RowEvolves
<1>9. ASSUME NEW w \in Workers, ReportStep(w) PROVE Goal
  BY <1>9 DEF ReportStep, RowEvolves
<1>10. ASSUME NEW w \in Workers, AgentReturns(w) PROVE Goal
  BY <1>10 DEF AgentReturns, RowEvolves
<1>11. ASSUME NEW w \in Workers, AgentRaises(w) PROVE Goal
  BY <1>11 DEF AgentRaises, RowEvolves
<1>12. ASSUME NEW w \in Workers, AgentHangs(w) PROVE Goal
  BY <1>12 DEF AgentHangs, RowEvolves
<1>13. ASSUME NEW w \in Workers, MarkDone(w) PROVE Goal
  BY <1>13 DEF MarkDone, Concluded, TypeOK, RowEvolves
<1>14. ASSUME NEW w \in Workers, MarkDoneFails(w) PROVE Goal
  BY <1>14 DEF MarkDoneFails, RowEvolves
<1>15. ASSUME NEW w \in Workers, TrackCall(w) PROVE Goal
  BY <1>15 DEF TrackCall, RowEvolves
<1>16. ASSUME NEW w \in Workers, MarkError(w) PROVE Goal
  BY <1>16 DEF MarkError, Concluded, TypeOK, Open, RowEvolves
<1>17. ASSUME NEW w \in Workers, MarkErrorFails(w) PROVE Goal
  BY <1>17 DEF MarkErrorFails, RowEvolves
<1>18. ASSUME NEW w \in Workers, MarkInternalFails(w) PROVE Goal
  BY <1>18 DEF MarkInternalFails, RowEvolves
<1>19. ASSUME NEW w \in Workers, ReadOutcome(w) PROVE Goal
  BY <1>19 DEF ReadOutcome, RowEvolves
<1>20. ASSUME NEW w \in Workers, PushOutcome(w) PROVE Goal
  BY <1>20 DEF PushOutcome, RowEvolves
<1>21. ASSUME NEW u \in Users, DeleteAccount(u) PROVE Goal
  BY <1>21 DEF DeleteAccount, RowEvolves
<1>22. ASSUME NEW k \in Jobs, RemovePdf(k) PROVE Goal
  BY <1>22 DEF RemovePdf, RowEvolves
<1>23. CASE SweepTimeouts
  BY <1>23 DEF SweepTimeouts, Overdue, Open, RowEvolves
<1>24. CASE Crash
  BY <1>24 DEF Crash, RowEvolves
<1>25. CASE Startup
  BY <1>25 DEF Startup, Interrupted, Open, RowEvolves
<1>26. CASE Tick
  BY <1>26 DEF Tick, RowEvolves
<1>27. CASE UNCHANGED vars
  BY <1>27 DEF RowEvolves
<1> QED
  BY <1>1, <1>2, <1>3, <1>4, <1>5, <1>6, <1>7, <1>8, <1>9, <1>10, <1>11, <1>12, <1>13, <1>14, <1>15, <1>16, <1>17, <1>18, <1>19, <1>20, <1>21, <1>22, <1>23, <1>24, <1>25, <1>26, <1>27
  DEF Next, HandlerStep, WorkerStep, WorkerProgress

(***************************************************************************)
(* The daily quota.  A row's started_at never lies before its admission,   *)
(* so the rows counted from a window's start include those admitted since: *)
(* this is what makes the restamping of mark_running harmless, and a stale *)
(* window_start only counts more rows.                                     *)
(***************************************************************************)

Stamps ==
  /\ \A c \in Clients : cstamp[c] <= now
  /\ \A j \in Jobs : createdAt[j] <= now
  /\ \A j \in Jobs : status[j] # "none" =>
       createdAt[j] # Never /\ createdAt[j] <= startedAt[j]

LEMMA StampsInit == Init => Stamps
BY NumbersAssumption DEF Init, Stamps, Never

LEMMA ClockStep ==
  ASSUME TypeOK, [Next]_vars
  PROVE  /\ now <= now' /\ now' \in Nat
         /\ \A c \in Clients : cstamp'[c] \in {cstamp[c], now, 0}
<1> USE NumbersAssumption DEF TypeOK, vars, env, table, handlers, pool, outside
<1>1. ASSUME NEW c \in Clients, HandlerStep(c)
      PROVE  now' = now /\ \A d \in Clients : cstamp'[d] \in {cstamp[d], now, 0}
  BY <1>1 DEF HandlerStep, SubmitReused, SubmitNew, InsertJob, RejectOverLimit,
              EnqueueJob, HandlerReturns
<1>2. ASSUME NEW w \in Workers, WorkerStep(w) PROVE UNCHANGED <<now, cstamp>>
  BY <1>2 DEF WorkerStep, WorkerProgress, PickUp, MarkRunning, MarkRunningFails, ReportStep,
              AgentReturns, AgentRaises, AgentHangs, MarkDone, MarkDoneFails, TrackCall,
              MarkError, MarkErrorFails, MarkInternalFails, ReadOutcome, PushOutcome
<1>3. ASSUME NEW u \in Users, DeleteAccount(u) PROVE UNCHANGED <<now, cstamp>>
  BY <1>3 DEF DeleteAccount
<1>4. ASSUME NEW j \in Jobs, RemovePdf(j) PROVE UNCHANGED <<now, cstamp>>
  BY <1>4 DEF RemovePdf
<1>5. CASE SweepTimeouts
  BY <1>5 DEF SweepTimeouts
<1>6. CASE Crash
  BY <1>6 DEF Crash
<1>7. CASE Startup
  BY <1>7 DEF Startup
<1>8. CASE Tick
  BY <1>8 DEF Tick
<1>9. CASE UNCHANGED vars
  BY <1>9
<1> QED
  BY <1>1, <1>2, <1>3, <1>4, <1>5, <1>6, <1>7, <1>8, <1>9 DEF Next

LEMMA StampsNext == TypeOK /\ Stamps /\ [Next]_vars => (TypeOK /\ Stamps)'
<1> SUFFICES ASSUME TypeOK, Stamps, [Next]_vars PROVE Stamps'
  BY TypeNext
<1>1. TypeOK'
  BY TypeNext
<1>2. now \in Nat /\ now' \in Nat /\ now <= now'
  BY ClockStep, NumbersAssumption DEF TypeOK
<1>3. \A c \in Clients : cstamp'[c] <= now'
  <2> SUFFICES ASSUME NEW c \in Clients PROVE cstamp'[c] <= now'
    OBVIOUS
  <2>1. cstamp[c] \in Nat /\ cstamp[c] <= now /\ cstamp'[c] \in {cstamp[c], now, 0}
    BY ClockStep, NumbersAssumption DEF TypeOK, Stamps
  <2> QED
    BY <2>1, <1>2
<1>4. ASSUME NEW j \in Jobs
      PROVE  /\ createdAt'[j] <= now'
             /\ status'[j] # "none" => createdAt'[j] # Never /\ createdAt'[j] <= startedAt'[j]
  <2> USE NumbersAssumption
  <2>1. createdAt[j] \in {Never} \cup Nat /\ startedAt[j] \in {Never} \cup Nat
    BY DEF TypeOK
  <2>2. CASE RowEvolves(j)
    <3>1. createdAt'[j] = createdAt[j] /\ createdAt[j] <= now
      BY <2>2 DEF RowEvolves, Stamps
    <3>2. ASSUME status'[j] # "none"
          PROVE  /\ createdAt[j] # Never /\ createdAt[j] <= startedAt[j]
                 /\ startedAt'[j] \in {startedAt[j], now}
      BY <3>2, <2>2 DEF RowEvolves, Stamps, Open
    <3> QED
      BY <1>2, <2>1, <3>1, <3>2 DEF Never
  <2>3. ASSUME NEW c \in Clients, InsertJob(c, j) PROVE <1>4!2
    <3>1. createdAt'[j] = cstamp[c] /\ startedAt'[j] = cstamp[c] /\ cstamp[c] \in Nat
      BY <2>3 DEF InsertJob, TypeOK
    <3>2. cstamp[c] <= now
      BY DEF Stamps
    <3> QED
      BY <1>2, <3>1, <3>2 DEF Never
  <2> QED
    BY <2>2, <2>3, RowStep
<1> QED
  BY <1>3, <1>4 DEF Stamps

\* What the transaction counts includes every row admitted in any window that
\* the new row falls into.
LEMMA CountedRows ==
  ASSUME TypeOK, Stamps, NEW u \in Users, NEW s \in 0..MaxTime, NEW t \in 0..MaxTime,
         t - RateWindow < s, s <= t
  PROVE  AdmittedIn(u, t) \subseteq RecentRowsOf(u, s - RateWindow)
<1> SUFFICES ASSUME NEW j \in AdmittedIn(u, t) PROVE startedAt[j] > s - RateWindow
  BY DEF AdmittedIn, RecentRowsOf
<1>1. j \in Jobs /\ status[j] # "none" /\ t - RateWindow < createdAt[j]
  BY DEF AdmittedIn, RowsOf
<1>2. createdAt[j] # Never /\ createdAt[j] <= startedAt[j]
  BY <1>1 DEF Stamps
<1>3. createdAt[j] \in Nat /\ startedAt[j] \in Int
  BY <1>1, <1>2, NumbersAssumption DEF TypeOK, Never
<1> QED
  BY <1>1, <1>2, <1>3, NumbersAssumption

LEMMA AdmittedIsFinite ==
  \A u, t : IsFiniteSet(AdmittedIn(u, t)) /\ Cardinality(AdmittedIn(u, t)) \in Nat
BY JobsAssumption, FS_Subset, FS_CardinalityType DEF AdmittedIn, RowsOf

LEMMA QuotaInit == Init => QuotaKept
<1> SUFFICES ASSUME Init, NEW u \in Users, NEW t \in 0..MaxTime
             PROVE  Cardinality(AdmittedIn(u, t)) <= Limit
  BY DEF QuotaKept
<1>1. AdmittedIn(u, t) = {}
  BY DEF Init, AdmittedIn, RowsOf
<1> QED
  BY <1>1, FS_EmptySet, NumbersAssumption

LEMMA QuotaNext == TypeOK /\ Stamps /\ QuotaKept /\ [Next]_vars => QuotaKept'
<1> SUFFICES ASSUME TypeOK, Stamps, QuotaKept, [Next]_vars,
                    NEW u \in Users, NEW t \in 0..MaxTime
             PROVE  Cardinality(AdmittedIn(u, t)') <= Limit
  BY DEF QuotaKept
<1> DEFINE A == AdmittedIn(u, t)
           B == AdmittedIn(u, t)'
<1>1. Cardinality(A) <= Limit /\ Cardinality(A) \in Nat /\ IsFiniteSet(A)
  BY AdmittedIsFinite DEF QuotaKept
<1>2. ASSUME B \subseteq A PROVE Cardinality(B) <= Limit
  <2>1. IsFiniteSet(B) /\ Cardinality(B) <= Cardinality(A)
    BY <1>1, <1>2, FS_Subset
  <2>2. Cardinality(B) \in Nat
    BY <2>1, FS_CardinalityType
  <2> QED
    BY <1>1, <2>1, <2>2, NumbersAssumption
<1>3. ASSUME \A j \in Jobs : RowEvolves(j) PROVE B \subseteq A
  <2> SUFFICES ASSUME NEW j \in Jobs, j \in B PROVE j \in A
    BY DEF AdmittedIn, RowsOf
  <2>1. status'[j] # "none" /\ owner'[j] = u /\ t - RateWindow < createdAt'[j] /\ createdAt'[j] <= t
    BY DEF AdmittedIn, RowsOf
  <2>2. createdAt'[j] = createdAt[j] /\ owner'[j] = owner[j] /\ status[j] # "none"
    BY <1>3, <2>1 DEF RowEvolves, Open
  <2> QED
    BY <2>1, <2>2 DEF AdmittedIn, RowsOf
<1>4. ASSUME NEW c \in Clients, NEW k \in Jobs, InsertJob(c, k)
      PROVE  Cardinality(B) <= Limit
  <2> DEFINE s == cstamp[c]
             R == RecentRowsOf(cuser[c], s - RateWindow)
  <2>1. s \in 0..MaxTime /\ Cardinality(R) < Limit
    BY <1>4 DEF InsertJob, TypeOK
  <2>2. \A j \in Jobs : j # k => /\ createdAt'[j] = createdAt[j]
                                 /\ owner'[j] = owner[j] /\ status'[j] = status[j]
    BY <1>4 DEF InsertJob, TypeOK
  <2>3. owner'[k] = cuser[c] /\ createdAt'[k] = s
    BY <1>4 DEF InsertJob, TypeOK
  <2>4. B \subseteq A \cup {k}
    BY <2>2 DEF AdmittedIn, RowsOf
  <2>5. CASE k \notin B
    BY <1>2, <2>4, <2>5
  <2>6. CASE k \in B
    <3>1. u = cuser[c] /\ t - RateWindow < s /\ s <= t
      BY <2>3, <2>6 DEF AdmittedIn, RowsOf
    <3>2. A \subseteq R
      BY <2>1, <3>1, CountedRows
    <3>3. IsFiniteSet(R) /\ Cardinality(R) \in Nat
      BY JobsAssumption, FS_Subset, FS_CardinalityType DEF RecentRowsOf, RowsOf
    <3>4. Cardinality(A) <= Cardinality(R)
      BY <3>2, <3>3, FS_Subset
    <3> HIDE DEF A
    <3>5. IsFiniteSet(A \cup {k}) /\ Cardinality(A \cup {k}) <= Cardinality(A) + 1
      <4>1. /\ IsFiniteSet(A \cup {k})
            /\ Cardinality(A \cup {k}) = IF k \in A THEN Cardinality(A) ELSE Cardinality(A) + 1
        BY <1>1, FS_AddElement, Zenon
      <4> QED
        BY <1>1, <4>1
    <3>6. IsFiniteSet(B) /\ Cardinality(B) <= Cardinality(A \cup {k})
      BY <2>4, <3>5, FS_Subset
    <3>7. Cardinality(B) \in Nat /\ Cardinality(A \cup {k}) \in Nat
      BY <3>5, <3>6, FS_CardinalityType
    <3> HIDE DEF B, R
    <3> QED
      BY <1>1, <2>1, <3>3, <3>4, <3>5, <3>6, <3>7, NumbersAssumption
  <2> QED
    BY <2>5, <2>6
<1>5. (\A j \in Jobs : RowEvolves(j)) \/ \E c \in Clients, k \in Jobs : InsertJob(c, k)
  BY RowStep
<1> QED
  BY <1>2, <1>3, <1>4, <1>5

\* Whatever the interleaving of requests, stale windows and restamped rows, no
\* user ever has more than Limit surviving jobs admitted within RateWindow.
THEOREM Quota == Spec => []QuotaKept
BY TypeInit, StampsInit, StampsNext, QuotaInit, QuotaNext, PTL DEF Spec

(***************************************************************************)
(* Every open row has an owner.  The strengthening says at which steps of  *)
(* its run a worker owns a pending row and a running one: a worker about   *)
(* to call mark_running will open it, one between mark_running and its     *)
(* last mark_error will close it.                                          *)
(***************************************************************************)

RunSteps == {"agent", "hung", "mark_done", "mark_error", "mark_internal"}

Waits(j) == \/ HandedOver(j) \/ Queued(j) \/ j \in lost
            \/ \E w \in Workers : wpc[w] = "mark_running" /\ wjob[w] = j
Runs(j) == \/ j \in lost
           \/ \E w \in Workers : wpc[w] \in RunSteps /\ wjob[w] = j

Owners == up => \A j \in Jobs : /\ status[j] = "pending" => Waits(j)
                                /\ status[j] = "running" => Runs(j)

\* A worker's step disturbs the ownership of no job but its own.
LEMMA RunKeepsOwners ==
  ASSUME TypeOK, Owners, NEW w \in Workers, wpc[w] # "idle",
         UNCHANGED <<up, queue, cpc, cjob>>, lost \subseteq lost',
         \A v \in Workers : v # w => wpc'[v] = wpc[v] /\ wjob'[v] = wjob[v],
         \A j \in Jobs : j # wjob[w] => status'[j] = status[j],
         status'[wjob[w]] = "pending" =>
           /\ status[wjob[w]] = "pending"
           /\ wpc[w] # "mark_running" \/ wjob[w] \in lost',
         status'[wjob[w]] = "running" =>
           \/ wpc'[w] \in RunSteps /\ wjob'[w] = wjob[w]
           \/ wjob[w] \in lost'
           \/ status[wjob[w]] = "running" /\ wpc[w] \notin RunSteps
  PROVE  Owners'
<1> DEFINE x == wjob[w]
<1> SUFFICES ASSUME up, NEW j \in Jobs
             PROVE  /\ status'[j] = "pending" => Waits(j)'
                    /\ status'[j] = "running" => Runs(j)'
  BY DEF Owners
<1>1. /\ Queued(j)' <=> Queued(j)
      /\ HandedOver(j)' <=> HandedOver(j)
  BY DEF Queued, HandedOver
<1>2. CASE j # x
  <2>1. /\ Waits(j) => Waits(j)'
        /\ Runs(j) => Runs(j)'
    BY <1>1, <1>2 DEF Waits, Runs
  <2> QED
    BY <1>2, <2>1 DEF Owners
<1>3. CASE j = x
  <2>1. ASSUME status'[j] = "pending" PROVE Waits(j)'
    BY <1>1, <1>3, <2>1 DEF Waits, Owners
  <2>2. ASSUME status'[j] = "running" PROVE Runs(j)'
    BY <1>3, <2>2 DEF Runs, Owners
  <2> QED
    BY <2>1, <2>2
<1> QED
  BY <1>2, <1>3

LEMMA OwnersInit == Init => Owners
BY DEF Init, Owners

LEMMA OwnersNext == TypeOK /\ Owners /\ [Next]_vars => Owners'
<1> SUFFICES ASSUME TypeOK, Owners, [Next]_vars PROVE Owners'
  OBVIOUS
<1> USE DEF vars, env, table, handlers, pool, outside
<1>1. ASSUME NEW c \in Clients, NEW u \in Users, NEW q \in Questions, SubmitReused(c, u, q) PROVE Owners'
  BY <1>1 DEF SubmitReused, Owners, Waits, Runs, Held, Queued, HandedOver
<1>2. ASSUME NEW c \in Clients, NEW u \in Users, NEW q \in Questions, SubmitNew(c, u, q) PROVE Owners'
  <2>1. /\ \A d \in Clients : d # c => cpc'[d] = cpc[d] /\ cjob'[d] = cjob[d]
        /\ cpc[c] # "enqueue"
        /\ UNCHANGED <<up, status, queue, wpc, wjob, lost>>
    BY <1>2 DEF SubmitNew, TypeOK
  <2>2. \A j \in Jobs : HandedOver(j) => HandedOver(j)'
    BY <2>1 DEF HandedOver
  <2> QED
    BY <2>1, <2>2 DEF Owners, Waits, Runs, Queued
<1>3. ASSUME NEW c \in Clients, NEW j \in Jobs, InsertJob(c, j) PROVE Owners'
  <2>1. /\ \A d \in Clients : d # c => cpc'[d] = cpc[d] /\ cjob'[d] = cjob[d]
        /\ cpc[c] # "enqueue" /\ cpc'[c] = "enqueue" /\ cjob'[c] = j
        /\ \A k \in Jobs : k # j => status'[k] = status[k]
        /\ status'[j] = "pending"
        /\ UNCHANGED <<up, queue, wpc, wjob, lost>>
    BY <1>3 DEF InsertJob, TypeOK
  <2>2. \A k \in Jobs : HandedOver(k) \/ k = j => HandedOver(k)'
    BY <2>1 DEF HandedOver
  <2> QED
    BY <2>1, <2>2 DEF Owners, Waits, Runs, Queued
<1>4. ASSUME NEW c \in Clients, RejectOverLimit(c) PROVE Owners'
  <2>1. /\ \A d \in Clients : d # c => cpc'[d] = cpc[d] /\ cjob'[d] = cjob[d]
        /\ cpc[c] # "enqueue"
        /\ UNCHANGED <<up, status, queue, wpc, wjob, lost>>
    BY <1>4 DEF RejectOverLimit, HandlerReturns, TypeOK
  <2>2. \A j \in Jobs : HandedOver(j) => HandedOver(j)'
    BY <2>1 DEF HandedOver
  <2> QED
    BY <2>1, <2>2 DEF Owners, Waits, Runs, Queued
<1>5. ASSUME NEW c \in Clients, EnqueueJob(c) PROVE Owners'
  <2>1. /\ \A d \in Clients : d # c => cpc'[d] = cpc[d] /\ cjob'[d] = cjob[d]
        /\ cpc[c] = "enqueue" /\ cjob[c] \in Jobs
        /\ queue \in Seq(Jobs) /\ queue' = Append(queue, cjob[c])
        /\ UNCHANGED <<up, status, wpc, wjob, lost>>
    BY <1>5 DEF EnqueueJob, HandlerReturns, TypeOK
  <2>2. \A j \in Jobs : Queued(j) \/ j = cjob[c] => Queued(j)'
    BY <2>1, QueuePut DEF Queued
  <2>3. \A j \in Jobs : HandedOver(j) => HandedOver(j)' \/ j = cjob[c]
    BY <2>1 DEF HandedOver
  <2> QED
    BY <2>1, <2>2, <2>3 DEF Owners, Waits, Runs
<1>6. ASSUME NEW w \in Workers, PickUp(w) PROVE Owners'
  <2>1. /\ \A v \in Workers : v # w => wpc'[v] = wpc[v] /\ wjob'[v] = wjob[v]
        /\ wpc[w] = "idle" /\ wpc'[w] = "mark_running" /\ wjob'[w] = Head(queue)
        /\ queue \in Seq(Jobs) /\ queue # <<>> /\ queue' = Tail(queue)
        /\ UNCHANGED <<up, status, cpc, cjob, lost>>
    BY <1>6 DEF PickUp, GoTo, TypeOK
  <2>2. \A j \in Jobs : Queued(j) => Queued(j)' \/ j = Head(queue)
    <3> SUFFICES ASSUME NEW i \in 1..Len(queue), queue[i] # Head(queue)
                 PROVE  \E k \in 1..Len(queue') : queue'[k] = queue[i]
      BY DEF Queued
    <3>1. i - 1 \in 1..Len(queue') /\ queue'[i - 1] = queue[i]
      BY <2>1, QueueTaken
    <3> QED
      BY <3>1
  <2>3. \A j \in Jobs : /\ Runs(j) => Runs(j)'
                        /\ Waits(j) => Waits(j)'
    BY <2>1, <2>2 DEF Waits, Runs, RunSteps, HandedOver
  <2> QED
    BY <2>1, <2>3 DEF Owners
<1>7. ASSUME NEW w \in Workers, MarkRunning(w) PROVE Owners'
  BY <1>7, RunKeepsOwners DEF MarkRunning, GoTo, TypeOK, RunSteps
<1>8. ASSUME NEW w \in Workers, MarkRunningFails(w) PROVE Owners'
  BY <1>8, RunKeepsOwners DEF MarkRunningFails, GoTo, WorkerReturns, TypeOK, RunSteps
<1>9. ASSUME NEW w \in Workers, ReportStep(w) PROVE Owners'
  BY <1>9 DEF ReportStep, Owners, Waits, Runs, Held, Queued, HandedOver
<1>10. ASSUME NEW w \in Workers, AgentReturns(w) PROVE Owners'
  BY <1>10, RunKeepsOwners DEF AgentReturns, GoTo, TypeOK, RunSteps
<1>11. ASSUME NEW w \in Workers, AgentRaises(w) PROVE Owners'
  BY <1>11, RunKeepsOwners DEF AgentRaises, GoTo, TypeOK, RunSteps
<1>12. ASSUME NEW w \in Workers, AgentHangs(w) PROVE Owners'
  BY <1>12, RunKeepsOwners DEF AgentHangs, GoTo, TypeOK, RunSteps
<1>13. ASSUME NEW w \in Workers, MarkDone(w) PROVE Owners'
  BY <1>13, RunKeepsOwners DEF MarkDone, GoTo, Concluded, TypeOK, RunSteps
<1>14. ASSUME NEW w \in Workers, MarkDoneFails(w) PROVE Owners'
  BY <1>14, RunKeepsOwners DEF MarkDoneFails, GoTo, TypeOK, RunSteps
<1>15. ASSUME NEW w \in Workers, TrackCall(w) PROVE Owners'
  BY <1>15, RunKeepsOwners DEF TrackCall, GoTo, TypeOK, RunSteps
<1>16. ASSUME NEW w \in Workers, MarkError(w) PROVE Owners'
  BY <1>16, RunKeepsOwners DEF MarkError, GoTo, Concluded, TypeOK, RunSteps
<1>17. ASSUME NEW w \in Workers, MarkErrorFails(w) PROVE Owners'
  BY <1>17, RunKeepsOwners DEF MarkErrorFails, GoTo, TypeOK, RunSteps
<1>18. ASSUME NEW w \in Workers, MarkInternalFails(w) PROVE Owners'
  BY <1>18, RunKeepsOwners DEF MarkInternalFails, GoTo, TypeOK, RunSteps
<1>19. ASSUME NEW w \in Workers, ReadOutcome(w) PROVE Owners'
  BY <1>19, RunKeepsOwners DEF ReadOutcome, GoTo, TypeOK, RunSteps
<1>20. ASSUME NEW w \in Workers, PushOutcome(w) PROVE Owners'
  BY <1>20, RunKeepsOwners DEF PushOutcome, GoTo, WorkerReturns, TypeOK, RunSteps
<1>21. ASSUME NEW u \in Users, DeleteAccount(u) PROVE Owners'
  <2>1. /\ \A j \in Jobs : status'[j] \in {status[j], "none", "error"}
        /\ UNCHANGED <<up, queue, cpc, cjob, wpc, wjob, lost>>
    BY <1>21 DEF DeleteAccount, RowsOf
  <2> QED
    BY <2>1 DEF Owners, Waits, Runs, Queued, HandedOver
<1>22. ASSUME NEW j \in Jobs, RemovePdf(j) PROVE Owners'
  BY <1>22 DEF RemovePdf, Owners, Waits, Runs, Held, Queued, HandedOver
<1>23. CASE SweepTimeouts
  <2>1. /\ \A j \in Jobs : status'[j] \in {status[j], "none", "error"}
        /\ UNCHANGED <<up, queue, cpc, cjob, wpc, wjob, lost>>
    BY <1>23 DEF SweepTimeouts, Overdue
  <2> QED
    BY <2>1 DEF Owners, Waits, Runs, Queued, HandedOver
<1>24. CASE Crash
  BY <1>24 DEF Crash, Owners
<1>25. CASE Startup
  BY <1>25 DEF Startup, Interrupted, Open, Owners
<1>26. CASE Tick
  BY <1>26 DEF Tick, Owners, Waits, Runs, Held, Queued, HandedOver
<1>27. CASE UNCHANGED vars
  BY <1>27 DEF Owners, Waits, Runs, Held, Queued, HandedOver
<1> QED
  BY <1>1, <1>2, <1>3, <1>4, <1>5, <1>6, <1>7, <1>8, <1>9, <1>10, <1>11, <1>12, <1>13, <1>14, <1>15, <1>16, <1>17, <1>18, <1>19, <1>20, <1>21, <1>22, <1>23, <1>24, <1>25, <1>26, <1>27
  DEF Next, HandlerStep, WorkerStep, WorkerProgress

LEMMA OwnersImplyOwned == Owners => OpenRowsAreOwned
BY DEF Owners, Waits, Runs, RunSteps, OpenRowsAreOwned, Held

\* While the server is up no row is open that nobody will close, but for those
\* whose worker was failed by the database: failing every open row at startup
\* and looking for abandoned rows only by their age are both enough.
THEOREM OpenRowsOwned == Spec => []OpenRowsAreOwned
BY TypeCorrect, OwnersInit, OwnersNext, OwnersImplyOwned, PTL DEF Spec

(***************************************************************************)
(* Outcomes and announcements.                                             *)
(***************************************************************************)

\* Only a reused answer and the end of a run leave the process; a row is read
\* for an announcement only by ReadOutcome.
LEMMA AnswerStep ==
  ASSUME TypeOK, [Next]_vars
  PROVE  \/ /\ UNCHANGED <<told, reused>>
            /\ \A w \in Workers : wpc'[w] = "push" =>
                 wpc[w] = "push" /\ wseen'[w] = wseen[w] /\ wjob'[w] = wjob[w]
         \/ \E c \in Clients, u \in Users, q \in Questions : SubmitReused(c, u, q)
         \/ \E w \in Workers : ReadOutcome(w) \/ PushOutcome(w)
<1> DEFINE Goal ==
      \/ /\ UNCHANGED <<told, reused>>
         /\ \A w \in Workers : wpc'[w] = "push" =>
              wpc[w] = "push" /\ wseen'[w] = wseen[w] /\ wjob'[w] = wjob[w]
      \/ \E c \in Clients, u \in Users, q \in Questions : SubmitReused(c, u, q)
      \/ \E w \in Workers : ReadOutcome(w) \/ PushOutcome(w)
<1> USE DEF vars, env, table, handlers, pool, outside
<1>1. ASSUME NEW c \in Clients, NEW u \in Users, NEW q \in Questions, SubmitReused(c, u, q) PROVE Goal
  BY <1>1
<1>2. ASSUME NEW c \in Clients, NEW u \in Users, NEW q \in Questions, SubmitNew(c, u, q) PROVE Goal
  BY <1>2 DEF SubmitNew
<1>3. ASSUME NEW c \in Clients, NEW j \in Jobs, InsertJob(c, j) PROVE Goal
  BY <1>3 DEF InsertJob
<1>4. ASSUME NEW c \in Clients, RejectOverLimit(c) PROVE Goal
  BY <1>4 DEF RejectOverLimit
<1>5. ASSUME NEW c \in Clients, EnqueueJob(c) PROVE Goal
  BY <1>5 DEF EnqueueJob
<1>6. ASSUME NEW w \in Workers, PickUp(w) PROVE Goal
  BY <1>6 DEF PickUp, GoTo, TypeOK
<1>7. ASSUME NEW w \in Workers, MarkRunning(w) PROVE Goal
  BY <1>7 DEF MarkRunning, GoTo, TypeOK
<1>8. ASSUME NEW w \in Workers, MarkRunningFails(w) PROVE Goal
  BY <1>8 DEF MarkRunningFails, WorkerReturns, GoTo, TypeOK
<1>9. ASSUME NEW w \in Workers, ReportStep(w) PROVE Goal
  BY <1>9 DEF ReportStep
<1>10. ASSUME NEW w \in Workers, AgentReturns(w) PROVE Goal
  BY <1>10 DEF AgentReturns, GoTo, TypeOK
<1>11. ASSUME NEW w \in Workers, AgentRaises(w) PROVE Goal
  BY <1>11 DEF AgentRaises, GoTo, TypeOK
<1>12. ASSUME NEW w \in Workers, AgentHangs(w) PROVE Goal
  BY <1>12 DEF AgentHangs, GoTo, TypeOK
<1>13. ASSUME NEW w \in Workers, MarkDone(w) PROVE Goal
  BY <1>13 DEF MarkDone, GoTo, TypeOK
<1>14. ASSUME NEW w \in Workers, MarkDoneFails(w) PROVE Goal
  BY <1>14 DEF MarkDoneFails, GoTo, TypeOK
<1>15. ASSUME NEW w \in Workers, TrackCall(w) PROVE Goal
  BY <1>15 DEF TrackCall, GoTo, TypeOK
<1>16. ASSUME NEW w \in Workers, MarkError(w) PROVE Goal
  BY <1>16 DEF MarkError, GoTo, TypeOK
<1>17. ASSUME NEW w \in Workers, MarkErrorFails(w) PROVE Goal
  BY <1>17 DEF MarkErrorFails, GoTo, TypeOK
<1>18. ASSUME NEW w \in Workers, MarkInternalFails(w) PROVE Goal
  BY <1>18 DEF MarkInternalFails, GoTo, TypeOK
<1>19. ASSUME NEW w \in Workers, ReadOutcome(w) PROVE Goal
  BY <1>19
<1>20. ASSUME NEW w \in Workers, PushOutcome(w) PROVE Goal
  BY <1>20
<1>21. ASSUME NEW u \in Users, DeleteAccount(u) PROVE Goal
  BY <1>21 DEF DeleteAccount
<1>22. ASSUME NEW j \in Jobs, RemovePdf(j) PROVE Goal
  BY <1>22 DEF RemovePdf
<1>23. CASE SweepTimeouts
  BY <1>23 DEF SweepTimeouts
<1>24. CASE Crash
  BY <1>24 DEF Crash
<1>25. CASE Startup
  BY <1>25 DEF Startup
<1>26. CASE Tick
  BY <1>26 DEF Tick
<1>27. CASE UNCHANGED vars
  BY <1>27
<1> QED
  BY <1>1, <1>2, <1>3, <1>4, <1>5, <1>6, <1>7, <1>8, <1>9, <1>10, <1>11, <1>12, <1>13, <1>14, <1>15, <1>16, <1>17, <1>18, <1>19, <1>20, <1>21, <1>22, <1>23, <1>24, <1>25, <1>26, <1>27
  DEF Next, HandlerStep, WorkerStep, WorkerProgress

\* A created row keeps its outcome; it becomes done only by the worker that
\* holds it at mark_done.
LEMMA OutcomeKept ==
  ASSUME TypeOK, [Next]_vars, NEW j \in Jobs, createdAt[j] # Never
  PROVE  /\ status[j] = "none" => status'[j] = "none"
         /\ status[j] = "done" => status'[j] \in {"done", "none"}
         /\ status'[j] = "done" =>
              status[j] = "done" \/ \E w \in Workers : wpc[w] = "mark_done" /\ wjob[w] = j
         /\ owner'[j] = owner[j] /\ question'[j] = question[j] /\ createdAt'[j] = createdAt[j]
<1>1. RowEvolves(j)
  BY RowStep DEF InsertJob
<1> QED
  BY <1>1 DEF RowEvolves, Open

Pushes ==
  /\ PushStaysTrue
  /\ \A w \in Workers : wpc[w] = "push" =>
       /\ wseen[w] = "done" => status[wjob[w]] \in {"done", "none"}
       /\ wseen[w] \in Open \cup {"error"} => status[wjob[w]] # "done"

LEMMA PushesInit == Init => Pushes
BY DEF Init, Pushes, PushStaysTrue

\* The rows an announcement speaks of, or is about to, keep what was read.
LEMMA AnnouncedKept ==
  ASSUME TypeOK, Places, Pushes, [Next]_vars
  PROVE  /\ \A j \in Jobs : /\ told[j] = "done" => status'[j] \in {"done", "none"}
                            /\ told[j] = "failed" => status'[j] # "done"
         /\ \A w \in Workers : wpc[w] = "push" =>
              /\ wseen[w] = "done" => status'[wjob[w]] \in {"done", "none"}
              /\ wseen[w] \in Open \cup {"error"} => status'[wjob[w]] # "done"
<1>1. ASSUME NEW j \in Jobs, told[j] # "nothing"
      PROVE  createdAt[j] # Never /\ ~Held(j)
  BY <1>1 DEF Places
<1>2. ASSUME NEW j \in Jobs
      PROVE  /\ told[j] = "done" => status'[j] \in {"done", "none"}
             /\ told[j] = "failed" => status'[j] # "done"
  <2>1. CASE told[j] = "nothing"
    BY <2>1
  <2>2. CASE told[j] # "nothing"
    <3>1. ~\E w \in Workers : wpc[w] = "mark_done" /\ wjob[w] = j
      BY <1>1, <2>2 DEF Held
    <3> QED
      BY <1>1, <2>2, <3>1, OutcomeKept DEF Pushes, PushStaysTrue
  <2> QED
    BY <2>1, <2>2
<1>3. ASSUME NEW w \in Workers, wpc[w] = "push"
      PROVE  /\ wseen[w] = "done" => status'[wjob[w]] \in {"done", "none"}
             /\ wseen[w] \in Open \cup {"error"} => status'[wjob[w]] # "done"
  <2> DEFINE j == wjob[w]
  <2>1. j \in Jobs /\ Held(j)
    BY <1>3 DEF TypeOK, Held
  <2>2. createdAt[j] # Never
    BY <2>1 DEF Places
  <2>3. ~\E v \in Workers : wpc[v] = "mark_done" /\ wjob[v] = j
    BY <1>3 DEF Places, OnePlacePerJob
  <2>4. /\ wseen[w] = "done" => status[j] \in {"done", "none"}
        /\ wseen[w] \in Open \cup {"error"} => status[j] # "done"
    BY <1>3 DEF Pushes
  <2> HIDE DEF j
  <2>5. /\ status[j] \in {"done", "none"} => status'[j] \in {"done", "none"}
        /\ status[j] # "done" => status'[j] # "done"
    BY <2>1, <2>2, <2>3, OutcomeKept
  <2> QED
    BY <2>4, <2>5 DEF j
<1> QED
  BY <1>2, <1>3

LEMMA PushesNext == TypeOK /\ Places /\ Pushes /\ [Next]_vars => Pushes'
<1> SUFFICES ASSUME TypeOK, Places, Pushes, [Next]_vars PROVE Pushes'
  OBVIOUS
<1> USE DEF vars, env, table, handlers, pool, outside
<1>1. CASE /\ UNCHANGED <<told, reused>>
           /\ \A w \in Workers : wpc'[w] = "push" =>
                wpc[w] = "push" /\ wseen'[w] = wseen[w] /\ wjob'[w] = wjob[w]
  BY <1>1, AnnouncedKept DEF Pushes, PushStaysTrue
<1>2. ASSUME NEW c \in Clients, NEW u \in Users, NEW q \in Questions, SubmitReused(c, u, q)
      PROVE  Pushes'
  BY <1>2 DEF SubmitReused, Pushes, PushStaysTrue
<1>3. ASSUME NEW w \in Workers, ReadOutcome(w) PROVE Pushes'
  <2>1. /\ UNCHANGED <<status, told, wjob>>
        /\ wseen'[w] = status[wjob[w]]
        /\ \A v \in Workers : v # w => wpc'[v] = wpc[v] /\ wseen'[v] = wseen[v]
    BY <1>3 DEF ReadOutcome, GoTo, TypeOK
  <2>2. ASSUME NEW v \in Workers, wpc'[v] = "push"
        PROVE  /\ wseen'[v] = "done" => status'[wjob'[v]] \in {"done", "none"}
               /\ wseen'[v] \in Open \cup {"error"} => status'[wjob'[v]] # "done"
    <3>1. CASE v = w
      BY <2>1, <3>1 DEF Open
    <3>2. CASE v # w
      BY <2>1, <2>2, <3>2 DEF Pushes
    <3> QED
      BY <3>1, <3>2
  <2> QED
    BY <2>1, <2>2 DEF Pushes, PushStaysTrue
<1>4. ASSUME NEW w \in Workers, PushOutcome(w) PROVE Pushes'
  <2> DEFINE x == wjob[w]
  <2>1. /\ UNCHANGED status
        /\ wpc[w] = "push" /\ wpc'[w] = "idle"
        /\ \A v \in Workers : v # w =>
             wpc'[v] = wpc[v] /\ wseen'[v] = wseen[v] /\ wjob'[v] = wjob[v]
    BY <1>4 DEF PushOutcome, WorkerReturns, GoTo, TypeOK
  <2>2. /\ \A j \in Jobs : j # x => told'[j] = told[j]
        /\ \/ told'[x] = told[x]
           \/ told'[x] = "done" /\ wseen[w] = "done"
           \/ told'[x] = "failed" /\ wseen[w] \notin {"none", "done"}
    BY <1>4 DEF PushOutcome, TypeOK
  <2>3. wseen[w] \notin {"none", "done"} => wseen[w] \in Open \cup {"error"}
    BY DEF TypeOK, Statuses, Open, Closed
  <2>4. /\ wseen[w] = "done" => status[x] \in {"done", "none"}
        /\ wseen[w] \in Open \cup {"error"} => status[x] # "done"
    BY <2>1 DEF Pushes
  <2>5. PushStaysTrue'
    BY <2>1, <2>2, <2>3, <2>4 DEF Pushes, PushStaysTrue
  <2>6. \A v \in Workers : wpc'[v] = "push" => v # w
    BY <2>1
  <2> QED
    BY <2>1, <2>5, <2>6 DEF Pushes
<1> QED
  BY <1>1, <1>2, <1>3, <1>4, AnswerStep

LEMMA PushesInv == Spec => []Pushes
BY TypeCorrect, PlacesInv, PushesInit, PushesNext, PTL DEF Spec

\* Nothing pushed is ever contradicted by the row: not by a zombie worker, a
\* sweep, a restart or the erasure between the read and the push.
THEOREM PushTrue == Spec => []PushStaysTrue
<1>1. Pushes => PushStaysTrue
  BY DEF Pushes
<1> QED
  BY <1>1, PushesInv, PTL

Reuses == ReusedReportIsDone /\ \A r \in reused : createdAt[r[3]] # Never

LEMMA ReusesNext == TypeOK /\ Stamps /\ Reuses /\ [Next]_vars => Reuses'
<1> SUFFICES ASSUME TypeOK, Stamps, Reuses, [Next]_vars PROVE Reuses'
  OBVIOUS
<1> USE DEF vars, env, table, handlers, pool, outside
<1>1. ASSUME NEW r \in reused
      PROVE  /\ createdAt'[r[3]] # Never
             /\ \/ status'[r[3]] = "none"
                \/ /\ status'[r[3]] = "done"
                   /\ owner'[r[3]] = r[1] /\ question'[r[3]] = r[2]
  <2>1. r[3] \in Jobs /\ createdAt[r[3]] # Never
    BY DEF Reuses, TypeOK
  <2> QED
    BY <2>1, OutcomeKept DEF Reuses, ReusedReportIsDone
<1>2. ASSUME reused' = reused PROVE Reuses'
  BY <1>1, <1>2 DEF Reuses, ReusedReportIsDone
<1>3. ASSUME NEW c \in Clients, NEW u \in Users, NEW q \in Questions, SubmitReused(c, u, q)
      PROVE  Reuses'
  <2>1. PICK j \in NewestDuplicates(u, q, now - DupWindow) : reused' = reused \cup {<<u, q, j>>}
    BY <1>3 DEF SubmitReused
  <2>2. j \in Jobs /\ status[j] = "done" /\ owner[j] = u /\ question[j] = q
    BY <2>1 DEF NewestDuplicates, Duplicates, RecentRowsOf, RowsOf
  <2>3. UNCHANGED <<status, owner, question, createdAt>>
    BY <1>3 DEF SubmitReused
  <2>4. createdAt[j] # Never
    BY <2>2 DEF Stamps
  <2> QED
    BY <2>1, <2>2, <2>3, <2>4 DEF Reuses, ReusedReportIsDone
<1>4. ASSUME NEW w \in Workers, ReadOutcome(w) \/ PushOutcome(w) PROVE reused' = reused
  BY <1>4 DEF ReadOutcome, PushOutcome
<1> QED
  BY <1>2, <1>3, <1>4, AnswerStep

LEMMA StampsInv == Spec => []Stamps
BY TypeInit, StampsInit, StampsNext, PTL DEF Spec

\* A reused answer keeps naming a finished report of that user and request.
THEOREM ReusedDone == Spec => []ReusedReportIsDone
<1>1. Init => Reuses
  BY DEF Init, Reuses, ReusedReportIsDone
<1>2. Reuses => ReusedReportIsDone
  BY DEF Reuses
<1> QED
  BY <1>1, <1>2, ReusesNext, TypeCorrect, StampsInv, PTL DEF Spec

(***************************************************************************)
(* Progress entries: only a worker past mark_running reports a step, and   *)
(* it drops the entry before it returns.                                   *)
(***************************************************************************)

InFlight(j) ==
  \E w \in Workers : wpc[w] \notin {"idle", "mark_running"} /\ wjob[w] = j
Live == \A j \in progress : InFlight(j)

LEMMA LiveNext == TypeOK /\ Live /\ [Next]_vars => Live'
<1> SUFFICES ASSUME TypeOK, Live, [Next]_vars PROVE Live'
  OBVIOUS
<1> USE DEF vars, env, table, handlers, pool, outside
<1>1. ASSUME NEW c \in Clients, NEW u \in Users, NEW q \in Questions, SubmitReused(c, u, q) PROVE Live'
  BY <1>1 DEF SubmitReused, Live, InFlight
<1>2. ASSUME NEW c \in Clients, NEW u \in Users, NEW q \in Questions, SubmitNew(c, u, q) PROVE Live'
  BY <1>2 DEF SubmitNew, Live, InFlight
<1>3. ASSUME NEW c \in Clients, NEW j \in Jobs, InsertJob(c, j) PROVE Live'
  BY <1>3 DEF InsertJob, Live, InFlight
<1>4. ASSUME NEW c \in Clients, RejectOverLimit(c) PROVE Live'
  BY <1>4 DEF RejectOverLimit, Live, InFlight
<1>5. ASSUME NEW c \in Clients, EnqueueJob(c) PROVE Live'
  BY <1>5 DEF EnqueueJob, Live, InFlight
<1>6. ASSUME NEW w \in Workers, PickUp(w) PROVE Live'
  BY <1>6 DEF PickUp, GoTo, TypeOK, Live, InFlight
<1>7. ASSUME NEW w \in Workers, MarkRunning(w) PROVE Live'
  BY <1>7 DEF MarkRunning, GoTo, TypeOK, Live, InFlight
<1>8. ASSUME NEW w \in Workers, MarkRunningFails(w) PROVE Live'
  BY <1>8 DEF MarkRunningFails, WorkerReturns, GoTo, TypeOK, Live, InFlight
<1>9. ASSUME NEW w \in Workers, ReportStep(w) PROVE Live'
  BY <1>9 DEF ReportStep, GoTo, TypeOK, Live, InFlight
<1>10. ASSUME NEW w \in Workers, AgentReturns(w) PROVE Live'
  BY <1>10 DEF AgentReturns, GoTo, TypeOK, Live, InFlight
<1>11. ASSUME NEW w \in Workers, AgentRaises(w) PROVE Live'
  BY <1>11 DEF AgentRaises, GoTo, TypeOK, Live, InFlight
<1>12. ASSUME NEW w \in Workers, AgentHangs(w) PROVE Live'
  BY <1>12 DEF AgentHangs, GoTo, TypeOK, Live, InFlight
<1>13. ASSUME NEW w \in Workers, MarkDone(w) PROVE Live'
  BY <1>13 DEF MarkDone, GoTo, TypeOK, Live, InFlight
<1>14. ASSUME NEW w \in Workers, MarkDoneFails(w) PROVE Live'
  BY <1>14 DEF MarkDoneFails, GoTo, TypeOK, Live, InFlight
<1>15. ASSUME NEW w \in Workers, TrackCall(w) PROVE Live'
  BY <1>15 DEF TrackCall, GoTo, TypeOK, Live, InFlight
<1>16. ASSUME NEW w \in Workers, MarkError(w) PROVE Live'
  BY <1>16 DEF MarkError, GoTo, TypeOK, Live, InFlight
<1>17. ASSUME NEW w \in Workers, MarkErrorFails(w) PROVE Live'
  BY <1>17 DEF MarkErrorFails, GoTo, TypeOK, Live, InFlight
<1>18. ASSUME NEW w \in Workers, MarkInternalFails(w) PROVE Live'
  BY <1>18 DEF MarkInternalFails, GoTo, TypeOK, Live, InFlight
<1>19. ASSUME NEW w \in Workers, ReadOutcome(w) PROVE Live'
  BY <1>19 DEF ReadOutcome, GoTo, TypeOK, Live, InFlight
<1>20. ASSUME NEW w \in Workers, PushOutcome(w) PROVE Live'
  BY <1>20 DEF PushOutcome, WorkerReturns, DropProgress, GoTo, TypeOK, Live, InFlight
<1>21. ASSUME NEW u \in Users, DeleteAccount(u) PROVE Live'
  BY <1>21 DEF DeleteAccount, Live, InFlight
<1>22. ASSUME NEW j \in Jobs, RemovePdf(j) PROVE Live'
  BY <1>22 DEF RemovePdf, Live, InFlight
<1>23. CASE SweepTimeouts
  BY <1>23 DEF SweepTimeouts, Live, InFlight
<1>24. CASE Crash
  BY <1>24 DEF Crash, Live
<1>25. CASE Startup
  BY <1>25 DEF Startup, Live, InFlight
<1>26. CASE Tick
  BY <1>26 DEF Tick, Live, InFlight
<1>27. CASE UNCHANGED vars
  BY <1>27 DEF Live, InFlight
<1> QED
  BY <1>1, <1>2, <1>3, <1>4, <1>5, <1>6, <1>7, <1>8, <1>9, <1>10, <1>11, <1>12, <1>13, <1>14, <1>15, <1>16, <1>17, <1>18, <1>19, <1>20, <1>21, <1>22, <1>23, <1>24, <1>25, <1>26, <1>27
  DEF Next, HandlerStep, WorkerStep, WorkerProgress

\* No progress entry outlives its run, however the run ends.
THEOREM ProgressLive == Spec => []ProgressIsLive
<1>1. Init => Live
  BY DEF Init, Live
<1>2. Live => ProgressIsLive
  BY DEF Live, InFlight, ProgressIsLive, Held
<1> QED
  BY <1>1, <1>2, LiveNext, TypeCorrect, PTL DEF Spec

(***************************************************************************)
(* Report files.  The strengthening: a worker about to mark a job done     *)
(* with a file has written it, and a file being removed has no row.        *)
(***************************************************************************)

Files ==
  /\ DonePdfExists
  /\ \A w \in Workers :
       wpc[w] = "mark_done" /\ wpdf[w] /\ status[wjob[w]] # "none" => wjob[w] \in pdfs
  /\ \A j \in toRemove : status[j] = "none" /\ createdAt[j] # Never

\* A step that finishes no job, writes no path and touches no file.
LEMMA FilesStay ==
  ASSUME TypeOK, Files, UNCHANGED <<pdfs, pdfPath, createdAt>>, toRemove' \subseteq toRemove,
         \A j \in Jobs : /\ status'[j] = "done" => status[j] = "done"
                         /\ status'[j] = "none" <=> status[j] = "none",
         \A w \in Workers : wpc'[w] = "mark_done" =>
           wpc[w] = "mark_done" /\ wpdf'[w] = wpdf[w] /\ wjob'[w] = wjob[w]
  PROVE  Files'
<1>1. DonePdfExists'
  BY DEF Files, DonePdfExists
<1>2. \A w \in Workers :
        wpc'[w] = "mark_done" /\ wpdf'[w] /\ status'[wjob'[w]] # "none" => wjob'[w] \in pdfs'
  <2> SUFFICES ASSUME NEW w \in Workers, wpc'[w] = "mark_done", wpdf'[w],
                      status'[wjob'[w]] # "none"
               PROVE  wjob[w] \in pdfs
    OBVIOUS
  <2>1. wpc[w] = "mark_done" /\ wpdf[w] /\ wjob'[w] = wjob[w]
    OBVIOUS
  <2>2. wjob[w] \in Jobs
    BY <2>1 DEF TypeOK
  <2> QED
    BY <2>1, <2>2 DEF Files
<1>3. \A j \in toRemove' : status'[j] = "none" /\ createdAt'[j] # Never
  BY DEF Files, TypeOK
<1> QED
  BY <1>1, <1>2, <1>3 DEF Files

LEMMA FilesNext == TypeOK /\ Places /\ Stamps /\ Files /\ [Next]_vars => Files'
<1> SUFFICES ASSUME TypeOK, Places, Stamps, Files, [Next]_vars PROVE Files'
  OBVIOUS
<1> USE DEF vars, env, table, handlers, pool, outside
<1>1. ASSUME NEW c \in Clients, NEW u \in Users, NEW q \in Questions, SubmitReused(c, u, q) PROVE Files'
  BY <1>1, FilesStay DEF SubmitReused
<1>2. ASSUME NEW c \in Clients, NEW u \in Users, NEW q \in Questions, SubmitNew(c, u, q) PROVE Files'
  BY <1>2, FilesStay DEF SubmitNew
<1>3. ASSUME NEW c \in Clients, NEW j \in Jobs, InsertJob(c, j) PROVE Files'
  <2>1. /\ createdAt[j] = Never
        /\ \A k \in Jobs : k # j => status'[k] = status[k] /\ createdAt'[k] = createdAt[k]
        /\ status'[j] = "pending"
        /\ \A w \in Workers : wpc'[w] = wpc[w] /\ wjob'[w] = wjob[w]
        /\ UNCHANGED <<pdfs, pdfPath, toRemove, wpdf>>
    BY <1>3 DEF InsertJob, TypeOK
  <2>2. ~Held(j)
    BY <2>1 DEF Places
  <2>3. \A w \in Workers : wpc[w] = "mark_done" => wjob[w] \in Jobs /\ wjob[w] # j
    BY <2>2 DEF Held, TypeOK
  <2>4. toRemove \subseteq Jobs /\ j \notin toRemove
    BY <2>1 DEF Files, TypeOK
  <2> QED
    BY <2>1, <2>3, <2>4 DEF Files, DonePdfExists
<1>4. ASSUME NEW c \in Clients, RejectOverLimit(c) PROVE Files'
  BY <1>4, FilesStay DEF RejectOverLimit
<1>5. ASSUME NEW c \in Clients, EnqueueJob(c) PROVE Files'
  BY <1>5, FilesStay DEF EnqueueJob
<1>6. ASSUME NEW w \in Workers, PickUp(w) PROVE Files'
  BY <1>6, FilesStay DEF PickUp, GoTo, TypeOK
<1>7. ASSUME NEW w \in Workers, MarkRunning(w) PROVE Files'
  BY <1>7, FilesStay DEF MarkRunning, GoTo, TypeOK
<1>8. ASSUME NEW w \in Workers, MarkRunningFails(w) PROVE Files'
  BY <1>8, FilesStay DEF MarkRunningFails, WorkerReturns, GoTo, TypeOK
<1>9. ASSUME NEW w \in Workers, ReportStep(w) PROVE Files'
  BY <1>9, FilesStay DEF ReportStep
<1>10. ASSUME NEW w \in Workers, AgentReturns(w) PROVE Files'
  <2>1. /\ \A v \in Workers : v # w => wpc'[v] = wpc[v] /\ wpdf'[v] = wpdf[v]
        /\ pdfs \subseteq pdfs' /\ (wpdf'[w] => wjob[w] \in pdfs')
        /\ UNCHANGED <<status, pdfPath, createdAt, toRemove, wjob>>
    BY <1>10 DEF AgentReturns, GoTo, TypeOK
  <2>2. DonePdfExists'
    BY <2>1 DEF Files, DonePdfExists
  <2>3. \A v \in Workers :
          wpc'[v] = "mark_done" /\ wpdf'[v] /\ status'[wjob'[v]] # "none" => wjob'[v] \in pdfs'
    BY <2>1 DEF Files
  <2> QED
    BY <2>1, <2>2, <2>3 DEF Files
<1>11. ASSUME NEW w \in Workers, AgentRaises(w) PROVE Files'
  BY <1>11, FilesStay DEF AgentRaises, GoTo, TypeOK
<1>12. ASSUME NEW w \in Workers, AgentHangs(w) PROVE Files'
  BY <1>12, FilesStay DEF AgentHangs, GoTo, TypeOK
<1>13. ASSUME NEW w \in Workers, MarkDone(w) PROVE Files'
  <2> DEFINE x == wjob[w]
  <2>1. /\ \A v \in Workers : v # w => wpc'[v] = wpc[v]
        /\ wpc[w] = "mark_done" /\ wpc'[w] = "track" /\ x \in Jobs
        /\ \A j \in Jobs : j # x => status'[j] = status[j] /\ pdfPath'[j] = pdfPath[j]
        /\ UNCHANGED <<pdfs, createdAt, toRemove, wjob, wpdf>>
    BY <1>13 DEF MarkDone, GoTo, TypeOK
  <2>2. /\ status[x] = "running" => status'[x] = "done" /\ pdfPath'[x] = wpdf[w]
        /\ status[x] # "running" => status'[x] = status[x] /\ pdfPath'[x] = pdfPath[x]
    BY <1>13 DEF MarkDone, Concluded, TypeOK
  <2>3. status[x] # "none" /\ wpdf[w] => x \in pdfs
    BY <2>1 DEF Files
  <2> HIDE DEF x
  <2>4. \A j \in Jobs : status'[j] = "none" <=> status[j] = "none"
    BY <2>1, <2>2
  <2>5. DonePdfExists'
    BY <2>1, <2>2, <2>3 DEF Files, DonePdfExists
  <2>6. \A v \in Workers :
          wpc'[v] = "mark_done" /\ wpdf'[v] /\ status'[wjob'[v]] # "none" => wjob'[v] \in pdfs'
    BY <2>1, <2>4 DEF Files, TypeOK
  <2>7. \A j \in toRemove' : status'[j] = "none" /\ createdAt'[j] # Never
    BY <2>1, <2>4 DEF Files, TypeOK
  <2> QED
    BY <2>5, <2>6, <2>7 DEF Files
<1>14. ASSUME NEW w \in Workers, MarkDoneFails(w) PROVE Files'
  BY <1>14, FilesStay DEF MarkDoneFails, GoTo, TypeOK
<1>15. ASSUME NEW w \in Workers, TrackCall(w) PROVE Files'
  BY <1>15, FilesStay DEF TrackCall, GoTo, TypeOK
<1>16. ASSUME NEW w \in Workers, MarkError(w) PROVE Files'
  BY <1>16, FilesStay DEF MarkError, Concluded, GoTo, TypeOK
<1>17. ASSUME NEW w \in Workers, MarkErrorFails(w) PROVE Files'
  BY <1>17, FilesStay DEF MarkErrorFails, GoTo, TypeOK
<1>18. ASSUME NEW w \in Workers, MarkInternalFails(w) PROVE Files'
  BY <1>18, FilesStay DEF MarkInternalFails, GoTo, TypeOK
<1>19. ASSUME NEW w \in Workers, ReadOutcome(w) PROVE Files'
  BY <1>19, FilesStay DEF ReadOutcome, GoTo, TypeOK
<1>20. ASSUME NEW w \in Workers, PushOutcome(w) PROVE Files'
  BY <1>20, FilesStay DEF PushOutcome, WorkerReturns, GoTo, TypeOK
<1>21. ASSUME NEW u \in Users, DeleteAccount(u) PROVE Files'
  <2>1. /\ \A j \in Jobs : \/ status'[j] = status[j] /\ pdfPath'[j] = pdfPath[j]
                           \/ status'[j] = "none"
        /\ \A j \in Jobs : status[j] = "none" => status'[j] = "none"
        /\ toRemove' = toRemove \cup RowsOf(u)
        /\ \A j \in RowsOf(u) : j \in Jobs /\ status[j] # "none" /\ status'[j] = "none"
        /\ UNCHANGED <<pdfs, createdAt, wpc, wjob, wpdf>>
    BY <1>21 DEF DeleteAccount, RowsOf
  <2>2. \A j \in toRemove' : status'[j] = "none" /\ createdAt'[j] # Never
    BY <2>1 DEF Files, Stamps, TypeOK
  <2>3. DonePdfExists'
    BY <2>1 DEF Files, DonePdfExists
  <2>4. \A w \in Workers :
          wpc'[w] = "mark_done" /\ wpdf'[w] /\ status'[wjob'[w]] # "none" => wjob'[w] \in pdfs'
    BY <2>1 DEF Files, TypeOK
  <2> QED
    BY <2>2, <2>3, <2>4 DEF Files
<1>22. ASSUME NEW j \in Jobs, RemovePdf(j) PROVE Files'
  <2>1. /\ status[j] = "none" /\ pdfs' = pdfs \ {j} /\ toRemove' \subseteq toRemove
        /\ UNCHANGED <<status, pdfPath, createdAt, wpc, wjob, wpdf>>
    BY <1>22 DEF RemovePdf, Files
  <2> QED
    BY <2>1 DEF Files, DonePdfExists
<1>23. CASE SweepTimeouts
  BY <1>23, FilesStay DEF SweepTimeouts, Overdue
<1>24. CASE Crash
  BY <1>24, FilesStay DEF Crash
<1>25. CASE Startup
  BY <1>25, FilesStay DEF Startup, Interrupted, Open
<1>26. CASE Tick
  BY <1>26, FilesStay DEF Tick
<1>27. CASE UNCHANGED vars
  BY <1>27, FilesStay
<1> QED
  BY <1>1, <1>2, <1>3, <1>4, <1>5, <1>6, <1>7, <1>8, <1>9, <1>10, <1>11, <1>12, <1>13, <1>14, <1>15, <1>16, <1>17, <1>18, <1>19, <1>20, <1>21, <1>22, <1>23, <1>24, <1>25, <1>26, <1>27
  DEF Next, HandlerStep, WorkerStep, WorkerProgress

\* The file a done row names is there until the row is gone, whatever zombies,
\* crashes and erasures do: GET .../pdf never finds a path without its file.
THEOREM DonePdf == Spec => []DonePdfExists
<1>1. Init => Files
  BY DEF Init, Files, DonePdfExists
<1>2. Files => DonePdfExists
  BY DEF Files
<1> QED
  BY <1>1, <1>2, FilesNext, TypeCorrect, PlacesInv, StampsInv, PTL DEF Spec

(***************************************************************************)
(* The contract of a job id: every step of the server, its workers, the    *)
(* sweep and a restart is a step of JobContract or leaves its variables    *)
(* alone.                                                                  *)
(***************************************************************************)

LEMMA PhaseAt ==
  ASSUME TypeOK, TypeOK', NEW j \in Jobs
  PROVE  /\ status[j] = "none" => Phase[j] = IF createdAt[j] = Never THEN "unborn" ELSE "erased"
         /\ status[j] \in Open => Phase[j] = "open"
         /\ status[j] = "done" => Phase[j] = "done"
         /\ status[j] = "error" => Phase[j] = "failed"
         /\ status'[j] = "none" =>
              Phase'[j] = IF createdAt'[j] = Never THEN "unborn" ELSE "erased"
         /\ status'[j] \in Open => Phase'[j] = "open"
         /\ status'[j] = "done" => Phase'[j] = "done"
         /\ status'[j] = "error" => Phase'[j] = "failed"
BY DEF TypeOK, Phase, PhaseOf, Open, Statuses, Closed

LEMMA PhaseStays ==
  ASSUME TypeOK, TypeOK', UNCHANGED createdAt,
         \A j \in Jobs : status'[j] = status[j] \/ {status[j], status'[j]} \subseteq Open
  PROVE  Phase' = Phase
<1>1. \A j \in Jobs : Phase'[j] = Phase[j]
  <2> SUFFICES ASSUME NEW j \in Jobs PROVE Phase'[j] = Phase[j]
    OBVIOUS
  <2>1. CASE status'[j] = status[j]
    BY <2>1 DEF Phase
  <2>2. CASE {status[j], status'[j]} \subseteq Open
    BY <2>2, PhaseAt
  <2> QED
    BY <2>1, <2>2
<1> QED
  BY <1>1 DEF Phase

\* Open rows put in error, by their worker, the sweep or a restart.
LEMMA RowsFail ==
  ASSUME TypeOK, TypeOK', NEW S \in SUBSET Jobs, \A j \in S : status[j] \in Open,
         \A j \in Jobs : status'[j] = IF j \in S THEN "error" ELSE status[j],
         UNCHANGED <<createdAt, told>>
  PROVE  Contract!Next
<1>1. \A j \in S : Phase[j] = "open" /\ Phase'[j] = "failed"
  BY PhaseAt
<1>2. \A j \in Jobs \ S : Phase'[j] = Phase[j]
  BY DEF Phase
<1>3. Phase' = [j \in Jobs |-> IF j \in S THEN "failed" ELSE Phase[j]]
  BY <1>1, <1>2 DEF Phase
<1> QED
  BY <1>1, <1>3 DEF Contract!Next, Contract!Fail

LEMMA ContractInit == Init => Contract!Init
<1> SUFFICES ASSUME Init PROVE Contract!Init
  OBVIOUS
<1>1. \A j \in Jobs : status[j] = "none" /\ createdAt[j] = Never
  BY DEF Init
<1>2. PhaseOf("none", Never) = "unborn"
  BY DEF PhaseOf, Open
<1>3. Phase = [j \in Jobs |-> "unborn"]
  BY <1>1, <1>2 DEF Phase
<1> QED
  BY <1>3 DEF Init, Contract!Init

LEMMA ContractStep ==
  TypeOK /\ TypeOK' /\ Places /\ Stamps /\ Pushes /\ [Next]_vars
    => [Contract!Next]_<<Phase, told>>
<1> SUFFICES ASSUME TypeOK, TypeOK', Places, Stamps, Pushes, [Next]_vars
             PROVE  [Contract!Next]_<<Phase, told>>
  OBVIOUS
<1> DEFINE Goal == Contract!Next \/ UNCHANGED <<Phase, told>>
<1> USE DEF vars, env, table, handlers, pool, outside
<1>1. ASSUME NEW c \in Clients, NEW u \in Users, NEW q \in Questions, SubmitReused(c, u, q) PROVE Goal
  BY <1>1 DEF SubmitReused, Phase
<1>2. ASSUME NEW c \in Clients, NEW u \in Users, NEW q \in Questions, SubmitNew(c, u, q) PROVE Goal
  BY <1>2 DEF SubmitNew, Phase
<1>3. ASSUME NEW c \in Clients, NEW j \in Jobs, InsertJob(c, j) PROVE Goal
  <2>1. /\ createdAt[j] = Never /\ createdAt'[j] # Never /\ status'[j] = "pending"
        /\ \A k \in Jobs : k # j => status'[k] = status[k] /\ createdAt'[k] = createdAt[k]
        /\ told' = told
    BY <1>3 DEF InsertJob, TypeOK, Never
  <2>2. status[j] = "none"
    BY <2>1 DEF Stamps
  <2>3. Phase[j] = "unborn" /\ Phase'[j] = "open"
    BY <2>1, <2>2, PhaseAt DEF Open
  <2>4. Phase' = [Phase EXCEPT ![j] = "open"]
    BY <2>1, <2>3 DEF Phase
  <2> QED
    BY <2>1, <2>3, <2>4 DEF Contract!Next, Contract!Accept
<1>4. ASSUME NEW c \in Clients, RejectOverLimit(c) PROVE Goal
  BY <1>4 DEF RejectOverLimit, Phase
<1>5. ASSUME NEW c \in Clients, EnqueueJob(c) PROVE Goal
  BY <1>5 DEF EnqueueJob, Phase
<1>6. ASSUME NEW w \in Workers, PickUp(w) PROVE Goal
  BY <1>6 DEF PickUp, Phase
<1>7. ASSUME NEW w \in Workers, MarkRunning(w) PROVE Goal
  BY <1>7, PhaseStays DEF MarkRunning, Open, TypeOK
<1>8. ASSUME NEW w \in Workers, MarkRunningFails(w) PROVE Goal
  BY <1>8 DEF MarkRunningFails, Phase
<1>9. ASSUME NEW w \in Workers, ReportStep(w) PROVE Goal
  BY <1>9 DEF ReportStep, Phase
<1>10. ASSUME NEW w \in Workers, AgentReturns(w) PROVE Goal
  BY <1>10 DEF AgentReturns, Phase
<1>11. ASSUME NEW w \in Workers, AgentRaises(w) PROVE Goal
  BY <1>11 DEF AgentRaises, Phase
<1>12. ASSUME NEW w \in Workers, AgentHangs(w) PROVE Goal
  BY <1>12 DEF AgentHangs, Phase
<1>13. ASSUME NEW w \in Workers, MarkDone(w) PROVE Goal
  <2> DEFINE x == wjob[w]
  <2>1. x \in Jobs /\ Held(x)
    BY <1>13 DEF MarkDone, TypeOK, Held
  <2>2. told[x] = "nothing"
    BY <2>1 DEF Places
  <2>3. /\ \A k \in Jobs : k # x => status'[k] = status[k]
        /\ status'[x] = IF status[x] = "running" THEN "done" ELSE status[x]
        /\ UNCHANGED <<createdAt, told>>
    BY <1>13 DEF MarkDone, Concluded, TypeOK
  <2> HIDE DEF x
  <2>4. CASE status[x] = "running"
    <3>1. Phase[x] = "open" /\ Phase'[x] = "done"
      BY <2>1, <2>3, <2>4, PhaseAt DEF Open
    <3>2. Phase' = [Phase EXCEPT ![x] = "done"]
      BY <2>1, <2>3, <3>1 DEF Phase
    <3> QED
      BY <2>1, <2>2, <2>3, <3>1, <3>2 DEF Contract!Next, Contract!Finish
  <2>5. CASE status[x] # "running"
    BY <2>1, <2>3, <2>5, PhaseStays
  <2> QED
    BY <2>4, <2>5
<1>14. ASSUME NEW w \in Workers, MarkDoneFails(w) PROVE Goal
  BY <1>14 DEF MarkDoneFails, Phase
<1>15. ASSUME NEW w \in Workers, TrackCall(w) PROVE Goal
  BY <1>15 DEF TrackCall, Phase
<1>16. ASSUME NEW w \in Workers, MarkError(w) PROVE Goal
  <2> DEFINE S == {j \in {wjob[w]} : status[j] = "running"}
  <2>1. /\ S \subseteq Jobs /\ \A j \in S : status[j] \in Open
        /\ \A j \in Jobs : status'[j] = IF j \in S THEN "error" ELSE status[j]
        /\ UNCHANGED <<createdAt, told>>
    BY <1>16 DEF MarkError, Concluded, TypeOK, Open
  <2> QED
    BY <2>1, RowsFail
<1>17. ASSUME NEW w \in Workers, MarkErrorFails(w) PROVE Goal
  BY <1>17 DEF MarkErrorFails, Phase
<1>18. ASSUME NEW w \in Workers, MarkInternalFails(w) PROVE Goal
  BY <1>18 DEF MarkInternalFails, Phase
<1>19. ASSUME NEW w \in Workers, ReadOutcome(w) PROVE Goal
  BY <1>19 DEF ReadOutcome, Phase
<1>20. ASSUME NEW w \in Workers, PushOutcome(w) PROVE Goal
  <2> DEFINE x == wjob[w]
  <2>1. x \in Jobs /\ Held(x) /\ wpc[w] = "push"
    BY <1>20 DEF PushOutcome, TypeOK, Held
  <2>2. told[x] = "nothing" /\ createdAt[x] # Never
    BY <2>1 DEF Places
  <2>3. /\ UNCHANGED <<status, createdAt>>
        /\ \/ told' = told
           \/ wseen[w] = "done" /\ told' = [told EXCEPT ![x] = "done"]
           \/ wseen[w] \notin {"none", "done"} /\ told' = [told EXCEPT ![x] = "failed"]
    BY <1>20 DEF PushOutcome
  <2>4. Phase' = Phase
    BY <2>3 DEF Phase
  <2>5. CASE told' = told
    BY <2>4, <2>5
  <2>6. CASE wseen[w] = "done" /\ told' = [told EXCEPT ![x] = "done"]
    <3>1. status[x] \in {"done", "none"}
      BY <2>1, <2>6 DEF Pushes
    <3>2. Phase[x] \in {"done", "erased"}
      BY <2>1, <2>2, <3>1, PhaseAt
    <3> QED
      BY <2>1, <2>2, <2>4, <2>6, <3>2 DEF Contract!Next, Contract!Announce
  <2>7. CASE wseen[w] \notin {"none", "done"} /\ told' = [told EXCEPT ![x] = "failed"]
    <3>1. wseen[w] \in Open \cup {"error"}
      BY <2>7 DEF TypeOK, Statuses, Open, Closed
    <3>2. status[x] # "done"
      BY <2>1, <3>1 DEF Pushes
    <3>3. Phase[x] \in {"open", "failed", "erased"}
      BY <2>1, <2>2, <3>2, PhaseAt DEF TypeOK, Statuses, Open, Closed
    <3> QED
      BY <2>1, <2>2, <2>4, <2>7, <3>3 DEF Contract!Next, Contract!Announce
  <2> QED
    BY <2>3, <2>5, <2>6, <2>7
<1>21. ASSUME NEW u \in Users, DeleteAccount(u) PROVE Goal
  <2> DEFINE S == RowsOf(u)
  <2>1. /\ S \subseteq Jobs /\ \A j \in S : status[j] # "none" /\ createdAt[j] # Never
        /\ \A j \in Jobs : status'[j] = IF j \in S THEN "none" ELSE status[j]
        /\ UNCHANGED <<createdAt, told>>
    BY <1>21 DEF DeleteAccount, RowsOf, Stamps
  <2> HIDE DEF S
  <2>2. /\ \A j \in S : Phase[j] # "unborn" /\ Phase'[j] = "erased"
        /\ \A j \in Jobs \ S : Phase'[j] = Phase[j]
    <3>1. \A j \in S : Phase[j] # "unborn" /\ Phase'[j] = "erased"
      BY <2>1, PhaseAt DEF TypeOK, Statuses, Open, Closed
    <3>2. \A j \in Jobs \ S : Phase'[j] = Phase[j]
      BY <2>1 DEF Phase
    <3> QED
      BY <3>1, <3>2
  <2>3. Phase' = [j \in Jobs |-> IF j \in S THEN "erased" ELSE Phase[j]]
    BY <2>1, <2>2 DEF Phase
  <2> QED
    BY <2>1, <2>2, <2>3 DEF Contract!Next, Contract!Erase
<1>22. ASSUME NEW j \in Jobs, RemovePdf(j) PROVE Goal
  BY <1>22 DEF RemovePdf, Phase
<1>23. CASE SweepTimeouts
  BY <1>23, RowsFail DEF SweepTimeouts, Overdue, Open
<1>24. CASE Crash
  BY <1>24 DEF Crash, Phase
<1>25. CASE Startup
  BY <1>25, RowsFail DEF Startup, Interrupted, Open
<1>26. CASE Tick
  BY <1>26 DEF Tick, Phase
<1>27. CASE UNCHANGED vars
  BY <1>27 DEF Phase
<1> QED
  BY <1>1, <1>2, <1>3, <1>4, <1>5, <1>6, <1>7, <1>8, <1>9, <1>10, <1>11, <1>12, <1>13, <1>14, <1>15, <1>16, <1>17, <1>18, <1>19, <1>20, <1>21, <1>22, <1>23, <1>24, <1>25, <1>26, <1>27
  DEF Next, HandlerStep, WorkerStep, WorkerProgress

\* Whatever threads, sweeps, crashes and erasures do behind it, a job id has one
\* outcome, announced at most once and never contradicted.
THEOREM Implements == Spec => ImplementsContract
<1>1. Spec => [][Contract!Next]_<<Phase, told>>
  BY TypeCorrect, PlacesInv, StampsInv, PushesInv, ContractStep, PTL DEF Spec
<1> QED
  BY <1>1, ContractInit, PTL DEF Spec, ImplementsContract, Contract!Spec

(***************************************************************************)
(* Consequences of the contract, of the code's own jobs.                   *)
(***************************************************************************)

\* The answers and announcements of the contract are those it lists.
LEMMA ContractAnswers == Contract!Spec => []Contract!AnswersOK
<1> USE DEF Contract!AnswersOK, Contract!Phases, Contract!Announcements
<1>1. Contract!Init => Contract!AnswersOK
  BY DEF Contract!Init
<1>2. Contract!AnswersOK /\ [Contract!Next]_<<Phase, told>> => Contract!AnswersOK'
  BY DEF Contract!Next, Contract!Accept, Contract!Finish, Contract!Fail, Contract!Erase,
         Contract!Announce
<1> QED
  BY <1>1, <1>2, PTL DEF Contract!Spec

\* No step of the contract makes an announcement false.
LEMMA ContractAnnouncements ==
  Contract!AnswersOK /\ Contract!AnnouncementHolds /\ [Contract!Next]_<<Phase, told>>
    => Contract!AnnouncementHolds'
<1> SUFFICES ASSUME Contract!AnswersOK, Contract!AnnouncementHolds,
                    [Contract!Next]_<<Phase, told>>
             PROVE  Contract!AnnouncementHolds'
  OBVIOUS
<1> USE DEF Contract!AnswersOK, Contract!Phases, Contract!Announcements,
            Contract!AnnouncementHolds
<1>1. ASSUME NEW j \in Jobs, Contract!Accept(j) \/ Contract!Finish(j)
      PROVE  Contract!AnnouncementHolds'
  BY <1>1 DEF Contract!Accept, Contract!Finish
<1>2. ASSUME NEW S \in SUBSET Jobs, Contract!Fail(S) \/ Contract!Erase(S)
      PROVE  Contract!AnnouncementHolds'
  BY <1>2 DEF Contract!Fail, Contract!Erase
<1>3. ASSUME NEW j \in Jobs, NEW what \in {"done", "failed"}, Contract!Announce(j, what)
      PROVE  Contract!AnnouncementHolds'
  BY <1>3 DEF Contract!Announce
<1>4. CASE UNCHANGED <<Phase, told>>
  BY <1>4
<1> QED
  BY <1>1, <1>2, <1>3, <1>4 DEF Contract!Next

\* A client told that its report is ready finds it, or nothing any more; one told that the
\* job failed never finds a report (push_notifications.send_push, GET /v1/research/{job_id}).
THEOREM AnnouncementsTrue == Spec => []Contract!AnnouncementHolds
<1>1. Contract!Init => Contract!AnnouncementHolds
  BY DEF Contract!Init, Contract!AnnouncementHolds
<1>2. Contract!Spec => []Contract!AnnouncementHolds
  BY <1>1, ContractAnnouncements, ContractAnswers, PTL DEF Contract!Spec
<1> QED
  BY <1>2, Implements, PTL DEF ImplementsContract

\* What a step of the contract may not do to an outcome or an announcement.
LEMMA ContractFinal ==
  ASSUME Contract!AnswersOK, Contract!Next, NEW k \in Jobs
  PROVE  /\ Phase[k] \in {"done", "failed"} => Phase'[k] \in {Phase[k], "erased"}
         /\ Phase[k] = "erased" => Phase'[k] = "erased"
         /\ told[k] # "nothing" => told'[k] = told[k]
<1> DEFINE Final == /\ Phase[k] \in {"done", "failed"} => Phase'[k] \in {Phase[k], "erased"}
                    /\ Phase[k] = "erased" => Phase'[k] = "erased"
                    /\ told[k] # "nothing" => told'[k] = told[k]
<1> USE DEF Contract!AnswersOK
<1>1. ASSUME NEW j \in Jobs, Contract!Accept(j) \/ Contract!Finish(j) PROVE Final
  BY <1>1 DEF Contract!Accept, Contract!Finish
<1>2. ASSUME NEW S \in SUBSET Jobs, Contract!Fail(S) \/ Contract!Erase(S) PROVE Final
  BY <1>2 DEF Contract!Fail, Contract!Erase
<1>3. ASSUME NEW j \in Jobs, NEW what \in {"done", "failed"}, Contract!Announce(j, what)
      PROVE  Final
  BY <1>3 DEF Contract!Announce
<1> QED
  BY <1>1, <1>2, <1>3 DEF Contract!Next

\* An outcome a client has read is never replaced by another one, an erased job never comes
\* back, and nothing is announced twice.
THEOREM OutcomeFinal == Spec => Contract!OutcomeIsFinal
<1> DEFINE Final ==
      \A j \in Jobs :
        /\ Phase[j] \in {"done", "failed"} => Phase'[j] \in {Phase[j], "erased"}
        /\ Phase[j] = "erased" => Phase'[j] = "erased"
        /\ told[j] # "nothing" => told'[j] = told[j]
<1>1. Contract!AnswersOK /\ [Contract!Next]_<<Phase, told>> => [Final]_<<Phase, told>>
  BY ContractFinal
<1>2. Contract!Spec => Contract!OutcomeIsFinal
  BY <1>1, ContractAnswers, PTL DEF Contract!Spec, Contract!OutcomeIsFinal
<1> QED
  BY <1>2, Implements, PTL DEF ImplementsContract
=============================================================================
