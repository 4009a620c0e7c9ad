---------------------------- MODULE ResearchPage ----------------------------
(***************************************************************************)
(* The research of the home page (lib/useResearch.ts, app/page.tsx): a     *)
(* question is submitted and its job polled, a report of an earlier job is *)
(* opened, and the page goes back to the search.  There is one flag that   *)
(* tells the polling to end, for all submissions.                          *)
(***************************************************************************)
EXTENDS Naturals, FiniteSets

CONSTANTS
  Questions,       \* submissions; the job of each has its name
  Reports,         \* jobs done before
  None,
  MaxOpened        \* bound: reports opened

VARIABLES
  status, jobId, result, fromCache,
  cancelled,       \* cancelledRef
  loop,            \* of each submission, what it waits for
  opening,         \* reports asked for by loadJob
  job,             \* the jobs, on the server
  lastReport,      \* localStorage: the job and its result
  crossed,         \* history: a question came beside another or a report being opened, or a
                   \* report was asked for while a question or a poll was being answered
  interrupted,     \* history: a report was asked for while research ran
  opened

page == <<status, jobId, result, fromCache>>
vars == <<page, cancelled, loop, opening, job, lastReport, crossed, interrupted, opened>>

Busy == status \in {"submitting", "running"}

Following(q) == loop[q] \in {"posting", "waiting", "polling"}

Show(s, j, r, cached) == status' = s /\ jobId' = j /\ result' = r /\ fromCache' = cached

\* On a first visit, or offline: what the last visit left
Init ==
  /\ lastReport \in {None} \cup Reports
  /\ \/ status = "idle" /\ jobId = None /\ result = None /\ fromCache = FALSE
     \/ lastReport # None /\ status = "done" /\ jobId = lastReport /\ result = lastReport /\ fromCache = TRUE
  /\ cancelled = FALSE
  /\ loop = [q \in Questions |-> "none"] /\ opening = {}
  /\ job = [q \in Questions |-> "none"]
  /\ crossed = FALSE /\ interrupted = FALSE /\ opened = 0

\* By the form, when not busy, or by a link with a question, at any time
Submit(q) ==
  /\ loop[q] = "none"
  /\ cancelled' = FALSE
  /\ Show("submitting", None, None, FALSE)
  /\ loop' = [loop EXCEPT ![q] = "posting"]
  /\ crossed' = (crossed \/ opening # {} \/ \E p \in Questions : Following(p))
  /\ UNCHANGED <<opening, job, lastReport, interrupted, opened>>

\* The loop is entered only if nothing has cancelled it; the page says running regardless.
Posted(q) ==
  /\ loop[q] = "posting"
  /\ job' = [job EXCEPT ![q] = "running"]
  /\ status' = "running" /\ jobId' = q /\ UNCHANGED <<result, fromCache>>
  /\ loop' = [loop EXCEPT ![q] = IF cancelled THEN "over" ELSE "waiting"]
  /\ UNCHANGED <<cancelled, opening, lastReport, crossed, interrupted, opened>>

Fails(q) ==
  /\ status' = "error" /\ UNCHANGED <<jobId, result, fromCache>>
  /\ loop' = [loop EXCEPT ![q] = "over"]
  /\ UNCHANGED <<cancelled, opening, job, lastReport, crossed, interrupted, opened>>

NotPosted(q) == loop[q] = "posting" /\ Fails(q)

\* Variant: the flag is not looked at.
GoesOnAlways == TRUE

GoesOn == ~cancelled

\* POLL_INTERVAL_MS later
Wake(q) ==
  /\ loop[q] = "waiting"
  /\ loop' = [loop EXCEPT ![q] = IF GoesOn THEN "polling" ELSE "over"]
  /\ UNCHANGED <<page, cancelled, opening, job, lastReport, crossed, interrupted, opened>>

\* The job is not over, or the answer is an error's, which has no status.
StillRunning(q) ==
  /\ loop[q] = "polling"
  /\ loop' = [loop EXCEPT ![q] = IF GoesOn THEN "waiting" ELSE "over"]
  /\ UNCHANGED <<page, cancelled, opening, job, lastReport, crossed, interrupted, opened>>

\* The result is put beside whatever job the page names by now.
Done(q) ==
  /\ loop[q] = "polling" /\ job[q] = "done"
  /\ lastReport' = q
  /\ Show("done", jobId, q, FALSE)
  /\ loop' = [loop EXCEPT ![q] = "over"]
  /\ UNCHANGED <<cancelled, opening, job, crossed, interrupted, opened>>

\* The job has failed, or the connection
PollFails(q) == loop[q] = "polling" /\ Fails(q)

\* An answer that is no JSON, or breaks off: nothing catches it, and the page stays as it is.
\* The job has been made.
NotRead(q) ==
  /\ loop[q] \in {"posting", "polling"}
  /\ job' = (IF loop[q] = "posting" THEN [job EXCEPT ![q] = "running"] ELSE job)
  /\ loop' = [loop EXCEPT ![q] = "unread"]
  /\ UNCHANGED <<page, cancelled, opening, lastReport, crossed, interrupted, opened>>

\* The server: the job ends.
JobEnds(q) ==
  /\ job[q] = "running"
  /\ \E s \in {"done", "error"} : job' = [job EXCEPT ![q] = s]
  /\ UNCHANGED <<page, cancelled, loop, opening, lastReport, crossed, interrupted, opened>>

\* loadJob
Open(r) ==
  /\ opened < MaxOpened /\ opened' = opened + 1
  /\ r \notin opening
  /\ cancelled' = TRUE /\ opening' = opening \cup {r}
  /\ crossed' = (crossed \/ \E q \in Questions : loop[q] \in {"posting", "polling"})
  /\ interrupted' = (interrupted \/ Busy)
  /\ UNCHANGED <<page, loop, job, lastReport>>

Opened(r) ==
  /\ r \in opening /\ opening' = opening \ {r}
  /\ Show("done", r, r, FALSE)
  /\ UNCHANGED <<cancelled, loop, job, lastReport, crossed, interrupted, opened>>

\* No connection; or the row is not one of a job done, and nothing is shown of it.
NotOpened(r) ==
  /\ r \in opening /\ opening' = opening \ {r}
  /\ status' \in {"error", status} /\ UNCHANGED <<jobId, result, fromCache>>
  /\ UNCHANGED <<cancelled, loop, job, lastReport, crossed, interrupted, opened>>

\* reset: the button is beside the report.
Back ==
  /\ status = "done" /\ result # None /\ jobId # None
  /\ cancelled' = TRUE /\ Show("idle", None, None, FALSE)
  /\ UNCHANGED <<loop, opening, job, lastReport, crossed, interrupted, opened>>

Next ==
  \/ \E q \in Questions : Submit(q) \/ Posted(q) \/ NotPosted(q) \/ Wake(q) \/ StillRunning(q)
                            \/ Done(q) \/ PollFails(q) \/ NotRead(q) \/ JobEnds(q)
  \/ \E r \in Reports : Open(r) \/ Opened(r) \/ NotOpened(r)
  \/ Back

-----------------------------------------------------------------------------
(* Properties *)

\* The question that the page is about had an answer that could not be read.
Abandoned == \E q \in Questions : loop[q] = "unread" /\ jobId \in {None, q}

\* A page that says research is running follows it, and the report shown is that of the job
\* it is shown and shared under: also when reports are opened while research waits for its
\* next poll.  Provided no question came beside another, and no report beside an answer
\* awaited; a report asked for while research ran may also not open, and an answer may not
\* be one to read.
FollowsItsJob ==
  ~crossed =>
    /\ status = "done" => result = jobId
    /\ Busy /\ ~interrupted => Abandoned \/ \E q \in Questions : Following(q)

-----------------------------------------------------------------------------
(* What the code does not have: refuted by hand in web_client.cfg.     *)

\* A link with a question "prefills and immediately runs it" (page.tsx), also while another is
\* researched, whose result is then shown under this one's job.
ResultIsOfItsJob == status = "done" => result = jobId

\* A page that says research is running will say something else.  A report opened while the
\* question is sent, one that cannot be opened, or an answer that cannot be read leaves it
\* running for ever.
RunningIsFollowed ==
  Busy => opening # {} \/ \E q \in Questions : Following(q)
=============================================================================
