---------------------------- MODULE JobContract ----------------------------
(***************************************************************************)
(* What the API promises about a job id it has handed out, whatever        *)
(* threads, sweeps and restarts do behind it: the job has at most one      *)
(* outcome, for ever, until its account is erased; and at most one         *)
(* announcement of it is pushed, which the outcome never contradicts.      *)
(***************************************************************************)
CONSTANT Jobs

VARIABLES
  phase,  \* what GET /v1/research/{job_id} would answer
  told    \* what the push notification said

Phases == {"unborn", "open", "done", "failed", "erased"}
Announcements == {"nothing", "done", "failed"}

Init ==
  /\ phase = [j \in Jobs |-> "unborn"]
  /\ told = [j \in Jobs |-> "nothing"]

Accept(j) ==
  /\ phase[j] = "unborn"
  /\ phase' = [phase EXCEPT ![j] = "open"]
  /\ UNCHANGED told

\* A result may no longer be published once a failure has been announced.
Finish(j) ==
  /\ phase[j] = "open" /\ told[j] # "failed"
  /\ phase' = [phase EXCEPT ![j] = "done"]
  /\ UNCHANGED told

\* Several jobs may fail at once (a sweep, a restart).
Fail(S) ==
  /\ \A j \in S : phase[j] = "open"
  /\ phase' = [j \in Jobs |-> IF j \in S THEN "failed" ELSE phase[j]]
  /\ UNCHANGED told

Erase(S) ==
  /\ \A j \in S : phase[j] # "unborn"
  /\ phase' = [j \in Jobs |-> IF j \in S THEN "erased" ELSE phase[j]]
  /\ UNCHANGED told

\* An announcement may come late, after the account is gone, but once, and a
\* success only of a finished job.
Announce(j, what) ==
  /\ told[j] = "nothing"
  /\ \/ what = "done" /\ phase[j] \in {"done", "erased"}
     \/ what = "failed" /\ phase[j] \in {"open", "failed", "erased"}
  /\ told' = [told EXCEPT ![j] = what]
  /\ UNCHANGED phase

Next ==
  \/ \E j \in Jobs : Accept(j) \/ Finish(j)
  \/ \E S \in SUBSET Jobs : Fail(S) \/ Erase(S)
  \/ \E j \in Jobs, what \in {"done", "failed"} : Announce(j, what)

Spec == Init /\ [][Next]_<<phase, told>>

-----------------------------------------------------------------------------
AnswersOK == /\ phase \in [Jobs -> Phases]
             /\ told \in [Jobs -> Announcements]

\* Nothing announced is ever contradicted by what the client then finds.
AnnouncementHolds ==
  \A j \in Jobs : /\ told[j] = "done" => phase[j] \in {"done", "erased"}
                  /\ told[j] = "failed" => phase[j] # "done"

\* An outcome, once there, changes only by being erased; what was announced is
\* not announced again.
OutcomeIsFinal ==
  [][\A j \in Jobs :
       /\ phase[j] \in {"done", "failed"} => phase'[j] \in {phase[j], "erased"}
       /\ phase[j] = "erased" => phase'[j] = "erased"
       /\ told[j] # "nothing" => told'[j] = told[j]]_<<phase, told>>

=============================================================================
