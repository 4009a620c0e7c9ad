------------------------------ MODULE MCSweeps ------------------------------
(***************************************************************************)
(* Sweeps in four scenes, a bound on what runs beside what: rating sweeps  *)
(* overlap and nobody is briefed; or one rating sweep runs beside either a *)
(* briefing sweep and requests for a briefing, or two briefing sweeps, for *)
(* users who stay and keep the one ticker they track, whose rating changes *)
(* once; or sweeps score the call that CallTracker has logged on its first *)
(* day.                                                                    *)
(***************************************************************************)
EXTENDS Sweeps

CONSTANTS w1, d1, t1, Windows, Prices, MaxDay, MaxCalls, MaxOutages, MaxMoves

\* A call is looked at after so many days; a price can be halved.
ASSUME TrackerAssumption ==
  /\ Windows \subseteq Nat /\ IsFiniteSet(Windows) /\ {MaxDay, MaxCalls} \subseteq Nat
  /\ \A p \in Prices : p \in Nat /\ p % 2 = 0

VARIABLES day, bars, splits, moves, calls, outcomes, sweep, outages,
          scene

Tracker == INSTANCE CallTracker WITH MaxFaults <- MaxOutages, faults <- outages

tracker == <<day, bars, splits, moves, calls, outcomes, sweep, outages>>

MCInit == Init /\ Tracker!Init /\ scene \in {"alerts", "requests", "digests", "calls"}

Proposing ==
  /\ scene \in {"alerts", "requests", "digests"} /\ Next
  /\ scene = "alerts" => UNCHANGED <<briefing, asked, clock>>
  /\ scene = "digests" => UNCHANGED asked
  /\ scene = "requests" => clock' <= 1 /\ \A d \in Digesters \ {d1} : UNCHANGED briefing[d]
  /\ scene \in {"requests", "digests"} =>
       /\ UNCHANGED users
       /\ reports' <= 1
       /\ \A p \in Pairs : rating'[p] \in {None, CHOOSE r \in Ratings : TRUE}
       /\ \A u \in Users : tracked[u] \subseteq tracked'[u] /\ tracked'[u] \subseteq {t1}
       /\ \A w \in Sweepers \ {w1} : UNCHANGED alerting[w]
  /\ UNCHANGED tracker

Scoring ==
  /\ scene = "calls" /\ Tracker!Next
  /\ calls' # calls => day = 0
  /\ UNCHANGED vars

MCNext == UNCHANGED scene /\ (Proposing \/ Scoring)

MCSpec == MCInit /\ [][MCNext]_<<vars, tracker, scene>> /\ Fairness /\ Tracker!Fairness

-----------------------------------------------------------------------------
(* The properties of CallTracker, of this instance *)

\* A call is scored by the close of its own date, however late the sweep runs, and beside the
\* two other raters by the same rule and over the same rows.
OutcomesHold == Tracker!OutcomesHold

\* Every new rating gets proposed, and every call gets scored once it is due.
SweepsCatchUp == RatingsAreProposed /\ Tracker!DueGetsScored

\* What comments of call_tracker.py promise, and the code does not keep.
BatchIsTried == Tracker!BatchIsTried
ScoredOnce == Tracker!ScoredOnce
SplitsAreNoLosses == Tracker!SplitsAreNoLosses
=============================================================================
