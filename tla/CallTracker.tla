----------------------------- MODULE CallTracker -----------------------------
(***************************************************************************)
(* The calls FinSight is held to: every rating of a report is logged with  *)
(* its price (log_tracked_call, called by jobs.py after mark_done), looked *)
(* at again at fixed distances in time by the call-outcome sweep           *)
(* (check_matured_checkpoints, behind a cron call that may overlap the     *)
(* next one), and shown beside two raters that always say the same         *)
(* (get_scoreboard, reasoning/call_tracker.py).                            *)
(*                                                                         *)
(* Time goes in days, of which some have no session.  A day's close moves  *)
(* until the day is over.  The history of prices is adjusted for splits,   *)
(* the price logged with a call is not.  One ticker, as nothing but the    *)
(* history depends on it.                                                  *)
(***************************************************************************)
EXTENDS Integers, Sequences, FiniteSets, FiniteSetsExt, SequencesExt

CONSTANTS
  Sweepers,
  Windows,         \* TRACKED_WINDOWS_DAYS
  Prices,          \* before a split; even
  None,
  MaxDay, MaxCalls, MaxFaults,
  MaxMoves         \* bound: changes of a day's price, and splits

VARIABLES
  day, bars,       \* the history of prices: of each day its close, or None
  splits,
  calls,           \* tracked_calls
  outcomes,        \* tracked_call_checkpoints, by call and window
  sweep,           \* of each sweep, the rows it found due and the price it has for the first
  faults, moves

market == <<day, bars, splits, moves>>
vars == <<market, calls, outcomes, sweep, faults>>

Days == 0..MaxDay
CallRatings == {"Buy", "Hold", "Sell"}
Idle == [due |-> <<>>, price |-> None]

Row == (1..MaxCalls) \X Windows
Due(r) == calls[r[1]].day + r[2]
Pending(r) == r[1] <= Len(calls) /\ outcomes[r] = None

Trading(b) == {d \in Days : b[d] # None}

Init ==
  /\ day = 0 /\ bars \in [Days -> {None}] /\ splits = 0 /\ moves = 0
  /\ calls = <<>> /\ outcomes = [r \in Row |-> None]
  /\ sweep = [w \in Sweepers |-> Idle] /\ faults = 0

-----------------------------------------------------------------------------
(* The market *)

Quoted(p) == bars' = [bars EXCEPT ![day] = p]
Scaled == {p \div 2 ^ splits : p \in Prices}

Opens ==
  /\ bars[day] = None /\ \E p \in Scaled : Quoted(p)
  /\ UNCHANGED <<day, splits, moves, calls, outcomes, sweep, faults>>

Moves ==
  /\ bars[day] # None /\ moves < MaxMoves /\ moves' = moves + 1
  /\ \E p \in Scaled \ {bars[day]} : Quoted(p)
  /\ UNCHANGED <<day, splits, calls, outcomes, sweep, faults>>

DayPasses ==
  /\ day < MaxDay /\ day' = day + 1
  /\ UNCHANGED <<bars, splits, moves, calls, outcomes, sweep, faults>>

Split ==
  /\ splits = 0 /\ splits' = 1 /\ moves < MaxMoves /\ moves' = moves + 1
  /\ bars' = [d \in Days |-> IF bars[d] = None THEN None ELSE bars[d] \div 2]
  /\ UNCHANGED <<day, calls, outcomes, sweep, faults>>

-----------------------------------------------------------------------------
(* log_tracked_call *)

\* The price of a report is the last one quoted, or nothing, or zero.
Known == IF Trading(bars) = {} THEN {} ELSE {bars[Max(Trading(bars))]}

Log ==
  /\ Len(calls) < MaxCalls
  /\ \E rating \in CallRatings, price \in Known \cup {0} :
       calls' = Append(calls, [rating |-> rating, price |-> price, day |-> day, splits |-> splits])
  /\ UNCHANGED <<market, outcomes, sweep, faults>>

-----------------------------------------------------------------------------
(* baseline_scoring *)

\* Beyond five per cent in either direction: r is the price before and the price after.
Gains(r) == 100 * (r[2] - r[1]) > 5 * r[1]
Loses(r) == 100 * (r[2] - r[1]) < -5 * r[1]
score_rating(rating, r) ==
  CASE rating = "Buy" -> Gains(r)
    [] rating = "Sell" -> Loses(r)
    [] rating = "Hold" -> ~Gains(r) /\ ~Loses(r)

-----------------------------------------------------------------------------
(* check_matured_checkpoints *)

Distance(d, e) == IF d < e THEN e - d ELSE d - e

\* Variant: the price there is when the sweep runs
Latest(b, date) == Max(Trading(b))

\* The nearest day with a session, of two the earlier one
Nearest(b, date) ==
  CHOOSE d \in Trading(b) :
    \A e \in Trading(b) \ {d} :
      \/ Distance(d, date) < Distance(e, date)
      \/ Distance(d, date) = Distance(e, date) /\ d < e

\* list_maturable_checkpoints: in no particular order
Begin(w) ==
  /\ sweep[w] = Idle
  /\ LET due == {r \in Row : Pending(r) /\ Due(r) <= day}
     IN  due # {} /\ \E rows \in SetToSeqs(due) : sweep' = [sweep EXCEPT ![w].due = rows]
  /\ UNCHANGED <<market, calls, outcomes, faults>>

\* The rest of the rows, or none of them after an exception
GoesOn(w) == sweep' = [sweep EXCEPT ![w] = [due |-> Tail(@.due), price |-> None]]
Raises(w) == sweep' = [sweep EXCEPT ![w] = Idle]

\* get_historical_prices, _closest_price_on_or_near and the division by the price of the call
Price(w) ==
  /\ sweep[w].due # <<>> /\ sweep[w].price = None
  /\ LET r == Head(sweep[w].due)
         call == calls[r[1]]
         bar == Nearest(bars, Due(r))
     IN  IF Trading(bars) = {} THEN GoesOn(w)
         ELSE IF call.price = 0 THEN Raises(w)
         ELSE sweep' = [sweep EXCEPT ![w].price =
                [close |-> bars[bar], day |-> bar, read |-> day, splits |-> splits]]
  /\ UNCHANGED <<market, calls, outcomes, faults>>

Fault == faults < MaxFaults /\ faults' = faults + 1

HistoryFails(w) ==
  /\ sweep[w].due # <<>> /\ sweep[w].price = None
  /\ Fault /\ GoesOn(w)
  /\ UNCHANGED <<market, calls, outcomes>>

\* record_checkpoint_outcome
Record(w) ==
  /\ sweep[w].price # None
  /\ LET r == Head(sweep[w].due)
         p == sweep[w].price
         realized == <<calls[r[1]].price, p.close>>
     IN  outcomes' = [outcomes EXCEPT ![r] =
           [realized |-> realized, correct |-> score_rating(calls[r[1]].rating, realized),
            day |-> p.day, read |-> p.read, splits |-> p.splits]]
  /\ GoesOn(w)
  /\ UNCHANGED <<market, calls, faults>>

\* The database is locked, or the process dies.
RecordFails(w) ==
  /\ sweep[w].price # None /\ Fault /\ Raises(w)
  /\ UNCHANGED <<market, calls, outcomes>>

Sweep(w) == Begin(w) \/ Price(w) \/ Record(w)

Next ==
  \/ Opens \/ Moves \/ DayPasses \/ Split \/ Log
  \/ \E w \in Sweepers : Sweep(w) \/ HistoryFails(w) \/ RecordFails(w)

Spec == Init /\ [][Next]_vars

\* The cron job calls again and again.
Fairness == \A w \in Sweepers : WF_vars(Sweep(w))

-----------------------------------------------------------------------------
(* get_scoreboard *)

ScoredRows(n) == {r \in Row : r[2] = n /\ outcomes[r] # None}
Accuracy(rows, Right(_)) ==
  IF rows = {} THEN None ELSE <<Cardinality({r \in rows : Right(r)}), Cardinality(rows)>>
ModelAccuracy(rows) == Accuracy(rows, LAMBDA r : outcomes[r].correct)
naive_baseline_accuracy(rows, rating) ==
  Accuracy(rows, LAMBDA r : score_rating(rating, outcomes[r].realized))
Breakdown(n, rating) == ModelAccuracy({r \in ScoredRows(n) : calls[r[1]].rating = rating})

-----------------------------------------------------------------------------
(* Properties *)

Between(d, e, f) == (d < e /\ e < f) \/ (f < e /\ e < d)

\* However late the sweep runs, and whatever runs beside it, a call is scored by the close of
\* its own date: that of the day it was due, or, if there was no session on it or none yet, of
\* a day with none in between; and that close was final unless it was the day of the sweep.
ScoredAtItsDate ==
  \A r \in Row : LET o == outcomes[r] IN
    o # None =>
      /\ o.day # Due(r) => \A d \in Trading(bars) : ~Between(o.day, d, Due(r)) /\ (d = Due(r) => o.read <= d)
      /\ o.day < o.read => o.realized[2] = bars[o.day] * 2 ^ (splits - o.splits)

\* The model is compared by the same rule and over the same rows as the two others: on the
\* calls that say Buy it is right as often as who always does, and its parts add up to it.
ComparedByOneRule ==
  \A n \in Windows :
    /\ \A rating \in CallRatings :
         LET rows == {r \in ScoredRows(n) : calls[r[1]].rating = rating}
         IN  Breakdown(n, rating) = naive_baseline_accuracy(rows, rating)
    /\ ScoredRows(n) # {} =>
         ModelAccuracy(ScoredRows(n))[2] + Cardinality({c \in DOMAIN calls : outcomes[<<c, n>>] = None})
           = Len(calls)

OutcomesHold == ScoredAtItsDate /\ ComparedByOneRule

\* What is due gets scored, whatever failed, unless a call was logged at the price of zero.
DueGetsScored ==
  \A r \in Row :
    (Pending(r) /\ Due(r) <= day /\ Trading(bars) # {})
      ~> (outcomes[r] # None \/ \E c \in DOMAIN calls : calls[c].price = 0)

-----------------------------------------------------------------------------
(* What the code does not have: refuted by hand in sweeps.cfg.        *)

\* "one ticker's historical-price fetch failing must not stop the rest of the batch": a call at
\* the price of zero, which raises outside the try, stops it at every sweep.
BatchIsTried ==
  [][faults' = faults => \A w \in Sweepers : Len(sweep'[w].due) >= Len(sweep[w].due) - 1]_sweep

\* "Scores every checkpoint whose due date has arrived and hasn't been scored yet": of two
\* sweeps that overlap the later one scores what the earlier one has scored.
ScoredOnce == [][\A r \in Row : outcomes[r] # None => outcomes'[r] = outcomes[r]]_outcomes

\* "scores it against the exact same Buy/Hold/Sell rule": of a history adjusted for a split
\* after the call, and a price that is not.
SplitsAreNoLosses == \A r \in Row : outcomes[r] # None => outcomes[r].splits = calls[r[1]].splits
=============================================================================
