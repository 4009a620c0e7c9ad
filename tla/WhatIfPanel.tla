----------------------------- MODULE WhatIfPanel -----------------------------
(***************************************************************************)
(* The sliders of a report's valuation (components/WhatIfPanel.tsx): a     *)
(* drag is sent after a pause, and the answer sets the result and the      *)
(* sliders.  A request in flight, or a timer, outlives the report it was   *)
(* for when another is opened in its place.                                *)
(***************************************************************************)
EXTENDS Naturals, Sequences, SequencesExt

CONSTANTS
  Reports,
  Sliders, Positions,
  Default,         \* positions the server fills in
  None,
  MaxMoves         \* bound: drags and reports opened

VARIABLES
  report, state,
  values,          \* of the sliders
  result,          \* the report and the values it was computed for
  timer,           \* the request that the timer will send
  flights,
  wanted,          \* history: what each slider was last dragged to
  carried,         \* history: a report was left with requests under way
  moves

vars == <<report, state, values, result, timer, flights, wanted, carried, moves>>

Ask(r, v) == [report |-> r, values |-> v]

Init ==
  /\ report \in Reports /\ state = "loading"
  /\ values = None /\ result = None /\ timer = None
  /\ flights = <<Ask(report, None)>>
  /\ wanted = Default /\ carried = FALSE /\ moves = 0

\* handleSliderChange: the sliders are there only in this state.
Drag ==
  \E s \in Sliders, p \in Positions :
    /\ state = "ready" /\ moves < MaxMoves /\ moves' = moves + 1
    /\ p # values[s]
    /\ values' = [values EXCEPT ![s] = p] /\ wanted' = [wanted EXCEPT ![s] = p]
    /\ timer' = Ask(report, values')
    /\ UNCHANGED <<report, state, result, flights, carried>>

Send ==
  /\ timer # None /\ timer' = None
  /\ flights' = Append(flights, timer)
  /\ UNCHANGED <<report, state, values, result, wanted, carried, moves>>

\* Another report takes the place of this one: the panel stays mounted.
Open ==
  \E r \in Reports \ {report} :
    /\ moves < MaxMoves /\ moves' = moves + 1
    /\ report' = r /\ state' = "loading"
    /\ carried' = (carried \/ flights # <<>> \/ timer # None)
    /\ flights' = Append(flights, Ask(r, None))
    /\ wanted' = Default
    /\ UNCHANGED <<values, result, timer>>

\* data.used
Used(request) == IF request.values = None THEN Default ELSE request.values

\* fetchWhatIf, once answered
Answer ==
  \E k \in DOMAIN flights, outcome \in {"ready", "unavailable", "error"} :
    /\ flights' = RemoveAt(flights, k)
    /\ state' = outcome
    /\ IF outcome = "ready"
       THEN /\ values' = Used(flights[k])
            /\ result' = Ask(flights[k].report,
                             IF flights[k].values = None THEN Default ELSE flights[k].values)
       ELSE UNCHANGED <<values, result>>
    /\ UNCHANGED <<report, timer, wanted, carried, moves>>

Next == Drag \/ Send \/ Open \/ Answer

-----------------------------------------------------------------------------
(* Properties *)

Settled == flights = <<>> /\ timer = None

\* Once all requests are answered, in whatever order, the result shown is that of the values
\* the sliders are at; and it is the result of the report shown, provided none was left with
\* requests under way.
ResultFits ==
  Settled /\ state = "ready" => result.values = values /\ (~carried => result.report = report)

-----------------------------------------------------------------------------
(* What the code does not have: refuted by hand in web_client.cfg.     *)

\* "on mount (and whenever the panel switches to a different report), fetch once with an
\* empty body": what was under way for the other report is neither dropped nor kept out.
ResultIsOfReport == Settled /\ state = "ready" => result.report = report

\* A slider stays where it was dragged to.  An answer moves all of them, also those dragged
\* since it was asked for; a drag of another slider then makes that lasting.
SlidersStay == Settled /\ state = "ready" /\ ~carried => values = wanted
=============================================================================
