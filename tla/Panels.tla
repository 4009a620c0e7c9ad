------------------------------- MODULE Panels -------------------------------
(***************************************************************************)
(* A panel of the web client that loads what is selected on it, each time  *)
(* the selection changes: the price chart (components/PriceChart.tsx), the *)
(* feeds (FinancialPerformanceChart.tsx, CorporateActionsFeed.tsx,         *)
(* Screener.tsx), and the suggestions for a name being typed               *)
(* (Watchlist.tsx, Portfolio.tsx, OrderTicket.tsx).  Answers come in any   *)
(* order; only the chart keeps those of an earlier selection out.          *)
(***************************************************************************)
EXTENDS Naturals, Sequences, SequencesExt

CONSTANTS
  Selectable,     \* what can be selected, or typed
  Short,          \* a text of less than two characters
  None,
  MaxSelections   \* bound: selections and retries

VARIABLES
  kind, selected,
  shown,          \* data: the choice it was loaded for
  failed,
  timer,          \* the text that the debounce timer will look up
  flights,        \* requests not yet answered, in the order they were sent
  overtaken,      \* history: an answer came before the one to an earlier request
  refused,        \* history: the request sent last has failed
  selections

vars == <<kind, selected, shown, failed, timer, flights, overtaken, refused, selections>>

Kinds == {"chart", "feed", "suggest"}
\* A request is earlier when another was sent after it.
Request(c) == [of |-> c, earlier |-> FALSE]
Send(c) == flights' = Append([k \in DOMAIN flights |-> [flights[k] EXCEPT !.earlier = TRUE]], Request(c))

Init ==
  /\ kind \in Kinds
  /\ IF kind = "suggest" THEN selected = Short ELSE selected \in Selectable \ {Short}
  /\ shown = None /\ failed = FALSE /\ timer = None
  /\ flights = (IF kind = "suggest" THEN <<>> ELSE <<Request(selected)>>)
  /\ overtaken = FALSE /\ refused = FALSE /\ selections = 0

Load(c) ==
  /\ shown' = None /\ failed' = FALSE
  /\ Send(c)
  /\ refused' = FALSE /\ UNCHANGED timer

\* Every keystroke sets the timer again.  What is too short is not looked up.
Type(c) ==
  /\ shown' = (IF c = Short THEN None ELSE shown)
  /\ timer' = (IF c = Short THEN None ELSE c)
  /\ UNCHANGED <<failed, flights, refused>>

Select ==
  \E c \in Selectable \ {selected} :
    /\ selections < MaxSelections /\ selections' = selections + 1
    /\ c = Short => kind = "suggest"
    /\ selected' = c
    /\ IF kind = "suggest" THEN Type(c) ELSE Load(c)
    /\ UNCHANGED <<kind, overtaken>>

LookUp ==
  /\ timer # None /\ timer' = None
  /\ Send(timer) /\ refused' = FALSE
  /\ UNCHANGED <<kind, selected, shown, failed, overtaken, selections>>

\* LoadError's button
Retry ==
  /\ kind = "feed" /\ failed /\ selections < MaxSelections /\ selections' = selections + 1
  /\ Load(selected)
  /\ UNCHANGED <<kind, selected, overtaken>>

\* stale: the clean-up of the chart's effect runs before the effect runs again.
Ignored(k) == kind = "chart" /\ flights[k].earlier

Answer ==
  \E k \in DOMAIN flights, ok \in BOOLEAN :
    /\ flights' = RemoveAt(flights, k)
    /\ overtaken' = (overtaken \/ k > 1)
    /\ refused' = (IF flights[k].earlier THEN refused ELSE ~ok)
    /\ IF Ignored(k) THEN UNCHANGED <<shown, failed>>
       ELSE /\ shown' = (IF ok THEN flights[k].of ELSE IF kind = "suggest" THEN None ELSE shown)
            /\ failed' = (failed \/ (~ok /\ kind # "suggest"))
    /\ UNCHANGED <<kind, selected, timer, selections>>

Next == Select \/ LookUp \/ Retry \/ Answer

-----------------------------------------------------------------------------
(* Properties *)

Settled == flights = <<>> /\ timer = None

\* What is shown was loaded for what is selected.  On the chart at all times, whatever the
\* order of the answers, and it says that loading failed only of this selection.  Elsewhere
\* once all requests are answered, provided no answer was overtaken.
ShowsSelected ==
  /\ kind = "chart" => /\ shown \in {None, selected}
                       /\ Settled => failed = refused /\ (shown = None <=> failed)
  /\ kind = "feed" /\ Settled /\ ~overtaken => shown = selected \/ failed
  /\ kind = "suggest" /\ Settled /\ ~overtaken /\ selected # Short => shown \in {selected, None}

-----------------------------------------------------------------------------
(* What the code does not have: refuted by hand in web_client.cfg.     *)

\* "Guards against a slow earlier response landing after a later one and overwriting it"
\* (PriceChart.tsx): the chart is the only panel that does.
GuardedEverywhere == Settled /\ selected # Short => shown \in {selected, None} \/ failed

\* A feed that has loaded what is selected does not show an error.
ErrorIsOfSelected == kind # "suggest" /\ Settled /\ ~overtaken => failed = refused

\* "2-char minimum keeps a single keypress from querying": and from suggesting.
ShortSuggestsNothing == kind = "suggest" /\ selected = Short /\ timer = None => shown = None
=============================================================================
