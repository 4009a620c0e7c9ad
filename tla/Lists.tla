------------------------------- MODULE Lists --------------------------------
(***************************************************************************)
(* The lists of the web client that are changed on the page and loaded     *)
(* anew after each change: the watchlist (components/Watchlist.tsx) and    *)
(* the holdings (Portfolio.tsx) with the order ticket beside them          *)
(* (OrderTicket.tsx).  The server serves requests, and answers arrive, in  *)
(* any order; a request may fail before it is served or its answer be      *)
(* lost.                                                                   *)
(***************************************************************************)
EXTENDS Naturals, Sequences, SequencesExt

CONSTANTS
  Tickers, None,
  MaxChanges,      \* bound: changes asked for
  MaxFaults        \* bound: requests that fail

Ops == {"get", "add", "remove", "buy"}

VARIABLES
  stored,          \* on the server
  shown,           \* items; None until loaded
  loadFailed,
  busy,            \* forms sending: {"add"}, {"buy"}: adding, submitting
  ticket,          \* what the order ticket says of its last order
  flights,         \* requests in the order they were sent
  overtaken,       \* history: a list came before one asked for earlier
  lost,            \* history: a form's request was served, and its answer lost
  changes, faults

vars == <<stored, shown, loadFailed, busy, ticket, flights, overtaken, lost, changes, faults>>

Request(op, t) == [op |-> op, ticker |-> t, served |-> FALSE, content |-> None]
Refresh == Request("get", None)

Init ==
  /\ stored \in SUBSET Tickers /\ shown = None /\ loadFailed = FALSE
  /\ busy = {} /\ ticket = "none"
  /\ flights = <<Refresh>>
  /\ overtaken = FALSE /\ lost = {} /\ changes = 0 /\ faults = 0

Change(op, t) ==
  /\ changes < MaxChanges /\ changes' = changes + 1
  /\ flights' = Append(flights, Request(op, t))
  /\ UNCHANGED <<stored, loadFailed, overtaken, lost, faults>>

\* submitTicker, submitHolding, submitOrder: one at a time
Submit ==
  \E op \in {"add", "buy"} \ busy, t \in Tickers :
    /\ Change(op, t)
    /\ busy' = busy \cup {op}
    /\ ticket' = (IF op = "buy" THEN "sent" ELSE ticket)
    /\ UNCHANGED shown

\* handleRemove: gone from the page at once
HandleRemove ==
  \E t \in (IF shown = None THEN {} ELSE shown) :
    /\ Change("remove", t)
    /\ shown' = shown \ {t}
    /\ UNCHANGED <<busy, ticket>>

\* LoadError's button
Reload ==
  /\ loadFailed /\ shown = None /\ changes < MaxChanges /\ changes' = changes + 1
  /\ flights' = Append(flights, Refresh)
  /\ UNCHANGED <<stored, shown, loadFailed, busy, ticket, overtaken, lost, faults>>

Serve ==
  \E k \in DOMAIN flights :
    LET f == flights[k]
    IN  /\ ~f.served
        /\ stored' = CASE f.op \in {"add", "buy"} -> stored \cup {f.ticker}
                       [] f.op = "remove" -> stored \ {f.ticker}
                       [] OTHER -> stored
        /\ flights' = [flights EXCEPT ![k].served = TRUE, ![k].content = IF f.op = "get" THEN stored ELSE None]
  /\ UNCHANGED <<shown, loadFailed, busy, ticket, overtaken, lost, changes, faults>>

\* A list that comes before one asked for earlier: the later answer will undo it.
Overtakes(k) == flights[k].op = "get" /\ \E j \in 1..(k - 1) : flights[j].op = "get"

\* What is asked for once a request has failed: a removal is followed by a list either way.
AfterFailure(f) == IF f.op = "remove" THEN <<Refresh>> ELSE <<>>

\* refresh, after a change; an order has every list loaded (notifyPortfolioUpdated).
Answered ==
  \E k \in DOMAIN flights :
    LET f == flights[k]
    IN  /\ f.served
        /\ overtaken' = (overtaken \/ Overtakes(k))
        /\ shown' = (IF f.op = "get" THEN f.content ELSE shown)
        /\ loadFailed' = (loadFailed /\ f.op # "get")
        /\ busy' = busy \ {f.op}
        /\ ticket' = (IF f.op = "buy" THEN "filled" ELSE ticket)
        /\ flights' = RemoveAt(flights, k) \o (IF f.op = "get" THEN <<>> ELSE <<Refresh>>)
  /\ UNCHANGED <<stored, lost, changes, faults>>

\* A list is kept as it was.  A form says so and asks for nothing.
Failed ==
  \E k \in DOMAIN flights :
    LET f == flights[k]
    IN  /\ faults < MaxFaults /\ faults' = faults + 1
        /\ overtaken' = (overtaken \/ Overtakes(k))
        /\ loadFailed' = (loadFailed \/ f.op = "get")
        /\ busy' = busy \ {f.op}
        /\ ticket' = (IF f.op = "buy" THEN "nothing placed" ELSE ticket)
        /\ lost' = (IF f.served /\ f.op \in {"add", "buy"} THEN lost \cup {f.op} ELSE lost)
        /\ flights' = RemoveAt(flights, k) \o AfterFailure(f)
  /\ UNCHANGED <<stored, shown, changes>>

Next == Submit \/ HandleRemove \/ Reload \/ Serve \/ Answered \/ Failed

-----------------------------------------------------------------------------
(* Properties *)

\* Once all requests are answered the page shows what the server has: a removal that failed is
\* taken back, whatever else was added, removed or ordered meanwhile.  Provided the list asked
\* for last did not fail, no list was overtaken, and no form lost its answer.
ShowsStored ==
  flights = <<>> /\ ~loadFailed /\ ~overtaken /\ lost = {} => shown = stored

-----------------------------------------------------------------------------
(* What the code does not have: refuted by hand in web_client.cfg.     *)

\* "so a failed delete doesn't leave the ticker permanently (and incorrectly) missing from
\* the UI": it does, if the list asked for next fails as well.
FailedDeleteIsTakenBack ==
  flights = <<>> /\ ~overtaken /\ lost = {} /\ shown # None => shown = stored

\* "The order service is unavailable right now. Nothing was placed; try again in a moment."
\* (orderValidation.ts), also of an order that was placed, and only its answer lost.
NothingWasPlaced == ticket = "nothing placed" => "buy" \notin lost
=============================================================================
