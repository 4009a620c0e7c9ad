------------------------------ MODULE ChatThread ------------------------------
(***************************************************************************)
(* One account's conversation with the assistant: POST /v1/chat (main.py)  *)
(* and handle_chat_message (chat_router.py), with the rows of              *)
(* chat_messages that the sweeps write into it.  What a message is about   *)
(* is resolved from its words, or carried over from the rows before it.    *)
(*                                                                         *)
(* The proposals, orders and alerts that a message leads to belong to      *)
(* PaperTrading; here they are known by the tickers they are for.  A       *)
(* message is known by the way it names a company, a row by its ticker and *)
(* by who wrote it.  SQL statements are atomic; requests may overlap, and  *)
(* the statements between them interleave.                                 *)
(***************************************************************************)
EXTENDS Integers, Sequences, FiniteSets

CONSTANTS
  Tickers,
  Handlers,      \* request threads of POST /v1/chat
  None,
  HistoryLimit,  \* MAX_HISTORY_MESSAGES
  MaxRows,       \* bound: rows of the conversation
  MaxNotices,    \* bound: of these, the ones that a sweep writes
  MaxFaults      \* bound: requests that end with a 500, and outages of the models

VARIABLES
  thread,      \* chat_messages, oldest first
  pending,     \* pending_orders: the tickers of the legs, and the row that asked for them
  req,         \* the requests' locals
  overlapped,  \* two requests have been under way at once
  outage,      \* no model answers
  faults

env == <<outage, faults>>
vars == <<thread, pending, req, overlapped, env>>

TickerScoped ==
  {"ticker_question", "portfolio_fit", "full_report_request", "create_alert",
   "watchlist_add", "watchlist_remove", "add_holding"}
Intents == TickerScoped \cup
  {"portfolio_status", "advice_request", "stock_discovery_request", "place_order",
   "list_alerts", "end_voice_session", "daily_briefing", "general"}

\* A company the lists know by the words of the message, or only by what a model makes of
\* them; a token like a ticker's that no list has; an unknown company in words; none.
Messages ==
  [names : Tickers, how : {"listed", "guessed"}] \cup
  [names : {None}, how : {"token", "words", "nothing"}]

\* What a request has done to other tables.
NoAct == [kind |-> "none", legs |-> {}, by |-> 0]
Act(kind, legs) == [kind |-> kind, legs |-> legs, by |-> 0]
Acts ==
  [kind : {"none", "propose", "confirm", "alert", "watch", "unwatch", "hold"},
   legs : SUBSET Tickers, by : Nat]

Steps == {"idle", "asked", "said", "yes", "no", "other", "classify", "handle", "answer"}
Locals ==
  [at : Steps, message : Messages, readAt : Nat, row : Nat, peeked : SUBSET Tickers,
   intent : Intents, ticker : Tickers \cup {None}, act : Acts,
   source : {"fixed", "data", "model"}, cut : BOOLEAN]
Idle ==
  [at |-> "idle", message |-> [names |-> None, how |-> "nothing"], readAt |-> 0, row |-> 0,
   peeked |-> {}, intent |-> "general", ticker |-> None, act |-> NoAct, source |-> "fixed",
   cut |-> FALSE]

Row(kind, ticker) == [kind |-> kind, ticker |-> ticker]
Rows == [kind : {"message", "answer", "proposal", "notice"}, ticker : Tickers \cup {None}]
Proposed == [legs : (SUBSET Tickers) \ {{}}, by : Nat]

TypeOK ==
  /\ thread \in Seq(Rows)
  /\ pending \in Proposed \cup {None}
  /\ req \in [Handlers -> Locals]
  /\ overlapped \in BOOLEAN /\ outage \in BOOLEAN
  /\ faults \in 0..MaxFaults

Init ==
  /\ thread = <<>> /\ pending = None /\ req = [h \in Handlers |-> Idle]
  /\ overlapped = FALSE
  /\ outage = FALSE /\ faults = 0

At(h, step) == req[h].at = step
Room == Len(thread) < MaxRows
Writes(row) == Room /\ thread' = Append(thread, row)

-----------------------------------------------------------------------------
(* The endpoint.  A definition called a variant is deliberately wrong: it belongs to    *)
(* no behaviour and shows which property such a bug breaks.                              *)

\* The rows before the message are read first.
Ask(h) ==
  /\ At(h, "idle") /\ Room
  /\ req' = [req EXCEPT ![h] = [Idle EXCEPT !.at = "asked", !.readAt = Len(thread),
                                            !.cut = outage]]
  /\ overlapped' = (overlapped \/ \E g \in Handlers \ {h} : ~At(g, "idle"))
  /\ UNCHANGED <<thread, pending, env>>

Say(h) ==
  /\ At(h, "asked")
  /\ Writes(Row("message", None))
  /\ req' = [req EXCEPT ![h].at = "said", ![h].row = Len(thread) + 1]
  /\ UNCHANGED <<pending, overlapped, env>>

\* What the message names is looked at when it is neither yes nor no to a pending order.
Considers(h) ==
  \E m \in Messages : req' = [req EXCEPT ![h].at = "classify", ![h].message = m]

\* get_pending_order: with an order pending, the message is a clear yes, a clear no, or
\* neither.
Peek(h) ==
  /\ At(h, "said")
  /\ \/ /\ pending = None /\ Considers(h)
     \/ /\ pending # None
        /\ \E word \in {"yes", "no", "other"} :
             req' = [req EXCEPT ![h].at = word, ![h].peeked = pending.legs]
  /\ UNCHANGED <<thread, pending, overlapped, env>>

\* The ticker that a reply about some legs carries: that of the only one.
Single(legs) == IF Cardinality(legs) = 1 THEN CHOOSE t \in legs : TRUE ELSE None

\* What is pending now is popped and executed; the reply carries what was seen before.
Confirm(h) ==
  /\ At(h, "yes")
  /\ req' = [req EXCEPT ![h].at = "answer", ![h].ticker = Single(req[h].peeked),
                        ![h].act = IF pending = None THEN NoAct
                                   ELSE [kind |-> "confirm", legs |-> pending.legs,
                                         by |-> pending.by]]
  /\ pending' = None
  /\ UNCHANGED <<thread, overlapped, env>>

Cancel(h) ==
  /\ At(h, "no")
  /\ req' = [req EXCEPT ![h].at = "answer"]
  /\ pending' = None
  /\ UNCHANGED <<thread, overlapped, env>>

\* The user moved on.
Drop(h) ==
  /\ At(h, "other")
  /\ Considers(h)
  /\ pending' = None
  /\ UNCHANGED <<thread, overlapped, env>>

-----------------------------------------------------------------------------
(* What a message is about (classify_intent) *)

\* resolve_companies, at each call: a model is asked where the lists do not know the words.
Resolve(m) ==
  CASE m.how = "listed" -> {m.names}
    [] m.how = "guessed" -> IF outage THEN {None} ELSE {m.names, None}
    [] OTHER -> {None}

\* list_chat_messages: the rows that the request has read.
Window(q) == {i \in 1..q.readAt : i + HistoryLimit > q.readAt}

MostRecentTicker(q) ==
  LET T == {i \in Window(q) : thread[i].ticker # None}
  IN  IF T = {} THEN None ELSE thread[CHOOSE i \in T : \A j \in T : j <= i].ticker

\* A model chooses the intent; a failure makes it a general one, as does the lack of a
\* ticker where the intent needs one.
Classify(h) ==
  /\ At(h, "classify")
  /\ \E t \in Resolve(req[h].message), i \in IF outage THEN {"general"} ELSE Intents :
       LET ticker == IF t # None THEN t ELSE MostRecentTicker(req[h])
       IN  req' = [req EXCEPT ![h].at = "handle", ![h].ticker = ticker,
                              ![h].intent = IF i \in TickerScoped /\ ticker = None
                                            THEN "general" ELSE i]
  /\ UNCHANGED <<thread, pending, overlapped, env>>

-----------------------------------------------------------------------------
(* The handlers: what each may do, and where its words come from *)

Says(source) == [act |-> NoAct, source |-> source]
Does(act) == [act |-> act, source |-> "fixed"]

\* A model puts the words, or what the handler has instead is shown as it is.
Synthesized(instead) == IF outage THEN {Says(instead)} ELSE {Says("model"), Says(instead)}

\* No holdings, or the holdings with their prices, ratings and sectors.
PortfolioStatus == {Says("fixed")} \cup Synthesized("data")

\* The ticker may be unknown to the market; the rating and the news of one that is not.
TickerQuestion == {Says("fixed")} \cup Synthesized("data")

PortfolioFit == {Says("data")}
Advice == Synthesized("fixed")
Discovery == {Says("fixed")}
General == Synthesized("fixed")
ListAlerts == {Says("fixed"), Says("data")}

\* has_unresolved_ticker_attempt.
Attempts(m) == m.how = "token"

Batches == {Act("propose", T) : T \in (SUBSET Tickers) \ {{}}}

\* A batch is for what is held or watched, whatever the conversation was about; an order
\* for one ticker may be for one carried over.  Or a question comes back.
PlaceOrder(q) ==
  {Says("fixed")} \cup {Does(b) : b \in Batches} \cup
  (IF q.ticker = None \/ Attempts(q.message) THEN {} ELSE {Does(Act("propose", {q.ticker}))})

\* An alert, or a place on the watchlist, is only for a ticker while the message itself
\* resolves to one.
NamedAgain(q, kind) ==
  {Says("fixed")} \cup
  (IF q.ticker = None \/ Resolve(q.message) = {None} THEN {} ELSE {Does(Act(kind, {q.ticker}))})

\* Variant: the ticker that was carried over will do.
CreateAlertCarried(q) ==
  {Says("fixed")} \cup (IF q.ticker = None THEN {} ELSE {Does(Act("alert", {q.ticker}))})

CreateAlert(q) == NamedAgain(q, "alert")
WatchlistAdd(q) == NamedAgain(q, "watch")
WatchlistRemove(q) == NamedAgain(q, "unwatch")

\* A holding that exists is left alone; number and cost must both be said.
AddHolding(q) ==
  {Says("fixed")} \cup
  (IF q.ticker = None \/ Attempts(q.message) THEN {} ELSE {Does(Act("hold", {q.ticker}))})

Outcomes(q) ==
  CASE q.intent = "portfolio_status" -> PortfolioStatus
    [] q.intent = "ticker_question" -> TickerQuestion
    [] q.intent = "portfolio_fit" -> PortfolioFit
    [] q.intent = "advice_request" -> Advice
    [] q.intent = "stock_discovery_request" -> Discovery
    [] q.intent = "place_order" -> PlaceOrder(q)
    [] q.intent = "create_alert" -> CreateAlert(q)
    [] q.intent = "list_alerts" -> ListAlerts
    [] q.intent = "watchlist_add" -> WatchlistAdd(q)
    [] q.intent = "watchlist_remove" -> WatchlistRemove(q)
    [] q.intent = "add_holding" -> AddHolding(q)
    [] q.intent = "general" -> General
    [] OTHER -> {Says("fixed")}

Handle(h) ==
  /\ At(h, "handle") /\ req[h].intent # "daily_briefing"
  /\ \E o \in Outcomes(req[h]) :
       /\ req' = [req EXCEPT ![h].at = "answer", ![h].intent = "general", ![h].act = o.act,
                             ![h].source = o.source]
       /\ pending' = IF o.act.kind = "propose" THEN [legs |-> o.act.legs, by |-> req[h].row]
                     ELSE pending
  /\ UNCHANGED <<thread, overlapped, env>>

\* The ticker of a briefing is the one whose rating changed, if only one did.
Brief(h) ==
  /\ At(h, "handle") /\ req[h].intent = "daily_briefing"
  /\ \E o \in Synthesized("data"), t \in Tickers \cup {None} :
       req' = [req EXCEPT ![h].at = "answer", ![h].intent = "general", ![h].source = o.source,
                          ![h].ticker = t]
  /\ UNCHANGED <<thread, pending, overlapped, env>>

\* The second row of the exchange, and the response.
Answer(h) ==
  /\ At(h, "answer")
  /\ Writes(Row(IF req[h].act.kind = "propose" THEN "proposal" ELSE "answer", req[h].ticker))
  /\ req' = [req EXCEPT ![h] = Idle]
  /\ UNCHANGED <<pending, overlapped, env>>

\* A database call raises, or what a handler asks of the market does: a 500.
Fails(h) ==
  /\ ~At(h, "idle") /\ faults < MaxFaults
  /\ faults' = faults + 1
  /\ req' = [req EXCEPT ![h] = Idle]
  /\ UNCHANGED <<thread, pending, overlapped, outage>>

-----------------------------------------------------------------------------
(* The environment *)

\* A sweep tells of a rating, an alert or the day: a row, and nothing pending.
Notify ==
  /\ Cardinality({i \in DOMAIN thread : thread[i].kind = "notice"}) < MaxNotices
  /\ \E t \in Tickers \cup {None} : Writes(Row("notice", t))
  /\ UNCHANGED <<pending, req, overlapped, env>>

ProviderGoes ==
  /\ ~outage /\ faults < MaxFaults
  /\ outage' = TRUE /\ faults' = faults + 1
  /\ UNCHANGED <<thread, pending, req, overlapped>>

ProviderComes ==
  /\ outage /\ outage' = FALSE
  /\ req' = [h \in Handlers |-> [req[h] EXCEPT !.cut = FALSE]]
  /\ UNCHANGED <<thread, pending, overlapped, faults>>

-----------------------------------------------------------------------------
Step(h) ==
  \/ Ask(h) \/ Say(h) \/ Peek(h) \/ Confirm(h) \/ Cancel(h) \/ Drop(h)
  \/ Classify(h) \/ Handle(h) \/ Brief(h) \/ Answer(h) \/ Fails(h)

Next == (\E h \in Handlers : Step(h)) \/ Notify \/ ProviderGoes \/ ProviderComes

Spec == Init /\ [][Next]_vars

-----------------------------------------------------------------------------
(* Properties *)

\* The ticker was carried over: no row that the request has read has a later one.
CarriedOver(q, t) ==
  \E i \in Window(q) :
    thread[i].ticker = t /\ \A j \in Window(q) : j > i => thread[j].ticker = None

\* A request changes something only for the ticker that its message names, or, for an order
\* or a holding whose message names none that the lists know, for the latest one among the
\* rows read.  After a token that no list has it changes nothing.  Only where a model had
\* to make out the name may the name and the conversation be confused.
ActsOnWhatIsMeant ==
  \A h \in Handlers :
    LET q == req[h]
        a == q.act
    IN  /\ a.kind \in {"alert", "watch", "unwatch"} =>
             /\ q.message.how \in {"listed", "guessed"}
             /\ a.legs = {q.message.names} \/ q.message.how = "guessed"
        /\ a.kind \in {"alert", "watch", "unwatch", "hold"} /\ a.legs # {q.message.names} =>
             q.message.how \in {"guessed", "words", "nothing"} /\ CarriedOver(q, q.ticker)

\* A yes executes the order that the conversation has come to: as long as requests do not
\* overlap, no message was answered after the one that asked for the order, whatever
\* failed in between.
ConfirmsLastProposal ==
  \A h \in Handlers :
    LET q == req[h]
    IN  q.act.kind = "confirm" /\ ~overlapped =>
          \A i \in 1..q.row - 1 : i > q.act.by => thread[i].kind # "answer"

\* A message that no model could be asked about has no effect, but for the confirmation of
\* an order, and its answer claims nothing.
OutageActsOnNothing ==
  \A h \in Handlers :
    At(h, "answer") /\ req[h].cut => req[h].act.kind \in {"none", "confirm"} /\ req[h].source = "fixed"

ChatHolds == ActsOnWhatIsMeant /\ ConfirmsLastProposal /\ OutageActsOnNothing

(* What comments of chat_router.py promise, and the code does not keep *)

\* chat_router.py:1211-1213: an old proposal is not "confirmed later by an unrelated yes to
\* something else entirely".  A sweep's "want me to exit your position?" is something else.
YesAnswersItsQuestion ==
  \A h \in Handlers :
    LET q == req[h]
    IN  q.act.kind = "confirm" /\ ~overlapped =>
          \A i \in 1..q.row - 1 : i > q.act.by => thread[i].kind # "notice"

\* chat_router.py:940-941: the ticker of an alert must come from "THIS message, not
\* classify_intent's history-carryover fallback".  The message is resolved twice, and a
\* model may make something of it only the second time.
AlertsOnlyNamed ==
  \A h \in Handlers : req[h].act.kind = "alert" => req[h].act.legs = {req[h].message.names}

\* chat_router.py:816-818: a message that "names something that fails to resolve must never
\* fall back to guessing a different ticker discussed earlier".
NamedIsNotCarried ==
  \A h \in Handlers : req[h].act.kind = "hold" => req[h].message.how # "words"
=============================================================================
