------------------------------ MODULE PriceHub ------------------------------
(***************************************************************************)
(* The fan-out of live quotes (app/data/price_hub.py) and the server side  *)
(* of /v1/prices/stream (app/api/main.py).  One event loop runs the poll   *)
(* task, and for each connection a receiver and a sender task; a step      *)
(* reaches from one await to the next.  Quotes are read by threads, each   *)
(* at its own moment, and applied together when all of them are back.      *)
(*                                                                         *)
(* A price is abstracted to the parity of the market's version of it, so   *)
(* that it may change and come back between two polls; a tick's ts is the  *)
(* version.  Left out: heartbeats and the messages hello, subscribed, pong *)
(* (they change nothing here), the token, the limit of 8 concurrent reads, *)
(* which only delays them, and the event that cuts the wait between two    *)
(* polls short: here that wait may end at any time.                        *)
(***************************************************************************)
EXTENDS Naturals, FiniteSets, Sequences

CONSTANTS
  Conns,         \* websocket connections; one that closed may be opened anew
  Tickers,       \* a ticker is its place in the alphabetical order
  Junk,          \* an entry of a subscribe message that is no ticker
  NoTick,        \* no tick
  MaxPerClient,  \* MAX_TICKERS_PER_CLIENT
  MaxTotal,      \* MAX_TICKERS_TOTAL
  MaxMessage,    \* bound: entries of a subscribe message
  MaxMoves,      \* bound: changes of one ticker's price; the others stay
  MaxFaults      \* bound: quotes that fail

ASSUME TickersAreRanks == Tickers \subseteq Nat /\ IsFiniteSet(Tickers)
ASSUME NoTickAssumption == NoTick \notin [p : 0..1, ts : Nat] /\ Junk \notin Tickers
ASSUME BoundsAssumption ==
  /\ MaxPerClient \in Nat /\ MaxTotal \in Nat /\ MaxMessage \in Nat
  /\ MaxMoves \in Nat /\ MaxFaults \in Nat

VARIABLES
  \* PriceHub
  clients,   \* the registered connections
  last,      \* the last tick of each ticker
  \* Client objects
  tickers, pending, ready,
  \* the poll task
  task,      \* "none" before the first client and after an idle shutdown
  idle,      \* idle_since is set
  batch,     \* tickers being read, and those already back
  got,
  \* the sender tasks and the browsers
  sending,   \* ticks in the send_json a sender awaits
  shown,     \* the last tick of each ticker received on this connection
  \* the environment
  market,    \* version of each ticker's price
  faults

hub == <<clients, last>>
objects == <<tickers, pending, ready>>
poller == <<task, idle, batch, got>>
ends == <<sending, shown>>
env == <<market, faults>>
vars == <<hub, objects, poller, ends, env>>

Tick == [p : 0..1, ts : Nat]
Quotes == [Tickers -> Tick \cup {NoTick}]
NoQuotes == [t \in Tickers |-> NoTick]

TypeOK ==
  /\ clients \subseteq Conns
  /\ last \in Quotes
  /\ tickers \in [Conns -> SUBSET Tickers]
  /\ pending \in [Conns -> Quotes]
  /\ ready \in [Conns -> BOOLEAN]
  /\ task \in {"none", "top", "fetch", "wait"}
  /\ idle \in BOOLEAN
  /\ batch \subseteq Tickers
  /\ got \in Quotes
  /\ sending \in [Conns -> Quotes]
  /\ shown \in [Conns -> Quotes]
  /\ market \in [Tickers -> 0..MaxMoves]
  /\ faults \in 0..MaxFaults

Init ==
  /\ clients = {}
  /\ last = NoQuotes
  /\ tickers = [c \in Conns |-> {}]
  /\ pending = [c \in Conns |-> NoQuotes]
  /\ ready = [c \in Conns |-> FALSE]
  /\ task = "none" /\ idle = FALSE /\ batch = {} /\ got = NoQuotes
  /\ sending = [c \in Conns |-> NoQuotes]
  /\ shown = [c \in Conns |-> NoQuotes]
  /\ market = [t \in Tickers |-> 0]
  /\ faults = 0

-----------------------------------------------------------------------------
(* Connections.  A definition called a variant is deliberately wrong: it        *)
(* belongs to no behaviour and shows which property such a bug breaks.          *)

\* Variant: the task is created once.
EnsureRunningOnce ==
  IF task = "none" /\ last = NoQuotes
    THEN task' = "top" /\ idle' = FALSE
    ELSE UNCHANGED <<task, idle>>

\* _ensure_running: a task that has returned is replaced.
EnsureRunning ==
  IF task = "none"
    THEN task' = "top" /\ idle' = FALSE
    ELSE UNCHANGED <<task, idle>>

\* The token was accepted: a Client is registered and its sender started.
Register(c) ==
  /\ c \notin clients
  /\ clients' = clients \cup {c}
  /\ EnsureRunning
  /\ UNCHANGED <<last, objects, batch, got, ends, env>>

\* The socket closes: the sender is cancelled wherever it waits.
Unregister(c) ==
  /\ c \in clients
  /\ clients' = clients \ {c}
  /\ tickers' = [tickers EXCEPT ![c] = {}]
  /\ pending' = [pending EXCEPT ![c] = NoQuotes]
  /\ ready' = [ready EXCEPT ![c] = FALSE]
  /\ sending' = [sending EXCEPT ![c] = NoQuotes]
  /\ shown' = [shown EXCEPT ![c] = NoQuotes]
  /\ UNCHANGED <<last, poller, env>>

\* The first MaxPerClient different tickers of a message.
Cleaned(msg) ==
  {msg[i] : i \in {j \in DOMAIN msg :
      /\ msg[j] \in Tickers
      /\ Cardinality({msg[k] : k \in 1..(j - 1)} \ {Junk, msg[j]}) < MaxPerClient}}

Messages == UNION {[1..n -> Tickers \cup {Junk}] : n \in 0..MaxMessage}

\* Variant: known prices are left to the next poll, which only forwards changes.
SetSubscriptionsSilently(c, S) ==
  /\ tickers' = [tickers EXCEPT ![c] = S]
  /\ pending' = [pending EXCEPT ![c] = [t \in Tickers |-> IF t \in S THEN @[t] ELSE NoTick]]
  /\ UNCHANGED ready

\* set_subscriptions: pending ticks of tickers given up are dropped, known
\* prices go out at once.
SetSubscriptions(c, S) ==
  LET known == {t \in S : last[t] # NoTick}
  IN  /\ tickers' = [tickers EXCEPT ![c] = S]
      /\ pending' = [pending EXCEPT ![c] =
                       [t \in Tickers |-> IF t \in known THEN last[t]
                                          ELSE IF t \in S THEN @[t] ELSE NoTick]]
      /\ ready' = [ready EXCEPT ![c] = @ \/ known # {}]

Subscribe(c, msg) ==
  /\ c \in clients
  /\ SetSubscriptions(c, Cleaned(msg))
  /\ UNCHANGED <<clients, last, poller, ends, env>>

\* Client.take in the sender: the pending ticks go into one send_json.
Take(c) ==
  /\ c \in clients
  /\ ready[c] /\ sending[c] = NoQuotes
  /\ sending' = [sending EXCEPT ![c] = pending[c]]
  /\ pending' = [pending EXCEPT ![c] = NoQuotes]
  /\ ready' = [ready EXCEPT ![c] = FALSE]
  /\ UNCHANGED <<hub, tickers, poller, shown, env>>

Overlay(old, new) == [t \in Tickers |-> IF new[t] = NoTick THEN old[t] ELSE new[t]]

\* send_json returns; a slow reader keeps it waiting meanwhile.
Sent(c) ==
  /\ sending[c] # NoQuotes
  /\ shown' = [shown EXCEPT ![c] = Overlay(@, sending[c])]
  /\ sending' = [sending EXCEPT ![c] = NoQuotes]
  /\ UNCHANGED <<hub, objects, poller, env>>

-----------------------------------------------------------------------------
(* The poll task *)

\* _wanted: the first MaxTotal tickers in alphabetical order.
Wanted ==
  LET all == UNION {tickers[c] : c \in clients}
  IN  {t \in all : Cardinality({u \in all : u < t}) < MaxTotal}

\* With nobody connected the task waits on, and after IDLE_SHUTDOWN_SECONDS returns.
Idle ==
  /\ task = "top" /\ clients = {}
  /\ \/ idle /\ task' = "none" /\ idle' = FALSE
     \/ idle' = TRUE /\ task' = "wait"
  /\ UNCHANGED <<hub, objects, batch, got, ends, env>>

PollStart ==
  /\ task = "top" /\ clients # {}
  /\ idle' = FALSE
  /\ batch' = Wanted
  /\ got' = NoQuotes
  /\ task' = IF Wanted = {} THEN "wait" ELSE "fetch"
  /\ UNCHANGED <<hub, objects, ends, env>>

QuoteOf(t) == [p |-> market[t] % 2, ts |-> market[t]]

\* _fetch_one, in a thread of its own.
Fetch(t) ==
  /\ task = "fetch" /\ t \in batch
  /\ batch' = batch \ {t}
  /\ got' = [got EXCEPT ![t] = QuoteOf(t)]
  /\ UNCHANGED <<hub, objects, task, idle, ends, env>>

\* It raises, or the quote has no usable price: None.
FetchFails(t) ==
  /\ task = "fetch" /\ t \in batch
  /\ faults < MaxFaults /\ faults' = faults + 1
  /\ batch' = batch \ {t}
  /\ UNCHANGED <<hub, objects, task, idle, got, ends, market>>

\* Variant: the tick is compared with the one before only by its time.
ChangedByTime(t) == got[t] # NoTick /\ last[t] # NoTick /\ got[t].ts # last[t].ts

\* A tick that differs from the last one by more than its time.
Changed(t) == got[t] # NoTick /\ (last[t] # NoTick => got[t].p # last[t].p)

\* Variant: a ticker keeps the first tick ever read as its last one.
PollEndKeepingFirst ==
  LET news(c) == {t \in tickers[c] : Changed(t)}
  IN  /\ task = "fetch" /\ batch = {}
      /\ last' = Overlay(got, last)
      /\ pending' = [c \in Conns |-> [t \in Tickers |->
                       IF c \in clients /\ t \in news(c) THEN got[t] ELSE pending[c][t]]]
      /\ ready' = [c \in Conns |-> ready[c] \/ (c \in clients /\ news(c) # {})]
      /\ task' = "wait"
      /\ got' = NoQuotes
      /\ UNCHANGED <<clients, tickers, idle, batch, ends, env>>

\* gather returns: every tick becomes the last one, the changed ones are pushed.
PollEnd ==
  LET news(c) == {t \in tickers[c] : Changed(t)}
  IN  /\ task = "fetch" /\ batch = {}
      /\ last' = Overlay(last, got)
      /\ pending' = [c \in Conns |-> [t \in Tickers |->
                       IF c \in clients /\ t \in news(c) THEN got[t] ELSE pending[c][t]]]
      /\ ready' = [c \in Conns |-> ready[c] \/ (c \in clients /\ news(c) # {})]
      /\ task' = "wait"
      /\ got' = NoQuotes
      /\ UNCHANGED <<clients, tickers, idle, batch, ends, env>>

\* The interval is over, or a subscription cut it short.
WaitEnds ==
  /\ task = "wait"
  /\ task' = "top"
  /\ UNCHANGED <<clients, last, objects, idle, batch, got, ends, env>>

-----------------------------------------------------------------------------
\* The price of a ticker changes (the quote service, market_data.get_quote); bound: of
\* one ticker only.
MarketMoves(t) ==
  /\ market[t] < MaxMoves
  /\ \A u \in Tickers \ {t} : market[u] = 0
  /\ market' = [market EXCEPT ![t] = @ + 1]
  /\ UNCHANGED <<hub, objects, poller, ends, faults>>

Poll == Idle \/ PollStart \/ PollEnd \/ WaitEnds

Next ==
  \/ \E c \in Conns : Register(c) \/ Unregister(c) \/ Take(c) \/ Sent(c)
  \/ \E c \in Conns, msg \in Messages : Subscribe(c, msg)
  \/ Poll
  \/ \E t \in Tickers : Fetch(t) \/ FetchFails(t) \/ MarketMoves(t)

Spec == Init /\ [][Next]_vars

\* The event loop runs every task that can run, threads return, and a browser
\* that stays connected reads.
Fairness ==
  /\ WF_vars(Poll)
  /\ \A t \in Tickers : WF_vars(Fetch(t))
  /\ \A c \in Conns : WF_vars(Take(c)) /\ WF_vars(Sent(c))

FairSpec == Spec /\ Fairness

-----------------------------------------------------------------------------
(* Safety *)

\* What a browser shows once what is on its way has arrived.
Due(c, t) ==
  IF pending[c][t] # NoTick THEN pending[c][t]
  ELSE IF sending[c][t] # NoTick THEN sending[c][t] ELSE shown[c][t]

\* A client that follows a ticker is never left on an old price: whatever polls,
\* subscriptions and slow sends interleave, the last known price of the ticker
\* is shown, on its way, or pending for a sender that is awake.
LatestIsDue ==
  \A c \in clients : \A t \in tickers[c] :
    last[t] # NoTick => /\ Due(c, t) # NoTick
                        /\ Due(c, t).p = last[t].p
                        /\ pending[c][t] # NoTick => ready[c]

\* Whenever somebody is connected the poll task is alive, although it ends by
\* itself after a while with nobody there.
PolledWhileConnected == clients # {} => task # "none"

\* On one connection the quotes of a ticker never go back in time.
NeverBackwards ==
  [][\A c \in Conns, t \in Tickers :
       shown[c][t] # NoTick /\ shown'[c][t] # NoTick => shown[c][t].ts <= shown'[c][t].ts]_vars

(* Liveness *)

\* A client that keeps following a ticker gets its current price, although
\* reads fail now and then, unless the ticker is past the hub's limit.
QuotesArrive ==
  \A c \in Conns, t \in Tickers :
    [](c \in clients /\ t \in tickers[c] \cap Wanted
        => <>(\/ c \notin clients \/ t \notin tickers[c] \cap Wanted
              \/ shown[c][t] # NoTick /\ shown[c][t].p = market[t] % 2))
=============================================================================
