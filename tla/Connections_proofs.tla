-------------------------- MODULE Connections_proofs ------------------------
(***************************************************************************)
(* What holds of the connections that are kept up: of the hub and its      *)
(* fan-out of quotes, for any number of connections and tickers and any    *)
(* limits; of the stream in the browser, for any screens and attempts; of  *)
(* the listener for the wake phrase, for any number of sockets and timers. *)
(* They share no state.                                                    *)
(***************************************************************************)
EXTENDS MCConnections, FiniteSetTheorems, SequenceTheorems, TLAPS

(***************************************************************************)
(* PriceHub                                                                *)
(***************************************************************************)

\* No quotes at all are a map of quotes.
LEMMA NoQuotesIsQuotes == NoQuotes \in Quotes
  BY DEF NoQuotes, Quotes

\* A message is cleaned to tickers.
LEMMA CleanedIsTickers == ASSUME NEW msg PROVE Cleaned(msg) \subseteq Tickers
  BY DEF Cleaned

\* Overlaying quotes on quotes gives quotes.
LEMMA OverlayIsQuotes == ASSUME NEW a \in Quotes, NEW b \in Quotes PROVE Overlay(a, b) \in Quotes
  BY DEF Overlay, Quotes

\* A quote that is read is a tick.
LEMMA QuoteIsTick == ASSUME TypeOK, NEW t \in Tickers PROVE QuoteOf(t) \in Tick
<1>1. market[t] \in Nat
  BY DEF TypeOK
<1>2. market[t] % 2 \in 0..1
  BY <1>1
<1> QED BY <1>1, <1>2 DEF QuoteOf, Tick

-----------------------------------------------------------------------------
(* Types *)

LEMMA TypeInit == Init => TypeOK
<1> SUFFICES ASSUME Init PROVE TypeOK
  OBVIOUS
<1>1. /\ clients \subseteq Conns /\ task \in {"none", "top", "fetch", "wait"} /\ idle \in BOOLEAN
      /\ batch \subseteq Tickers
  BY Zenon DEF Init
<1>2. /\ tickers \in [Conns -> SUBSET Tickers] /\ ready \in [Conns -> BOOLEAN]
  BY Zenon DEF Init
<1>3. /\ last \in Quotes /\ got \in Quotes /\ pending \in [Conns -> Quotes]
      /\ sending \in [Conns -> Quotes] /\ shown \in [Conns -> Quotes]
  BY NoQuotesIsQuotes DEF Init
<1>4. market \in [Tickers -> 0..MaxMoves] /\ faults \in 0..MaxFaults
  BY BoundsAssumption DEF Init
<1> QED BY <1>1, <1>2, <1>3, <1>4 DEF TypeOK

LEMMA TypeStep == TypeOK /\ [Next]_vars => TypeOK'
<1> SUFFICES ASSUME TypeOK, [Next]_vars PROVE TypeOK'
  OBVIOUS
<1> USE NoQuotesIsQuotes DEF TypeOK
<1>1. ASSUME NEW c \in Conns, Register(c) PROVE TypeOK'
  BY <1>1 DEF Register, EnsureRunning, objects, ends, env
<1>2. ASSUME NEW c \in Conns, Unregister(c) PROVE TypeOK'
  BY <1>2 DEF Unregister, poller, env
<1>3. ASSUME NEW c \in Conns, NEW msg \in Messages, Subscribe(c, msg) PROVE TypeOK'
  <2> DEFINE S == Cleaned(msg)
  <2>1. S \subseteq Tickers
    BY CleanedIsTickers
  <2>2. UNCHANGED <<clients, last, poller, ends, env>>
    BY <1>3 DEF Subscribe
  <2>3. tickers' \in [Conns -> SUBSET Tickers]
    BY <1>3, <2>1 DEF Subscribe, SetSubscriptions
  <2>4. [t \in Tickers |-> IF t \in {u \in S : last[u] # NoTick} THEN last[t]
                           ELSE IF t \in S THEN pending[c][t] ELSE NoTick] \in Quotes
    BY DEF Quotes
  <2>5. pending' \in [Conns -> Quotes]
    BY <1>3, <2>4 DEF Subscribe, SetSubscriptions
  <2>6. ready' \in [Conns -> BOOLEAN]
    BY <1>3 DEF Subscribe, SetSubscriptions
  <2> QED BY <2>2, <2>3, <2>5, <2>6, Zenon DEF poller, ends, env
<1>4. ASSUME NEW c \in Conns, Take(c) PROVE TypeOK'
  BY <1>4 DEF Take, hub, poller, env
<1>5. ASSUME NEW c \in Conns, Sent(c) PROVE TypeOK'
  BY <1>5, OverlayIsQuotes DEF Sent, hub, objects, poller, env
<1>6. CASE Idle
  BY <1>6 DEF Idle, hub, objects, ends, env
<1>7. CASE PollStart
  <2>1. Wanted \subseteq Tickers
    BY DEF Wanted
  <2> QED BY <1>7, <2>1 DEF PollStart, hub, objects, ends, env
<1>8. CASE PollEnd
  <2>1. UNCHANGED <<clients, tickers, idle, batch, ends, env>> /\ task' = "wait" /\ got' = NoQuotes
    BY <1>8 DEF PollEnd
  <2>2. last' \in Quotes
    BY <1>8, OverlayIsQuotes DEF PollEnd, Quotes
  <2>3. pending' \in [Conns -> Quotes]
    BY <1>8 DEF PollEnd, Quotes
  <2>4. ready' \in [Conns -> BOOLEAN]
    BY <1>8 DEF PollEnd
  <2> QED BY <2>1, <2>2, <2>3, <2>4, Zenon DEF ends, env
<1>9. CASE WaitEnds
  BY <1>9 DEF WaitEnds, objects, ends, env
<1>10. ASSUME NEW t \in Tickers, Fetch(t) PROVE TypeOK'
  <2>1. got' \in Quotes
    BY <1>10, QuoteIsTick DEF Fetch, Quotes
  <2> QED BY <1>10, <2>1 DEF Fetch, hub, objects, ends, env
<1>11. ASSUME NEW t \in Tickers, FetchFails(t) PROVE TypeOK'
  BY <1>11, BoundsAssumption DEF FetchFails, hub, objects, ends
<1>12. ASSUME NEW t \in Tickers, MarketMoves(t) PROVE TypeOK'
  BY <1>12, BoundsAssumption DEF MarketMoves, hub, objects, poller, ends
<1>13. CASE UNCHANGED vars
  BY <1>13 DEF vars, hub, objects, poller, ends, env
<1> QED BY <1>1, <1>2, <1>3, <1>4, <1>5, <1>6, <1>7, <1>8, <1>9, <1>10, <1>11, <1>12, <1>13
        DEF Next, Poll

\* Every reachable state is well typed.
THEOREM TypeCorrect == Spec => []TypeOK
  BY TypeInit, TypeStep, PTL DEF Spec

-----------------------------------------------------------------------------
(* The poll task *)

\* The poll task is alive whenever somebody is connected: it ends only when it finds
\* nobody there, and whoever registers afterwards starts it again.
THEOREM Polled == Spec => []PolledWhileConnected
<1>1. Init => PolledWhileConnected
  BY DEF Init, PolledWhileConnected
<1>2. PolledWhileConnected /\ [Next]_vars => PolledWhileConnected'
  <2> SUFFICES ASSUME PolledWhileConnected, [Next]_vars PROVE PolledWhileConnected'
    OBVIOUS
  <2> USE DEF PolledWhileConnected
  <2>1. ASSUME NEW c \in Conns, Register(c) PROVE PolledWhileConnected'
    BY <2>1 DEF Register, EnsureRunning
  <2>2. ASSUME NEW c \in Conns, Unregister(c) PROVE PolledWhileConnected'
    BY <2>2 DEF Unregister, poller
  <2>3. CASE Idle
    BY <2>3 DEF Idle, hub
  <2>4. CASE PollStart \/ PollEnd \/ WaitEnds
    BY <2>4 DEF PollStart, PollEnd, WaitEnds, hub
  <2>5. ASSUME NEW c \in Conns, NEW msg \in Messages, Subscribe(c, msg) PROVE PolledWhileConnected'
    BY <2>5 DEF Subscribe, poller
  <2>6. ASSUME NEW c \in Conns, Take(c) \/ Sent(c) PROVE PolledWhileConnected'
    BY <2>6 DEF Take, Sent, hub, poller
  <2>7. ASSUME NEW t \in Tickers, Fetch(t) \/ FetchFails(t) \/ MarketMoves(t)
        PROVE PolledWhileConnected'
    BY <2>7 DEF Fetch, FetchFails, MarketMoves, hub, poller
  <2>8. CASE UNCHANGED vars
    BY <2>8 DEF vars, hub, poller
  <2> QED BY <2>1, <2>2, <2>3, <2>4, <2>5, <2>6, <2>7, <2>8 DEF Next, Poll
<1> QED BY <1>1, <1>2, PTL DEF Spec

-----------------------------------------------------------------------------
(* Nobody keeps an old price *)

\* Who is not connected follows nothing, so that a connection starts empty.
Fresh == \A c \in Conns \ clients : tickers[c] = {}

Current(c, t) ==
  last[t] # NoTick => /\ Due(c, t) # NoTick
                      /\ Due(c, t).p = last[t].p
                      /\ pending[c][t] # NoTick => ready[c]

\* A client stays current under a step that leaves its quotes and the last tick alone and
\* does not put its sender to sleep.
LEMMA CurrentKept ==
  ASSUME NEW c \in Conns, NEW t \in Tickers, Current(c, t),
         last'[t] = last[t], pending'[c][t] = pending[c][t], sending'[c][t] = sending[c][t],
         shown'[c][t] = shown[c][t], ready[c] => ready'[c]
  PROVE  Current(c, t)'
  BY DEF Current, Due

\* A tick is not the absence of one.
LEMMA TickIsPresent == \A k \in Tick : k # NoTick
  BY NoTickAssumption DEF Tick

\* No step makes one who is not connected follow or receive anything.
LEMMA FreshStep == TypeOK /\ Fresh /\ [Next]_vars => Fresh'
<1> SUFFICES ASSUME TypeOK, Fresh, [Next]_vars PROVE Fresh'
  OBVIOUS
<1> USE DEF Fresh
<1>1. ASSUME NEW c \in Conns, Register(c) PROVE Fresh'
  BY <1>1 DEF Register, objects
<1>2. ASSUME NEW c \in Conns, Unregister(c) PROVE Fresh'
  BY <1>2 DEF Unregister, TypeOK
<1>3. ASSUME NEW c \in Conns, NEW msg \in Messages, Subscribe(c, msg) PROVE Fresh'
  BY <1>3 DEF Subscribe, SetSubscriptions, TypeOK
<1>4. ASSUME NEW c \in Conns, Take(c) \/ Sent(c) PROVE Fresh'
  BY <1>4 DEF Take, Sent, hub, objects
<1>5. CASE Poll
  BY <1>5 DEF Poll, Idle, PollStart, PollEnd, WaitEnds, hub, objects
<1>6. ASSUME NEW t \in Tickers, Fetch(t) \/ FetchFails(t) \/ MarketMoves(t) PROVE Fresh'
  BY <1>6 DEF Fetch, FetchFails, MarketMoves, hub, objects
<1>7. CASE UNCHANGED vars
  BY <1>7 DEF vars, hub, objects
<1> QED BY <1>1, <1>2, <1>3, <1>4, <1>5, <1>6, <1>7 DEF Next

\* No step leaves a follower behind the last tick with nothing under way to it.
LEMMA DueStep == TypeOK /\ Fresh /\ LatestIsDue /\ [Next]_vars => LatestIsDue'
<1> SUFFICES ASSUME TypeOK, Fresh, LatestIsDue, [Next]_vars,
                    NEW d \in clients', NEW t \in tickers'[d]
             PROVE  Current(d, t)'
  BY DEF LatestIsDue, Current
<1>0. TypeOK' /\ d \in Conns /\ t \in Tickers
  BY TypeStep DEF TypeOK
<1>1. ASSUME d \in clients, t \in tickers[d] PROVE Current(d, t)
  BY <1>1 DEF LatestIsDue, Current
<1>2. ASSUME UNCHANGED <<hub, objects, sending, shown>> PROVE Current(d, t)'
  BY <1>0, <1>1, <1>2, CurrentKept DEF hub, objects
<1>3. ASSUME NEW c \in Conns, Register(c) PROVE Current(d, t)'
  <2>1. tickers[d] # {}
    BY <1>3 DEF Register, objects
  <2>2. d \in clients
    BY <1>0, <2>1 DEF Fresh
  <2> QED BY <1>0, <1>1, <1>3, <2>2, CurrentKept DEF Register, objects, ends
<1>4. ASSUME NEW c \in Conns, Unregister(c) PROVE Current(d, t)'
  <2>1. d \in clients /\ d # c
    BY <1>4 DEF Unregister
  <2>2. /\ last' = last /\ tickers'[d] = tickers[d] /\ pending'[d] = pending[d]
        /\ ready'[d] = ready[d] /\ sending'[d] = sending[d] /\ shown'[d] = shown[d]
    BY <1>0, <1>4, <2>1 DEF Unregister, TypeOK
  <2> QED BY <1>0, <1>1, <2>1, <2>2, CurrentKept
<1>5. ASSUME NEW c \in Conns, NEW msg \in Messages, Subscribe(c, msg) PROVE Current(d, t)'
  <2> DEFINE S == Cleaned(msg)
             known == {u \in S : last[u] # NoTick}
  <2>1. /\ c \in clients /\ clients' = clients /\ last' = last
        /\ sending' = sending /\ shown' = shown
    BY <1>5 DEF Subscribe, ends
  <2>2. /\ tickers' = [tickers EXCEPT ![c] = S]
        /\ pending' = [pending EXCEPT ![c] = [u \in Tickers |-> IF u \in known THEN last[u]
                                                ELSE IF u \in S THEN @[u] ELSE NoTick]]
        /\ ready' = [ready EXCEPT ![c] = @ \/ known # {}]
    BY <1>5 DEF Subscribe, SetSubscriptions
  <2>3. CASE d # c
    <3>1. tickers'[d] = tickers[d] /\ pending'[d] = pending[d] /\ ready'[d] = ready[d]
      BY <1>0, <2>2, <2>3 DEF TypeOK
    <3> QED BY <1>0, <1>1, <2>1, <3>1, CurrentKept
  <2>4. CASE d = c
    <3>1. t \in S
      BY <1>0, <2>2, <2>4 DEF TypeOK
    <3>2. CASE last[t] = NoTick
      BY <2>1, <3>2 DEF Current
    <3>3. CASE last[t] # NoTick
      <4>1. t \in known
        BY <3>1, <3>3
      <4>2. pending'[d][t] = last[t]
        BY <1>0, <2>2, <2>4, <4>1 DEF TypeOK
      <4>3. ready'[d]
        BY <1>0, <2>2, <2>4, <4>1 DEF TypeOK
      <4> QED BY <2>1, <3>3, <4>2, <4>3 DEF Current, Due
    <3> QED BY <3>2, <3>3
  <2> QED BY <2>3, <2>4
<1>6. ASSUME NEW c \in Conns, Take(c) PROVE Current(d, t)'
  <2>1. d \in clients /\ t \in tickers[d] /\ last' = last /\ shown' = shown
    BY <1>6 DEF Take, hub
  <2>2. CASE d # c
    <3>1. pending'[d] = pending[d] /\ ready'[d] = ready[d] /\ sending'[d] = sending[d]
      BY <1>0, <1>6, <2>2 DEF Take, TypeOK
    <3> QED BY <1>0, <1>1, <2>1, <3>1, CurrentKept
  <2>3. CASE d = c
    <3>1. /\ sending[d][t] = NoTick
          /\ pending'[d][t] = NoTick /\ sending'[d][t] = pending[d][t]
      BY <1>0, <1>6, <2>3 DEF Take, NoQuotes, TypeOK
    <3> QED BY <1>1, <2>1, <3>1 DEF Current, Due
  <2> QED BY <2>2, <2>3
<1>7. ASSUME NEW c \in Conns, Sent(c) PROVE Current(d, t)'
  <2>1. d \in clients /\ t \in tickers[d] /\ last' = last /\ pending' = pending /\ ready' = ready
    BY <1>7 DEF Sent, hub, objects
  <2>2. CASE d # c
    <3>1. sending'[d] = sending[d] /\ shown'[d] = shown[d]
      BY <1>0, <1>7, <2>2 DEF Sent, TypeOK
    <3> QED BY <1>0, <1>1, <2>1, <3>1, CurrentKept
  <2>3. CASE d = c
    <3>1. /\ sending'[d][t] = NoTick
          /\ shown'[d][t] = IF sending[d][t] = NoTick THEN shown[d][t] ELSE sending[d][t]
      BY <1>0, <1>7, <2>3 DEF Sent, NoQuotes, Overlay, TypeOK
    <3> QED BY <1>1, <2>1, <3>1 DEF Current, Due
  <2> QED BY <2>2, <2>3
<1>8. CASE PollEnd
  <2>1. /\ d \in clients /\ t \in tickers[d] /\ sending' = sending /\ shown' = shown
        /\ last'[t] = IF got[t] = NoTick THEN last[t] ELSE got[t]
        /\ pending'[d][t] = IF Changed(t) THEN got[t] ELSE pending[d][t]
        /\ ready[d] \/ Changed(t) => ready'[d]
    BY <1>0, <1>8 DEF PollEnd, Overlay, ends
  <2>2. CASE Changed(t)
    BY <2>1, <2>2 DEF Changed, Current, Due
  <2>3. CASE ~Changed(t)
    <3>1. Current(d, t)
      BY <1>1, <2>1
    <3>2. last'[t] = last[t] \/ (last[t] # NoTick /\ last'[t].p = last[t].p)
      BY <2>1, <2>3 DEF Changed
    <3> QED BY <2>1, <2>3, <3>1, <3>2 DEF Current, Due
  <2> QED BY <2>2, <2>3
<1>9. CASE Idle \/ PollStart \/ WaitEnds
  BY <1>2, <1>9 DEF Idle, PollStart, WaitEnds, hub, ends
<1>10. ASSUME NEW u \in Tickers, Fetch(u) \/ FetchFails(u) \/ MarketMoves(u) PROVE Current(d, t)'
  BY <1>2, <1>10 DEF Fetch, FetchFails, MarketMoves, ends
<1>11. CASE UNCHANGED vars
  BY <1>2, <1>11 DEF vars, ends
<1> QED BY <1>3, <1>4, <1>5, <1>6, <1>7, <1>8, <1>9, <1>10, <1>11 DEF Next, Poll

\* No client is left on an old price of a ticker it follows: the last known price is
\* shown, on its way, or pending for a sender that is awake.
THEOREM LatestDue == Spec => []LatestIsDue
<1>1. Init => Fresh /\ LatestIsDue
  BY DEF Init, Fresh, LatestIsDue
<1> QED BY <1>1, TypeCorrect, FreshStep, DueStep, PTL DEF Spec

-----------------------------------------------------------------------------
(* No quote goes back in time *)

\* Of two quotes, if both are there, the first is not the later one.
Before(a, b) == a # NoTick /\ b # NoTick => a.ts <= b.ts

\* If there is the first quote, there is a second one, not earlier.
UpTo(a, b) == a # NoTick => b # NoTick /\ a.ts <= b.ts

\* Of one ticker and one connection: what is read is not before the last tick, nor what is
\* pending before what is being sent, nor that before what was shown; and the last tick is the
\* latest of all but what is being read.
Ordered(l, g, m, p, s, h) ==
  /\ l # NoTick => l.ts <= m
  /\ g # NoTick => g.ts <= m
  /\ Before(l, g)
  /\ UpTo(p, l) /\ UpTo(s, l) /\ UpTo(h, l)
  /\ Before(s, p) /\ Before(h, s) /\ Before(h, p)

InOrder ==
  \A c \in Conns, t \in Tickers :
    Ordered(last[t], got[t], market[t], pending[c][t], sending[c][t], shown[c][t])

\* Every step keeps the quotes of every ticker in order.
\* The times of quotes can be compared.
LEMMA Times == \A q \in Tick : q # NoTick /\ q.ts \in Nat
BY TickIsPresent DEF Tick

LEMMA OrderStep == TypeOK /\ InOrder /\ [Next]_vars => InOrder'
<1> SUFFICES ASSUME TypeOK, InOrder, [Next]_vars, NEW d \in Conns, NEW t \in Tickers
             PROVE  Ordered(last'[t], got'[t], market'[t], pending'[d][t], sending'[d][t],
                            shown'[d][t])
  BY DEF InOrder
<1> DEFINE After == Ordered(last'[t], got'[t], market'[t], pending'[d][t], sending'[d][t],
                            shown'[d][t])
<1>0. /\ last[t] \in Tick \cup {NoTick} /\ got[t] \in Tick \cup {NoTick} /\ market[t] \in Nat
      /\ pending[d][t] \in Tick \cup {NoTick} /\ sending[d][t] \in Tick \cup {NoTick}
      /\ shown[d][t] \in Tick \cup {NoTick}
      /\ Ordered(last[t], got[t], market[t], pending[d][t], sending[d][t], shown[d][t])
  BY DEF TypeOK, Quotes, InOrder
<1>1. ASSUME UNCHANGED <<last, got, market, pending, sending, shown>> PROVE After
  BY <1>0, <1>1
<1>2. ASSUME NEW c \in Conns, Unregister(c) PROVE After
  <2>1. last' = last /\ got' = got /\ market' = market
    BY <1>2 DEF Unregister, poller, env
  <2>2. CASE d # c
    BY <1>0, <1>2, <2>1, <2>2 DEF Unregister, TypeOK
  <2>3. CASE d = c
    <3>1. pending'[d][t] = NoTick /\ sending'[d][t] = NoTick /\ shown'[d][t] = NoTick
      BY <1>2, <2>3 DEF Unregister, TypeOK, NoQuotes
    <3> QED BY <1>0, <2>1, <3>1, Times DEF Ordered, Before, UpTo
  <2> QED BY <2>2, <2>3
<1>3. ASSUME NEW c \in Conns, NEW msg \in Messages, Subscribe(c, msg) PROVE After
  <2>1. last' = last /\ got' = got /\ market' = market /\ sending' = sending /\ shown' = shown
    BY <1>3 DEF Subscribe, poller, ends, env
  <2>2. pending'[d][t] \in {pending[d][t], last[t], NoTick}
    BY <1>3 DEF Subscribe, SetSubscriptions, TypeOK
  <2> QED BY <1>0, <2>1, <2>2, Times DEF Ordered, Before, UpTo
<1>4. ASSUME NEW c \in Conns, Take(c) PROVE After
  <2>1. last' = last /\ got' = got /\ market' = market /\ shown' = shown
    BY <1>4 DEF Take, hub, poller, env
  <2>2. CASE d # c
    BY <1>0, <1>4, <2>1, <2>2 DEF Take, TypeOK
  <2>3. CASE d = c
    <3>1. /\ sending[d][t] = NoTick
          /\ pending'[d][t] = NoTick /\ sending'[d][t] = pending[d][t]
      BY <1>4, <2>3 DEF Take, NoQuotes, TypeOK
    <3> QED BY <1>0, <2>1, <3>1, Times DEF Ordered, Before, UpTo
  <2> QED BY <2>2, <2>3
<1>5. ASSUME NEW c \in Conns, Sent(c) PROVE After
  <2>1. last' = last /\ got' = got /\ market' = market /\ pending' = pending
    BY <1>5 DEF Sent, hub, objects, poller, env
  <2>2. CASE d # c
    BY <1>0, <1>5, <2>1, <2>2 DEF Sent, TypeOK
  <2>3. CASE d = c
    <3>1. /\ sending'[d][t] = NoTick
          /\ shown'[d][t] = IF sending[d][t] = NoTick THEN shown[d][t] ELSE sending[d][t]
      BY <1>5, <2>3 DEF Sent, NoQuotes, Overlay, TypeOK
    <3> QED BY <1>0, <2>1, <3>1, Times DEF Ordered, Before, UpTo
  <2> QED BY <2>2, <2>3
<1>6. CASE PollStart
  <2>1. got'[t] = NoTick /\ UNCHANGED <<last, market, pending, sending, shown>>
    BY <1>6 DEF PollStart, NoQuotes, hub, objects, ends, env
  <2> QED BY <1>0, <2>1, Times DEF Ordered, Before, UpTo
<1>7. CASE PollEnd
  <2>1. /\ last'[t] = IF got[t] = NoTick THEN last[t] ELSE got[t]
        /\ got'[t] = NoTick /\ UNCHANGED <<market, sending, shown>>
    BY <1>7 DEF PollEnd, Overlay, NoQuotes, ends, env
  <2>2. pending'[d][t] = pending[d][t] \/ (got[t] # NoTick /\ pending'[d][t] = got[t])
    BY <1>7 DEF PollEnd, Changed
  <2> QED BY <1>0, <2>1, <2>2, Times DEF Ordered, Before, UpTo
<1>8. ASSUME NEW u \in Tickers, Fetch(u) PROVE After
  <2>1. UNCHANGED <<last, market, pending, sending, shown>>
    BY <1>8 DEF Fetch, hub, objects, ends, env
  <2>2. CASE u # t
    BY <1>0, <1>8, <2>1, <2>2 DEF Fetch, TypeOK, Quotes
  <2>3. CASE u = t
    <3>1. got'[t] \in Tick /\ got'[t].ts = market[t]
      BY <1>8, <2>3, QuoteIsTick DEF Fetch, TypeOK, Quotes, QuoteOf
    <3> QED BY <1>0, <2>1, <3>1, Times DEF Ordered, Before, UpTo
  <2> QED BY <2>2, <2>3
<1>9. ASSUME NEW u \in Tickers, MarketMoves(u) PROVE After
  <2>1. UNCHANGED <<last, got, pending, sending, shown>>
    BY <1>9 DEF MarketMoves, hub, objects, poller, ends
  <2>2. market'[t] = market[t] \/ market'[t] = market[t] + 1
    BY <1>9 DEF MarketMoves, TypeOK
  <2> QED BY <1>0, <2>1, <2>2, Times DEF Ordered, Before, UpTo
<1>10. ASSUME NEW c \in Conns, Register(c) PROVE After
  BY <1>1, <1>10 DEF Register, objects, ends, env
<1>11. CASE Idle \/ WaitEnds
  BY <1>1, <1>11 DEF Idle, WaitEnds, hub, objects, ends, env
<1>12. ASSUME NEW u \in Tickers, FetchFails(u) PROVE After
  BY <1>1, <1>12 DEF FetchFails, hub, objects, ends
<1>13. CASE UNCHANGED vars
  BY <1>1, <1>13 DEF vars, hub, objects, poller, ends, env
<1> QED
  BY <1>2, <1>3, <1>4, <1>5, <1>6, <1>7, <1>8, <1>9, <1>10, <1>11, <1>12, <1>13 DEF Next, Poll

\* A browser is shown something else only by a send, and what is sent is not earlier.
LEMMA NoStepBackwards ==
  ASSUME TypeOK, InOrder, [Next]_vars, NEW d \in Conns, NEW t \in Tickers,
         shown[d][t] # NoTick, shown'[d][t] # NoTick
  PROVE  shown[d][t].ts <= shown'[d][t].ts
<1>1. shown[d][t] \in Tick /\ \A q \in Tick : q.ts \in Nat
  BY DEF TypeOK, Quotes, Tick
<1>2. ASSUME shown'[d][t] = shown[d][t] PROVE shown[d][t].ts <= shown'[d][t].ts
  BY <1>1, <1>2
<1>3. ASSUME NEW c \in Conns, Sent(c) PROVE shown[d][t].ts <= shown'[d][t].ts
  <2>1. CASE d # c
    BY <1>2, <1>3, <2>1 DEF Sent, TypeOK
  <2>2. CASE d = c
    <3>1. shown'[d][t] = IF sending[d][t] = NoTick THEN shown[d][t] ELSE sending[d][t]
      BY <1>3, <2>2 DEF Sent, Overlay, TypeOK
    <3>2. Before(shown[d][t], sending[d][t])
      BY DEF InOrder, Ordered
    <3> QED BY <1>2, <3>1, <3>2 DEF Before
  <2> QED BY <2>1, <2>2
<1>4. ASSUME NEW c \in Conns, Unregister(c) PROVE shown[d][t].ts <= shown'[d][t].ts
  BY <1>2, <1>4 DEF Unregister, TypeOK, NoQuotes
<1>5. ASSUME UNCHANGED shown PROVE shown[d][t].ts <= shown'[d][t].ts
  BY <1>2, <1>5
<1>6. ASSUME NEW c \in Conns, Register(c) \/ Take(c) PROVE shown[d][t].ts <= shown'[d][t].ts
  BY <1>5, <1>6 DEF Register, Take, ends
<1>7. ASSUME NEW c \in Conns, NEW msg \in Messages, Subscribe(c, msg)
      PROVE  shown[d][t].ts <= shown'[d][t].ts
  BY <1>5, <1>7 DEF Subscribe, ends
<1>8. CASE Poll
  BY <1>5, <1>8 DEF Poll, Idle, PollStart, PollEnd, WaitEnds, ends
<1>9. ASSUME NEW u \in Tickers, Fetch(u) \/ FetchFails(u) \/ MarketMoves(u)
      PROVE  shown[d][t].ts <= shown'[d][t].ts
  BY <1>5, <1>9 DEF Fetch, FetchFails, MarketMoves, ends
<1>10. CASE UNCHANGED vars
  BY <1>5, <1>10 DEF vars, ends
<1> QED BY <1>3, <1>4, <1>6, <1>7, <1>8, <1>9, <1>10 DEF Next

\* However polls, subscriptions, slow sends and late reads interleave, on one connection the
\* quotes of a ticker never go back in time (PriceHub._fetch_all, set_subscriptions, Client.take).
THEOREM NotBackwards == Spec => NeverBackwards
<1>1. Init => InOrder
  BY DEF Init, InOrder, Ordered, Before, UpTo, NoQuotes
<1>2. TypeOK /\ InOrder /\ [Next]_vars =>
        [\A c \in Conns, t \in Tickers :
           shown[c][t] # NoTick /\ shown'[c][t] # NoTick => shown[c][t].ts <= shown'[c][t].ts]_vars
  BY NoStepBackwards
<1> QED BY <1>1, <1>2, TypeCorrect, OrderStep, PTL DEF Spec, NeverBackwards

(***************************************************************************)
(* PriceStream, the browser's end                                          *)
(***************************************************************************)

\* Screens are finitely many (refs counts them), and each shows some ticker: useLivePrices does
\* not watch without one.
ScreensShow ==
  /\ IsFiniteSet(Screens)
  /\ Interest \in [Screens -> (SUBSET Tickers) \ {{}}]
  /\ None \notin Attempts

\* The screens that want a ticker, and what the store has counted
Wanting(t) == {s \in watching : t \in Interest[s]}

Counted ==
  /\ watching \subseteq Screens
  /\ refs = [t \in Tickers |-> Cardinality(Wanting(t))]

\* The store has a stream as long as it has screens; a stream without one is at rest.
Owned ==
  /\ stream \in BOOLEAN /\ (stream <=> watching # {})
  /\ stream => wanted = Browser!Wanted /\ (timer <=> current = None)
  /\ ~stream => current = None /\ socket = None /\ ~timer /\ status = "idle"
  /\ shownStatus = status

\* The attempt that may act is under way and, once it has one, this.socket is its socket; the
\* stream is live only while its server has greeted it and has been told the tickers.
Acting ==
  /\ timer \in BOOLEAN /\ current \in Attempts \cup {None} /\ socket \in Attempts \cup {None}
  /\ phase \in [Attempts -> Browser!Phases] /\ sent \in [Attempts -> SUBSET Tickers]
  /\ wanted \subseteq Tickers
  /\ current # None => phase[current] \in {"fetching", "opening", "authed", "greeted"}
  /\ current # None /\ phase[current] # "fetching" => socket = current
  /\ status = "live" => current # None /\ phase[current] = "greeted" /\ sent[current] = wanted

Kept == Counted /\ Owned /\ Acting

LEMMA KeptHolds == ASSUME Kept PROVE StreamHolds
<1>1. Browser!LiveMeansSubscribed
  BY DEF Kept, Owned, Acting, Browser!LiveMeansSubscribed
<1>2. Browser!OneAttemptUnderWay
  BY DEF Kept, Owned, Acting, Browser!OneAttemptUnderWay
<1> QED
  BY <1>1, <1>2 DEF StreamHolds, Browser!StreamHolds

\* A ticker is wanted by some screen exactly if its count is positive.
LEMMA WantedIsCounted ==
  ASSUME ScreensShow, NEW W \in SUBSET Screens, NEW R,
         R = [t \in Tickers |-> Cardinality({s \in W : t \in Interest[s]})]
  PROVE  \A t \in Tickers : R[t] > 0 <=> \E s \in W : t \in Interest[s]
<1> DEFINE Who(t) == {s \in W : t \in Interest[s]}
<1> TAKE t \in Tickers
<1>1. IsFiniteSet(Who(t))
  BY FS_Subset DEF ScreensShow
<1>2. Cardinality(Who(t)) \in Nat /\ (Cardinality(Who(t)) = 0 <=> Who(t) = {})
  BY <1>1, FS_CardinalityType, FS_EmptySet
<1> QED
  BY <1>2

LEMMA CountedInit == ASSUME watching = {}, refs = [t \in Tickers |-> 0] PROVE Counted
<1>1. \A t \in Tickers : Wanting(t) = {}
  BY DEF Wanting
<1> QED
  BY <1>1, FS_EmptySet DEF Counted

\* One screen more or less is counted at each of its tickers.
LEMMA CountsUp ==
  ASSUME ScreensShow, Counted, NEW s \in Screens, s \notin watching,
         watching' = watching \cup {s},
         refs' = [t \in Tickers |-> refs[t] + (IF t \in Interest[s] THEN 1 ELSE 0)]
  PROVE  Counted'
<1>1. ASSUME NEW t \in Tickers
      PROVE  Cardinality(Wanting(t))' = refs[t] + (IF t \in Interest[s] THEN 1 ELSE 0)
  <2>1. IsFiniteSet(Wanting(t)) /\ s \notin Wanting(t)
    BY FS_Subset DEF ScreensShow, Counted, Wanting
  <2>2. Wanting(t)' = IF t \in Interest[s] THEN Wanting(t) \cup {s} ELSE Wanting(t)
    BY DEF Wanting
  <2>3. refs[t] = Cardinality(Wanting(t)) /\ refs[t] \in Nat
    BY <2>1, FS_CardinalityType DEF Counted
  <2>4. Cardinality(Wanting(t) \cup {s}) = Cardinality(Wanting(t)) + 1
    BY <2>1, FS_AddElement
  <2> QED
    BY <2>2, <2>3, <2>4
<1> QED
  BY <1>1 DEF Counted

LEMMA CountsDown ==
  ASSUME ScreensShow, Counted, NEW s \in Screens, s \in watching,
         watching' = watching \ {s},
         refs' = [t \in Tickers |-> refs[t] - (IF t \in Interest[s] THEN 1 ELSE 0)]
  PROVE  Counted'
<1>1. ASSUME NEW t \in Tickers
      PROVE  Cardinality(Wanting(t))' = refs[t] - (IF t \in Interest[s] THEN 1 ELSE 0)
  <2>1. IsFiniteSet(Wanting(t)) /\ (s \in Wanting(t) <=> t \in Interest[s])
    BY FS_Subset DEF ScreensShow, Counted, Wanting
  <2>2. Wanting(t)' = IF t \in Interest[s] THEN Wanting(t) \ {s} ELSE Wanting(t)
    BY DEF Wanting
  <2>3. refs[t] = Cardinality(Wanting(t)) /\ refs[t] \in Nat
    BY <2>1, FS_CardinalityType DEF Counted
  <2>4. s \in Wanting(t) => Cardinality(Wanting(t) \ {s}) = Cardinality(Wanting(t)) - 1
    BY <2>1, FS_RemoveElement
  <2> QED
    BY <2>1, <2>2, <2>3, <2>4
<1> QED
  BY <1>1 DEF Counted

LEMMA StreamInit == Browser!Init => Kept
<1> SUFFICES ASSUME Browser!Init PROVE Kept
  OBVIOUS
<1>1. Counted
  BY CountedInit DEF Browser!Init
<1>2. Owned /\ Acting
  BY DEF Browser!Init, Owned, Acting, Browser!Phases
<1> QED
  BY <1>1, <1>2 DEF Kept

\* The store brings its stream in line with what the screens now want.
LEMMA SyncKeeps ==
  ASSUME ScreensShow, Kept, Counted', watching # watching', Browser!Sync
  PROVE  Kept'
<1> DEFINE now == {t \in Tickers : refs'[t] > 0}
<1>1. now = Browser!Wanted' /\ (now = {} <=> watching' = {}) /\ now \subseteq Tickers
  <2>1. watching' \in SUBSET Screens
    BY DEF Counted
  <2>2. refs' = [t \in Tickers |-> Cardinality({s \in watching' : t \in Interest[s]})]
    BY DEF Counted, Wanting
  <2>3. Browser!Wanted' = UNION {Interest[s] : s \in watching'}
    BY DEF Browser!Wanted
  <2>4. \A t \in Tickers : refs'[t] > 0 <=> \E s \in watching' : t \in Interest[s]
    BY <2>1, <2>2, WantedIsCounted
  <2>5. \A s \in watching' : Interest[s] \subseteq Tickers /\ Interest[s] # {}
    BY <2>1 DEF ScreensShow
  <2> QED
    BY <2>3, <2>4, <2>5
<1> HIDE DEF now
<1>2. CASE now = {} /\ stream /\ Browser!StopStream
  <2>1. phase' \in [Attempts -> Browser!Phases] /\ sent' \in [Attempts -> SUBSET Tickers]
    BY <1>2 DEF Kept, Acting, Browser!StopStream, Browser!Ended, Browser!Phases, Browser!links
  <2>2. /\ ~stream' /\ stream' \in BOOLEAN /\ current' = None /\ socket' = None
        /\ ~timer' /\ timer' \in BOOLEAN
        /\ status' = "idle" /\ shownStatus' = "idle" /\ wanted' = wanted
    BY <1>2 DEF Browser!StopStream, Browser!SetStatus
  <2> QED
    BY <1>1, <1>2, <2>1, <2>2 DEF Kept, Owned, Acting
<1>3. CASE now # {} /\ ~stream /\ Browser!OpenStream(now)
  <2>1. PICK a \in Attempts : /\ phase[a] = "free" /\ current' = a
                              /\ phase' = [phase EXCEPT ![a] = "fetching"]
    BY <1>3 DEF Browser!OpenStream
  <2>2. /\ stream' /\ stream' \in BOOLEAN /\ wanted' = now /\ status' = "connecting"
        /\ shownStatus' = status'
        /\ UNCHANGED <<socket, timer, sent>>
    BY <1>3 DEF Browser!OpenStream, Browser!SetStatus
  <2>3. phase' \in [Attempts -> Browser!Phases] /\ phase'[a] = "fetching"
    BY <2>1 DEF Kept, Acting, Browser!Phases
  <2> QED
    BY <1>1, <1>3, <2>1, <2>2, <2>3 DEF Kept, Owned, Acting, ScreensShow
<1>4. CASE now # {} /\ stream /\ Browser!SetTickers(now)
  <2>1. wanted' = now /\ UNCHANGED <<stream, current, socket, status, timer, shownStatus, phase>>
    BY <1>4 DEF Browser!SetTickers
  <2>2. sent' = IF status = "live" /\ socket # None THEN [sent EXCEPT ![socket] = now] ELSE sent
    BY <1>4 DEF Browser!SetTickers
  <2>3. sent' \in [Attempts -> SUBSET Tickers]
    BY <1>1, <2>2 DEF Kept, Acting
  <2>4. status = "live" => socket = current /\ sent'[current] = now
    BY <2>2 DEF Kept, Acting
  <2>5. Acting'
    BY <1>1, <2>1, <2>3, <2>4 DEF Kept, Acting
  <2>6. Owned'
    BY <1>1, <1>4, <2>1 DEF Kept, Owned
  <2> QED
    BY <2>5, <2>6 DEF Kept
<1> QED
  BY <1>2, <1>3, <1>4 DEF Browser!Sync, now

\* What leaves the store alone keeps its counts.
LEMMA StreamNext == ScreensShow /\ Kept /\ [Browser!Next]_Browser!vars => Kept'
<1> SUFFICES ASSUME ScreensShow, Kept, [Browser!Next]_Browser!vars PROVE Kept'
  OBVIOUS
<1> USE DEF Kept
<1>1. ASSUME UNCHANGED <<watching, refs>> PROVE Counted' /\ Browser!Wanted' = Browser!Wanted
  BY <1>1 DEF Counted, Wanting, Browser!Wanted
<1>2. ASSUME NEW s \in Screens, Browser!Watch(s) PROVE Kept'
  <2>1. watching' # watching /\ Counted'
    BY <1>2, CountsUp DEF Browser!Watch
  <2> QED
    BY <1>2, <2>1, SyncKeeps DEF Browser!Watch
<1>3. ASSUME NEW s \in Screens, Browser!Release(s) PROVE Kept'
  <2>1. watching' # watching /\ Counted'
    BY <1>3, CountsDown DEF Browser!Release
  <2> QED
    BY <1>3, <2>1, SyncKeeps DEF Browser!Release
<1>4. ASSUME NEW a \in Attempts, phase[a] = "free", stream, status # "live", timer' = FALSE,
             current' = a, phase' = [phase EXCEPT ![a] = "fetching"],
             UNCHANGED <<Browser!store, stream, socket, wanted, status, sent>>
      PROVE  Kept'
  <2>1. phase' \in [Attempts -> Browser!Phases] /\ phase'[a] = "fetching"
    BY <1>4 DEF Acting, Browser!Phases
  <2>2. Counted' /\ Browser!Wanted' = Browser!Wanted
    BY <1>1, <1>4 DEF Browser!store
  <2> QED
    BY <1>4, <2>1, <2>2 DEF Owned, Acting, ScreensShow, Browser!store
<1>5. CASE Browser!ReconnectNow
  BY <1>4, <1>5 DEF Browser!ReconnectNow, Browser!Connect
<1>6. CASE Browser!TimerFires
  <2>1. stream /\ status # "live"
    BY <1>6 DEF Browser!TimerFires, Owned, Acting
  <2> QED
    BY <1>4, <1>6, <2>1 DEF Browser!TimerFires, Browser!Connect
<1>7. ASSUME NEW a \in Attempts, Browser!Ended(a), stream, current' = None, timer' = TRUE,
             socket' \in {socket, None}, status' \in {"reconnecting", "unavailable", "connecting"},
             shownStatus' = status', UNCHANGED <<watching, refs, stream, wanted>>
      PROVE  Kept'
  <2>1. /\ phase' \in [Attempts -> Browser!Phases] /\ sent' \in [Attempts -> SUBSET Tickers]
    BY <1>7 DEF Acting, Browser!Ended, Browser!Phases
  <2>2. Counted' /\ Browser!Wanted' = Browser!Wanted
    BY <1>1, <1>7
  <2> QED
    BY <1>7, <2>1, <2>2 DEF Owned, Acting
<1>8. ASSUME NEW a \in Attempts, Browser!Ended(a), a # current,
             UNCHANGED <<watching, refs, shownStatus, stream, current, socket, wanted, status, timer>>
      PROVE  Kept'
  <2>1. /\ phase' \in [Attempts -> Browser!Phases] /\ sent' \in [Attempts -> SUBSET Tickers]
        /\ \A b \in Attempts \ {a} : phase'[b] = phase[b] /\ sent'[b] = sent[b]
    BY <1>8 DEF Acting, Browser!Ended, Browser!Phases
  <2>2. Counted' /\ Browser!Wanted' = Browser!Wanted
    BY <1>1, <1>8
  <2> QED
    BY <1>8, <2>1, <2>2 DEF Owned, Acting
<1>9. /\ Browser!AfterFailure \in {"reconnecting", "unavailable", "connecting"}
      /\ current # None => stream
  BY DEF Browser!AfterFailure, Owned
<1>10. ASSUME NEW a \in Attempts, Browser!Ended(a), Browser!Drop(a),
              UNCHANGED <<watching, refs, stream, wanted>>
       PROVE  Kept'
  <2>1. CASE a = current
    <3>1. /\ current' = None /\ socket' = None /\ timer' = TRUE
          /\ status' = Browser!AfterFailure /\ shownStatus' = status' /\ stream
      BY <1>9, <1>10, <2>1 DEF Browser!Drop, Browser!ScheduleReconnect, Browser!SetStatus, ScreensShow
    <3> QED
      BY <1>7, <1>9, <1>10, <3>1
  <2>2. CASE a # current
    BY <1>8, <1>10, <2>2 DEF Browser!Drop
  <2> QED
    BY <2>1, <2>2
<1>11. ASSUME NEW a \in Attempts, Browser!EndpointAnswers(a) PROVE Kept'
  <2>1. UNCHANGED <<watching, refs, shownStatus, stream, current, wanted, status, timer>>
    BY <1>11 DEF Browser!EndpointAnswers, Browser!store
  <2>2. CASE a = current
    <3>1. socket' = a /\ sent' = sent /\ phase[a] = "fetching"
          /\ phase' = [phase EXCEPT ![a] = "opening"]
      BY <1>11, <2>2 DEF Browser!EndpointAnswers
    <3>2. phase' \in [Attempts -> Browser!Phases] /\ phase'[a] = "opening" /\ status # "live"
      BY <2>2, <3>1 DEF Acting, Browser!Phases
    <3>3. Counted' /\ Browser!Wanted' = Browser!Wanted
      BY <1>1, <2>1
    <3> QED
      BY <2>1, <2>2, <3>1, <3>2, <3>3 DEF Owned, Acting, ScreensShow
  <2>3. CASE a # current
    BY <1>8, <1>11, <2>1, <2>3 DEF Browser!EndpointAnswers
  <2> QED
    BY <2>2, <2>3
<1>12. ASSUME NEW a \in Attempts, Browser!EndpointFails(a) PROVE Kept'
  <2>1. CASE a = current
    <3>1. /\ current' = None /\ timer' = TRUE /\ stream
          /\ status' = Browser!AfterFailure /\ shownStatus' = status'
      BY <1>9, <1>12, <2>1 DEF Browser!EndpointFails, Browser!ScheduleReconnect, Browser!SetStatus,
                               ScreensShow
    <3> QED
      BY <1>7, <1>9, <1>12, <3>1 DEF Browser!EndpointFails
  <2>2. CASE a # current
    BY <1>8, <1>12, <2>2 DEF Browser!EndpointFails
  <2> QED
    BY <2>1, <2>2
<1>13. ASSUME NEW a \in Attempts, NEW p \in {"mute", "authed", "greeted"},
              phase[a] \in {"opening", "authed"}, phase' = [phase EXCEPT ![a] = p],
              a = current => p # "mute",
              UNCHANGED <<watching, refs, stream, current, socket, wanted, timer>>,
              \/ a # current /\ UNCHANGED <<shownStatus, status, sent>>
              \/ a = current /\ p # "greeted" /\ UNCHANGED <<shownStatus, status, sent>>
              \/ /\ a = current /\ p = "greeted" /\ status' = "live" /\ shownStatus' = "live"
                 /\ sent' = [sent EXCEPT ![a] = wanted]
       PROVE  Kept'
  <2>1. /\ phase' \in [Attempts -> Browser!Phases] /\ phase'[a] = p
        /\ \A b \in Attempts \ {a} : phase'[b] = phase[b]
    BY <1>13 DEF Acting, Browser!Phases
  <2>2. /\ sent' \in [Attempts -> SUBSET Tickers]
        /\ status' = "live" => current # None /\ phase'[current] = "greeted" /\ sent'[current] = wanted
    BY <1>13, <2>1 DEF Acting, ScreensShow
  <2>3. Counted' /\ Browser!Wanted' = Browser!Wanted
    BY <1>1, <1>13
  <2>4. Acting'
    BY <1>13, <2>1, <2>2 DEF Acting
  <2>5. Owned'
    BY <1>9, <1>13, <2>3 DEF Owned, ScreensShow
  <2> QED
    BY <2>3, <2>4, <2>5
<1>14. ASSUME NEW a \in Attempts, Browser!SocketOpens(a) PROVE Kept'
  BY <1>13, <1>14 DEF Browser!SocketOpens, Browser!store, Browser!client
<1>15. ASSUME NEW a \in Attempts, Browser!Hello(a) PROVE Kept'
  BY <1>13, <1>15 DEF Browser!Hello, Browser!SetStatus
<1>16. ASSUME NEW a \in Attempts, Browser!SocketCloses(a) PROVE Kept'
  BY <1>10, <1>16 DEF Browser!SocketCloses
<1>17. ASSUME UNCHANGED <<watching, refs, shownStatus, stream, current, socket, wanted, status,
                         timer, phase, sent>>
       PROVE  Kept'
  <2>1. Counted' /\ Browser!Wanted' = Browser!Wanted
    BY <1>1, <1>17
  <2> QED
    BY <1>17, <2>1 DEF Owned, Acting
<1>18. ASSUME NEW a \in Attempts, Browser!GoesSilent(a) PROVE Kept'
  BY <1>17, <1>18 DEF Browser!GoesSilent, Browser!store, Browser!client
<1>19. CASE Browser!WatchdogFires
  <2>1. CASE watchdog = current
    BY <1>9, <1>10, <1>19, <2>1 DEF Browser!WatchdogFires, Acting
  <2>2. CASE watchdog # current
    BY <1>17, <1>19, <2>2 DEF Browser!WatchdogFires, Browser!links
  <2> QED
    BY <2>1, <2>2
<1>20. CASE UNCHANGED Browser!vars
  BY <1>17, <1>20 DEF Browser!vars, Browser!store, Browser!client, Browser!links
<1> QED
  BY <1>2, <1>3, <1>5, <1>6, <1>11, <1>12, <1>14, <1>15, <1>16, <1>18, <1>19, <1>20 DEF Browser!Next

\* While the feed is shown as live, the server knows exactly the tickers the mounted screens
\* want; and with screens watching, an attempt is under way or the reconnect timer runs, never
\* both, however screens, drops, late endpoints and the "online" event interleave (LivePriceStore.sync,
\* PriceStream.connect, drop, scheduleReconnect).
THEOREM StreamKept == ASSUME ScreensShow PROVE Browser!Spec => []StreamHolds
<1>1. Kept => StreamHolds
  BY KeptHolds
<1>2. Kept /\ [Browser!Next]_Browser!vars => Kept'
  BY StreamNext
<1> QED
  BY <1>1, <1>2, StreamInit, PTL DEF Browser!Spec

(***************************************************************************)
(* WakeListener                                                            *)
(***************************************************************************)

\* What stands for none is apart.
ListenerConstants == None \notin Links \cup Timers

\* A connection whose socket is there; and one as the relay and the browser leave it: nothing is
\* said before the session begins, the session of half a relay is over, and where the relay has
\* ended, the browser's socket is about to be told.
Live(k) == k.browser \in {"opening", "open"}
News == {"ready", "wake_detected", "close"}
Connection == [browser : {"none", "opening", "open", "gone"},
               relay : {"none", "accepted", "connecting", "relaying", "half"},
               sarvam : {"none", "open", "begun", "dead", "deaf"}, inbox : Seq(News)]
Told(k) ==
  /\ k.relay = "half" => k.sarvam \in {"dead", "deaf"}
  /\ k.browser = "opening" => k.relay = "none"
  /\ k.browser = "opening" \/ k.relay \in {"accepted", "connecting"} => k.inbox = <<>>
  /\ k.browser = "open" /\ k.relay = "none" => \E i \in 1..Len(k.inbox) : k.inbox[i] = "close"

Wires ==
  /\ link \in [Links -> Connection] /\ \A c \in Links : Told(link[c])
  /\ wsRef \in Links \cup {None} /\ (wsRef # None => Live(link[wsRef]))

\* What the hook refers to and waits for.
Hooked ==
  /\ asking \in Nat /\ fetching \in Nat
  /\ timers \in [Timers -> {"off", "soon", "planned"}] /\ timerRef \in Timers \cup {None}
  /\ pageShown \in BOOLEAN /\ stopped \in BOOLEAN /\ (~pageShown => stopped)
  /\ Listener!NotGivenUp

\* Unless it raced, one call waits at a time and while no socket is there, and a reconnection is
\* planned only while nothing is there or under way.
NoLink == \A c \in Links : ~Live(link[c])
AtRest == asking = 0 /\ fetching = 0
InTurn ==
  /\ asking + fetching <= 1 /\ lostMic = FALSE
  /\ \A c \in Links : Live(link[c]) => c = wsRef
  /\ stopped => AtRest /\ mic = FALSE
  /\ asking > 0 => mic = FALSE
  /\ stopped \/ ~AtRest => NoLink
  /\ \A t \in Timers : timers[t] = "soon" => t = timerRef /\ ~stopped /\ AtRest /\ NoLink

\* Who is said to be listened to has a session, or news of its end, or a connection to come.
Attended ==
  IF wsRef = None THEN fetching > 0
  ELSE \/ link[wsRef].browser = "opening"
       \/ link[wsRef].relay \in {"relaying", "half"}
       \/ link[wsRef].inbox # <<>>

Listens ==
  /\ Wires /\ Hooked
  /\ raced \in BOOLEAN
  /\ ~raced => InTurn
  /\ ~raced /\ pageShown /\ state = "listening" /\ ~stopped => Attended

LEMMA ListensHolds == ASSUME Listens PROVE ListenerHolds
<1> USE DEF Listens
<1>1. pageShown => Listener!NotGivenUp
  BY DEF Hooked
<1>2. ~raced => Listener!NothingHeld /\ Listener!OneSocket
  BY DEF InTurn, AtRest, NoLink, Live, Listener!NothingHeld, Listener!OneSocket
<1>3. ~raced /\ pageShown /\ (\A c \in Links : link[c].sarvam # "deaf")
        => Listener!HeardWhileListening
  <2> SUFFICES ASSUME ~raced, pageShown, \A c \in Links : link[c].sarvam # "deaf",
                      state = "listening", ~stopped, wsRef # None
               PROVE  \/ link[wsRef].browser = "opening" \/ link[wsRef].relay = "relaying"
                      \/ link[wsRef].relay = "half" /\ link[wsRef].sarvam = "dead"
                      \/ link[wsRef].inbox # <<>>
    BY DEF Attended, Listener!HeardWhileListening
  <2>1. link[wsRef].relay = "half" => link[wsRef].sarvam = "dead"
    BY DEF Wires, Told
  <2> QED
    BY <2>1 DEF Attended
<1> QED
  BY <1>1, <1>2, <1>3 DEF ListenerHolds, Listener!ListenerHolds

LEMMA ListenerStarts == ListenerConstants /\ Listener!Init => Listens
<1> SUFFICES ASSUME ListenerConstants, Listener!Init PROVE Listens
  OBVIOUS
<1>1. Listener!Unused \in Connection /\ Told(Listener!Unused) /\ ~Live(Listener!Unused)
  BY DEF Listener!Unused, Connection, Told, Live, News
<1>2. Wires
  BY <1>1 DEF Listener!Init, Wires
<1>3. Hooked
  BY DEF Listener!Init, Hooked, Listener!NotGivenUp
<1>4. InTurn
  BY <1>1 DEF Listener!Init, InTurn, AtRest, NoLink
<1> QED
  BY <1>2, <1>3, <1>4 DEF Listener!Init, Listens

-----------------------------------------------------------------------------
(* What happens to a connection *)

\* What the relay does leaves the browser's end as it is, and what it knew of a session, known.
Known(k) == k.relay \in {"relaying", "half"} \/ k.inbox # <<>>
Answered(k, j) ==
  /\ j \in Connection /\ Told(j)
  /\ (Live(j) <=> Live(k)) /\ (k.browser = "opening" => j.browser = "opening")
  /\ Live(k) /\ Known(k) => Known(j)

LEMMA ClosedLink ==
  ASSUME NEW k \in Connection, Told(k)
  PROVE  Listener!Closed(k) \in Connection /\ Told(Listener!Closed(k)) /\ ~Live(Listener!Closed(k))
<1>1. Listener!Unused \in Connection /\ Told(Listener!Unused) /\ ~Live(Listener!Unused)
  BY DEF Listener!Unused, Connection, Told, Live, News
<1>2. ASSUME NEW j, j = [k EXCEPT !.browser = "gone", !.inbox = <<>>]
      PROVE  j \in Connection /\ Told(j) /\ ~Live(j)
  <2>1. j \in Connection
    <3>1. <<>> \in Seq(News)
      OBVIOUS
    <3>2. k = [browser |-> k.browser, relay |-> k.relay, sarvam |-> k.sarvam, inbox |-> k.inbox]
      BY DEF Connection
    <3>3. j = [browser |-> "gone", relay |-> k.relay, sarvam |-> k.sarvam, inbox |-> <<>>]
      BY <1>2, <3>2
    <3> QED
      BY <3>1, <3>3 DEF Connection
  <2>2. j.browser = "gone" /\ j.relay = k.relay /\ j.sarvam = k.sarvam /\ j.inbox = <<>>
    BY <1>2 DEF Connection
  <2> QED
    BY <2>1, <2>2 DEF Told, Live
<1> QED
  BY <1>1, <1>2 DEF Listener!Closed

LEMMA DroppedLinks ==
  ASSUME ListenerConstants, Wires, \A c \in Links : Live(link[c]) => c = wsRef
  PROVE  \A c \in Links : ~Live(Listener!Dropped[c])
BY ClosedLink DEF Wires, ListenerConstants, Listener!Dropped

LEMMA DroppedWires ==
  ASSUME ListenerConstants, Wires
  PROVE  /\ Listener!Dropped \in [Links -> Connection]
         /\ \A c \in Links : Told(Listener!Dropped[c])
<1>1. ASSUME wsRef # None
      PROVE  wsRef \in Links /\ Listener!Dropped = [link EXCEPT ![wsRef] = Listener!Closed(link[wsRef])]
  BY <1>1 DEF Wires, Listener!Dropped
<1> QED
  BY <1>1, ClosedLink DEF Wires, Listener!Dropped

LEMMA EndedLink ==
  ASSUME NEW k \in Connection, Told(k), k.browser # "opening"
  PROVE  Answered(k, Listener!Ended(k))
<1>1. CASE k.browser = "gone"
  BY <1>1 DEF Listener!Ended, Listener!Unused, Answered, Connection, Told, Live, News
<1>2. CASE k.browser # "gone"
  <2> DEFINE j == [k EXCEPT !.relay = "none", !.sarvam = "none", !.inbox = Append(@, "close")]
  <2>1. Append(k.inbox, "close") \in Seq(News) /\ Append(k.inbox, "close")[Len(k.inbox) + 1] = "close"
        /\ Len(Append(k.inbox, "close")) = Len(k.inbox) + 1
    BY DEF Connection, News
  <2>2. j \in Connection /\ j.browser = k.browser /\ j.relay = "none"
        /\ j.inbox = Append(k.inbox, "close")
    BY <2>1 DEF Connection
  <2>3. Len(k.inbox) + 1 \in 1..Len(j.inbox) /\ j.inbox # <<>>
    BY <2>1, <2>2 DEF Connection
  <2>4. Told(j)
    BY <2>1, <2>2, <2>3 DEF Told
  <2> QED
    BY <1>2, <2>2, <2>3, <2>4 DEF Answered, Known, Live, Listener!Ended
<1> QED
  BY <1>1, <1>2

\* One connection changes, and perhaps what the hook refers to.
LEMMA OneLink ==
  ASSUME Wires, NEW c \in Links, NEW k \in Connection, Told(k), link' = [link EXCEPT ![c] = k],
         wsRef' \in {wsRef, None} \/ wsRef' = c,
         wsRef' = c => Live(k)
  PROVE  Wires' /\ link'[c] = k /\ \A d \in Links \ {c} : link'[d] = link[d]
BY DEF Wires

LEMMA RelayStep ==
  ASSUME Listens, NEW c \in Links, NEW k, Answered(link[c], k), Listener!Answers(c, k),
         UNCHANGED <<raced, lostMic>>
  PROVE  Listens'
<1>1. /\ link' = [link EXCEPT ![c] = k]
      /\ UNCHANGED <<pageShown, state, stopped, asking, mic, fetching, timers, timerRef, wsRef>>
  BY DEF Listener!Answers, Listener!hook
<1>2. Wires' /\ link'[c] = k /\ \A d \in Links \ {c} : link'[d] = link[d]
  BY <1>1, OneLink DEF Listens, Answered, Wires
<1>3. Hooked'
  BY <1>1 DEF Listens, Hooked, Listener!NotGivenUp
<1>4. \A d \in Links : Live(link'[d]) <=> Live(link[d])
  BY <1>2 DEF Answered
<1>5. ~raced' => InTurn'
  BY <1>1, <1>4 DEF Listens, InTurn, AtRest, NoLink
<1>6. ASSUME ~raced', pageShown', state' = "listening", ~stopped' PROVE Attended'
  <2>1. Attended
    BY <1>1, <1>6 DEF Listens
  <2>2. CASE wsRef = c
    BY <1>1, <1>2, <2>1, <2>2 DEF Attended, Answered, Known, Listens, Wires
  <2>3. CASE wsRef # c
    BY <1>1, <1>2, <2>1, <2>3 DEF Attended, Listens, Wires
  <2> QED
    BY <2>2, <2>3
<1> QED
  BY <1>2, <1>3, <1>5, <1>6 DEF Listens

LEMMA RelayKeeps ==
  ASSUME Listens, NEW c \in Links,
         \/ Listener!Authenticated(c) \/ Listener!Refused(c) \/ Listener!Connected(c)
         \/ Listener!Begins(c) \/ Listener!Heard(c) \/ Listener!SessionEnds(c)
         \/ Listener!ChunkFails(c) \/ Listener!Disconnects(c)
  PROVE  Listens'
<1>1. link[c] \in Connection /\ Told(link[c]) /\ link[c].relay # "none" /\ link[c].browser # "opening"
  BY DEF Listens, Wires, Told, Listener!Authenticated, Listener!Refused, Listener!Connected,
         Listener!Begins, Listener!Heard, Listener!SessionEnds, Listener!ChunkFails,
         Listener!Disconnects, Listener!Pumping
<1>2. Answered(link[c], Listener!Ended(link[c]))
  BY <1>1, EndedLink
<1>3. ASSUME NEW r \in {"connecting", "relaying", "half"},
             NEW v \in {"none", "open", "begun", "dead", "deaf"}, NEW n \in Seq(News),
             r = "half" => v \in {"dead", "deaf"},
             r = "connecting" => n = <<>> /\ ~Known(link[c])
      PROVE  Answered(link[c], [link[c] EXCEPT !.relay = r, !.sarvam = v, !.inbox = n])
  BY <1>1, <1>3 DEF Answered, Connection, Told, Live, Known
<1>4. link[c].inbox \in Seq(News) /\ link[c].sarvam \in {"none", "open", "begun", "dead", "deaf"}
      /\ link[c].relay \in {"none", "accepted", "connecting", "relaying", "half"}
  BY <1>1 DEF Connection
<1>5. CASE Listener!Authenticated(c)
  <2>1. [link[c] EXCEPT !.relay = "connecting"]
          = [link[c] EXCEPT !.relay = "connecting", !.sarvam = link[c].sarvam, !.inbox = link[c].inbox]
    BY <1>1 DEF Connection
  <2>2. Answered(link[c], [link[c] EXCEPT !.relay = "connecting"])
    BY <1>1, <1>3, <1>4, <1>5, <2>1 DEF Known, Told, Listener!Authenticated
  <2> QED
    BY <1>5, <2>2, RelayStep DEF Listener!Authenticated, Listener!history
<1>6. CASE Listener!Refused(c)
  BY <1>2, <1>6, RelayStep DEF Listener!Refused
<1>7. CASE Listener!Connected(c)
  <2>1. [link[c] EXCEPT !.relay = "relaying", !.sarvam = "open"]
          = [link[c] EXCEPT !.relay = "relaying", !.sarvam = "open", !.inbox = link[c].inbox]
    BY <1>1 DEF Connection
  <2>2. Answered(link[c], [link[c] EXCEPT !.relay = "relaying", !.sarvam = "open"])
    BY <1>3, <1>4, <2>1
  <2> QED
    BY <1>7, <2>2, RelayStep DEF Listener!Connected, Listener!history
<1>8. CASE Listener!Begins(c)
  <2> DEFINE k == [link[c] EXCEPT !.sarvam = "begun", !.inbox = Append(@, "ready")]
  <2>1. k = [link[c] EXCEPT !.relay = "relaying", !.sarvam = "begun",
                            !.inbox = Append(link[c].inbox, "ready")]
    BY <1>1, <1>8 DEF Connection, Listener!Begins
  <2>2. Append(link[c].inbox, "ready") \in Seq(News)
    BY <1>4 DEF News
  <2>3. Answered(link[c], k)
    BY <1>3, <2>1, <2>2
  <2> HIDE DEF k
  <2>4. Listener!Answers(c, Listener!Ended(link[c])) \/ Listener!Answers(c, k)
    BY <1>8 DEF Listener!Begins, k
  <2> QED
    BY <1>2, <1>8, <2>3, <2>4, RelayStep DEF Listener!Begins, Listener!history
<1>9. CASE Listener!Heard(c)
  <2>1. PICK n \in {<<"wake_detected">>, <<"wake_detected", "wake_detected">>} :
          Listener!Answers(c, [link[c] EXCEPT !.inbox = link[c].inbox \o n])
    BY <1>9 DEF Listener!Heard
  <2>2. link[c].inbox \o n \in Seq(News)
    <3>1. <<"wake_detected">> \in Seq(News)
      BY DEF News
    <3>2. <<"wake_detected", "wake_detected">> \in Seq(News)
      BY DEF News
    <3>3. n \in Seq(News)
      BY <3>1, <3>2
    <3> QED
      BY <1>4, <3>3
  <2>3. [link[c] EXCEPT !.inbox = link[c].inbox \o n]
          = [link[c] EXCEPT !.relay = "relaying", !.sarvam = "begun", !.inbox = link[c].inbox \o n]
    BY <1>1, <1>9 DEF Connection, Listener!Heard
  <2>4. Answered(link[c], [link[c] EXCEPT !.inbox = link[c].inbox \o n])
    BY <1>3, <2>2, <2>3
  <2> QED
    BY <1>9, <2>1, <2>4, RelayStep DEF Listener!Heard
<1>10. CASE Listener!SessionEnds(c)
  <2>1. UNCHANGED <<raced, lostMic>>
    BY <1>10 DEF Listener!SessionEnds
  <2>2. CASE Listener!Answers(c, Listener!Ended(link[c]))
    BY <1>2, <2>1, <2>2, RelayStep
  <2>3. ASSUME NEW how \in {"dead", "deaf"},
               Listener!Answers(c, [link[c] EXCEPT !.relay = "half", !.sarvam = how])
        PROVE  Listens'
    <3>1. [link[c] EXCEPT !.relay = "half", !.sarvam = how]
            = [link[c] EXCEPT !.relay = "half", !.sarvam = how, !.inbox = link[c].inbox]
      BY <1>1 DEF Connection
    <3>2. Answered(link[c], [link[c] EXCEPT !.relay = "half", !.sarvam = how])
      BY <1>3, <1>4, <3>1
    <3> QED
      BY <2>1, <2>3, <3>2, RelayStep
  <2> QED
    BY <1>10, <2>2, <2>3 DEF Listener!SessionEnds
<1>11. CASE Listener!ChunkFails(c)
  BY <1>2, <1>11, RelayStep DEF Listener!ChunkFails, Listener!history
<1>12. CASE Listener!Disconnects(c)
  <2>1. Answered(link[c], Listener!Unused)
    BY <1>1, <1>12 DEF Listener!Disconnects, Listener!Left, Listener!Unused, Answered, Connection,
                       Told, Live, News
  <2> QED
    BY <1>12, <2>1, RelayStep DEF Listener!Disconnects, Listener!history
<1> QED
  BY <1>5, <1>6, <1>7, <1>8, <1>9, <1>10, <1>11, <1>12

-----------------------------------------------------------------------------
(* What the browser does *)

\* A timer is set.
LEMMA SetTimer ==
  ASSUME NEW d \in {"soon", "planned"}, timers \in [Timers -> {"off", "soon", "planned"}],
         Listener!Set(timers, d)
  PROVE  /\ timers' \in [Timers -> {"off", "soon", "planned"}] /\ timerRef' \in Timers
         /\ timers'[timerRef'] = d
         /\ \A t \in Timers \ {timerRef'} : timers'[t] = timers[t]
BY DEF Listener!Set

LEMMA ClearedTimers ==
  ASSUME timers \in [Timers -> {"off", "soon", "planned"}], timerRef \in Timers \cup {None},
         ListenerConstants
  PROVE  /\ Listener!Cleared \in [Timers -> {"off", "soon", "planned"}]
         /\ \A t \in Timers : Listener!Cleared[t] \in {"off", timers[t]}
         /\ timerRef # None => Listener!Cleared[timerRef] = "off"
BY DEF Listener!Cleared, ListenerConstants

\* A call begins or ends; the connections stay.
LEMMA CallKeeps ==
  ASSUME ListenerConstants, Listens,
         \/ Listener!Start \/ Listener!Granted \/ Listener!Denied \/ Listener!TokenFailed
         \/ Listener!Resume
  PROVE  Listens'
<1> USE DEF Listens
<1>1. UNCHANGED <<link, wsRef, pageShown>>
  BY DEF Listener!Start, Listener!Granted, Listener!Denied, Listener!TokenFailed, Listener!Resume
<1>2. Wires'
  BY <1>1 DEF Wires
<1>3. CASE Listener!Start
  <2>1. /\ asking' = asking + 1 /\ pageShown /\ stopped' = FALSE
        /\ UNCHANGED <<fetching, timers, timerRef>>
    BY <1>3 DEF Listener!Start
  <2>3. Hooked'
    <3>1. asking' \in Nat /\ asking' > 0
      BY <2>1 DEF Hooked
    <3>2. Listener!NotGivenUp'
      BY <3>1 DEF Listener!NotGivenUp
    <3> QED
      BY <1>1, <2>1, <3>1, <3>2 DEF Hooked
  <2>2. ~raced' => InTurn'
    BY <1>1, <1>3 DEF Hooked, Listener!Start, InTurn, AtRest, NoLink
  <2> QED
    BY <1>2, <1>3, <2>3, <2>2 DEF Listener!Start
<1>4. CASE Listener!Granted
  <2>1. Hooked'
    BY <1>1, <1>4 DEF Hooked, Listener!Granted, Listener!OpenWs, Listener!NotGivenUp
  <2>2. ~raced' => InTurn'
    BY <1>1, <1>4 DEF Hooked, Listener!Granted, Listener!OpenWs, InTurn, AtRest, NoLink
  <2> QED
    BY <1>1, <1>2, <1>4, <2>1, <2>2 DEF Hooked, Listener!Granted, Listener!OpenWs, Attended
<1>5. CASE Listener!Denied
  <2>1. Hooked'
    BY <1>1, <1>5 DEF Hooked, Listener!Denied, Listener!NotGivenUp
  <2>2. ~raced' => InTurn'
    BY <1>1, <1>5 DEF Hooked, Listener!Denied, Listener!history, InTurn, AtRest, NoLink
  <2> QED
    BY <1>2, <1>5, <2>1, <2>2 DEF Listener!Denied, Listener!history
<1>6. CASE Listener!TokenFailed
  <2>1. CASE stopped
    <3>1. UNCHANGED <<state, timers, timerRef, stopped, asking, mic, raced, lostMic>> /\ fetching' = fetching - 1
          /\ fetching > 0
      BY <1>6, <2>1 DEF Listener!TokenFailed
    <3>2. Hooked' /\ (~raced' => InTurn')
      BY <1>1, <2>1, <3>1 DEF Hooked, Listener!NotGivenUp, InTurn, AtRest, NoLink
    <3> QED
      BY <1>2, <2>1, <3>1, <3>2
  <2>2. CASE ~stopped
    <3>1. /\ UNCHANGED <<stopped, asking, mic, raced, lostMic>> /\ fetching' = fetching - 1
          /\ fetching > 0 /\ Listener!Set(timers, "soon")
          /\ pageShown /\ state' = "error"
      BY <1>6, <2>2 DEF Listener!TokenFailed, Listener!Shows, Hooked
    <3>2. /\ timers' \in [Timers -> {"off", "soon", "planned"}] /\ timerRef' \in Timers
          /\ timers'[timerRef'] = "soon"
          /\ \A t \in Timers \ {timerRef'} : timers'[t] = timers[t]
      BY <3>1, SetTimer DEF Hooked
    <3>3. Hooked'
      BY <1>1, <2>2, <3>1, <3>2 DEF Hooked, Listener!NotGivenUp
    <3>4. ~raced' => InTurn'
      BY <1>1, <2>2, <3>1, <3>2 DEF Hooked, InTurn, AtRest, NoLink
    <3> QED
      BY <1>2, <3>1, <3>3, <3>4
  <2> QED
    BY <2>1, <2>2
<1>7. CASE Listener!Resume
  <2>1. UNCHANGED <<state, timers, timerRef, stopped, asking, mic, fetching, raced, lostMic>>
    BY <1>7 DEF Listener!Resume, Listener!history
  <2>2. Hooked' /\ (~raced' => InTurn')
    BY <1>1, <2>1 DEF Hooked, Listener!NotGivenUp, InTurn, AtRest, NoLink
  <2> QED
    BY <1>1, <1>2, <2>1, <2>2 DEF Attended
<1> QED
  BY <1>3, <1>4, <1>5, <1>6, <1>7

\* Everything held is released.
LEMMA ReleaseKeeps ==
  ASSUME ListenerConstants, Listens, Listener!Release, UNCHANGED <<asking, fetching, lostMic>>,
         pageShown' \in BOOLEAN
  PROVE  Listens'
<1> USE DEF Listens
<1>1. /\ stopped' = TRUE /\ mic' = FALSE /\ timers' = Listener!Cleared /\ timerRef' = None
      /\ link' = Listener!Dropped /\ wsRef' = None
      /\ raced' = (raced \/ asking > 0 \/ fetching > 0)
  BY DEF Listener!Release
<1>2. Wires'
  BY <1>1, DroppedWires DEF Wires
<1>3. /\ timers' \in [Timers -> {"off", "soon", "planned"}]
      /\ \A t \in Timers : timers'[t] \in {"off", timers[t]}
      /\ timerRef # None => timers'[timerRef] = "off"
  BY <1>1, ClearedTimers DEF Hooked
<1>4. Hooked'
  BY <1>1, <1>3 DEF Hooked, Listener!NotGivenUp
<1>5. ASSUME ~raced' PROVE InTurn'
  <2>1. NoLink'
    BY <1>1, <1>5, DroppedLinks DEF InTurn, NoLink
  <2>2. \A t \in Timers : timers'[t] # "soon"
    BY <1>1, <1>3, <1>5 DEF InTurn, Hooked, ListenerConstants
  <2> QED
    BY <1>1, <1>5, <2>1, <2>2 DEF InTurn, AtRest, Hooked, NoLink
<1> QED
  BY <1>1, <1>2, <1>4, <1>5

LEMMA SwitchedOff ==
  ASSUME ListenerConstants, Listens, Listener!Stop \/ Listener!Leave
  PROVE  Listens'
<1>1. CASE Listener!Stop
  BY <1>1, ReleaseKeeps DEF Listener!Stop, Listens, Hooked
<1>2. CASE Listener!Leave /\ ~stopped
  BY <1>2, ReleaseKeeps DEF Listener!Leave
<1>3. CASE Listener!Leave /\ stopped
  <2>1. /\ UNCHANGED <<stopped, mic, timers, timerRef, link, wsRef, raced, state, asking, fetching,
                       lostMic>>
        /\ pageShown' = FALSE
    BY <1>3 DEF Listener!Leave
  <2>2. Wires' /\ Hooked'
    BY <1>3, <2>1 DEF Listens, Wires, Hooked, Listener!NotGivenUp
  <2>3. ~raced' => InTurn'
    BY <2>1 DEF Listens, InTurn, AtRest, NoLink
  <2> QED
    BY <2>1, <2>2, <2>3 DEF Listens
<1> QED
  BY <1>1, <1>2, <1>3

\* A token came: the socket and the timer that ends it are made.
LEMMA TokenKeeps == ASSUME ListenerConstants, Listens, Listener!TokenCame PROVE Listens'
<1> USE DEF Listens
<1>1. PICK c \in Links : /\ link[c] = Listener!Unused
                        /\ link' = [link EXCEPT ![c].browser = "opening"] /\ wsRef' = c
  BY DEF Listener!TokenCame
<1>2. /\ fetching > 0 /\ fetching' = fetching - 1
      /\ UNCHANGED <<pageShown, state, stopped, asking, mic, raced, lostMic>>
  BY DEF Listener!TokenCame, Listener!history
<1>3. /\ timers' \in [Timers -> {"off", "soon", "planned"}] /\ timerRef' \in Timers
      /\ timers'[timerRef'] = "planned"
      /\ \A t \in Timers \ {timerRef'} : timers'[t] = timers[t]
  BY SetTimer DEF Listener!TokenCame, Hooked
<1> DEFINE k == [link[c] EXCEPT !.browser = "opening"]
<1>4. k.browser = "opening" /\ k \in Connection
  BY <1>1 DEF Wires, Connection
<1>5. Told(k) /\ Live(k)
  BY <1>1, <1>4 DEF Told, Live, Listener!Unused
<1>6. link' = [link EXCEPT ![c] = k]
  BY <1>1
<1> HIDE DEF k
<1>7. Wires' /\ link'[c] = k /\ \A d \in Links \ {c} : link'[d] = link[d]
  BY <1>1, <1>4, <1>5, <1>6, OneLink
<1>8. Hooked'
  BY <1>2, <1>3 DEF Hooked, Listener!NotGivenUp
<1>9. ASSUME ~raced' PROVE InTurn'
  <2>1. asking = 0 /\ fetching = 1 /\ ~stopped /\ NoLink /\ lostMic = FALSE
        /\ \A t \in Timers : timers[t] # "soon"
    BY <1>2, <1>9 DEF Hooked, InTurn, AtRest
  <2>2. asking' = 0 /\ fetching' = 0 /\ ~stopped'
    BY <1>2, <2>1
  <2>3. \A d \in Links : Live(link'[d]) => d = wsRef'
    BY <1>1, <1>7, <2>1 DEF NoLink
  <2>4. \A t \in Timers : timers'[t] # "soon"
    BY <1>3, <2>1
  <2> QED
    BY <1>2, <2>1, <2>2, <2>3, <2>4 DEF InTurn, AtRest
<1>10. Attended'
  BY <1>1, <1>4, <1>7 DEF Attended, ListenerConstants
<1> QED
  BY <1>2, <1>7, <1>8, <1>9, <1>10

\* A socket is over, and the next connection planned if it is still wanted.
LEMMA ClosesKeeps ==
  ASSUME ListenerConstants, Listens, NEW c \in Links, NEW k \in Connection, Told(k), ~Live(k),
         Live(link[c]), Listener!Closes(c, k),
         UNCHANGED <<pageShown, stopped, asking, mic, fetching, raced, lostMic>>
  PROVE  Listens'
<1> USE DEF Listens
<1>1. link' = [link EXCEPT ![c] = k] /\ wsRef' = (IF wsRef = c THEN None ELSE wsRef)
  BY DEF Listener!Closes
<1>2. Wires' /\ link'[c] = k /\ \A d \in Links \ {c} : link'[d] = link[d]
  BY <1>1, OneLink DEF ListenerConstants
<1>3. CASE stopped
  <2>1. UNCHANGED <<state, timers, timerRef>>
    BY <1>3 DEF Listener!Closes
  <2>2. Hooked'
    BY <1>3, <2>1 DEF Hooked, Listener!NotGivenUp
  <2>3. raced
    BY <1>3 DEF InTurn, NoLink
  <2> QED
    BY <1>2, <2>2, <2>3
<1>4. CASE ~stopped
  <2>1. pageShown /\ state' = "connecting" /\ Listener!Set(timers, "soon")
    BY <1>4 DEF Listener!Closes, Listener!Shows, Hooked
  <2>2. /\ timers' \in [Timers -> {"off", "soon", "planned"}] /\ timerRef' \in Timers
        /\ timers'[timerRef'] = "soon"
        /\ \A t \in Timers \ {timerRef'} : timers'[t] = timers[t]
    BY <2>1, SetTimer DEF Hooked
  <2>3. Hooked'
    BY <1>4, <2>1, <2>2 DEF Hooked, Listener!NotGivenUp
  <2>4. ASSUME ~raced' PROVE InTurn'
    <3>1. wsRef = c /\ AtRest /\ \A t \in Timers : timers[t] # "soon"
      BY <2>4 DEF InTurn, NoLink
    <3>2. NoLink' /\ AtRest'
      BY <1>2, <2>4, <3>1 DEF InTurn, NoLink, AtRest
    <3>3. \A t \in Timers : timers'[t] = "soon" => t = timerRef'
      BY <2>2, <3>1
    <3> QED
      BY <1>4, <2>4, <3>1, <3>2, <3>3 DEF InTurn, NoLink, AtRest
  <2> QED
    BY <1>2, <2>1, <2>3, <2>4
<1> QED
  BY <1>3, <1>4

LEMMA SocketKeeps ==
  ASSUME ListenerConstants, Listens, NEW c \in Links,
         Listener!Opened(c) \/ Listener!Breaks(c) \/ Listener!Receive(c)
  PROVE  Listens'
<1> USE DEF Listens
<1>1. link[c] \in Connection /\ Told(link[c]) /\ link[c].inbox \in Seq(News)
  BY DEF Wires, Connection
<1>2. ASSUME NEW k \in Connection, Told(k), Live(k), Live(link[c]), link' = [link EXCEPT ![c] = k],
             UNCHANGED <<pageShown, stopped, asking, mic, fetching, timers, timerRef, wsRef,
                         raced, lostMic>>,
             state' = "listening" /\ pageShown => Known(k)
      PROVE  Listens'
  <2>1. Wires' /\ link'[c] = k /\ \A d \in Links \ {c} : link'[d] = link[d]
    BY <1>2, OneLink
  <2>2. \A d \in Links : Live(link'[d]) <=> Live(link[d])
    BY <1>2, <2>1
  <2>3. Hooked'
    BY <1>2 DEF Hooked, Listener!NotGivenUp
  <2>4. ~raced' => InTurn'
    BY <1>2, <2>2 DEF InTurn, AtRest, NoLink
  <2>5. ASSUME ~raced', pageShown', state' = "listening", ~stopped' PROVE Attended'
    <3>1. wsRef = c
      BY <1>2, <2>5 DEF InTurn
    <3> QED
      BY <1>2, <2>1, <2>5, <3>1 DEF Attended, Known, ListenerConstants
  <2> QED
    BY <2>1, <2>3, <2>4, <2>5, <1>2
<1>3. CASE Listener!Opened(c)
  <2> DEFINE k == [link[c] EXCEPT !.browser = "open", !.relay = "accepted"]
  <2>1. k \in Connection /\ k.browser = "open" /\ k.relay = "accepted" /\ k.inbox = link[c].inbox
    BY <1>1 DEF Connection
  <2>2. Told(k) /\ Live(k) /\ Live(link[c])
    BY <1>1, <1>3, <2>1 DEF Told, Live, Listener!Opened
  <2>3. link' = [link EXCEPT ![c] = k]
    BY <1>3 DEF Listener!Opened
  <2> HIDE DEF k
  <2>4. pageShown => state' = "connecting"
    BY <1>3 DEF Listener!Opened, Listener!Shows
  <2>5. UNCHANGED <<pageShown, stopped, asking, mic, fetching, timers, timerRef, wsRef, raced, lostMic>>
    BY <1>3 DEF Listener!Opened, Listener!history
  <2> QED
    BY <1>2, <2>1, <2>2, <2>3, <2>4, <2>5
<1>4. CASE Listener!Breaks(c)
  BY <1>1, <1>4, ClosedLink, ClosesKeeps DEF Listener!Breaks, Live
<1>5. CASE Listener!Receive(c)
  <2> DEFINE k == [link[c] EXCEPT !.inbox = Tail(@)]
             h == Head(link[c].inbox)
  <2>1. /\ link[c].browser = "open" /\ Live(link[c]) /\ link[c].inbox # <<>>
        /\ UNCHANGED <<pageShown, stopped, asking, mic, fetching, raced, lostMic>>
    BY <1>5 DEF Listener!Receive, Listener!history, Live
  <2>2. CASE h = "close" \/ h \notin {"ready", "wake_detected"}
    <3>1. Listener!Closes(c, Listener!Unused)
      BY <1>5, <2>2 DEF Listener!Receive
    <3>2. Listener!Unused \in Connection /\ Told(Listener!Unused) /\ ~Live(Listener!Unused)
      BY DEF Listener!Unused, Connection, Told, Live, News
    <3> QED
      BY <2>1, <3>1, <3>2, ClosesKeeps
  <2>3. CASE h \in {"ready", "wake_detected"}
    <3>1. Tail(link[c].inbox) \in Seq(News)
          /\ Len(Tail(link[c].inbox)) = Len(link[c].inbox) - 1
          /\ \A i \in 1..Len(Tail(link[c].inbox)) : Tail(link[c].inbox)[i] = link[c].inbox[i + 1]
      BY <1>1, <2>1
    <3>2. k \in Connection /\ k.browser = "open" /\ k.relay = link[c].relay
          /\ k.sarvam = link[c].sarvam /\ k.inbox = Tail(link[c].inbox)
      BY <1>1, <2>1, <3>1 DEF Connection
    <3>3. ASSUME k.relay = "none" PROVE \E i \in 1..Len(k.inbox) : k.inbox[i] = "close"
      <4>1. PICK i \in 1..Len(link[c].inbox) : link[c].inbox[i] = "close"
        BY <1>1, <2>1, <3>2, <3>3 DEF Told
      <4>2. i # 1
        BY <1>1, <2>1, <2>3, <4>1
      <4>3. i - 1 \in 1..Len(k.inbox) /\ k.inbox[i - 1] = "close"
        BY <1>1, <2>1, <3>1, <3>2, <4>1, <4>2
      <4> QED
        BY <4>3
    <3>4. Told(k) /\ Live(k) /\ Known(k)
      <4>1. link[c].relay \notin {"accepted", "connecting"}
        BY <1>1, <2>1 DEF Told
      <4>2. k.relay = "none" => k.inbox # <<>>
        BY <3>3
      <4> QED
        BY <1>1, <3>2, <3>3, <4>1, <4>2 DEF Told, Live, Known, Connection
    <3>5. link' = [link EXCEPT ![c] = k] /\ UNCHANGED <<timers, timerRef, wsRef>>
      BY <1>5, <2>3 DEF Listener!Receive
    <3> QED
      BY <1>2, <2>1, <3>2, <3>4, <3>5
  <2> QED
    BY <2>2, <2>3
<1> QED
  BY <1>3, <1>4, <1>5

\* A timer fires: the one for a reconnection connects, the one for the four minutes drops the
\* connection first.
LEMMA TimerKeeps ==
  ASSUME ListenerConstants, Listens, NEW t \in Timers, Listener!Fire(t)
  PROVE  Listens'
<1> USE DEF Listens
<1>1. /\ timers[t] # "off"
      /\ fetching' = IF stopped THEN fetching ELSE fetching + 1
      /\ raced' = (raced \/ (~stopped /\ asking + fetching > 0))
      /\ UNCHANGED <<pageShown, state, stopped, asking, mic, lostMic>>
  BY DEF Listener!Fire, Listener!OpenWs
<1>2. ~stopped => fetching' \in Nat /\ fetching' > 0
  BY <1>1 DEF Hooked
<1>3. ASSUME timers' \in [Timers -> {"off", "soon", "planned"}], timerRef' \in Timers \cup {None}
      PROVE  Hooked'
  BY <1>1, <1>2, <1>3 DEF Hooked, Listener!NotGivenUp
<1>4. ASSUME ~raced', NoLink', \A u \in Timers : timers'[u] # "soon" PROVE InTurn'
  BY <1>1, <1>4 DEF Hooked, InTurn, AtRest, NoLink
<1>5. CASE timers[t] = "soon"
  <2>1. /\ timers' = [timers EXCEPT ![t] = "off"] /\ timerRef' \in {timerRef, None}
        /\ UNCHANGED <<link, wsRef>>
    BY <1>5 DEF Listener!Fire
  <2>2. Wires' /\ Hooked'
    BY <1>3, <2>1 DEF Wires, Hooked
  <2>3. ASSUME ~raced' PROVE InTurn'
    <3>1. NoLink'
      BY <1>1, <1>5, <2>1, <2>3 DEF InTurn, NoLink
    <3>2. \A u \in Timers : timers'[u] # "soon"
      BY <1>1, <1>5, <2>1, <2>3 DEF InTurn, Hooked
    <3> QED
      BY <1>4, <2>3, <3>1, <3>2
  <2>4. ~raced' /\ pageShown' /\ state' = "listening" /\ ~stopped' => Attended'
    BY <1>1, <1>2, <2>1 DEF Attended
  <2> QED
    BY <1>1, <2>2, <2>3, <2>4
<1>6. CASE timers[t] # "soon"
  <2> DEFINE others == [timers EXCEPT ![t] = "off"]
             ref == IF timerRef = t THEN None ELSE timerRef
  <2>1. /\ timers' = (IF ref = None THEN others ELSE [others EXCEPT ![ref] = "off"])
        /\ timerRef' = None /\ link' = Listener!Dropped /\ wsRef' = None
    BY <1>6 DEF Listener!Fire
  <2>2. /\ timers' \in [Timers -> {"off", "soon", "planned"}]
        /\ \A u \in Timers : timers'[u] \in {"off", timers[u]}
        /\ timerRef # None => timers'[timerRef] = "off"
    BY <2>1 DEF Hooked, ListenerConstants
  <2>3. Wires' /\ Hooked'
    BY <1>3, <2>1, <2>2, DroppedWires DEF Wires
  <2>4. ASSUME ~raced' PROVE InTurn'
    <3>1. NoLink'
      BY <1>1, <2>1, <2>4, DroppedLinks DEF InTurn, NoLink
    <3>2. \A u \in Timers : timers'[u] # "soon"
      BY <1>1, <2>2, <2>4 DEF InTurn, Hooked, ListenerConstants
    <3> QED
      BY <1>4, <2>4, <3>1, <3>2
  <2>5. ~stopped' => Attended'
    BY <1>1, <1>2, <2>1 DEF Attended
  <2> QED
    BY <1>1, <2>3, <2>4, <2>5
<1> QED
  BY <1>5, <1>6

LEMMA ListenerStep == ListenerConstants /\ Listens /\ [Listener!Next]_Listener!vars => Listens'
<1> SUFFICES ASSUME ListenerConstants, Listens, [Listener!Next]_Listener!vars PROVE Listens'
  OBVIOUS
<1>1. CASE Listener!Start \/ Listener!Granted \/ Listener!Denied \/ Listener!TokenFailed \/ Listener!Resume
  BY <1>1, CallKeeps
<1>2. CASE Listener!Stop \/ Listener!Leave
  BY <1>2, SwitchedOff
<1>3. CASE Listener!TokenCame
  BY <1>3, TokenKeeps
<1>4. ASSUME NEW t \in Timers, Listener!Fire(t) PROVE Listens'
  BY <1>4, TimerKeeps
<1>5. ASSUME NEW c \in Links,
             \/ Listener!Step(c) \/ Listener!Breaks(c) \/ Listener!Refused(c) \/ Listener!Heard(c)
             \/ Listener!SessionEnds(c)
      PROVE  Listens'
  BY <1>5, SocketKeeps, RelayKeeps DEF Listener!Step
<1>6. CASE UNCHANGED Listener!vars
  <2>1. UNCHANGED <<pageShown, state, stopped, asking, mic, fetching, timers, timerRef, wsRef, link,
                    raced, lostMic>>
    BY <1>6 DEF Listener!vars, Listener!hook, Listener!history
  <2>2. Wires' /\ Hooked' /\ (InTurn => InTurn') /\ (Attended => Attended')
    BY <2>1 DEF Listens, Wires, Hooked, Listener!NotGivenUp, InTurn, AtRest, NoLink, Attended
  <2> QED
    BY <2>1, <2>2 DEF Listens
<1> QED
  BY <1>1, <1>2, <1>3, <1>4, <1>5, <1>6 DEF Listener!Next

\* A listener switched on does not give up, whatever fails; switched off it holds nothing, keeps
\* one socket, and says that it listens when somebody does: unless it was switched off, left or
\* connected again while a call was waiting, or the service stopped listening in an open
\* connection (useWakeWordListener, wake_listen, relay_for_wake_word).
THEOREM ListenerKept == ASSUME ListenerConstants PROVE Listener!Spec => []ListenerHolds
<1>1. Listens => ListenerHolds
  BY ListensHolds
<1>2. Listens /\ [Listener!Next]_Listener!vars => Listens'
  BY ListenerStep
<1>3. Listener!Init => Listens
  BY ListenerStarts
<1> QED
  BY <1>1, <1>2, <1>3, PTL DEF Listener!Spec
=============================================================================
