----------------------------- MODULE PriceStream -----------------------------
(***************************************************************************)
(* The browser's end of the live prices: PriceStream                       *)
(* (web/src/lib/priceStream.ts) and the LivePriceStore that owns it        *)
(* (web/src/lib/livePrices.ts).  JavaScript runs one callback at a time; a *)
(* step is one callback, and between two of them screens come and go, the  *)
(* browser goes online, timers fire and sockets answer in any order.       *)
(*                                                                         *)
(* An attempt is one call of connect() and the socket it opens.  Only the  *)
(* attempt whose generation is the current one may act, so the generation  *)
(* counter is the attempt that holds it, or None after it was dropped.     *)
(* Left out: the ticks (the hub's module follows them), heartbeats, which  *)
(* only rearm the watchdog of a link that is not silent, and the lengths   *)
(* of the delays.                                                          *)
(***************************************************************************)
EXTENDS Naturals, FiniteSets

CONSTANTS
  Screens,     \* users of useLivePrices
  Tickers,
  Interest,    \* the tickers each screen shows, at least one
  Attempts,    \* bound: calls of connect() not yet over at one time
  None,
  GiveUpAfter, \* unavailableAfterFailures
  MaxFaults,   \* bound: faults of the network or the server
  MaxOnline    \* bound: "online" events

VARIABLES
  \* LivePriceStore
  watching,  \* screens that called watch() and not yet its release
  refs,      \* number of screens that want a ticker
  shownStatus,  \* the status in the snapshot the screens read
  \* PriceStream; it is started as soon as the store has created it
  stream,    \* the store has a stream
  current,   \* the attempt of the current generation
  socket,    \* the attempt whose socket is this.socket
  tickers,
  everLive, failures, status,
  timer,     \* the reconnect timer runs
  watchdog,  \* the attempt the watchdog was armed for
  \* the attempts
  phase,     \* of each attempt
  sent,      \* the last subscription sent on its socket, at first none
  silent,    \* links on which nothing arrives any more
  \* the environment
  faults, onlines

store == <<watching, refs, shownStatus>>
client == <<stream, current, socket, tickers, everLive, failures, status, timer, watchdog>>
links == <<phase, sent, silent>>
env == <<faults, onlines>>
vars == <<store, client, links, env>>

Statuses == {"idle", "connecting", "live", "reconnecting", "unavailable"}
\* unused; getEndpoint awaited; socket opening; open, without or with the token
\* sent; greeted by the server
Phases == {"free", "fetching", "opening", "mute", "authed", "greeted"}
\* Phases in which a socket exists.
Connected == {"opening", "mute", "authed", "greeted"}

TypeOK ==
  /\ watching \subseteq Screens
  /\ refs \in [Tickers -> 0..Cardinality(Screens)]
  /\ shownStatus \in Statuses
  /\ stream \in BOOLEAN
  /\ current \in Attempts \cup {None}
  /\ socket \in Attempts \cup {None}
  /\ tickers \subseteq Tickers
  /\ everLive \in BOOLEAN
  /\ failures \in Nat
  /\ status \in Statuses
  /\ timer \in BOOLEAN
  /\ watchdog \in Attempts \cup {None}
  /\ phase \in [Attempts -> Phases]
  /\ sent \in [Attempts -> SUBSET Tickers]
  /\ silent \subseteq Attempts
  /\ faults \in 0..MaxFaults /\ onlines \in 0..MaxOnline

Init ==
  /\ watching = {} /\ refs = [t \in Tickers |-> 0] /\ shownStatus = "idle"
  /\ stream = FALSE /\ current = None /\ socket = None /\ tickers = {}
  /\ everLive = FALSE /\ failures = 0 /\ status = "idle"
  /\ timer = FALSE /\ watchdog = None
  /\ phase = [a \in Attempts |-> "free"]
  /\ sent = [a \in Attempts |-> {}]
  /\ silent = {}
  /\ faults = 0 /\ onlines = 0

\* The status is set and passed on to the store.
SetStatus(s) == status' = s /\ shownStatus' = s

\* An attempt is over; its socket, if it has one, is closed.
Ended(a) ==
  /\ phase' = [phase EXCEPT ![a] = "free"]
  /\ sent' = [sent EXCEPT ![a] = {}]
  /\ silent' = silent \ {a}

-----------------------------------------------------------------------------
(* The store.  A definition called a variant is deliberately wrong: it belongs  *)
(* to no behaviour and shows which property such a bug breaks.                  *)

\* The first interest creates and starts a stream of its own generations.
OpenStream(wanted) ==
  /\ stream' = TRUE /\ tickers' = wanted
  /\ everLive' = FALSE /\ failures' = 0
  /\ SetStatus("connecting")
  /\ \E a \in Attempts : /\ phase[a] = "free"
                         /\ current' = a
                         /\ phase' = [phase EXCEPT ![a] = "fetching"]
  /\ UNCHANGED <<socket, timer, watchdog, sent, silent>>

\* Variant: a live stream is told its tickers only with the next hello.
SetTickersLater(wanted) ==
  /\ tickers' = wanted
  /\ UNCHANGED <<stream, current, socket, everLive, failures, status, timer, watchdog,
                 shownStatus, phase, sent, silent>>

\* setTickers: subscribed at once if live, else with the next hello.
SetTickers(wanted) ==
  /\ tickers' = wanted
  /\ sent' = IF status = "live" /\ socket # None
             THEN [sent EXCEPT ![socket] = wanted] ELSE sent
  /\ UNCHANGED <<stream, current, socket, everLive, failures, status, timer, watchdog,
                 shownStatus, phase, silent>>

\* stop: what the stream still waits for finds another generation.
StopStream ==
  /\ stream' = FALSE /\ current' = None /\ socket' = None
  /\ timer' = FALSE /\ watchdog' = None
  /\ SetStatus("idle")
  /\ IF socket # None THEN Ended(socket) ELSE UNCHANGED links
  /\ UNCHANGED <<tickers, everLive, failures>>

Sync ==
  LET wanted == {t \in Tickers : refs'[t] > 0}
  IN  \/ wanted = {} /\ stream /\ StopStream
      \/ wanted # {} /\ ~stream /\ OpenStream(wanted)
      \/ wanted # {} /\ stream /\ SetTickers(wanted)

Watch(s) ==
  /\ s \notin watching
  /\ watching' = watching \cup {s}
  /\ refs' = [t \in Tickers |-> refs[t] + (IF t \in Interest[s] THEN 1 ELSE 0)]
  /\ Sync
  /\ UNCHANGED env

Release(s) ==
  /\ s \in watching
  /\ watching' = watching \ {s}
  /\ refs' = [t \in Tickers |-> refs[t] - (IF t \in Interest[s] THEN 1 ELSE 0)]
  /\ Sync
  /\ UNCHANGED env

-----------------------------------------------------------------------------
(* Connecting *)

\* connect: a new generation; this.socket stays what it is until a socket is made, even closed.
Connect ==
  \E a \in Attempts :
    /\ phase[a] = "free" /\ a # socket
    /\ current' = a
    /\ phase' = [phase EXCEPT ![a] = "fetching"]
    /\ UNCHANGED <<sent, silent>>

\* The "online" event does not wait out the backoff.
ReconnectNow ==
  /\ stream /\ status # "live"
  /\ onlines < MaxOnline /\ onlines' = onlines + 1
  /\ timer' = FALSE /\ failures' = 0
  /\ Connect
  /\ UNCHANGED <<store, stream, socket, tickers, everLive, status, watchdog, faults>>

TimerFires ==
  /\ timer /\ timer' = FALSE
  /\ Connect
  /\ UNCHANGED <<store, stream, socket, tickers, everLive, failures, status, watchdog, env>>

\* Unavailable after many failures without ever a hello.
AfterFailure ==
  IF everLive THEN "reconnecting"
  ELSE IF failures + 1 >= GiveUpAfter THEN "unavailable" ELSE "connecting"

\* scheduleReconnect; failures matter up to GiveUpAfter.
ScheduleReconnect ==
  /\ failures' = IF failures < GiveUpAfter THEN failures + 1 ELSE failures
  /\ SetStatus(AfterFailure)
  /\ timer' = TRUE

\* getEndpoint returns; an attempt overtaken meanwhile ends without a socket.
EndpointAnswers(a) ==
  /\ phase[a] = "fetching"
  /\ IF a = current
       THEN /\ phase' = [phase EXCEPT ![a] = "opening"]
            /\ socket' = a
            /\ UNCHANGED <<sent, silent>>
       ELSE Ended(a) /\ UNCHANGED socket
  /\ UNCHANGED <<store, stream, current, tickers, everLive, failures, status, timer,
                 watchdog, env>>

\* Variant: a failure of any attempt schedules the next one.
EndpointFailsUnchecked(a) ==
  /\ phase[a] = "fetching"
  /\ faults < MaxFaults /\ faults' = faults + 1
  /\ Ended(a)
  /\ stream /\ ScheduleReconnect
  /\ current' = IF a = current THEN None ELSE current
  /\ UNCHANGED <<watching, refs, stream, socket, tickers, everLive, watchdog, onlines>>

\* It throws.  The generation stays, but its attempt is over.
EndpointFails(a) ==
  /\ phase[a] = "fetching"
  /\ faults < MaxFaults /\ faults' = faults + 1
  /\ Ended(a)
  /\ IF a = current
       THEN ScheduleReconnect /\ current' = None
       ELSE UNCHANGED <<shownStatus, failures, status, timer, current>>
  /\ UNCHANGED <<watching, refs, stream, socket, tickers, everLive, watchdog, onlines>>

\* onopen: the token is sent if the attempt is the current one.
SocketOpens(a) ==
  /\ phase[a] = "opening" /\ a \notin silent
  /\ phase' = [phase EXCEPT ![a] = IF a = current THEN "authed" ELSE "mute"]
  /\ UNCHANGED <<store, client, sent, silent, env>>

\* Variant: the watchdog is armed by later messages only.
HelloUnwatched(a) ==
  /\ phase[a] = "authed" /\ a \notin silent
  /\ phase' = [phase EXCEPT ![a] = "greeted"]
  /\ IF a = current
       THEN /\ everLive' = TRUE /\ failures' = 0
            /\ SetStatus("live")
            /\ sent' = [sent EXCEPT ![a] = tickers]
       ELSE UNCHANGED <<shownStatus, everLive, failures, status, sent>>
  /\ UNCHANGED <<watching, refs, stream, current, socket, tickers, timer, watchdog, silent, env>>

\* The server's first message.
Hello(a) ==
  /\ phase[a] = "authed" /\ a \notin silent
  /\ phase' = [phase EXCEPT ![a] = "greeted"]
  /\ IF a = current
       THEN /\ watchdog' = a /\ everLive' = TRUE /\ failures' = 0
            /\ SetStatus("live")
            /\ sent' = [sent EXCEPT ![a] = tickers]
       ELSE UNCHANGED <<shownStatus, watchdog, everLive, failures, status, sent>>
  /\ UNCHANGED <<watching, refs, stream, current, socket, tickers, timer, silent, env>>

\* drop: the socket of the current generation is given up.
Drop(a) ==
  IF a = current
    THEN /\ current' = None /\ socket' = None /\ watchdog' = None
         /\ ScheduleReconnect
    ELSE UNCHANGED <<shownStatus, current, socket, failures, status, timer, watchdog>>

\* onclose or onerror: the server or the network ended the connection.
SocketCloses(a) ==
  /\ phase[a] \in Connected /\ a \notin silent
  /\ faults < MaxFaults /\ faults' = faults + 1
  /\ Ended(a)
  /\ Drop(a)
  /\ UNCHANGED <<watching, refs, stream, tickers, everLive, onlines>>

\* Nothing arrived for longer than two heartbeats.
WatchdogFires ==
  /\ watchdog # None /\ watchdog \in silent
  /\ IF watchdog = current
       THEN Ended(watchdog) /\ Drop(watchdog)
       ELSE /\ watchdog' = None
            /\ UNCHANGED <<shownStatus, current, socket, failures, status, timer, links>>
  /\ UNCHANGED <<watching, refs, stream, tickers, everLive, env>>

\* The network loses a connection without a word.
GoesSilent(a) ==
  /\ phase[a] \in Connected /\ a \notin silent
  /\ faults < MaxFaults /\ faults' = faults + 1
  /\ silent' = silent \cup {a}
  /\ UNCHANGED <<store, client, phase, sent, onlines>>

Next ==
  \/ \E s \in Screens : Watch(s) \/ Release(s)
  \/ ReconnectNow \/ TimerFires \/ WatchdogFires
  \/ \E a \in Attempts :
       \/ EndpointAnswers(a) \/ EndpointFails(a)
       \/ SocketOpens(a) \/ Hello(a) \/ SocketCloses(a) \/ GoesSilent(a)

Spec == Init /\ [][Next]_vars

\* Timers fire; the token request, the handshake and the greeting come to an end.
Fairness ==
  /\ WF_vars(TimerFires) /\ WF_vars(WatchdogFires)
  /\ \A a \in Attempts : WF_vars(EndpointAnswers(a)) /\ WF_vars(SocketOpens(a) \/ Hello(a))

FairSpec == Spec /\ Fairness

-----------------------------------------------------------------------------
(* Safety *)

Wanted == UNION {Interest[s] : s \in watching}

\* While the screens are told the feed is live, the server's subscription on the
\* socket in use is exactly what the mounted screens want, however their coming
\* and going interleaves with drops and reconnects.
LiveMeansSubscribed ==
  shownStatus = "live" => /\ socket # None /\ socket = current
                          /\ phase[socket] = "greeted"
                          /\ sent[socket] = Wanted

\* A stream with screens is never left without a next step: an attempt is under
\* way or the reconnect timer runs, and never both (two attempts would race).
OneAttemptUnderWay ==
  IF watching = {} THEN ~timer /\ current = None
                   ELSE timer <=> current = None

\* Both, whatever screens, drops and reconnections do.
StreamHolds == LiveMeansSubscribed /\ OneAttemptUnderWay

\* "one WebSocket for the union" that "closes when the last is released".
ClosedWhenReleased == watching = {} => \A a \in Attempts : phase[a] \notin Connected

-----------------------------------------------------------------------------
(* Liveness *)

\* A connection lost without a word before the server's hello: no timer watches it.
StuckBeforeHello == current # None /\ current \in silent /\ phase[current] # "greeted"

LiveAndHeard == shownStatus = "live" /\ current \notin silent

\* The stream recovers by itself from drops, failures and silence, except from
\* silence before the hello.
Recovers == []<>(watching = {} \/ LiveAndHeard \/ StuckBeforeHello)

\* The stream recovers "when the connection drops or goes silent".
RecoversAlways == []<>(watching = {} \/ LiveAndHeard)
=============================================================================
