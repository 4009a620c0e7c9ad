---------------------------- MODULE MCConnections ---------------------------
(***************************************************************************)
(* The connections that are kept up: live prices, the hub on the server    *)
(* and the stream in the browser, and the listener for the wake phrase.    *)
(* What the hub sends is left out of PriceStream, so they share no state   *)
(* and each behaviour has one scene, a bound on what the environment does: *)
(*   crowd    connections come and go at the hub, prices stand still       *)
(*   busy     one connection lives through price changes and failing reads *)
(*   browser  two screens that share a ticker come and go                  *)
(*   listener the button is clicked, and the microphone stays on           *)
(***************************************************************************)
EXTENDS PriceHub, Sequences

CONSTANTS
  c1,                           \* the connection of the busy scene
  s1,                           \* the screen that shows one ticker, the first
  Screens, Interest, Attempts, None, GiveUpAfter, MaxLinkFaults, MaxOnline,
  Links, Timers, MaxListenerFaults, MaxClicks, MaxWakes

\* What the screens of connections.cfg show
MCInterest == [s \in Screens |-> IF s = s1 THEN {1} ELSE {1, 2}]

VARIABLES
  watching, refs, shownStatus, stream, current, socket, wanted, everLive, failures, status,
  timer, watchdog, phase, sent, silent, linkFaults, onlines,
  pageShown, state, stopped, paused, asking, mic, fetching, timers, timerRef, wsRef, link,
  raced, lostMic, listenerFaults, clicks, wakes,
  scene

Browser == INSTANCE PriceStream WITH
  tickers <- wanted, faults <- linkFaults, MaxFaults <- MaxLinkFaults

browser == <<watching, refs, shownStatus, stream, current, socket, wanted, everLive, failures,
             status, timer, watchdog, phase, sent, silent, linkFaults, onlines>>

Listener == INSTANCE WakeListener WITH
  shown <- pageShown, faults <- listenerFaults, MaxFaults <- MaxListenerFaults

listener == <<pageShown, state, stopped, paused, asking, mic, fetching, timers, timerRef, wsRef,
              link, raced, lostMic, listenerFaults, clicks, wakes>>

MCInit ==
  /\ Init /\ Browser!Init /\ Listener!Init
  /\ scene \in {"crowd", "busy", "browser", "listener"}

Quoting ==
  /\ scene \in {"crowd", "busy"} /\ Next
  /\ scene = "crowd" => UNCHANGED env
  /\ scene = "busy" => clients' \subseteq {c1}
  /\ UNCHANGED <<browser, listener>>

Watching == scene = "browser" /\ Browser!Next /\ UNCHANGED <<vars, listener>>

Listening ==
  /\ scene = "listener" /\ Listener!Next /\ clicks' + listenerFaults' <= 2
  /\ UNCHANGED <<vars, browser>>

MCNext == UNCHANGED scene /\ (Quoting \/ Watching \/ Listening)

MCSpec ==
  /\ MCInit /\ [][MCNext]_<<vars, browser, listener, scene>>
  /\ Fairness /\ Browser!Fairness /\ Listener!Fairness

-----------------------------------------------------------------------------
(* The properties of PriceStream and WakeListener, of these instances *)

\* While the feed is shown as live, the server knows exactly what the screens want; and with
\* screens watching, an attempt is under way or the reconnect timer runs, not both.
StreamHolds == Browser!StreamHolds

\* The stream recovers by itself, except from silence before the hello; so does the listener,
\* and no session at the speech service outlives its browser's socket.
Recovers == Browser!Recovers /\ Listener!ListenerRecovers

\* The listener does not give up, lets everything go when switched off, keeps one socket, and
\* says that it listens when someone does; with the provisions stated in its module.
ListenerHolds == Listener!ListenerHolds

\* What comments and tests of the code promise, and the code does not keep.
RecoversAlways == Browser!RecoversAlways
ClosedWhenReleased == Browser!ClosedWhenReleased
ReleasesAll == Listener!ReleasesAll
OneSocketAlways == Listener!OneSocketAlways
ListeningIsConnected == Listener!ListeningIsConnected
FatalEndsRelay == Listener!FatalEndsRelay
=============================================================================
