---------------------------- MODULE WakeListener ----------------------------
(***************************************************************************)
(* The listener for the wake phrase: the hook that keeps a connection      *)
(* (web/src/lib/useWakeWordListener.ts) with the button that switches it   *)
(* (VoiceAgentToggle.tsx), the endpoint it connects to (wake_listen,       *)
(* api/main.py) and the relay to the speech service                        *)
(* (data/sarvam_realtime_client.py), whose two tasks end together when one *)
(* of them raises, and only then.                                          *)
(*                                                                         *)
(* What the phrase leads to is in VoiceSession.  The relay of a            *)
(* conversation differs from this one in what it sends.  Chunks of audio   *)
(* are not counted: one may come whenever the browser sends them.          *)
(***************************************************************************)
EXTENDS Naturals, Sequences, FiniteSets

CONSTANTS
  Links,           \* bound: connections not yet over on both sides
  Timers,          \* bound: timers set at one time
  None,
  MaxFaults,       \* bound: of the network, the speech service and the token
  MaxClicks,       \* bound: the listener switched on
  MaxWakes         \* bound: phrases heard

VARIABLES
  \* useWakeWordListener
  shown,           \* the page is there
  state, stopped, paused,
  asking,          \* calls of start() that wait for the microphone
  mic,             \* streamRef
  fetching,        \* calls of openWs() that wait for a token
  timers, timerRef,
  wsRef,
  \* the connections, with the relay at their other end
  link,
  \* history
  raced,           \* switched off, left or connecting again while one of the calls waits
  lostMic,         \* a stream granted that streamRef does not hold
  faults, clicks, wakes

hook == <<shown, state, stopped, paused, asking, mic, fetching, timers, timerRef, wsRef>>
history == <<raced, lostMic, faults, clicks, wakes>>
vars == <<hook, link, history>>

\* browser: the socket; relay: what the endpoint is at; sarvam: its session, "deaf" after a
\* fatal error; inbox: what is on its way to the browser.
Unused == [browser |-> "none", relay |-> "none", sarvam |-> "none", inbox |-> <<>>]
Pumping == {"relaying", "half"}

Init ==
  /\ shown = TRUE /\ state = "idle" /\ stopped = TRUE /\ paused = FALSE
  /\ asking = 0 /\ mic = FALSE /\ fetching = 0
  /\ timers = [t \in Timers |-> "off"] /\ timerRef = None /\ wsRef = None
  /\ link = [c \in Links |-> Unused]
  /\ raced = FALSE /\ lostMic = FALSE /\ faults = 0 /\ clicks = 0 /\ wakes = 0

Fault == faults < MaxFaults /\ faults' = faults + 1
Shows(s) == state' = IF shown THEN s ELSE state

\* A timer set while another is referred to leaves that one running.
Set(after, delay) ==
  \E t \in Timers :
    /\ after[t] = "off" /\ \A u \in Timers : after[u] = "off" => t <= u
    /\ timers' = [after EXCEPT ![t] = delay] /\ timerRef' = t

\* The socket is closed by the browser: the endpoint may be told later.
Closed(k) == IF k.relay = "none" THEN Unused ELSE [k EXCEPT !.browser = "gone", !.inbox = <<>>]

\* teardownWs
Cleared == IF timerRef = None THEN timers ELSE [timers EXCEPT ![timerRef] = "off"]
Dropped == IF wsRef = None THEN link ELSE [link EXCEPT ![wsRef] = Closed(@)]

\* Variant: a listener switched off connects again.
OpenWsAlways(n) == n + 1

\* openWs, to its first await
OpenWs(n) == IF stopped THEN n ELSE n + 1

-----------------------------------------------------------------------------
(* useWakeWordListener *)

\* handleClick, when idle or after an error; nothing comes of it unless stopped.
Start ==
  /\ shown /\ state \in {"idle", "error"} /\ stopped
  /\ clicks < MaxClicks /\ clicks' = clicks + 1
  /\ stopped' = FALSE /\ paused' = FALSE /\ asking' = asking + 1
  /\ raced' = (raced \/ asking > 0 \/ fetching > 0)
  /\ UNCHANGED <<shown, state, mic, fetching, timers, timerRef, wsRef, link, lostMic, faults, wakes>>

Granted ==
  /\ asking > 0 /\ asking' = asking - 1
  /\ mic' = TRUE /\ lostMic' = (lostMic \/ mic)
  /\ fetching' = OpenWs(fetching) /\ raced' = (raced \/ fetching > 0)
  /\ UNCHANGED <<shown, state, stopped, paused, timers, timerRef, wsRef, link, faults, clicks, wakes>>

Denied ==
  /\ asking > 0 /\ asking' = asking - 1
  /\ stopped' = TRUE /\ Shows("error")
  /\ UNCHANGED <<shown, paused, mic, fetching, timers, timerRef, wsRef, link, history>>

\* releaseResources
Release ==
  /\ stopped' = TRUE /\ mic' = FALSE
  /\ timers' = Cleared /\ timerRef' = None
  /\ link' = Dropped /\ wsRef' = None
  /\ raced' = (raced \/ asking > 0 \/ fetching > 0)

Stop ==
  /\ shown /\ state \in {"connecting", "listening"}
  /\ Release /\ state' = "idle"
  /\ UNCHANGED <<shown, paused, asking, fetching, lostMic, faults, clicks, wakes>>

Leave ==
  /\ shown /\ shown' = FALSE
  /\ IF stopped THEN UNCHANGED <<stopped, mic, timers, timerRef, link, wsRef, raced>> ELSE Release
  /\ UNCHANGED <<state, paused, asking, fetching, lostMic, faults, clicks, wakes>>

\* The rest of openWs, whether stopped meanwhile or not
TokenCame ==
  /\ fetching > 0 /\ fetching' = fetching - 1
  /\ \E c \in Links :
       /\ link[c] = Unused /\ \A d \in Links : link[d] = Unused => c <= d
       /\ link' = [link EXCEPT ![c].browser = "opening"] /\ wsRef' = c
  /\ Set(timers, "planned")
  /\ UNCHANGED <<shown, state, stopped, paused, asking, mic, history>>

TokenFailed ==
  /\ fetching > 0 /\ fetching' = fetching - 1
  /\ Fault
  /\ IF stopped THEN UNCHANGED <<state, timers, timerRef>> ELSE Shows("error") /\ Set(timers, "soon")
  /\ UNCHANGED <<shown, stopped, paused, asking, mic, wsRef, link, raced, lostMic, clicks, wakes>>

Opened(c) ==
  /\ link[c].browser = "opening"
  /\ link' = [link EXCEPT ![c].browser = "open", ![c].relay = "accepted"]
  /\ Shows("connecting")
  /\ UNCHANGED <<shown, stopped, paused, asking, mic, fetching, timers, timerRef, wsRef, history>>

\* onclose.  A closed socket that wsRef still refers to counts for none.
Closes(c, k) ==
  /\ link' = [link EXCEPT ![c] = k]
  /\ wsRef' = (IF wsRef = c THEN None ELSE wsRef)
  /\ IF stopped THEN UNCHANGED <<state, timers, timerRef>>
     ELSE Shows("connecting") /\ Set(timers, "soon")

\* It does not open, or is cut.
Breaks(c) ==
  /\ link[c].browser \in {"opening", "open"}
  /\ Fault /\ Closes(c, Closed(link[c]))
  /\ UNCHANGED <<shown, stopped, paused, asking, mic, fetching, raced, lostMic, clicks, wakes>>

\* onmessage, onclose
Receive(c) ==
  /\ link[c].browser = "open" /\ link[c].inbox # <<>>
  /\ LET rest == [link[c] EXCEPT !.inbox = Tail(@)]
     IN  CASE Head(link[c].inbox) = "ready" ->
                /\ Shows("listening") /\ link' = [link EXCEPT ![c] = rest]
                /\ UNCHANGED <<paused, timers, timerRef, wsRef>>
           [] Head(link[c].inbox) = "wake_detected" ->
                /\ paused' = (paused \/ shown) /\ link' = [link EXCEPT ![c] = rest]
                /\ UNCHANGED <<state, timers, timerRef, wsRef>>
           [] OTHER ->
                Closes(c, Unused) /\ UNCHANGED paused
  /\ UNCHANGED <<shown, stopped, asking, mic, fetching, history>>

\* The session that was opened is over.
Resume ==
  /\ shown /\ paused /\ state = "listening" /\ paused' = FALSE
  /\ UNCHANGED <<shown, state, stopped, asking, mic, fetching, timers, timerRef, wsRef, link, history>>

\* Four minutes are over: not before the connection they were set for has come up or failed.
Settled ==
  \A c \in Links : /\ link[c].browser # "opening" /\ link[c].inbox = <<>>
                  /\ link[c].relay \notin {"accepted", "connecting"}
                  /\ ~(link[c].relay = "relaying" /\ link[c].sarvam = "open")

Fire(t) ==
  /\ timers[t] # "off"
  /\ LET others == [timers EXCEPT ![t] = "off"]
         ref == IF timerRef = t THEN None ELSE timerRef
     IN  IF timers[t] = "soon"
         THEN timers' = others /\ timerRef' = ref /\ UNCHANGED <<link, wsRef>>
         ELSE /\ Settled
              /\ timers' = (IF ref = None THEN others ELSE [others EXCEPT ![ref] = "off"])
              /\ timerRef' = None
              /\ link' = Dropped /\ wsRef' = None
  /\ fetching' = OpenWs(fetching)
  /\ raced' = (raced \/ (~stopped /\ asking + fetching > 0))
  /\ UNCHANGED <<shown, state, stopped, paused, asking, mic, lostMic, faults, clicks, wakes>>

-----------------------------------------------------------------------------
(* wake_listen and relay_for_wake_word *)

\* The endpoint has closed the socket.
Ended(k) ==
  IF k.browser = "gone" THEN Unused
  ELSE [k EXCEPT !.relay = "none", !.sarvam = "none", !.inbox = Append(@, "close")]

Answers(c, k) == link' = [link EXCEPT ![c] = k] /\ UNCHANGED hook

Authenticated(c) ==
  /\ link[c].relay = "accepted"
  /\ Answers(c, [link[c] EXCEPT !.relay = "connecting"])
  /\ UNCHANGED history

\* The browser has gone before its first message, the token is too old, or the speech service
\* refuses.
Refused(c) ==
  /\ link[c].relay \in {"accepted", "connecting"}
  /\ IF link[c].relay = "accepted" /\ link[c].browser = "gone" THEN UNCHANGED faults ELSE Fault
  /\ Answers(c, Ended(link[c]))
  /\ UNCHANGED <<raced, lostMic, clicks, wakes>>

Connected(c) ==
  /\ link[c].relay = "connecting"
  /\ Answers(c, [link[c] EXCEPT !.relay = "relaying", !.sarvam = "open"])
  /\ UNCHANGED history

\* session.begin, to a browser that may be gone, which ends both tasks
Begins(c) ==
  /\ link[c].relay = "relaying" /\ link[c].sarvam = "open"
  /\ Answers(c, IF link[c].browser = "gone" THEN Ended(link[c])
                ELSE [link[c] EXCEPT !.sarvam = "begun", !.inbox = Append(@, "ready")])
  /\ UNCHANGED history

Sends(c) == mic /\ ~paused /\ wsRef = c /\ link[c].browser = "open"

\* The phrase is heard, in part and once more in full.
Heard(c) ==
  /\ link[c].relay = "relaying" /\ link[c].sarvam = "begun" /\ Sends(c)
  /\ wakes < MaxWakes /\ wakes' = wakes + 1
  /\ \E twice \in BOOLEAN :
       Answers(c, [link[c] EXCEPT !.inbox = @ \o IF twice THEN <<"wake_detected", "wake_detected">>
                                               ELSE <<"wake_detected">>])
  /\ UNCHANGED <<raced, lostMic, faults, clicks>>

\* The session ends: with an exception, which ends both tasks; or in an orderly way or with a
\* fatal error, and the task that sends the audio goes on.
SessionEnds(c) ==
  /\ link[c].relay = "relaying" /\ Fault
  /\ \/ Answers(c, Ended(link[c]))
     \/ \E how \in {"dead", "deaf"} :
          Answers(c, [link[c] EXCEPT !.relay = "half", !.sarvam = how])
  /\ UNCHANGED <<raced, lostMic, clicks, wakes>>

\* A chunk for a connection that is closed: both tasks end, also of a session in which nothing
\* has been said yet.
ChunkFails(c) ==
  /\ link[c].relay = "half" /\ link[c].sarvam = "dead" /\ Sends(c)
  /\ Answers(c, Ended(link[c]))
  /\ UNCHANGED history

\* Variant: the relay goes on without its browser.
LeftOnly(k) == k.browser = "gone" /\ k.sarvam # "begun"

Left(k) == k.browser = "gone"

Disconnects(c) ==
  /\ link[c].relay \in Pumping /\ Left(link[c])
  /\ Answers(c, Unused)
  /\ UNCHANGED history

Step(c) ==
  \/ Opened(c) \/ Receive(c)
  \/ Authenticated(c) \/ Connected(c) \/ Begins(c) \/ ChunkFails(c) \/ Disconnects(c)

Next ==
  \/ Start \/ Granted \/ Denied \/ Stop \/ Leave \/ TokenCame \/ TokenFailed \/ Resume
  \/ \E t \in Timers : Fire(t)
  \/ \E c \in Links : Step(c) \/ Breaks(c) \/ Refused(c) \/ Heard(c) \/ SessionEnds(c)

Spec == Init /\ [][Next]_vars

\* Requests are answered, timers fire, and the network and the relay go on.
Fairness ==
  /\ WF_vars(Granted \/ Denied) /\ WF_vars(TokenCame \/ TokenFailed)
  /\ \A t \in Timers : WF_vars(Fire(t))
  /\ \A c \in Links : WF_vars(Step(c))

-----------------------------------------------------------------------------
(* Properties *)

\* Switched on, the listener has something under way that connects it, or will connect it
\* again: whatever failed, it has not given up.
NotGivenUp == ~stopped => asking > 0 \/ fetching > 0 \/ \E t \in Timers : timers[t] # "off"

\* Once switched off or left, nothing is held: no microphone, no socket, and none to come.
NothingHeld == stopped => ~mic /\ ~lostMic /\ fetching = 0 /\ \A c \in Links : link[c].browser \notin {"opening", "open"}

\* No socket but the one it refers to is open.
OneSocket == \A c \in Links : link[c].browser \in {"opening", "open"} => c = wsRef

\* While it is said to listen, the one who speaks is heard: by a session, or the news of its
\* end is under way, or the next chunk will find it; or it is just connecting again.
HeardWhileListening ==
  state = "listening" /\ ~stopped =>
    \/ wsRef = None /\ fetching > 0
    \/ /\ wsRef # None
       /\ \/ link[wsRef].browser = "opening" \/ link[wsRef].relay = "relaying"
          \/ link[wsRef].relay = "half" /\ link[wsRef].sarvam = "dead"
          \/ link[wsRef].inbox # <<>>

\* Provided that it was not switched off, left or connected again while one of its calls was
\* waiting, and that the speech service has not stopped listening in an open connection.
ListenerHolds ==
  /\ shown => NotGivenUp
  /\ ~raced => NothingHeld /\ OneSocket
  /\ ~raced /\ shown /\ (\A c \in Links : link[c].sarvam # "deaf") => HeardWhileListening

\* A listener switched on comes to listen, whatever failed, and is connected again when its
\* connection ends; and a session at the speech service does not outlive its browser's socket.
ListenerRecovers ==
  /\ []<>(state = "listening" \/ stopped)
  /\ \A c \in Links : link[c].browser = "gone" ~> link[c].sarvam = "none"

-----------------------------------------------------------------------------
(* What the code does not have: refuted by hand in connections.cfg.   *)

\* "releases the mic, AudioContext, and WebSocket on unmount while running"
\* (useWakeWordListener.test.ts): not what start() and openWs() are waiting for.
ReleasesAll == ~shown => ~mic /\ fetching = 0 /\ \A c \in Links : link[c].browser \notin {"opening", "open"}

\* A timer that a closed connection left behind connects while the next one is being made.
OneSocketAlways == OneSocket

\* "was silently stale at 'listening' through a drop/reconnect before": it still is, through
\* the reconnection that is planned.
ListeningIsConnected == ~raced /\ shown /\ state = "listening" /\ ~stopped => wsRef # None

\* relay_for_wake_word "Returns when browser_ws disconnects or the Sarvam connection ends
\* fatally": in the latter case the other task goes on.
FatalEndsRelay == \A c \in Links : link[c].relay # "half"
=============================================================================
