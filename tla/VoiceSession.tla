---------------------------- MODULE VoiceSession ----------------------------
(***************************************************************************)
(* The hands-free voice session of the home page: the assistant            *)
(* (web/src/lib/useConversationalAssistant.ts), the microphone turns it    *)
(* drives (useRealtimeVoiceInput.ts), and the wake-word listener that      *)
(* opens a session (web/src/app/page.tsx).  JavaScript runs one callback   *)
(* at a time; a step is one callback, or what an async function does from  *)
(* one await to the next.                                                  *)
(*                                                                         *)
(* A turn is one call of start().  Its start may be overtaken: the turn    *)
(* is ended while it waits for the microphone or the token, and start()    *)
(* goes on regardless.  A callback sees the variables of the render it     *)
(* was made in: stale says that `sending` was true in that render.         *)
(* Left out: the text of messages, the greeting, and the tap-to-talk       *)
(* button, which fills the text box.  The listener's own sockets and       *)
(* retries are in WakeListener.                                            *)
(***************************************************************************)
EXTENDS Naturals, FiniteSets

CONSTANTS
  Turns,      \* bound: calls of start() not yet over at one time
  Replies,    \* bound: calls of sendMessage not yet over at one time
  None,
  MaxRetries, \* MAX_MIC_ERROR_RETRIES
  MaxFaults,  \* bound: turns that fail
  MaxClicks   \* bound: sessions started, messages typed

ASSUME NoneAssumption == None \notin Turns \cup Replies
ASSUME BoundsAssumption == {MaxRetries, MaxFaults, MaxClicks} \subseteq Nat

VARIABLES
  \* useConversationalAssistant
  mounted,    \* the page that owns the hooks is shown
  session,    \* sessionActiveRef
  streak,     \* micErrorStreakRef
  retries,    \* timers that will start a turn, by what they see of sending
  sending,
  reply,      \* of each call of sendMessage, what it waits for
  \* the spoken reply
  pipeline,   \* of each reply, what its sentences wait for
  speaker,    \* the reply whose speakSession is the current one
  audio,      \* the reply that set audioRef
  audible,    \* replies whose audio is playing
  \* useRealtimeVoiceInput
  turn,       \* the turn under way; none when turnEndedRef is true
  stream, link,  \* the turns that set streamRef, and wsRef with the other refs
  turns,
  \* page.tsx and useWakeWordListener
  listener, paused, listenerStale,
  rendered,   \* prevSessionActiveRef
  \* history
  overtaken,  \* a start() was overtaken
  unanswered, \* the last turn ended without a message being sent
  missed,     \* a session ended while the listener was not connected
  faults, clicks

assistant == <<mounted, session, streak, retries, sending, reply>>
speech == <<speaker, audio, audible>>
mic == <<turn, stream, link, turns>>
page == <<listener, paused, listenerStale, rendered>>
history == <<overtaken, unanswered, missed>>
vars == <<assistant, pipeline, speech, mic, page, history, faults, clicks>>

\* No start(); waiting for the microphone, for the token, for the server; recording;
\* start() and socket are over.
Phases == {"free", "asking", "token", "linked", "recording", "over"}
Starting == {"asking", "token"}
Connected == {"linked", "recording"}
NoTurn == [phase |-> "free", mic |-> FALSE, timer |-> FALSE, stale |-> FALSE]

TypeOK ==
  /\ mounted \in BOOLEAN /\ session \in BOOLEAN /\ sending \in BOOLEAN
  /\ streak \in 0..(IF session THEN MaxRetries ELSE MaxRetries + 1)
  /\ retries \in [BOOLEAN -> Nat]
  /\ reply \in [Replies -> {"none", "asking", "speaking", "closing"}]
  /\ pipeline \in [Replies -> {"none", "fetching", "playing"}]
  /\ speaker \in Replies \cup {None} /\ audio \in Replies \cup {None}
  /\ audible \subseteq Replies
  /\ turn \in Turns \cup {None} /\ stream \in Turns \cup {None} /\ link \in Turns \cup {None}
  /\ turns \in [Turns -> [phase : Phases, mic : BOOLEAN, timer : BOOLEAN, stale : BOOLEAN]]
  /\ listener \in {"idle", "connecting", "listening"}
  /\ paused \in BOOLEAN /\ listenerStale \in BOOLEAN /\ rendered \in BOOLEAN
  /\ overtaken \in BOOLEAN /\ unanswered \in BOOLEAN /\ missed \in BOOLEAN
  /\ faults \in 0..MaxFaults /\ clicks \in 0..MaxClicks

Init ==
  /\ mounted = TRUE /\ session = FALSE /\ streak = 0 /\ sending = FALSE
  /\ retries = [s \in BOOLEAN |-> 0]
  /\ reply = [r \in Replies |-> "none"] /\ pipeline = [r \in Replies |-> "none"]
  /\ speaker = None /\ audio = None /\ audible = {}
  /\ turn = None /\ stream = None /\ link = None
  /\ turns = [t \in Turns |-> NoTurn]
  /\ listener = "idle" /\ paused = FALSE /\ listenerStale = FALSE /\ rendered = FALSE
  /\ overtaken = FALSE /\ unanswered = FALSE /\ missed = FALSE
  /\ faults = 0 /\ clicks = 0

\* The page shows whether there is a session.  React renders a change, and runs the
\* effects of the render, before the next callback.
Shown == mounted => rendered = session

Click == clicks < MaxClicks /\ clicks' = clicks + 1
Fault == faults < MaxFaults /\ faults' = faults + 1

-----------------------------------------------------------------------------
(* What the hooks do inside a callback.  A definition called a variant is       *)
(* deliberately wrong: it belongs to no behaviour and shows which property such *)
(* a bug breaks.                                                                *)

\* stopSpeaking: the current session of speech is over and its audio paused.
StopSpeaking == speaker' = None /\ audio' = None /\ audible' = audible \ {audio}

\* What remains of a turn.
Remains(r) == IF r.phase = "over" /\ ~r.mic /\ ~r.timer THEN NoTurn ELSE r

\* Variant: the tracks of the stream are not stopped.
TeardownKeepingMic(ts) ==
  [t \in Turns |-> Remains([ts[t] EXCEPT
     !.timer = @ /\ t # link,
     !.phase = IF t = link /\ @ \in Connected THEN "over" ELSE @])]

\* teardownAudio: the stream, the timer and the socket that the refs hold; the socket
\* no longer reports that it closes.
Teardown(ts) ==
  [t \in Turns |-> Remains([ts[t] EXCEPT
     !.mic = @ /\ t # stream,
     !.timer = @ /\ t # link,
     !.phase = IF t = link /\ @ \in Connected THEN "over" ELSE @])]

\* endTurn, when the turns have become ts: only the first end of a turn has an effect.
EndTurn(ts) ==
  IF turn = None
  THEN turns' = [t \in Turns |-> Remains(ts[t])] /\ UNCHANGED <<turn, stream, link, overtaken>>
  ELSE /\ turns' = Teardown(ts)
       /\ turn' = None /\ stream' = None /\ link' = None
       /\ overtaken' = (overtaken \/ \E t \in Turns : ts[t].phase \in Starting)

\* start(): nothing while a turn is under way.
StartTurn(stale) ==
  IF turn # None THEN UNCHANGED <<turn, turns, unanswered>>
  ELSE /\ \E t \in Turns : /\ turns[t] = NoTurn
                           /\ turn' = t
                           /\ turns' = [turns EXCEPT ![t] = [@ EXCEPT !.phase = "asking",
                                                                      !.stale = stale]]
       /\ unanswered' = FALSE

\* handleMicStateChange("error"): a turn is started again after a while, and the session
\* ended after too many errors in a row.
MicError(stale) ==
  IF turn = None \/ ~session THEN UNCHANGED <<session, streak, retries, speech>>
  ELSE /\ streak' = streak + 1
       /\ IF streak < MaxRetries
          THEN retries' = [retries EXCEPT ![stale] = @ + 1] /\ UNCHANGED <<session, speech>>
          ELSE session' = FALSE /\ StopSpeaking /\ UNCHANGED retries

\* A turn ends in an error that the callbacks of t report.
FailTurn(t, ts) ==
  /\ Fault
  /\ EndTurn(ts) /\ MicError(turns[t].stale)
  /\ UNCHANGED <<mounted, sending, reply, pipeline, page, unanswered, missed, clicks>>

\* sendMessage up to its request.
SendMessage ==
  /\ \E r \in Replies : /\ reply[r] = "none" /\ pipeline[r] = "none"
                        /\ reply' = [reply EXCEPT ![r] = "asking"]
  /\ sending' = TRUE

-----------------------------------------------------------------------------
(* Turns of the microphone *)

MicGranted(t) ==
  /\ turns[t].phase = "asking"
  /\ turns' = [turns EXCEPT ![t] = [@ EXCEPT !.phase = "token", !.mic = TRUE]]
  /\ stream' = t
  /\ UNCHANGED <<assistant, pipeline, speech, turn, link, page, history, faults, clicks>>

\* No permission, no answer to the prompt, or no token.
StartFails(t) ==
  /\ turns[t].phase \in Starting
  /\ FailTurn(t, [turns EXCEPT ![t].phase = "over"])

\* The token is there: the audio graph, the socket and the timer are made at once.
OpenLink(t) ==
  /\ turns[t].phase = "token"
  /\ turns' = [turns EXCEPT ![t] = [@ EXCEPT !.phase = "linked", !.timer = TRUE]]
  /\ link' = t
  /\ UNCHANGED <<assistant, pipeline, speech, turn, stream, page, history, faults, clicks>>

\* "ready": the server captures, and whatever is being said is cut off.
Ready(t) ==
  /\ turns[t].phase = "linked"
  /\ turns' = [turns EXCEPT ![t].phase = "recording"]
  /\ StopSpeaking
  /\ UNCHANGED <<assistant, pipeline, turn, stream, link, page, history, faults, clicks>>

\* "transcript.final": a text is sent, unless the callbacks of the turn believe that
\* another message is being sent; silence is not.
Transcript(t) ==
  /\ turns[t].phase = "recording" /\ turn # None
  /\ EndTurn(turns)
  /\ \/ unanswered' = TRUE /\ UNCHANGED <<streak, reply, sending>>
     \/ /\ streak' = 0
        /\ IF turns[t].stale THEN unanswered' = TRUE /\ UNCHANGED <<reply, sending>>
                             ELSE SendMessage /\ UNCHANGED unanswered
  /\ UNCHANGED <<mounted, session, retries, pipeline, speech, page, missed, faults, clicks>>

LinkCloses(t) ==
  /\ turns[t].phase \in Connected
  /\ FailTurn(t, [turns EXCEPT ![t].phase = "over"])

\* MAX_TURN_MS without a final transcript.
TurnTimesOut(t) ==
  /\ turns[t].timer
  /\ FailTurn(t, [turns EXCEPT ![t].timer = FALSE])

RetryFires(stale) ==
  /\ retries[stale] > 0
  /\ retries' = [retries EXCEPT ![stale] = @ - 1]
  /\ IF session THEN StartTurn(stale) ELSE UNCHANGED <<turn, turns, unanswered>>
  /\ UNCHANGED <<mounted, session, streak, sending, reply, pipeline, speech, stream, link, page,
                 overtaken, missed, faults, clicks>>

-----------------------------------------------------------------------------
(* Messages and spoken replies *)

\* The end of sendMessage, whatever the request came to: the session is over if the
\* reply says so, else the next turn starts.
AfterReply(r, ending) ==
  /\ reply' = [reply EXCEPT ![r] = "none"] /\ sending' = FALSE
  /\ IF ending
     THEN session' = FALSE /\ EndTurn(turns) /\ UNCHANGED unanswered
     ELSE /\ IF session THEN StartTurn(FALSE) ELSE UNCHANGED <<turn, turns, unanswered>>
          /\ UNCHANGED <<session, stream, link, overtaken>>

\* The reply is spoken in a session, or when voice mode is on; the request may fail.
Answered(r) ==
  /\ reply[r] = "asking"
  /\ \/ /\ \E ending \in BOOLEAN : AfterReply(r, ending) /\ (session => ~ending)
        /\ UNCHANGED <<pipeline, speech>>
     \/ /\ \E ending \in BOOLEAN :
             reply' = [reply EXCEPT ![r] = IF ending THEN "closing" ELSE "speaking"]
        /\ speaker' = r /\ audio' = None /\ audible' = audible \ {audio}
        /\ pipeline' = [pipeline EXCEPT ![r] = "fetching"]
        /\ UNCHANGED <<session, sending, mic, overtaken, unanswered>>
  /\ UNCHANGED <<mounted, streak, retries, page, missed, faults, clicks>>

\* synthesizeAndSpeak returns when its session of speech is over.
SpeechOver(r) ==
  /\ reply[r] \in {"speaking", "closing"} /\ speaker # r
  /\ AfterReply(r, reply[r] = "closing")
  /\ UNCHANGED <<mounted, streak, retries, pipeline, speech, page, missed, faults, clicks>>

\* The next sentence is waited for, or the last one is over.
NextSentence(r) ==
  \/ pipeline' = [pipeline EXCEPT ![r] = "fetching"] /\ UNCHANGED speaker
  \/ pipeline' = [pipeline EXCEPT ![r] = "none"] /\ speaker' = None

\* Variant: what was fetched is played without another look at the session of speech.
SentenceReadyUnchecked(r) ==
  /\ pipeline[r] = "fetching"
  /\ \/ /\ audible' = audible \cup {r} /\ audio' = r
        /\ pipeline' = [pipeline EXCEPT ![r] = "playing"] /\ UNCHANGED speaker
     \/ NextSentence(r) /\ UNCHANGED <<audio, audible>>
  /\ UNCHANGED <<assistant, mic, page, history, faults, clicks>>

\* runSentencePipeline after its first await: the audio is there, or has failed, or was
\* given up.
SentenceReady(r) ==
  /\ pipeline[r] = "fetching"
  /\ IF speaker # r
     THEN pipeline' = [pipeline EXCEPT ![r] = "none"] /\ UNCHANGED speech
     ELSE \/ /\ audible' = audible \cup {r} /\ audio' = r
             /\ pipeline' = [pipeline EXCEPT ![r] = "playing"] /\ UNCHANGED speaker
          \/ NextSentence(r) /\ UNCHANGED <<audio, audible>>
  /\ UNCHANGED <<assistant, mic, page, history, faults, clicks>>

\* The audio of a sentence has ended or was paused.
SentenceEnds(r) ==
  /\ pipeline[r] = "playing"
  /\ IF speaker # r
     THEN pipeline' = [pipeline EXCEPT ![r] = "none"] /\ UNCHANGED <<speaker, audio>>
     ELSE NextSentence(r) /\ audio' = None
  /\ audible' = audible \ {r}
  /\ UNCHANGED <<assistant, mic, page, history, faults, clicks>>

-----------------------------------------------------------------------------
(* The user and the page *)

Type ==
  /\ mounted /\ ~session /\ ~sending /\ Click
  /\ SendMessage
  /\ UNCHANGED <<mounted, session, streak, retries, pipeline, speech, mic, page, history, faults>>

\* startSession, from a render in which sending was stale.
OpenSession(stale) ==
  /\ session' = TRUE /\ streak' = 0
  /\ StartTurn(stale)
  /\ UNCHANGED <<mounted, retries, sending, reply, pipeline, speech, stream, link,
                 overtaken, missed, faults>>

TapStart ==
  /\ mounted /\ ~session /\ Click
  /\ OpenSession(sending)
  /\ UNCHANGED page

TapEnd ==
  /\ mounted /\ session
  /\ session' = FALSE
  /\ EndTurn(turns) /\ StopSpeaking
  /\ UNCHANGED <<mounted, streak, retries, sending, reply, pipeline, page, unanswered, missed,
                 faults, clicks>>

\* Spoken replies are switched off, or the tap-to-talk button starts to record.
Interrupt ==
  /\ mounted /\ speaker # None
  /\ StopSpeaking
  /\ UNCHANGED <<assistant, pipeline, mic, page, history, faults, clicks>>

\* The user, or a reply, goes to another page; what runs keeps its references.
Leave ==
  /\ mounted /\ mounted' = FALSE
  /\ EndTurn(turns) /\ StopSpeaking
  /\ listener' = "idle"
  /\ UNCHANGED <<session, streak, retries, sending, reply, pipeline, paused, listenerStale, rendered,
                 unanswered, missed, faults, clicks>>

EnableListener ==
  /\ mounted /\ listener = "idle"
  /\ listener' = "connecting" /\ paused' = FALSE /\ listenerStale' = sending
  /\ missed' = FALSE
  /\ UNCHANGED <<assistant, pipeline, speech, mic, rendered, overtaken, unanswered, faults, clicks>>

\* The listener's connection comes up, drops, or is switched off.
ListenerMoves ==
  /\ listener # "idle"
  /\ listener' \in {"idle", "connecting", "listening"} \ {listener}
  /\ UNCHANGED <<assistant, pipeline, speech, mic, paused, listenerStale, rendered, history, faults,
                 clicks>>

\* The listener is paused and a session opened; the phrase may be reported twice.
WakeDetected ==
  /\ mounted /\ listener = "listening" /\ (paused => session) /\ Click
  /\ paused' = TRUE
  /\ OpenSession(listenerStale)
  /\ UNCHANGED <<listener, listenerStale, rendered>>

\* The effect on sessionActive: after a session the listener listens again, if it is
\* connected just then.
Rendered ==
  /\ ~Shown
  /\ rendered' = session
  /\ LET ended == rendered /\ ~session
     IN  /\ paused' = (paused /\ ~(ended /\ listener = "listening"))
         /\ missed' = (missed \/ (ended /\ listener # "listening"))
  /\ UNCHANGED <<assistant, pipeline, speech, mic, listener, listenerStale, overtaken, unanswered,
                 faults, clicks>>

Next ==
  \/ Rendered
  \/ /\ Shown
     /\ \/ \E t \in Turns :
             \/ MicGranted(t) \/ StartFails(t) \/ OpenLink(t) \/ Ready(t)
             \/ Transcript(t) \/ LinkCloses(t) \/ TurnTimesOut(t)
        \/ \E s \in BOOLEAN : RetryFires(s)
        \/ \E r \in Replies : Answered(r) \/ SpeechOver(r) \/ SentenceReady(r) \/ SentenceEnds(r)
        \/ Type \/ TapStart \/ TapEnd \/ Interrupt \/ Leave
        \/ EnableListener \/ ListenerMoves \/ WakeDetected

Spec == Init /\ [][Next]_vars

-----------------------------------------------------------------------------
(* Safety *)

\* One reply is heard at a time, and none once speech was stopped, however replies,
\* interruptions and late audio interleave.
OneVoice == audible \subseteq {speaker}

\* Of a turn that has ended nothing remains, no open microphone, socket or timer whose
\* event would end the next turn, unless an end overtook a start() that was waiting.
EndedTurnsLeaveNothing == ~overtaken => \A t \in Turns \ {turn} : turns[t] = NoTurn

\* A session is never stranded: the microphone has a turn, or a reply or a retry that
\* will start one is on its way, unless what ended the last turn was not sent.
SessionGoesOn ==
  mounted /\ session /\ turn = None =>
    \/ unanswered
    \/ \E r \in Replies : reply[r] # "none"
    \/ \E s \in BOOLEAN : retries[s] > 0

\* After a session the connected listener hears the wake phrase again, unless it was
\* not connected when a session ended.
ListenerWakesUp ==
  mounted /\ listener = "listening" /\ ~session /\ ~rendered => ~paused \/ missed

\* The session speaks with one voice, goes on or says that it does not, and leaves a
\* listener that wakes up again.
VoiceHolds == OneVoice /\ SessionGoesOn /\ ListenerWakesUp

(* Promised by comments of the code, and not kept *)

\* Whatever ends a turn, its microphone is not left open.
NoMicrophoneLeft == \A t \in Turns \ {turn} : ~turns[t].mic

\* No microphone stays open, or is opened, once the page has been left.
NoMicrophoneAfterLeave == ~mounted => \A t \in Turns : ~turns[t].mic

\* No session is stranded, whatever its last turn came to.
SessionNeverStranded ==
  mounted /\ session /\ turn = None =>
    (\E r \in Replies : reply[r] # "none") \/ (\E s \in BOOLEAN : retries[s] > 0)

\* The listener hears the wake phrase after a session, reconnected or not.
ListenerAlwaysWakesUp ==
  mounted /\ listener = "listening" /\ ~session /\ ~rendered => ~paused

\* The microphone never records while a reply is heard.
NotHeardByItself == audible # {} => \A t \in Turns : turns[t].phase # "recording"
=============================================================================
